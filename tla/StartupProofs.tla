--------------------------- MODULE StartupProofs ----------------------------
(***************************************************************************)
(* Proofs about Startup for every number of workers, layers and crashes.   *)
(*                                                                         *)
(* StartupInv is the inductive invariant of the conversation: the worker's *)
(* end of the root's connection is in one place (EndsOf), a worker between *)
(* sessions has nothing of the last one (Fresh), the root has no end it    *)
(* has not made (NotYet), and for every worker whose connection is alive   *)
(* the root's program counter says what the worker has read and what is    *)
(* still on its way to it (Talk).  RootRunsLast is its last case.          *)
(*                                                                         *)
(* WeightsInv adds what is stored: a node's weights, with those on their   *)
(* way, are those of the load calls made so far (Kept).  That all load     *)
(* calls together are what the node needs is arithmetic on the layout      *)
(* (KeptIsNeeded): the loader's stage of a node is the graph's if there is *)
(* no sequence parallelism.                                                *)
(***************************************************************************)
EXTENDS Startup, SequenceTheorems, TLAPS

-----------------------------------------------------------------------------
(* Types.                                                                  *)

RootPcs == {"connect", "ack", "ready", "done", "netAck", "node", "nodeAck",
            "load", "endAck", "running", "failed"}
Pcs == {"starting", "listen", "config", "ready", "peers", "served", "node", "weights", "running"}
Ends == Nodes \cup {NoNode, GONE}

OpNames == {"embedding", "block_matmul_q", "block_matmul_w1", "block_norm_0", "block_norm_1",
            "final_norm", "final_matmul_logits"}
Messages == [kind : {"ready", "net", "node", "end"}]
            \cup [kind : {"weight"}, op : OpNames, layer : Nat, slice : Int]

StartupType ==
    /\ rootPc \in RootPcs /\ rootAt \in Workers
    /\ rootSockets \in [Workers -> Workers \cup {NoNode, GONE}]
    /\ acks \in SUBSET Workers /\ fromRoot \in [Workers -> Seq(Messages)]
    /\ pc \in [Workers -> Pcs] /\ peer \in [Workers -> 0..nOtherWorkers]
    /\ connecting \in SUBSET (Nodes \X Workers)
    /\ backlog \in [Workers -> Seq(Nodes \cup {GONE})]
    /\ sockets \in [Workers -> [SocketIndexes -> Ends]]
    /\ crashes \in 0..maxCrashes
    /\ loadAt \in 1..(nLoads + 1) /\ layout \in Layouts \cup {NoLayout}

-----------------------------------------------------------------------------
(* The root's connections.                                                 *)

Live(w) == rootSockets[w] = w

\* The root has read the ACK of w's handshake.
Heard(w) ==
    \/ rootPc \in {"connect", "ack"} /\ w < rootAt
    \/ rootPc \notin {"connect", "ack", "failed"}

InBacklog(w, n) == \E i \in 1..Len(backlog[w]) : backlog[w][i] = n

\* The worker's end of a root's connection is in one place: on its way, in the
\* backlog, or filed by the worker; and then the root has the other end.
EndsOf(w) ==
    /\ <<ROOT, w>> \in connecting => Live(w)
    /\ InBacklog(w, ROOT) => Live(w) /\ <<ROOT, w>> \notin connecting
    /\ \A i, j \in 1..Len(backlog[w]) : backlog[w][i] = ROOT /\ backlog[w][j] = ROOT => i = j
    /\ \A k \in SocketIndexes : sockets[w][k] = ROOT =>
         Live(w) /\ <<ROOT, w>> \notin connecting /\ ~InBacklog(w, ROOT)

\* A worker that waits for a root has nothing of an earlier one.
Fresh(w) ==
    pc[w] \in {"starting", "listen"} =>
      fromRoot[w] = <<>> /\ \A k \in SocketIndexes : sockets[w][k] = NoNode

\* The root has no end of a connection it has not made.
NotYet(w) ==
    /\ \/ rootPc = "failed"
       \/ rootPc = "connect" /\ w >= rootAt
       \/ rootPc = "ack" /\ w > rootAt
       => rootSockets[w] = NoNode
    /\ w \in acks => rootSockets[w] # NoNode

RootEnds == \A w \in Workers : EndsOf(w) /\ Fresh(w) /\ NotYet(w)

-----------------------------------------------------------------------------
(* What the root has said to a worker and what the worker has heard of it. *)

Stage(w) ==
    CASE rootPc \in {"connect", "ack"} -> "acked"
      [] rootPc = "ready" -> IF w < rootAt THEN "ready" ELSE "acked"
      [] rootPc \in {"done", "netAck", "node", "nodeAck"} ->
           IF w < rootAt THEN "loading"
           ELSE IF w > rootAt \/ rootPc = "done" THEN "ready" ELSE rootPc
      [] rootPc \in {"load", "endAck"} ->
           IF w < rootAt THEN "ended"
           ELSE IF w > rootAt \/ rootPc = "load" THEN "loading" ELSE "endAck"
      [] OTHER -> "ended"

None(w) == fromRoot[w] = <<>>
One(w, kind) == Len(fromRoot[w]) = 1 /\ fromRoot[w][1].kind = kind
Two(w, kind, then) == Len(fromRoot[w]) = 2 /\ fromRoot[w][1].kind = kind /\ fromRoot[w][2].kind = then
OnlyWeights(w) == \A i \in 1..Len(fromRoot[w]) : fromRoot[w][i].kind = "weight"
WeightsThenEnd(w) ==
    /\ Len(fromRoot[w]) > 0 /\ fromRoot[w][Len(fromRoot[w])].kind = "end"
    /\ \A i \in 1..(Len(fromRoot[w]) - 1) : fromRoot[w][i].kind = "weight"

Said(w, stage) ==
    /\ stage = "acked" => w \notin acks /\ pc[w] = "ready" /\ None(w)
    /\ stage = "ready" => /\ w \notin acks
                          /\ \/ pc[w] = "ready" /\ One(w, "ready")
                             \/ pc[w] \in {"peers", "served"} /\ None(w)
    /\ stage = "netAck" => \/ w \notin acks /\ pc[w] = "ready" /\ Two(w, "ready", "net")
                           \/ w \notin acks /\ pc[w] \in {"peers", "served"} /\ One(w, "net")
                           \/ w \in acks /\ pc[w] = "node" /\ None(w)
    /\ stage = "node" => w \notin acks /\ pc[w] = "node" /\ None(w)
    /\ stage = "nodeAck" => \/ w \notin acks /\ pc[w] = "node" /\ One(w, "node")
                            \/ w \in acks /\ pc[w] = "weights" /\ None(w)
    /\ stage = "loading" => w \notin acks /\ pc[w] = "weights" /\ OnlyWeights(w)
    /\ stage = "endAck" => \/ w \notin acks /\ pc[w] = "weights" /\ WeightsThenEnd(w)
                           \/ w \in acks /\ pc[w] = "running" /\ None(w)
    /\ stage = "ended" => w \notin acks /\ pc[w] = "running" /\ None(w)

\* Before its ACK is read, a worker that has accepted the root is at the ACK.
Hello(w) ==
    IF w \in acks THEN sockets[w][0] = ROOT /\ pc[w] = "ready" /\ None(w)
                  ELSE sockets[w][0] = ROOT => pc[w] = "config" /\ None(w)

Talk(w) ==
    Live(w) => IF Heard(w) THEN sockets[w][0] = ROOT /\ Said(w, Stage(w)) ELSE Hello(w)

\* The load calls come before the first end, and after everybody's configuration.
LoadOrder ==
    /\ rootPc \notin {"load", "endAck", "running", "failed"} => loadAt = 1
    /\ (rootPc = "load" /\ rootAt > 1) \/ rootPc \in {"endAck", "running"} => loadAt = nLoads + 1

StartupInv == StartupType /\ RootEnds /\ LoadOrder /\ \A w \in Workers : Talk(w)

-----------------------------------------------------------------------------
(* Constants, messages and sequences.                                      *)

\* Workers, nodes and socket indexes.
LEMMA StartupConstants ==
    /\ nWorkers \in Nat /\ nWorkers >= 1 /\ maxCrashes \in Nat /\ nLayers \in Nat /\ nLayers >= 1
    /\ nLoads \in Nat /\ nLoads >= 1 /\ nOtherWorkers \in Nat /\ 0 \in SocketIndexes
    /\ \A w \in Workers : w \in Nat /\ w # ROOT /\ w \in Nodes /\ w \in 1..nWorkers
    /\ ROOT = 0 /\ ROOT \in Nodes /\ NoNode = -1 /\ GONE = -2
BY HandshakeAssumption, StartupAssumption
   DEF nLoads, nOtherWorkers, SocketIndexes, Workers, Nodes, ROOT, NoNode, GONE

\* A function on 1..n is a sequence of length n.
LEMMA FunctionIsSeq ==
    ASSUME NEW n \in Nat, NEW S, NEW f \in [1..n -> S]
    PROVE  f \in Seq(S) /\ Len(f) = n
<1>1. f = [i \in 1..n |-> f[i]] /\ \A i \in 1..n : f[i] \in S
  OBVIOUS
<1>2. [i \in 1..n |-> f[i]] \in Seq(S) /\ Len([i \in 1..n |-> f[i]]) = n
  BY <1>1
<1> QED
  BY <1>1, <1>2, Zenon

\* The connections of a backlog after one node has closed its ends.
Closed(s, n) == [i \in DOMAIN s |-> IF s[i] = n THEN GONE ELSE s[i]]

\* They are as many, in the same places.
LEMMA ClosedOf ==
    ASSUME NEW s \in Seq(Nodes \cup {GONE}), NEW n
    PROVE  /\ Closed(s, n) \in Seq(Nodes \cup {GONE}) /\ Len(Closed(s, n)) = Len(s)
           /\ \A i \in 1..Len(s) : Closed(s, n)[i] = IF s[i] = n THEN GONE ELSE s[i]
<1>0. Len(s) \in Nat /\ DOMAIN s = 1..Len(s) /\ \A i \in 1..Len(s) : s[i] \in Nodes \cup {GONE}
  BY LenProperties, ElementOfSeq
<1>1. PICK f : f = Closed(s, n)
  OBVIOUS
<1>2. \A i \in 1..Len(s) : f[i] = IF s[i] = n THEN GONE ELSE s[i]
  BY <1>0, <1>1 DEF Closed
<1>3. f \in [1..Len(s) -> Nodes \cup {GONE}]
  BY <1>0, <1>1 DEF Closed
<1>4. f \in Seq(Nodes \cup {GONE}) /\ Len(f) = Len(s)
  BY <1>0, <1>3, FunctionIsSeq
<1> QED
  BY <1>1, <1>2, <1>4, Zenon

\* An exact division leaves something.
LEMMA ExactDivision ==
    ASSUME NEW N \in Nat \ {0}, NEW d \in Nat \ {0}, N % d = 0
    PROVE  N \div d \in Nat \ {0} /\ N = d * (N \div d)
<1>1. N \div d \in Int /\ N \div d >= 0
  OBVIOUS
<1>2. N = d * (N \div d)
  OBVIOUS
<1>3. N \div d # 0
  BY <1>1, <1>2
<1> QED
  BY <1>1, <1>2, <1>3

\* The sizes of a layout.
LEMMA LayoutSizes ==
    ASSUME layout \in Layouts \cup {NoLayout}
    PROVE  /\ layout.ppSize \in 1..nNodes /\ layout.spSize \in Nat \ {0}
           /\ layout.tpSize \in Nat \ {0}
           /\ nNodes = (layout.ppSize * layout.spSize) * layout.tpSize
           /\ layout.spSize \in spSizes \cup {1} /\ layout.offsets \in StageOffsets(layout.ppSize)
<1>0. nNodes \in Nat \ {0}
  BY StartupConstants DEF nNodes
<1>1. CASE layout = NoLayout
  <2>1. EqualSplit(1) \in StageOffsets(1)
    BY StartupConstants DEF StageOffsets, EqualSplit
  <2> QED
    BY <1>0, <1>1, <2>1 DEF NoLayout
<1>2. CASE layout \in Layouts
  <2>1. PICK t \in {u \in (1..nNodes) \X spSizes : Accepted(u[1], u[2])} :
          \E o \in StageOffsets(t[1]) :
            layout = [ppSize |-> t[1], spSize |-> t[2], tpSize |-> nNodes \div (t[1] * t[2]),
                      offsets |-> o]
    BY <1>2 DEF Layouts
  <2>2. PICK p, s : p = t[1] /\ s = t[2]
    OBVIOUS
  <2>3. p \in 1..nNodes /\ s \in spSizes /\ nNodes % (p * s) = 0
    BY <2>1, <2>2 DEF Accepted
  <2>4. s \in Nat \ {0} /\ p \in Nat \ {0}
    BY <1>0, <2>3, StartupAssumption
  <2>5. p * s \in Nat \ {0}
    BY <2>4
  <2>6. nNodes \div (p * s) \in Nat \ {0} /\ nNodes = (p * s) * (nNodes \div (p * s))
    BY <1>0, <2>3, <2>5, ExactDivision
  <2>7. PICK o \in StageOffsets(p) :
          layout = [ppSize |-> p, spSize |-> s, tpSize |-> nNodes \div (p * s), offsets |-> o]
    BY <2>1, <2>2
  <2> QED
    BY <2>3, <2>4, <2>6, <2>7
<1> QED
  BY <1>1, <1>2

\* The kinds of the messages in a queue.
LEMMA MessageKinds ==
    /\ \A k \in {"ready", "net", "node", "end"} : [kind |-> k] \in Messages /\ [kind |-> k].kind = k
    /\ \A i \in 1..nLoads : \A n \in Nodes :
         layout.tpSize \in Nat \ {0} =>
           WeightFor(n, Loads[i]) \in Messages /\ WeightFor(n, Loads[i]).kind = "weight"
<1>1. \A k \in {"ready", "net", "node", "end"} : [kind |-> k] \in Messages /\ [kind |-> k].kind = k
  BY DEF Messages
<1>2. ASSUME NEW i \in 1..nLoads
      PROVE  Loads[i].op \in OpNames /\ Loads[i].layer \in Nat
  <2>1. CASE i = 1 \/ i = nLoads - 1 \/ i = nLoads
    BY <2>1, StartupConstants DEF Loads, OpNames, nLoads
  <2>2. CASE ~(i = 1 \/ i = nLoads - 1 \/ i = nLoads)
    <3>1. (i - 2) \div 4 \in Nat /\ 1 + ((i - 2) % 4) \in 1..4
      BY <2>2, StartupConstants
    <3>2. Loads[i] = LayerLoads((i - 2) \div 4)[1 + ((i - 2) % 4)]
      BY <2>2 DEF Loads
    <3>3. \A l \in Nat : \A j \in 1..4 : LayerLoads(l)[j].op \in OpNames /\ LayerLoads(l)[j].layer \in Nat
      BY DEF LayerLoads, OpNames
    <3> QED
      BY <3>1, <3>2, <3>3
  <2> QED
    BY <2>1, <2>2
<1>3. ASSUME NEW i \in 1..nLoads, NEW n \in Nodes, layout.tpSize \in Nat \ {0}
      PROVE  WeightFor(n, Loads[i]) \in Messages /\ WeightFor(n, Loads[i]).kind = "weight"
  <2>1. n % layout.tpSize \in Int
    BY <1>3, StartupConstants DEF Nodes
  <2> QED
    BY <1>2, <2>1 DEF WeightFor, Messages
<1> QED
  BY <1>1, <1>3

-----------------------------------------------------------------------------
(* Steps of a worker that leave the connections alone.                     *)

\* A queue with nothing in it.
LEMMA NoneIsEmpty ==
    ASSUME StartupType, NEW w \in Workers
    PROVE  /\ fromRoot[w] \in Seq(Messages) /\ Len(fromRoot[w]) \in Nat
           /\ None(w) <=> Len(fromRoot[w]) = 0
<1>1. fromRoot[w] \in Seq(Messages)
  BY DEF StartupType
<1> QED
  BY <1>1, EmptySeq, LenProperties DEF None

\* A message of a kind is read.
LEMMA Received ==
    ASSUME StartupType, NEW w \in Workers, NEW kind, Receive(w, kind)
    PROVE  /\ fromRoot' \in [Workers -> Seq(Messages)]
           /\ \A v \in Workers \ {w} : fromRoot'[v] = fromRoot[v]
           /\ Len(fromRoot[w]) >= 1 /\ fromRoot[w][1].kind = kind
           /\ Len(fromRoot'[w]) = Len(fromRoot[w]) - 1
           /\ \A i \in 1..(Len(fromRoot[w]) - 1) : fromRoot'[w][i] = fromRoot[w][i + 1]
           /\ Len(fromRoot'[w]) = 0 => fromRoot'[w] = <<>>
<1>1. /\ fromRoot[w] \in Seq(Messages) /\ fromRoot[w] # <<>> /\ Head(fromRoot[w]).kind = kind
      /\ fromRoot' = [fromRoot EXCEPT ![w] = Tail(fromRoot[w])]
  BY DEF Receive, StartupType
<1>2. PICK s, t : s = fromRoot[w] /\ t = Tail(s)
  OBVIOUS
<1>3. /\ s \in Seq(Messages) /\ s # <<>> /\ Head(s).kind = kind
  BY <1>1, <1>2, Zenon
<1>4. /\ t \in Seq(Messages) /\ Len(t) = Len(s) - 1 /\ Len(s) >= 1 /\ Head(s) = s[1]
      /\ \A i \in 1..(Len(s) - 1) : t[i] = s[i + 1]
  <2>1. t \in Seq(Messages) /\ Len(s) \in Nat
    BY <1>2, <1>3, HeadTailProperties, LenProperties, Zenon
  <2>2. Len(t) = Len(s) - 1 /\ Head(s) = s[1]
    BY <1>2, <1>3, HeadTailProperties
  <2>3. \A i \in 1..Len(t) : t[i] = s[i + 1]
    BY <1>2, <1>3, HeadTailProperties
  <2> QED
    BY <1>3, <2>1, <2>2, <2>3, EmptySeq
<1>5. Len(t) = 0 => t = <<>>
  BY <1>4, EmptySeq
<1>6. /\ fromRoot' \in [Workers -> Seq(Messages)] /\ fromRoot'[w] = t
      /\ \A v \in Workers \ {w} : fromRoot'[v] = fromRoot[v]
  BY <1>1, <1>2, <1>4 DEF StartupType
<1> QED
  BY <1>2, <1>3, <1>4, <1>5, <1>6, Zenon

\* What is said between the root and v does not depend on others.
LEMMA TalkFrame ==
    ASSUME NEW v \in Workers, Talk(v), rootSockets'[v] = rootSockets[v], pc'[v] = pc[v],
           fromRoot'[v] = fromRoot[v], v \in acks' <=> v \in acks,
           sockets'[v][0] = ROOT <=> sockets[v][0] = ROOT, rootPc' = rootPc, rootAt' = rootAt
    PROVE  Talk(v)'
BY DEF Talk, Live, Heard, Hello, Said, Stage, None, One, Two, OnlyWeights, WeightsThenEnd

\* Nor does the place of v's end of the root's connection.
LEMMA EndsFrame ==
    ASSUME NEW v \in Workers, EndsOf(v), rootSockets'[v] = rootSockets[v],
           <<ROOT, v>> \in connecting' <=> <<ROOT, v>> \in connecting,
           Len(backlog'[v]) = Len(backlog[v]),
           \A i \in 1..Len(backlog[v]) : backlog'[v][i] = ROOT => backlog[v][i] = ROOT,
           \A k \in SocketIndexes : sockets'[v][k] = ROOT => sockets[v][k] = ROOT
    PROVE  EndsOf(v)'
BY DEF EndsOf, Live, InBacklog

\* A worker that reads or writes on connections it has.
Reads(w) ==
    /\ UNCHANGED <<rootPc, rootAt, rootSockets, connecting, backlog, sockets, peer, crashes,
                   layout, loadAt>>
    /\ pc' \in [Workers -> Pcs] /\ fromRoot' \in [Workers -> Seq(Messages)]
    /\ acks' \in SUBSET Workers
    /\ \A v \in Workers \ {w} : /\ pc'[v] = pc[v] /\ fromRoot'[v] = fromRoot[v]
                                /\ v \in acks' <=> v \in acks
    /\ w \in acks' => w \in acks \/ sockets[w][0] = ROOT

\* It is enough to look at what the worker and the root say to each other.
LEMMA ReadStep ==
    ASSUME StartupInv, NEW w \in Workers, Reads(w), Fresh(w)', Talk(w)'
    PROVE  StartupInv'
<1>1. StartupType'
  BY DEF StartupInv, StartupType, Reads
<1>2. LoadOrder'
  BY DEF StartupInv, LoadOrder, Reads
<1>3. ASSUME NEW v \in Workers PROVE EndsOf(v)'
  BY DEF StartupInv, RootEnds, EndsOf, Reads, InBacklog, Live
<1>4. ASSUME NEW v \in Workers PROVE Fresh(v)'
  <2>1. CASE v = w
    BY <2>1
  <2>2. CASE v # w
    BY <2>2 DEF StartupInv, RootEnds, Fresh, Reads
  <2> QED
    BY <2>1, <2>2
<1>5. ASSUME NEW v \in Workers PROVE NotYet(v)'
  <2>1. NotYet(v) /\ EndsOf(v)
    BY DEF StartupInv, RootEnds
  <2>2. v \in acks' => v \in acks \/ rootSockets[v] = v
    <3>1. CASE v = w
      BY <2>1, <3>1, StartupConstants DEF Reads, EndsOf, Live
    <3>2. CASE v # w
      BY <3>2 DEF Reads
    <3> QED
      BY <3>1, <3>2
  <2> QED
    BY <2>1, <2>2, StartupConstants DEF NotYet, Reads
<1>6. ASSUME NEW v \in Workers PROVE Talk(v)'
  <2>1. CASE v = w
    BY <2>1
  <2>2. CASE v # w
    BY <2>2, TalkFrame DEF StartupInv, Reads
  <2> QED
    BY <2>1, <2>2
<1> QED
  BY <1>1, <1>2, <1>3, <1>4, <1>5, <1>6 DEF StartupInv, RootEnds

\* What the invariant says of one worker.
LEMMA OfWorker ==
    ASSUME StartupInv, NEW w \in Workers
    PROVE  /\ StartupType /\ EndsOf(w) /\ Fresh(w) /\ NotYet(w) /\ Talk(w)
           /\ rootPc \in RootPcs /\ pc[w] \in Pcs /\ w \in Nat /\ rootAt \in Nat
           /\ fromRoot[w] \in Seq(Messages) /\ Len(fromRoot[w]) \in Nat
           /\ None(w) <=> Len(fromRoot[w]) = 0
<1>1. StartupType /\ EndsOf(w) /\ Fresh(w) /\ NotYet(w) /\ Talk(w)
  BY DEF StartupInv, RootEnds
<1>2. rootPc \in RootPcs /\ pc[w] \in Pcs /\ w \in Nat /\ rootAt \in Nat
  BY <1>1, StartupConstants DEF StartupType
<1> QED
  BY <1>1, <1>2, NoneIsEmpty

\* serve() starts to listen.
LEMMA StartListeningStep ==
    ASSUME StartupInv, NEW w \in Workers, StartListening(w), UNCHANGED startupVars
    PROVE  StartupInv'
<1>0. /\ UNCHANGED <<rootPc, rootAt, rootSockets, connecting, backlog, sockets, acks, fromRoot,
                     peer, crashes, layout, loadAt>>
      /\ pc[w] = "starting" /\ pc' = [pc EXCEPT ![w] = "listen"]
  BY DEF StartListening, Goto, rootVars, netVars, startupVars
<1>1. /\ pc' \in [Workers -> Pcs] /\ pc'[w] = "listen"
      /\ \A v \in Workers \ {w} : pc'[v] = pc[v]
  BY <1>0 DEF StartupInv, StartupType, Pcs
<1>2. Reads(w)
  BY <1>0, <1>1 DEF Reads, StartupInv, StartupType
<1>3. Fresh(w)'
  BY <1>0, <1>1, OfWorker DEF Fresh
<1>4. Talk(w)'
  <2>1. Talk(w) /\ sockets[w][0] # ROOT
    BY <1>0, OfWorker, StartupConstants DEF Fresh
  <2>2. Live(w) => ~Heard(w) /\ w \notin acks
    BY <2>1 DEF Talk, Hello
  <2> QED
    BY <1>0, <2>1, <2>2 DEF Talk, Hello, Live, Heard
<1> QED
  BY <1>2, <1>3, <1>4, ReadStep

\* A worker answers the handshake: the root has not heard of it before.
LEMMA ReadConfigStep ==
    ASSUME StartupInv, NEW w \in Workers, ReadConfig(w), UNCHANGED startupVars
    PROVE  StartupInv'
<1>0. /\ UNCHANGED <<rootPc, rootAt, rootSockets, connecting, backlog, sockets, fromRoot,
                     peer, crashes, layout, loadAt>>
      /\ pc[w] = "config" /\ pc' = [pc EXCEPT ![w] = "ready"] /\ sockets[w][0] = ROOT
      /\ acks' = acks \cup {w}
  BY DEF ReadConfig, WriteAck, Goto, rootVars, netVars, startupVars
<1>1. /\ pc' \in [Workers -> Pcs] /\ pc'[w] = "ready"
      /\ \A v \in Workers \ {w} : pc'[v] = pc[v]
  BY <1>0 DEF StartupInv, StartupType, Pcs
<1>2. Reads(w)
  BY <1>0, <1>1 DEF Reads, StartupInv, StartupType
<1>3. Fresh(w)'
  BY <1>1 DEF Fresh
<1>4. Talk(w)'
  <2>1. Talk(w) /\ Live(w)
    BY <1>0, OfWorker, StartupConstants DEF EndsOf
  <2>2. rootPc \in RootPcs
    BY OfWorker
  <2>3. ~Heard(w)
    BY <1>0, <2>1, <2>2 DEF Talk, Said, Stage, RootPcs
  <2>4. None(w)
    BY <1>0, <2>1, <2>3 DEF Talk, Hello
  <2> QED
    BY <1>0, <1>1, <2>1, <2>3, <2>4 DEF Talk, Hello, Live, Heard, None
<1> QED
  BY <1>2, <1>3, <1>4, ReadStep

\* "root ready" is read, of this session or, when the root is gone, of the last.
LEMMA ReadReadyStep ==
    ASSUME StartupInv, NEW w \in Workers, ReadReady(w), UNCHANGED startupVars
    PROVE  StartupInv'
<1>0. /\ UNCHANGED <<rootPc, rootAt, rootSockets, connecting, backlog, sockets, acks,
                     peer, crashes, layout, loadAt>>
      /\ pc[w] = "ready" /\ pc' = [pc EXCEPT ![w] = "peers"] /\ Receive(w, "ready")
  BY DEF ReadReady, Goto, rootVars, netVars, startupVars
<1>1. /\ pc' \in [Workers -> Pcs] /\ pc'[w] = "peers"
      /\ \A v \in Workers \ {w} : pc'[v] = pc[v]
  BY <1>0 DEF StartupInv, StartupType, Pcs
<1>2. /\ fromRoot' \in [Workers -> Seq(Messages)]
      /\ \A v \in Workers \ {w} : fromRoot'[v] = fromRoot[v]
      /\ Len(fromRoot[w]) >= 1 /\ fromRoot[w][1].kind = "ready"
      /\ Len(fromRoot'[w]) = Len(fromRoot[w]) - 1
      /\ \A i \in 1..(Len(fromRoot[w]) - 1) : fromRoot'[w][i] = fromRoot[w][i + 1]
      /\ Len(fromRoot'[w]) = 0 => fromRoot'[w] = <<>>
  BY <1>0, Received DEF StartupInv
<1>3. Reads(w)
  BY <1>0, <1>1, <1>2 DEF Reads, StartupInv, StartupType
<1>4. Fresh(w)'
  BY <1>1 DEF Fresh
<1>5. Talk(w)'
  <2>1. /\ Talk(w) /\ rootPc \in RootPcs /\ Len(fromRoot[w]) \in Nat /\ w \in Nat /\ rootAt \in Nat
        /\ None(w) <=> Len(fromRoot[w]) = 0
    BY OfWorker
  <2>2. CASE Live(w) /\ Heard(w)
    <3>1. Stage(w) \in {"ready", "netAck"} /\ Said(w, Stage(w)) /\ sockets[w][0] = ROOT
      BY <1>0, <1>2, <2>1, <2>2 DEF Talk, Said, Stage, RootPcs
    <3>2. CASE Stage(w) = "ready"
      <4>1. Len(fromRoot'[w]) = 0 /\ w \notin acks
        BY <1>0, <1>2, <2>1, <3>1, <3>2 DEF Said, One
      <4>2. Said(w, "ready")'
        BY <1>0, <1>1, <1>2, <4>1 DEF Said, None
      <4>3. Stage(w)' = "ready"
        BY <1>0, <3>2 DEF Stage
      <4> QED
        BY <1>0, <2>2, <3>1, <4>2, <4>3 DEF Talk, Heard
    <3>3. CASE Stage(w) = "netAck"
      <4>1. Len(fromRoot[w]) = 2 /\ fromRoot[w][2].kind = "net" /\ w \notin acks
        BY <1>0, <1>2, <2>1, <3>1, <3>3 DEF Said, Two
      <4>2. Len(fromRoot'[w]) = 1 /\ fromRoot'[w][1].kind = "net"
        BY <1>2, <4>1
      <4>3. Said(w, "netAck")'
        BY <1>0, <1>1, <4>1, <4>2 DEF Said, One
      <4>4. Stage(w)' = "netAck"
        BY <1>0, <3>3 DEF Stage
      <4> QED
        BY <1>0, <2>2, <3>1, <4>3, <4>4 DEF Talk, Heard
    <3> QED
      BY <3>1, <3>2, <3>3
  <2>3. CASE Live(w) /\ ~Heard(w)
    <3>1. w \notin acks /\ sockets[w][0] # ROOT
      BY <1>0, <1>2, <2>1, <2>3 DEF Talk, Hello
    <3> QED
      BY <1>0, <2>3, <3>1 DEF Talk, Hello, Heard
  <2>4. CASE ~Live(w)
    BY <1>0, <2>4 DEF Talk, Live
  <2> QED
    BY <2>2, <2>3, <2>4
<1> QED
  BY <1>3, <1>4, <1>5, ReadStep

\* A worker that reads from the root behind serve() has been heard of.
LEMMA ReaderIsHeard ==
    ASSUME StartupInv, NEW w \in Workers, sockets[w][0] = ROOT,
           pc[w] \in {"served", "node", "weights"}
    PROVE  Live(w) /\ Heard(w) /\ Said(w, Stage(w))
<1>1. Talk(w) /\ Live(w)
  BY OfWorker, StartupConstants DEF EndsOf
<1> QED
  BY <1>1 DEF Talk, Hello

\* The network's configuration is read and acknowledged.
LEMMA ReadNetStep ==
    ASSUME StartupInv, NEW w \in Workers, ReadNet(w)
    PROVE  StartupInv'
<1>0. /\ UNCHANGED <<rootPc, rootAt, rootSockets, connecting, backlog, sockets,
                     peer, crashes, layout, loadAt>>
      /\ pc[w] = "served" /\ pc' = [pc EXCEPT ![w] = "node"]
      /\ Receive(w, "net") /\ sockets[w][0] = ROOT
      /\ acks' = acks \cup {w}
  BY DEF ReadNet, Read, WriteAck, Goto, rootVars, netVars, startupVars
<1>1. /\ pc' \in [Workers -> Pcs] /\ pc'[w] = "node"
      /\ \A v \in Workers \ {w} : pc'[v] = pc[v]
  BY <1>0 DEF StartupInv, StartupType, Pcs
<1>2. /\ fromRoot' \in [Workers -> Seq(Messages)]
      /\ \A v \in Workers \ {w} : fromRoot'[v] = fromRoot[v]
      /\ Len(fromRoot[w]) >= 1 /\ fromRoot[w][1].kind = "net"
      /\ Len(fromRoot'[w]) = Len(fromRoot[w]) - 1
      /\ \A i \in 1..(Len(fromRoot[w]) - 1) : fromRoot'[w][i] = fromRoot[w][i + 1]
      /\ Len(fromRoot'[w]) = 0 => fromRoot'[w] = <<>>
  BY <1>0, Received DEF StartupInv
<1>3. Reads(w)
  BY <1>0, <1>1, <1>2 DEF Reads, StartupInv, StartupType
<1>4. Fresh(w)'
  BY <1>1 DEF Fresh
<1>5. /\ rootPc \in RootPcs /\ Len(fromRoot[w]) \in Nat /\ w \in Nat /\ rootAt \in Nat
      /\ None(w) <=> Len(fromRoot[w]) = 0
  BY OfWorker
<1>6. Live(w) /\ Heard(w) /\ Said(w, Stage(w))
  BY <1>0, ReaderIsHeard
<1>7. Stage(w) = "netAck" /\ Len(fromRoot[w]) = 1
  BY <1>0, <1>2, <1>5, <1>6 DEF Said, Stage, RootPcs, One, OnlyWeights
<1>8. Stage(w)' = "netAck"
  BY <1>0, <1>7 DEF Stage
<1>9. Said(w, "netAck")'
  BY <1>0, <1>1, <1>2, <1>7 DEF Said, None
<1>10. Talk(w)'
  BY <1>0, <1>6, <1>8, <1>9 DEF Talk, Heard
<1> QED
  BY <1>3, <1>4, <1>10, ReadStep

\* The node's configuration is read and acknowledged.
LEMMA ReadNodeStep ==
    ASSUME StartupInv, NEW w \in Workers, ReadNode(w)
    PROVE  StartupInv'
<1>0. /\ UNCHANGED <<rootPc, rootAt, rootSockets, connecting, backlog, sockets,
                     peer, crashes, layout, loadAt>>
      /\ pc[w] = "node" /\ pc' = [pc EXCEPT ![w] = "weights"]
      /\ Receive(w, "node") /\ sockets[w][0] = ROOT
      /\ acks' = acks \cup {w}
  BY DEF ReadNode, Read, WriteAck, Goto, rootVars, netVars, startupVars
<1>1. /\ pc' \in [Workers -> Pcs] /\ pc'[w] = "weights"
      /\ \A v \in Workers \ {w} : pc'[v] = pc[v]
  BY <1>0 DEF StartupInv, StartupType, Pcs
<1>2. /\ fromRoot' \in [Workers -> Seq(Messages)]
      /\ \A v \in Workers \ {w} : fromRoot'[v] = fromRoot[v]
      /\ Len(fromRoot[w]) >= 1 /\ fromRoot[w][1].kind = "node"
      /\ Len(fromRoot'[w]) = Len(fromRoot[w]) - 1
      /\ \A i \in 1..(Len(fromRoot[w]) - 1) : fromRoot'[w][i] = fromRoot[w][i + 1]
      /\ Len(fromRoot'[w]) = 0 => fromRoot'[w] = <<>>
  BY <1>0, Received DEF StartupInv
<1>3. Reads(w)
  BY <1>0, <1>1, <1>2 DEF Reads, StartupInv, StartupType
<1>4. Fresh(w)'
  BY <1>1 DEF Fresh
<1>5. /\ rootPc \in RootPcs /\ Len(fromRoot[w]) \in Nat /\ w \in Nat /\ rootAt \in Nat
      /\ None(w) <=> Len(fromRoot[w]) = 0
  BY OfWorker
<1>6. Live(w) /\ Heard(w) /\ Said(w, Stage(w))
  BY <1>0, ReaderIsHeard
<1>7. Stage(w) = "nodeAck" /\ Len(fromRoot[w]) = 1
  BY <1>0, <1>2, <1>5, <1>6 DEF Said, Stage, RootPcs, One, OnlyWeights
<1>8. Stage(w)' = "nodeAck"
  BY <1>0, <1>7 DEF Stage
<1>9. Said(w, "nodeAck")'
  BY <1>0, <1>1, <1>2, <1>7 DEF Said, None
<1>10. Talk(w)'
  BY <1>0, <1>6, <1>8, <1>9 DEF Talk, Heard
<1> QED
  BY <1>3, <1>4, <1>10, ReadStep

\* One weight is read.
LEMMA ReadWeightStep ==
    ASSUME StartupInv, NEW w \in Workers, ReadWeight(w)
    PROVE  StartupInv'
<1>0. /\ UNCHANGED <<rootPc, rootAt, rootSockets, connecting, backlog, sockets, acks,
                     peer, crashes, layout, loadAt>>
      /\ pc[w] = "weights" /\ pc' = pc
      /\ Receive(w, "weight") /\ sockets[w][0] = ROOT
  BY DEF ReadWeight, Read, WriteAck, Goto, rootVars, netVars, startupVars
<1>1. /\ pc' \in [Workers -> Pcs] /\ pc'[w] = "weights"
      /\ \A v \in Workers \ {w} : pc'[v] = pc[v]
  BY <1>0 DEF StartupInv, StartupType, Pcs
<1>2. /\ fromRoot' \in [Workers -> Seq(Messages)]
      /\ \A v \in Workers \ {w} : fromRoot'[v] = fromRoot[v]
      /\ Len(fromRoot[w]) >= 1 /\ fromRoot[w][1].kind = "weight"
      /\ Len(fromRoot'[w]) = Len(fromRoot[w]) - 1
      /\ \A i \in 1..(Len(fromRoot[w]) - 1) : fromRoot'[w][i] = fromRoot[w][i + 1]
      /\ Len(fromRoot'[w]) = 0 => fromRoot'[w] = <<>>
  BY <1>0, Received DEF StartupInv
<1>3. Reads(w)
  BY <1>0, <1>1, <1>2 DEF Reads, StartupInv, StartupType
<1>4. Fresh(w)'
  BY <1>1 DEF Fresh
<1>5. /\ rootPc \in RootPcs /\ Len(fromRoot[w]) \in Nat /\ w \in Nat /\ rootAt \in Nat
      /\ None(w) <=> Len(fromRoot[w]) = 0
  BY OfWorker
<1>6. Live(w) /\ Heard(w) /\ Said(w, Stage(w))
  BY <1>0, ReaderIsHeard
<1>7. ASSUME Stage(w) = "loading" PROVE Talk(w)'
  <2>1. Stage(w)' = "loading"
    BY <1>0, <1>7 DEF Stage
  <2>2. Said(w, "loading")'
    BY <1>0, <1>1, <1>2, <1>5, <1>6, <1>7 DEF Said, OnlyWeights
  <2> QED
    BY <1>0, <1>6, <2>1, <2>2 DEF Talk, Heard
<1>8. ASSUME Stage(w) = "endAck" PROVE Talk(w)'
  <2>1. Stage(w)' = "endAck"
    BY <1>0, <1>8 DEF Stage
  <2>2. w \notin acks /\ WeightsThenEnd(w) /\ Len(fromRoot[w]) > 1
    BY <1>0, <1>2, <1>5, <1>6, <1>8 DEF Said, WeightsThenEnd
  <2>3. WeightsThenEnd(w)'
    BY <1>2, <1>5, <2>2, SMTT(30) DEF WeightsThenEnd
  <2>4. Said(w, "endAck")'
    BY <1>0, <1>1, <2>2, <2>3 DEF Said
  <2> QED
    BY <1>0, <1>6, <2>1, <2>4 DEF Talk, Heard
<1>9. Stage(w) \in {"loading", "endAck"}
  BY <1>0, <1>2, <1>5, <1>6 DEF Said, Stage, RootPcs, One
<1>10. Talk(w)'
  BY <1>7, <1>8, <1>9
<1> QED
  BY <1>3, <1>4, <1>10, ReadStep

\* The end of the weights is read and acknowledged.
LEMMA ReadEndStep ==
    ASSUME StartupInv, NEW w \in Workers, ReadEnd(w)
    PROVE  StartupInv'
<1>0. /\ UNCHANGED <<rootPc, rootAt, rootSockets, connecting, backlog, sockets,
                     peer, crashes, layout, loadAt>>
      /\ pc[w] = "weights" /\ pc' = [pc EXCEPT ![w] = "running"]
      /\ Receive(w, "end") /\ sockets[w][0] = ROOT
      /\ acks' = acks \cup {w}
  BY DEF ReadEnd, Read, WriteAck, Goto, rootVars, netVars, startupVars
<1>1. /\ pc' \in [Workers -> Pcs] /\ pc'[w] = "running"
      /\ \A v \in Workers \ {w} : pc'[v] = pc[v]
  BY <1>0 DEF StartupInv, StartupType, Pcs
<1>2. /\ fromRoot' \in [Workers -> Seq(Messages)]
      /\ \A v \in Workers \ {w} : fromRoot'[v] = fromRoot[v]
      /\ Len(fromRoot[w]) >= 1 /\ fromRoot[w][1].kind = "end"
      /\ Len(fromRoot'[w]) = Len(fromRoot[w]) - 1
      /\ \A i \in 1..(Len(fromRoot[w]) - 1) : fromRoot'[w][i] = fromRoot[w][i + 1]
      /\ Len(fromRoot'[w]) = 0 => fromRoot'[w] = <<>>
  BY <1>0, Received DEF StartupInv
<1>3. Reads(w)
  BY <1>0, <1>1, <1>2 DEF Reads, StartupInv, StartupType
<1>4. Fresh(w)'
  BY <1>1 DEF Fresh
<1>5. /\ rootPc \in RootPcs /\ Len(fromRoot[w]) \in Nat /\ w \in Nat /\ rootAt \in Nat
      /\ None(w) <=> Len(fromRoot[w]) = 0
  BY OfWorker
<1>6. Live(w) /\ Heard(w) /\ Said(w, Stage(w))
  BY <1>0, ReaderIsHeard
<1>7. Stage(w) = "endAck" /\ Len(fromRoot[w]) = 1
  <2>1. Stage(w) \in {"loading", "endAck"}
    BY <1>0, <1>2, <1>5, <1>6 DEF Said, Stage, RootPcs, One
  <2>2. Stage(w) # "loading"
    BY <1>2, <1>5, <1>6 DEF Said, OnlyWeights
  <2>3. WeightsThenEnd(w)
    BY <1>0, <1>2, <1>5, <1>6, <2>1, <2>2 DEF Said
  <2>4. ASSUME Len(fromRoot[w]) # 1 PROVE FALSE
    <3>1. PICK n : n = Len(fromRoot[w])
      OBVIOUS
    <3>2. n \in Nat /\ n >= 1 /\ n # 1
      BY <1>2, <1>5, <2>4, <3>1, Zenon
    <3>3. 1 \in 1..(n - 1)
      BY <3>2
    <3>4. 1 \in 1..(Len(fromRoot[w]) - 1)
      BY <3>1, <3>3, Zenon
    <3>5. fromRoot[w][1].kind = "weight"
      BY <2>3, <3>4 DEF WeightsThenEnd
    <3> QED
      BY <1>2, <3>5
  <2> QED
    BY <2>1, <2>2, <2>4
<1>8. Stage(w)' = "endAck"
  BY <1>0, <1>7 DEF Stage
<1>9. Said(w, "endAck")'
  BY <1>0, <1>1, <1>2, <1>7 DEF Said, None
<1>10. Talk(w)'
  BY <1>0, <1>6, <1>8, <1>9 DEF Talk, Heard
<1> QED
  BY <1>3, <1>4, <1>10, ReadStep

-----------------------------------------------------------------------------
(* Steps that change connections.                                          *)

\* acceptSocket takes the oldest connection of the backlog and files it.
LEMMA AcceptEnds ==
    ASSUME StartupInv, NEW w \in Workers, NEW k \in SocketIndexes, Accept(w, k)
    PROVE  /\ sockets' \in [Workers -> [SocketIndexes -> Ends]]
           /\ backlog' \in [Workers -> Seq(Nodes \cup {GONE})]
           /\ UNCHANGED <<rootSockets, connecting>>
           /\ sockets'[w][k] = backlog[w][1] /\ Len(backlog[w]) >= 1
           /\ \A v \in Workers : \A l \in SocketIndexes :
                v # w \/ l # k => sockets'[v][l] = sockets[v][l]
           /\ \A v \in Workers : EndsOf(v)'
<1>0. /\ backlog[w] # <<>> /\ sockets' = [sockets EXCEPT ![w][k] = Head(backlog[w])]
      /\ backlog' = [backlog EXCEPT ![w] = Tail(backlog[w])]
      /\ UNCHANGED <<rootSockets, connecting>> /\ StartupType
  BY DEF Accept, StartupInv
<1>1. PICK s, t, n : s = backlog[w] /\ t = Tail(s) /\ n = Head(s)
  OBVIOUS
<1>2. s \in Seq(Nodes \cup {GONE}) /\ s # <<>>
  BY <1>0, <1>1 DEF StartupType
<1>3. /\ t \in Seq(Nodes \cup {GONE}) /\ n \in Nodes \cup {GONE} /\ Len(s) \in Nat /\ Len(s) >= 1
      /\ n = s[1] /\ Len(t) = Len(s) - 1
      /\ \A i \in 1..Len(t) : t[i] = s[i + 1]
  <2>1. t \in Seq(Nodes \cup {GONE}) /\ n \in Nodes \cup {GONE}
    BY <1>1, <1>2, HeadTailProperties, Zenon
  <2>2. n = s[1] /\ Len(t) = Len(s) - 1 /\ \A i \in 1..Len(t) : t[i] = s[i + 1]
    BY <1>1, <1>2, HeadTailProperties
  <2>3. Len(s) \in Nat /\ Len(s) # 0
    BY <1>2, EmptySeq, LenProperties
  <2> QED
    BY <2>1, <2>2, <2>3
<1>4. sockets' = [sockets EXCEPT ![w][k] = n] /\ backlog' = [backlog EXCEPT ![w] = t]
  BY <1>0, <1>1, Zenon
<1>5. /\ sockets' \in [Workers -> [SocketIndexes -> Ends]] /\ sockets'[w][k] = n
      /\ \A v \in Workers : \A l \in SocketIndexes :
           v # w \/ l # k => sockets'[v][l] = sockets[v][l]
  BY <1>0, <1>3, <1>4 DEF StartupType, Ends
<1>6. /\ backlog' \in [Workers -> Seq(Nodes \cup {GONE})] /\ backlog'[w] = t
      /\ \A v \in Workers \ {w} : backlog'[v] = backlog[v]
  BY <1>0, <1>3, <1>4 DEF StartupType
<1>7. ASSUME NEW v \in Workers \ {w} PROVE EndsOf(v)'
  BY <1>0, <1>5, <1>6, OfWorker DEF EndsOf, InBacklog, Live
<1>8. EndsOf(w)'
  <2>1. EndsOf(w)
    BY OfWorker
  <2>2. \A i \in 1..Len(t) : i + 1 \in 1..Len(s) /\ t[i] = s[i + 1]
    BY <1>3
  <2>3. InBacklog(w, ROOT)' => InBacklog(w, ROOT)
    BY <1>1, <1>6, <2>2 DEF InBacklog
  <2>4. \A i, j \in 1..Len(backlog'[w]) : backlog'[w][i] = ROOT /\ backlog'[w][j] = ROOT => i = j
    <3> SUFFICES ASSUME NEW i \in 1..Len(t), NEW j \in 1..Len(t), t[i] = ROOT, t[j] = ROOT
                 PROVE  i = j
      BY <1>6, Zenon
    <3>1. s[i + 1] = ROOT /\ s[j + 1] = ROOT /\ i + 1 \in 1..Len(s) /\ j + 1 \in 1..Len(s)
      BY <2>2
    <3>2. i + 1 = j + 1
      BY <1>1, <2>1, <3>1, Zenon DEF EndsOf
    <3> QED
      BY <1>3, <3>2
  <2>5. n = ROOT => InBacklog(w, ROOT) /\ ~InBacklog(w, ROOT)'
    <3>1. 1 \in 1..Len(s)
      BY <1>3
    <3>2. ASSUME n = ROOT, NEW i \in 1..Len(t), t[i] = ROOT PROVE FALSE
      <4>1. s[1] = ROOT /\ s[i + 1] = ROOT /\ i + 1 \in 1..Len(s)
        BY <1>3, <2>2, <3>2
      <4>2. i + 1 = 1
        BY <1>1, <2>1, <3>1, <4>1, Zenon DEF EndsOf
      <4> QED
        BY <1>3, <4>2
    <3> QED
      BY <1>1, <1>3, <1>6, <3>1, <3>2 DEF InBacklog
  <2>6. ASSUME NEW l \in SocketIndexes, sockets'[w][l] = ROOT
        PROVE  Live(w)' /\ (<<ROOT, w>> \notin connecting)' /\ ~InBacklog(w, ROOT)'
    <3>1. CASE l = k
      BY <1>0, <1>5, <2>1, <2>5, <2>6, <3>1 DEF EndsOf, Live
    <3>2. CASE l # k
      BY <1>0, <1>5, <2>1, <2>3, <2>6, <3>2 DEF EndsOf, Live
    <3> QED
      BY <3>1, <3>2
  <2> QED
    BY <1>0, <2>1, <2>3, <2>4, <2>6 DEF EndsOf, Live
<1> QED
  BY <1>0, <1>1, <1>3, <1>5, <1>6, <1>7, <1>8

\* The peers of a worker and their places in its socket table.
LEMMA PeerIndexes ==
    ASSUME NEW w \in Workers, NEW i \in 0..nOtherWorkers, i < nOtherWorkers
    PROVE  /\ OtherWorkerIndex(w, i) \in Workers /\ OtherWorkerIndex(w, i) # w
           /\ SocketIndex(w, OtherWorkerIndex(w, i)) \in SocketIndexes
           /\ SocketIndex(w, OtherWorkerIndex(w, i)) # 0
BY StartupConstants DEF OtherWorkerIndex, SocketIndex, SocketIndexes, Workers, nOtherWorkers

\* The invariant after a step, worker by worker.
LEMMA WorkerByWorker ==
    ASSUME StartupType', LoadOrder',
           \A v \in Workers : EndsOf(v)' /\ Fresh(v)' /\ NotYet(v)' /\ Talk(v)'
    PROVE  StartupInv'
BY DEF StartupInv, RootEnds

\* A worker takes a connection for the root's.
LEMMA AcceptRootStep ==
    ASSUME StartupInv, NEW w \in Workers, AcceptRoot(w), UNCHANGED startupVars
    PROVE  StartupInv'
<1>0. /\ UNCHANGED <<rootPc, rootAt, acks, fromRoot, peer, crashes, layout, loadAt>>
      /\ pc[w] = "listen" /\ pc' = [pc EXCEPT ![w] = "config"] /\ Accept(w, 0)
  BY DEF AcceptRoot, Goto, rootVars, startupVars
<1>1. /\ sockets' \in [Workers -> [SocketIndexes -> Ends]]
      /\ backlog' \in [Workers -> Seq(Nodes \cup {GONE})]
      /\ UNCHANGED <<rootSockets, connecting>>
      /\ sockets'[w][0] = backlog[w][1] /\ Len(backlog[w]) >= 1
      /\ \A v \in Workers : \A l \in SocketIndexes :
           v # w \/ l # 0 => sockets'[v][l] = sockets[v][l]
      /\ \A v \in Workers : EndsOf(v)'
  BY <1>0, StartupConstants, AcceptEnds
<1>2. /\ pc' \in [Workers -> Pcs] /\ pc'[w] = "config"
      /\ \A v \in Workers \ {w} : pc'[v] = pc[v]
  BY <1>0 DEF StartupInv, StartupType, Pcs
<1>3. StartupType' /\ LoadOrder'
  BY <1>0, <1>1, <1>2 DEF StartupInv, StartupType, LoadOrder
<1>4. ASSUME NEW v \in Workers PROVE Fresh(v)' /\ NotYet(v)' /\ Talk(v)'
  <2>1. Fresh(v) /\ NotYet(v) /\ Talk(v)
    BY OfWorker
  <2>2. NotYet(v)'
    BY <1>0, <1>1, <2>1 DEF NotYet
  <2>3. CASE v # w
    <3>1. Fresh(v)'
      BY <1>0, <1>1, <1>2, <2>1, <2>3 DEF Fresh
    <3>2. Talk(v)'
      BY <1>0, <1>1, <1>2, <2>1, <2>3, TalkFrame, StartupConstants
    <3> QED
      BY <2>2, <3>1, <3>2
  <2>4. CASE v = w
    <3>1. Fresh(w)'
      BY <1>2 DEF Fresh
    <3>2. sockets[w][0] # ROOT /\ None(w)
      BY <1>0, <2>1, <2>4, StartupConstants DEF Fresh, None
    <3>3. Live(w) => ~Heard(w) /\ w \notin acks
      BY <2>1, <2>4, <3>2 DEF Talk, Hello
    <3>4. Talk(w)'
      BY <1>0, <1>1, <1>2, <3>2, <3>3 DEF Talk, Hello, Live, Heard, None
    <3> QED
      BY <2>2, <2>4, <3>1, <3>4
  <2> QED
    BY <2>3, <2>4
<1> QED
  BY <1>1, <1>3, <1>4, WorkerByWorker

\* A worker takes a connection for a peer's.
LEMMA AcceptPeerStep ==
    ASSUME StartupInv, NEW w \in Workers, AcceptPeer(w), UNCHANGED startupVars
    PROVE  StartupInv'
<1>0. PICK k : k = SocketIndex(w, OtherWorkerIndex(w, peer[w]))
  OBVIOUS
<1>1. /\ UNCHANGED <<rootPc, rootAt, acks, fromRoot, pc, crashes, layout, loadAt>>
      /\ pc[w] = "peers" /\ Accept(w, k) /\ peer[w] < nOtherWorkers
      /\ peer' = [peer EXCEPT ![w] = peer[w] + 1]
  BY <1>0 DEF AcceptPeer, rootVars, startupVars
<1>2. peer[w] \in 0..nOtherWorkers /\ peer \in [Workers -> 0..nOtherWorkers]
  BY DEF StartupInv, StartupType
<1>3. k \in SocketIndexes /\ k # 0
  BY <1>0, <1>1, <1>2, PeerIndexes
<1>4. /\ sockets' \in [Workers -> [SocketIndexes -> Ends]]
      /\ backlog' \in [Workers -> Seq(Nodes \cup {GONE})]
      /\ UNCHANGED <<rootSockets, connecting>>
      /\ \A v \in Workers : \A l \in SocketIndexes :
           v # w \/ l # k => sockets'[v][l] = sockets[v][l]
      /\ \A v \in Workers : EndsOf(v)'
  BY <1>1, <1>3, AcceptEnds
<1>5. peer' \in [Workers -> 0..nOtherWorkers]
  BY <1>1, <1>2, StartupConstants
<1>6. StartupType' /\ LoadOrder'
  BY <1>1, <1>4, <1>5 DEF StartupInv, StartupType, LoadOrder
<1>7. ASSUME NEW v \in Workers PROVE Fresh(v)' /\ NotYet(v)' /\ Talk(v)'
  <2>1. Fresh(v) /\ NotYet(v) /\ Talk(v)
    BY OfWorker
  <2>2. NotYet(v)'
    BY <1>1, <1>4, <2>1 DEF NotYet
  <2>3. Fresh(v)'
    BY <1>1, <1>4, <2>1 DEF Fresh
  <2>4. Talk(v)'
    BY <1>1, <1>3, <1>4, <2>1, TalkFrame, StartupConstants
  <2> QED
    BY <2>2, <2>3, <2>4
<1> QED
  BY <1>4, <1>6, <1>7, WorkerByWorker

\* A worker starts to connect to a peer.
LEMMA ConnectPeerStep ==
    ASSUME StartupInv, NEW w \in Workers, ConnectPeer(w), UNCHANGED startupVars
    PROVE  StartupInv'
<1>0. PICK other, k : other = OtherWorkerIndex(w, peer[w]) /\ k = SocketIndex(w, other)
  OBVIOUS
<1>1. /\ UNCHANGED <<rootPc, rootAt, acks, fromRoot, pc, crashes, layout, loadAt, rootSockets,
                     backlog>>
      /\ pc[w] = "peers" /\ peer[w] < nOtherWorkers
      /\ connecting' = connecting \cup {<<w, other>>}
      /\ sockets' = [sockets EXCEPT ![w][k] = other]
      /\ peer' = [peer EXCEPT ![w] = peer[w] + 1]
  BY <1>0 DEF ConnectPeer, ConnectSocket, rootVars, startupVars
<1>2. peer[w] \in 0..nOtherWorkers /\ peer \in [Workers -> 0..nOtherWorkers] /\ StartupType
  BY DEF StartupInv, StartupType
<1>3. k \in SocketIndexes /\ k # 0 /\ other \in Workers
  BY <1>0, <1>1, <1>2, PeerIndexes
<1>4. /\ sockets' \in [Workers -> [SocketIndexes -> Ends]] /\ sockets'[w][k] = other
      /\ \A v \in Workers : \A l \in SocketIndexes :
           v # w \/ l # k => sockets'[v][l] = sockets[v][l]
  BY <1>1, <1>2, <1>3, StartupConstants DEF StartupType, Ends
<1>5. peer' \in [Workers -> 0..nOtherWorkers]
  BY <1>1, <1>2, StartupConstants
<1>6. connecting' \in SUBSET (Nodes \X Workers)
  BY <1>1, <1>2, <1>3, StartupConstants DEF StartupType
<1>7. StartupType' /\ LoadOrder'
  BY <1>1, <1>4, <1>5, <1>6 DEF StartupInv, StartupType, LoadOrder
<1>8. ASSUME NEW v \in Workers PROVE EndsOf(v)' /\ Fresh(v)' /\ NotYet(v)' /\ Talk(v)'
  <2>1. EndsOf(v) /\ Fresh(v) /\ NotYet(v) /\ Talk(v)
    BY OfWorker
  <2>2. NotYet(v)'
    BY <1>1, <2>1 DEF NotYet
  <2>3. Fresh(v)'
    BY <1>1, <1>4, <2>1 DEF Fresh
  <2>4. Talk(v)'
    BY <1>1, <1>3, <1>4, <2>1, TalkFrame, StartupConstants
  <2>5. <<ROOT, v>> \in connecting' <=> <<ROOT, v>> \in connecting
    BY <1>1, StartupConstants
  <2>6. \A l \in SocketIndexes : sockets'[v][l] = ROOT => sockets[v][l] = ROOT
    BY <1>3, <1>4, StartupConstants
  <2>7. EndsOf(v)'
    BY <1>1, <2>1, <2>5, <2>6 DEF EndsOf, Live, InBacklog
  <2> QED
    BY <2>2, <2>3, <2>4, <2>7
<1> QED
  BY <1>7, <1>8, WorkerByWorker

\* Dead ends are known for what they are, and a root's end is not among a worker's.
LEMMA LostEnds ==
    ASSUME StartupType, NEW S, NEW w \in Workers, LoseEnds(S, w)
    PROVE  /\ rootSockets' \in [Workers -> Workers \cup {NoNode, GONE}]
           /\ sockets' \in [Workers -> [SocketIndexes -> Ends]]
           /\ \A v \in Workers \ {w} : rootSockets'[v] = rootSockets[v]
           /\ rootSockets'[w] = IF ROOT \in S /\ rootSockets[w] = w THEN GONE ELSE rootSockets[w]
           /\ \A v \in Workers : \A k \in SocketIndexes :
                /\ sockets'[v][k] = IF v \in S /\ sockets[v][k] = w THEN GONE ELSE sockets[v][k]
                /\ sockets'[v][k] = ROOT <=> sockets[v][k] = ROOT
                /\ sockets[v][k] = NoNode => sockets'[v][k] = NoNode
<1>0. w \in Int /\ w >= 1 /\ ROOT = 0 /\ GONE = -2 /\ NoNode = -1
  BY StartupConstants
<1>1. /\ rootSockets' \in [Workers -> Workers \cup {NoNode, GONE}]
      /\ \A v \in Workers \ {w} : rootSockets'[v] = rootSockets[v]
      /\ rootSockets'[w] = IF ROOT \in S /\ rootSockets[w] = w THEN GONE ELSE rootSockets[w]
  BY DEF LoseEnds, StartupType
<1>2. \A v \in Workers : \A k \in SocketIndexes :
        sockets'[v][k] = IF v \in S /\ sockets[v][k] = w THEN GONE ELSE sockets[v][k]
  BY DEF LoseEnds
<1>3. sockets' \in [Workers -> [SocketIndexes -> Ends]]
  <2>1. \A v \in Workers : \A k \in SocketIndexes : sockets[v][k] \in Ends /\ GONE \in Ends
    BY DEF StartupType, Ends
  <2> QED
    BY <2>1 DEF LoseEnds
<1>4. ASSUME NEW v \in Workers, NEW k \in SocketIndexes
      PROVE  /\ sockets'[v][k] = ROOT <=> sockets[v][k] = ROOT
             /\ sockets[v][k] = NoNode => sockets'[v][k] = NoNode
  <2>1. \/ sockets'[v][k] = sockets[v][k]
        \/ sockets[v][k] = w /\ sockets'[v][k] = GONE
    BY <1>2
  <2> QED
    BY <1>0, <2>1
<1> QED
  BY <1>1, <1>2, <1>3, <1>4

\* serve() returns: the connections it has not accepted are closed.
LEMMA ServeStep ==
    ASSUME StartupInv, NEW w \in Workers, Serve(w), UNCHANGED startupVars
    PROVE  StartupInv'
<1>0. /\ UNCHANGED <<rootPc, rootAt, acks, fromRoot, peer, crashes, layout, loadAt, connecting>>
      /\ pc[w] = "peers" /\ pc' = [pc EXCEPT ![w] = "served"] /\ LoseEnds(Waiting(w), w)
      /\ backlog' = [backlog EXCEPT ![w] = <<>>] /\ StartupType
  BY DEF Serve, Goto, rootVars, startupVars, StartupInv
<1>1. /\ rootSockets' \in [Workers -> Workers \cup {NoNode, GONE}]
      /\ sockets' \in [Workers -> [SocketIndexes -> Ends]]
      /\ \A v \in Workers \ {w} : rootSockets'[v] = rootSockets[v]
      /\ rootSockets'[w] = IF ROOT \in Waiting(w) /\ rootSockets[w] = w THEN GONE ELSE rootSockets[w]
      /\ \A v \in Workers : \A k \in SocketIndexes :
           /\ sockets'[v][k] = ROOT <=> sockets[v][k] = ROOT
           /\ sockets[v][k] = NoNode => sockets'[v][k] = NoNode
  BY <1>0, LostEnds
<1>2. /\ pc' \in [Workers -> Pcs] /\ pc'[w] = "served"
      /\ \A v \in Workers \ {w} : pc'[v] = pc[v]
  BY <1>0 DEF StartupType, Pcs
<1>3. /\ backlog' \in [Workers -> Seq(Nodes \cup {GONE})] /\ Len(backlog'[w]) = 0
      /\ \A v \in Workers \ {w} : backlog'[v] = backlog[v]
  BY <1>0 DEF StartupType
<1>4. StartupType' /\ LoadOrder'
  BY <1>0, <1>1, <1>2, <1>3 DEF StartupInv, StartupType, LoadOrder
<1>5. ROOT \in Waiting(w) => InBacklog(w, ROOT)
  <2>1. DOMAIN backlog[w] = 1..Len(backlog[w])
    BY <1>0, LenProperties DEF StartupType
  <2> QED
    BY <2>1 DEF Waiting, InBacklog
<1>6. ASSUME NEW v \in Workers \ {w} PROVE EndsOf(v)' /\ Fresh(v)' /\ NotYet(v)' /\ Talk(v)'
  <2>1. EndsOf(v) /\ Fresh(v) /\ NotYet(v) /\ Talk(v) /\ v \in Workers /\ v # w
    BY <1>6, OfWorker
  <2>2. NotYet(v)'
    BY <1>0, <1>1, <2>1 DEF NotYet
  <2>3. Fresh(v)'
    BY <1>0, <1>1, <1>2, <2>1 DEF Fresh
  <2>4. Talk(v)'
    BY <1>0, <1>1, <1>2, <2>1, TalkFrame, StartupConstants
  <2>5. EndsOf(v)'
    BY <1>0, <1>1, <1>3, <2>1, EndsFrame
  <2> QED
    BY <2>2, <2>3, <2>4, <2>5
<1>7. EndsOf(w)' /\ Fresh(w)' /\ NotYet(w)' /\ Talk(w)'
  <2>1. EndsOf(w) /\ Fresh(w) /\ NotYet(w) /\ Talk(w) /\ w \in Workers
    BY OfWorker
  <2>2. Fresh(w)'
    BY <1>2 DEF Fresh
  <2>3. ~InBacklog(w, ROOT)'
    BY <1>3 DEF InBacklog
  <2>4. CASE ROOT \in Waiting(w) /\ rootSockets[w] = w
    <3>1. rootSockets'[w] = GONE /\ GONE # w /\ GONE # NoNode /\ w # NoNode
      BY <1>1, <2>4, StartupConstants
    <3>2. Live(w) /\ <<ROOT, w>> \notin connecting /\ \A k \in SocketIndexes : sockets[w][k] # ROOT
      BY <1>5, <2>1, <2>4 DEF EndsOf
    <3>3. NotYet(w)'
      BY <1>0, <2>1, <3>1, <3>2 DEF NotYet, Live
    <3>4. Talk(w)'
      BY <3>1 DEF Talk, Live
    <3>5. EndsOf(w)'
      BY <1>0, <1>1, <1>3, <2>3, <3>2 DEF EndsOf, Live
    <3> QED
      BY <2>2, <3>3, <3>4, <3>5
  <2>5. CASE ~(ROOT \in Waiting(w) /\ rootSockets[w] = w)
    <3>1. rootSockets'[w] = rootSockets[w]
      BY <1>1, <2>5
    <3>2. NotYet(w)'
      BY <1>0, <2>1, <3>1 DEF NotYet
    <3>3. EndsOf(w)'
      <4>1. \A i, j \in 1..Len(backlog'[w]) : backlog'[w][i] = ROOT /\ backlog'[w][j] = ROOT => i = j
        BY <1>3
      <4>2. \A k \in SocketIndexes : sockets'[w][k] = ROOT =>
              Live(w)' /\ (<<ROOT, w>> \notin connecting)' /\ ~InBacklog(w, ROOT)'
        BY <1>0, <1>1, <2>1, <2>3, <3>1 DEF EndsOf, Live
      <4> QED
        BY <1>0, <2>1, <2>3, <3>1, <4>1, <4>2 DEF EndsOf, Live
    <3>4. Talk(w)'
      <4>1. Live(w)' <=> Live(w)
        BY <3>1 DEF Live
      <4>2. Heard(w)' <=> Heard(w)
        BY <1>0 DEF Heard
      <4>3. sockets'[w][0] = ROOT <=> sockets[w][0] = ROOT
        BY <1>1, StartupConstants
      <4>4. Stage(w)' = Stage(w)
        BY <1>0 DEF Stage
      <4>5. ASSUME Live(w), Heard(w) PROVE Talk(w)'
        <5>1. Said(w, Stage(w)) /\ Stage(w) \in {"ready", "netAck"}
          BY <1>0, <2>1, <4>5, OfWorker DEF Talk, Said, Stage, RootPcs
        <5>2. Said(w, Stage(w))'
          BY <1>0, <1>2, <4>4, <5>1 DEF Said, None, One, Two
        <5> QED
          BY <2>1, <4>1, <4>2, <4>3, <4>5, <5>2 DEF Talk
      <4>6. ASSUME Live(w), ~Heard(w) PROVE Talk(w)'
        <5>1. w \notin acks /\ sockets[w][0] # ROOT
          BY <1>0, <2>1, <4>6 DEF Talk, Hello
        <5> QED
          BY <1>0, <4>2, <4>3, <4>6, <5>1 DEF Talk, Hello
      <4> QED
        BY <4>1, <4>5, <4>6 DEF Talk
    <3> QED
      BY <2>2, <3>2, <3>3, <3>4
  <2> QED
    BY <2>4, <2>5
<1> QED
  BY <1>4, <1>6, <1>7, WorkerByWorker

\* A connection enters the backlog of a listening worker.
LEMMA ArrivesInBacklog ==
    ASSUME StartupInv, NEW from \in Nodes, NEW to \in Workers, ConnectionArrives(from, to),
           Listening(to), UNCHANGED startupVars
    PROVE  StartupInv'
<1>0. /\ UNCHANGED <<rootPc, rootAt, acks, fromRoot, pc, peer, crashes, layout, loadAt, rootSockets,
                     sockets>>
      /\ <<from, to>> \in connecting /\ connecting' = connecting \ {<<from, to>>}
      /\ backlog' = [backlog EXCEPT ![to] = Append(backlog[to], from)] /\ StartupType
  BY DEF ConnectionArrives, rootVars, startupVars, StartupInv
<1>1. PICK s, t : s = backlog[to] /\ t = Append(s, from)
  OBVIOUS
<1>2. /\ s \in Seq(Nodes \cup {GONE}) /\ t \in Seq(Nodes \cup {GONE}) /\ Len(s) \in Nat
      /\ Len(t) = Len(s) + 1 /\ t[Len(s) + 1] = from
      /\ \A i \in 1..Len(s) : t[i] = s[i]
  <2>1. s \in Seq(Nodes \cup {GONE}) /\ from \in Nodes \cup {GONE}
    BY <1>0, <1>1 DEF StartupType
  <2>2. t \in Seq(Nodes \cup {GONE}) /\ Len(t) = Len(s) + 1 /\ t[Len(s) + 1] = from
    BY <1>1, <2>1, AppendProperties
  <2>3. \A i \in 1..Len(s) : t[i] = s[i]
    BY <1>1, <2>1, AppendProperties
  <2> QED
    BY <2>1, <2>2, <2>3, LenProperties
<1>3. /\ backlog' \in [Workers -> Seq(Nodes \cup {GONE})] /\ backlog'[to] = t
      /\ \A v \in Workers \ {to} : backlog'[v] = backlog[v]
  BY <1>0, <1>1, <1>2 DEF StartupType
<1>4. StartupType' /\ LoadOrder'
  BY <1>0, <1>3 DEF StartupInv, StartupType, LoadOrder
<1>5. ASSUME NEW v \in Workers PROVE Fresh(v)' /\ NotYet(v)' /\ Talk(v)'
  <2>1. Fresh(v) /\ NotYet(v) /\ Talk(v)
    BY OfWorker
  <2>2. Fresh(v)' /\ NotYet(v)'
    BY <1>0, <2>1 DEF Fresh, NotYet
  <2>3. Talk(v)'
    BY <1>0, <2>1, TalkFrame
  <2> QED
    BY <2>2, <2>3
<1>6. ASSUME NEW v \in Workers \ {to} PROVE EndsOf(v)'
  <2>1. EndsOf(v) /\ v \in Workers /\ v # to
    BY <1>6, OfWorker
  <2> QED
    BY <1>0, <1>3, <2>1, EndsFrame
<1>7. EndsOf(to)'
  <2>0. EndsOf(to)
    BY OfWorker
  <2>1. CASE from # ROOT
    <3>1. <<ROOT, to>> \in connecting' <=> <<ROOT, to>> \in connecting
      BY <1>0, <2>1
    <3>2. \A i \in 1..Len(t) : t[i] = ROOT => i \in 1..Len(s) /\ s[i] = ROOT
      BY <1>2, <2>1
    <3>3. InBacklog(to, ROOT)' => InBacklog(to, ROOT)
      BY <1>1, <1>3, <3>2 DEF InBacklog
    <3>4. \A i, j \in 1..Len(t) : t[i] = ROOT /\ t[j] = ROOT => i = j
      BY <1>1, <2>0, <3>2 DEF EndsOf
    <3>5. \A k \in SocketIndexes : sockets'[to][k] = ROOT =>
            Live(to)' /\ (<<ROOT, to>> \notin connecting)' /\ ~InBacklog(to, ROOT)'
      BY <1>0, <2>0, <3>1, <3>3 DEF EndsOf, Live
    <3> QED
      BY <1>0, <1>3, <2>0, <3>1, <3>3, <3>4, <3>5 DEF EndsOf, Live
  <2>2. CASE from = ROOT
    <3>1. <<ROOT, to>> \notin connecting' /\ <<ROOT, to>> \in connecting
      BY <1>0, <2>2
    <3>2. Live(to) /\ ~InBacklog(to, ROOT) /\ \A k \in SocketIndexes : sockets[to][k] # ROOT
      BY <2>0, <3>1 DEF EndsOf
    <3>3. \A i \in 1..Len(t) : t[i] = ROOT => i = Len(s) + 1
      BY <1>1, <1>2, <3>2 DEF InBacklog
    <3>4. \A i, j \in 1..Len(t) : t[i] = ROOT /\ t[j] = ROOT => i = j
      BY <3>3
    <3> QED
      BY <1>0, <1>3, <3>1, <3>2, <3>4 DEF EndsOf, Live
  <2> QED
    BY <2>1, <2>2
<1> QED
  BY <1>4, <1>5, <1>6, <1>7, WorkerByWorker

\* A worker that does not listen refuses a connection.
LEMMA ArrivesTooLate ==
    ASSUME StartupInv, NEW from \in Nodes, NEW to \in Workers, ConnectionArrives(from, to),
           ~Listening(to), UNCHANGED startupVars
    PROVE  StartupInv'
<1>0. /\ UNCHANGED <<rootPc, rootAt, acks, fromRoot, pc, peer, crashes, layout, loadAt, backlog>>
      /\ <<from, to>> \in connecting /\ connecting' = connecting \ {<<from, to>>}
      /\ LoseEnds({from}, to) /\ StartupType
  BY DEF ConnectionArrives, rootVars, startupVars, StartupInv
<1>1. /\ rootSockets' \in [Workers -> Workers \cup {NoNode, GONE}]
      /\ sockets' \in [Workers -> [SocketIndexes -> Ends]]
      /\ \A v \in Workers \ {to} : rootSockets'[v] = rootSockets[v]
      /\ rootSockets'[to] = IF ROOT \in {from} /\ rootSockets[to] = to THEN GONE ELSE rootSockets[to]
      /\ \A v \in Workers : \A k \in SocketIndexes :
           /\ sockets'[v][k] = ROOT <=> sockets[v][k] = ROOT
           /\ sockets[v][k] = NoNode => sockets'[v][k] = NoNode
  BY <1>0, LostEnds
<1>2. StartupType' /\ LoadOrder'
  BY <1>0, <1>1 DEF StartupInv, StartupType, LoadOrder
<1>3. ASSUME NEW v \in Workers, rootSockets'[v] = rootSockets[v],
             <<ROOT, v>> \in connecting' <=> <<ROOT, v>> \in connecting
      PROVE  EndsOf(v)' /\ Fresh(v)' /\ NotYet(v)' /\ Talk(v)'
  <2>1. EndsOf(v) /\ Fresh(v) /\ NotYet(v) /\ Talk(v)
    BY OfWorker
  <2>2. NotYet(v)'
    BY <1>0, <1>3, <2>1 DEF NotYet
  <2>3. Fresh(v)'
    BY <1>0, <1>1, <2>1 DEF Fresh
  <2>4. Talk(v)'
    BY <1>0, <1>1, <1>3, <2>1, TalkFrame, StartupConstants
  <2>5. EndsOf(v)'
    BY <1>0, <1>1, <1>3, <2>1, EndsFrame
  <2> QED
    BY <2>2, <2>3, <2>4, <2>5
<1>4. ASSUME from = ROOT PROVE EndsOf(to)' /\ Fresh(to)' /\ NotYet(to)' /\ Talk(to)'
  <2>1. EndsOf(to) /\ Fresh(to) /\ NotYet(to)
    BY OfWorker
  <2>2. <<ROOT, to>> \notin connecting' /\ <<ROOT, to>> \in connecting
    BY <1>0, <1>4
  <2>3. Live(to) /\ ~InBacklog(to, ROOT) /\ \A k \in SocketIndexes : sockets[to][k] # ROOT
    BY <2>1, <2>2 DEF EndsOf
  <2>4. rootSockets'[to] = GONE /\ GONE # to /\ GONE # NoNode /\ to # NoNode
    BY <1>1, <1>4, <2>3, StartupConstants DEF Live
  <2>5. NotYet(to)'
    BY <1>0, <2>1, <2>3, <2>4 DEF NotYet, Live
  <2>6. Fresh(to)'
    BY <1>0, <1>1, <2>1 DEF Fresh
  <2>7. Talk(to)'
    BY <2>4 DEF Talk, Live
  <2>8. ~InBacklog(to, ROOT)'
    BY <1>0, <2>3 DEF InBacklog
  <2>9. \A i, j \in 1..Len(backlog'[to]) : backlog'[to][i] = ROOT /\ backlog'[to][j] = ROOT => i = j
    BY <1>0, <2>1 DEF EndsOf
  <2>10. EndsOf(to)'
    BY <1>1, <2>2, <2>3, <2>8, <2>9 DEF EndsOf
  <2> QED
    BY <2>5, <2>6, <2>7, <2>10
<1>5. ASSUME NEW v \in Workers PROVE EndsOf(v)' /\ Fresh(v)' /\ NotYet(v)' /\ Talk(v)'
  <2>1. CASE v = to /\ from = ROOT
    BY <1>4, <2>1
  <2>2. CASE ~(v = to /\ from = ROOT)
    <3>1. rootSockets'[v] = rootSockets[v] /\ (<<ROOT, v>> \in connecting' <=> <<ROOT, v>> \in connecting)
      BY <1>0, <1>1, <2>2
    <3> QED
      BY <1>3, <3>1
  <2> QED
    BY <2>1, <2>2
<1> QED
  BY <1>2, <1>5, WorkerByWorker

\* A worker closes everything and goes round its loop, in the middle of whatever.
LEMMA RelistenStep ==
    ASSUME StartupInv, NEW w \in Workers, Relisten(w), crashes' \in 0..maxCrashes,
           UNCHANGED <<rootPc, rootAt, acks, layout, loadAt>>
    PROVE  StartupInv'
<1>0. /\ connecting' = {c \in connecting : c[1] # w}
      /\ backlog' = [v \in Workers |-> IF v = w THEN <<>> ELSE Closed(backlog[v], w)]
      /\ rootSockets' = [rootSockets EXCEPT ![w] =
           IF rootSockets[w] = w /\ <<ROOT, w>> \notin connecting THEN GONE ELSE rootSockets[w]]
      /\ sockets' = [v \in Workers |-> [k \in SocketIndexes |->
           IF v = w THEN NoNode
           ELSE IF sockets[v][k] = w /\ <<v, w>> \notin connecting THEN GONE
           ELSE sockets[v][k]]]
      /\ pc' = [pc EXCEPT ![w] = "starting"]
      /\ peer' = [peer EXCEPT ![w] = 0]
      /\ fromRoot' = [fromRoot EXCEPT ![w] = <<>>] /\ StartupType
  BY DEF Relisten, HangUp, Goto, Closed, StartupInv
<1>1. w \in Int /\ w >= 1 /\ w # ROOT /\ ROOT = 0 /\ GONE = -2 /\ NoNode = -1 /\ nOtherWorkers \in Nat
  BY StartupConstants
<1>2. /\ pc' \in [Workers -> Pcs] /\ pc'[w] = "starting"
      /\ \A v \in Workers \ {w} : pc'[v] = pc[v]
  BY <1>0 DEF StartupType, Pcs
<1>3. /\ fromRoot' \in [Workers -> Seq(Messages)] /\ fromRoot'[w] = <<>>
      /\ \A v \in Workers \ {w} : fromRoot'[v] = fromRoot[v]
  BY <1>0 DEF StartupType
<1>4. /\ rootSockets' \in [Workers -> Workers \cup {NoNode, GONE}]
      /\ \A v \in Workers \ {w} : rootSockets'[v] = rootSockets[v]
      /\ rootSockets'[w] = IF rootSockets[w] = w /\ <<ROOT, w>> \notin connecting THEN GONE
                           ELSE rootSockets[w]
  BY <1>0 DEF StartupType
<1>5. /\ sockets' \in [Workers -> [SocketIndexes -> Ends]]
      /\ \A k \in SocketIndexes : sockets'[w][k] = NoNode
      /\ \A v \in Workers \ {w} : \A k \in SocketIndexes :
           /\ sockets'[v][k] = ROOT <=> sockets[v][k] = ROOT
           /\ sockets[v][k] = NoNode => sockets'[v][k] = NoNode
  <2>1. \A v \in Workers : \A k \in SocketIndexes :
          sockets[v][k] \in Ends /\ GONE \in Ends /\ NoNode \in Ends
    BY <1>0 DEF StartupType, Ends
  <2>2. sockets' \in [Workers -> [SocketIndexes -> Ends]]
    BY <1>0, <2>1
  <2>3. \A v \in Workers : \A k \in SocketIndexes :
          sockets'[v][k] = IF v = w THEN NoNode
                           ELSE IF sockets[v][k] = w /\ <<v, w>> \notin connecting THEN GONE
                           ELSE sockets[v][k]
    BY <1>0
  <2>4. ASSUME NEW v \in Workers \ {w}, NEW k \in SocketIndexes
        PROVE  /\ sockets'[v][k] = ROOT <=> sockets[v][k] = ROOT
               /\ sockets[v][k] = NoNode => sockets'[v][k] = NoNode
    <3>1. sockets'[v][k] = IF sockets[v][k] = w /\ <<v, w>> \notin connecting THEN GONE
                           ELSE sockets[v][k]
      BY <2>3
    <3> QED
      BY <1>1, <3>1
  <2> QED
    BY <2>2, <2>3, <2>4
<1>6. ASSUME NEW v \in Workers \ {w}
      PROVE  /\ backlog'[v] \in Seq(Nodes \cup {GONE}) /\ Len(backlog'[v]) = Len(backlog[v])
             /\ \A i \in 1..Len(backlog[v]) : backlog'[v][i] = ROOT => backlog[v][i] = ROOT
  <2>1. backlog'[v] = Closed(backlog[v], w) /\ backlog[v] \in Seq(Nodes \cup {GONE})
    BY <1>0 DEF StartupType
  <2>2. /\ Closed(backlog[v], w) \in Seq(Nodes \cup {GONE})
        /\ Len(Closed(backlog[v], w)) = Len(backlog[v])
        /\ \A i \in 1..Len(backlog[v]) :
             Closed(backlog[v], w)[i] = IF backlog[v][i] = w THEN GONE ELSE backlog[v][i]
    BY <2>1, ClosedOf
  <2> QED
    BY <1>1, <2>1, <2>2
<1>7. backlog' \in [Workers -> Seq(Nodes \cup {GONE})] /\ backlog'[w] = <<>>
  <2>1. backlog'[w] = <<>>
    BY <1>0
  <2>2. ASSUME NEW v \in Workers PROVE backlog'[v] \in Seq(Nodes \cup {GONE})
    <3>1. CASE v = w
      BY <2>1, <3>1, EmptySeq
    <3>2. CASE v # w
      BY <1>6, <3>2
    <3> QED
      BY <3>1, <3>2
  <2>3. backlog' = [v \in Workers |-> backlog'[v]]
    BY <1>0
  <2> QED
    BY <2>1, <2>2, <2>3
<1>8. peer' \in [Workers -> 0..nOtherWorkers] /\ connecting' \in SUBSET (Nodes \X Workers)
  BY <1>0, <1>1 DEF StartupType
<1>9. \A v \in Workers : <<ROOT, v>> \in connecting' <=> <<ROOT, v>> \in connecting
  BY <1>0, <1>1
<1>10. StartupType' /\ LoadOrder'
  BY <1>0, <1>2, <1>3, <1>4, <1>5, <1>7, <1>8 DEF StartupInv, StartupType, LoadOrder
<1>11. ASSUME NEW v \in Workers \ {w} PROVE EndsOf(v)' /\ Fresh(v)' /\ NotYet(v)' /\ Talk(v)'
  <2>1. EndsOf(v) /\ Fresh(v) /\ NotYet(v) /\ Talk(v) /\ v \in Workers /\ v # w
    BY <1>11, OfWorker
  <2>2. NotYet(v)'
    BY <1>4, <2>1 DEF NotYet
  <2>3. Fresh(v)'
    BY <1>2, <1>3, <1>5, <2>1 DEF Fresh
  <2>4. Talk(v)'
    BY <1>2, <1>3, <1>4, <1>5, <2>1, TalkFrame, StartupConstants
  <2>5. EndsOf(v)'
    BY <1>4, <1>5, <1>6, <1>9, <2>1, EndsFrame
  <2> QED
    BY <2>2, <2>3, <2>4, <2>5
<1>12. EndsOf(w)' /\ Fresh(w)' /\ NotYet(w)' /\ Talk(w)'
  <2>1. EndsOf(w) /\ NotYet(w) /\ Talk(w)
    BY OfWorker
  <2>2. Fresh(w)'
    BY <1>3, <1>5 DEF Fresh
  <2>3. NotYet(w)'
    BY <1>1, <1>4, <2>1 DEF NotYet
  <2>4. Live(w)' => Live(w) /\ <<ROOT, w>> \in connecting
    BY <1>1, <1>4 DEF Live
  <2>5. sockets'[w][0] # ROOT /\ 0 \in SocketIndexes
    BY <1>1, <1>5, StartupConstants
  <2>6. Talk(w)'
    <3>1. Live(w)' => ~Heard(w) /\ w \notin acks
      BY <2>1, <2>4, <2>5 DEF EndsOf, Talk, Hello
    <3>2. Live(w)' => ~Heard(w)'
      BY <3>1 DEF Heard
    <3> QED
      BY <2>5, <3>1, <3>2 DEF Talk, Hello
  <2>7. ~InBacklog(w, ROOT)'
    BY <1>7 DEF InBacklog
  <2>8. <<ROOT, w>> \in connecting' => Live(w)'
    BY <1>4, <1>9, <2>1 DEF EndsOf, Live
  <2>9. \A i, j \in 1..Len(backlog'[w]) : backlog'[w][i] = ROOT /\ backlog'[w][j] = ROOT => i = j
    BY <2>7 DEF InBacklog
  <2>10. EndsOf(w)'
    BY <1>1, <1>5, <2>7, <2>8, <2>9 DEF EndsOf
  <2> QED
    BY <2>2, <2>3, <2>6, <2>10
<1> QED
  BY <1>10, <1>11, <1>12, WorkerByWorker

-----------------------------------------------------------------------------
(* Steps of the root.                                                      *)

\* The root's process ends, and every worker it was connected to has a dead end.
LEMMA RootHangUpStep ==
    ASSUME StartupInv, RootHangUp, crashes' \in 0..maxCrashes,
           UNCHANGED <<rootAt, fromRoot, pc, peer, layout, loadAt>>
    PROVE  StartupInv'
<1>0. /\ rootPc' = "failed" /\ connecting' = {c \in connecting : c[1] # ROOT}
      /\ backlog' = [v \in Workers |-> Closed(backlog[v], ROOT)]
      /\ rootSockets' = [w \in Workers |-> NoNode]
      /\ sockets' = [v \in Workers |-> [k \in SocketIndexes |->
                       IF sockets[v][k] = ROOT THEN GONE ELSE sockets[v][k]]]
      /\ acks' = {} /\ StartupType
  BY DEF RootHangUp, Closed, StartupInv
<1>1. ROOT = 0 /\ GONE = -2 /\ NoNode = -1
  BY StartupConstants
<1>2. ASSUME NEW v \in Workers
      PROVE  backlog'[v] \in Seq(Nodes \cup {GONE}) /\ ~InBacklog(v, ROOT)'
  <2>1. backlog'[v] = Closed(backlog[v], ROOT) /\ backlog[v] \in Seq(Nodes \cup {GONE})
    BY <1>0 DEF StartupType
  <2>2. /\ Closed(backlog[v], ROOT) \in Seq(Nodes \cup {GONE})
        /\ Len(Closed(backlog[v], ROOT)) = Len(backlog[v])
        /\ \A i \in 1..Len(backlog[v]) :
             Closed(backlog[v], ROOT)[i] = IF backlog[v][i] = ROOT THEN GONE ELSE backlog[v][i]
    BY <2>1, ClosedOf
  <2> QED
    BY <1>1, <2>1, <2>2 DEF InBacklog
<1>3. backlog' \in [Workers -> Seq(Nodes \cup {GONE})]
  <2>1. backlog' = [v \in Workers |-> backlog'[v]]
    BY <1>0
  <2> QED
    BY <1>2, <2>1
<1>4. \A v \in Workers : \A k \in SocketIndexes :
        sockets[v][k] \in Ends /\ GONE \in Ends /\ NoNode \in Ends
  BY <1>0 DEF StartupType, Ends
<1>5. sockets' \in [Workers -> [SocketIndexes -> Ends]]
  BY <1>0, <1>4
<1>6. \A v \in Workers : \A k \in SocketIndexes :
        sockets'[v][k] # ROOT /\ (sockets[v][k] = NoNode => sockets'[v][k] = NoNode)
  BY <1>0, <1>1
<1>7. StartupType' /\ LoadOrder'
  BY <1>0, <1>3, <1>5 DEF StartupType, LoadOrder, RootPcs
<1>8. ASSUME NEW v \in Workers PROVE EndsOf(v)' /\ Fresh(v)' /\ NotYet(v)' /\ Talk(v)'
  <2>1. Fresh(v)'
    BY <1>6, OfWorker DEF Fresh
  <2>2. NotYet(v)' /\ ~Live(v)'
    BY <1>0, <1>1, StartupConstants DEF NotYet, Live
  <2>3. Talk(v)'
    BY <2>2 DEF Talk
  <2>4. \A i, j \in 1..Len(backlog'[v]) : backlog'[v][i] = ROOT /\ backlog'[v][j] = ROOT => i = j
    BY <1>2 DEF InBacklog
  <2>5. (<<ROOT, v>> \notin connecting)'
    BY <1>0
  <2>6. EndsOf(v)'
    BY <1>2, <1>6, <2>4, <2>5 DEF EndsOf
  <2> QED
    BY <2>1, <2>2, <2>3, <2>6
<1> QED
  BY <1>7, <1>8, WorkerByWorker

\* What the root and v say to each other depends on the root only through its stage.
LEMMA TalkMoves ==
    ASSUME NEW v \in Workers, Talk(v), rootSockets'[v] = rootSockets[v], pc'[v] = pc[v],
           fromRoot'[v] = fromRoot[v], v \in acks' <=> v \in acks,
           sockets'[v][0] = sockets[v][0], Heard(v)' <=> Heard(v), Heard(v) => Stage(v)' = Stage(v)
    PROVE  Talk(v)'
<1>1. Heard(v) /\ Said(v, Stage(v)) => Said(v, Stage(v))'
  BY DEF Said, None, One, Two, OnlyWeights, WeightsThenEnd
<1>2. Hello(v) => Hello(v)'
  BY DEF Hello, None
<1> QED
  BY <1>1, <1>2 DEF Talk, Live

\* A step of the root in which no connection changes hands.
RootSpeaks ==
    /\ UNCHANGED <<rootSockets, connecting, backlog, sockets, pc, peer, crashes>>
    /\ rootPc' \in RootPcs /\ rootAt' \in Workers /\ acks' \in SUBSET acks
    /\ fromRoot' \in [Workers -> Seq(Messages)]
    /\ loadAt' \in 1..(nLoads + 1) /\ layout' \in Layouts \cup {NoLayout}
    /\ \A v \in Workers : fromRoot'[v] = fromRoot[v] \/ (Live(v) /\ Heard(v))

\* It is enough to look at what it says.
LEMMA RootSpeaksStep ==
    ASSUME StartupInv, RootSpeaks, LoadOrder', \A v \in Workers : NotYet(v)' /\ Talk(v)'
    PROVE  StartupInv'
<1>1. StartupType'
  BY DEF StartupInv, StartupType, RootSpeaks
<1>2. ASSUME NEW v \in Workers PROVE EndsOf(v)' /\ Fresh(v)'
  <2>0. /\ UNCHANGED <<rootSockets, connecting, backlog, sockets, pc>>
        /\ fromRoot'[v] = fromRoot[v] \/ (Live(v) /\ Heard(v))
    BY DEF RootSpeaks
  <2>1. EndsOf(v) /\ Fresh(v) /\ Talk(v)
    BY OfWorker
  <2>2. EndsOf(v)'
    BY <2>0, <2>1, EndsFrame
  <2>3. pc[v] \in {"starting", "listen"} => sockets[v][0] # ROOT
    BY <2>1, StartupConstants DEF Fresh
  <2>4. Fresh(v)'
    BY <2>0, <2>1, <2>3 DEF Fresh, Talk
  <2> QED
    BY <2>2, <2>4
<1> QED
  BY <1>1, <1>2, WorkerByWorker

\* Beyond the first ACKs NotYet asks nothing of the root.
LEMMA NotYetLater ==
    ASSUME StartupInv, RootSpeaks, rootPc' \notin {"connect", "ack", "failed"}, NEW v \in Workers
    PROVE  NotYet(v)'
BY OfWorker DEF NotYet, RootSpeaks

\* A message is written to one worker.
LEMMA Sent ==
    ASSUME StartupType, NEW w \in Workers, NEW m \in Messages, Send(w, m)
    PROVE  /\ fromRoot' \in [Workers -> Seq(Messages)]
           /\ \A v \in Workers \ {w} : fromRoot'[v] = fromRoot[v]
           /\ ~Live(w) => fromRoot'[w] = fromRoot[w]
           /\ Live(w) => /\ Len(fromRoot'[w]) = Len(fromRoot[w]) + 1
                         /\ fromRoot'[w][Len(fromRoot[w]) + 1] = m
                         /\ \A i \in 1..Len(fromRoot[w]) : fromRoot'[w][i] = fromRoot[w][i]
<1>1. CASE ~Live(w)
  BY <1>1 DEF Live, Send, StartupType
<1>2. CASE Live(w)
  <2>1. fromRoot' = [fromRoot EXCEPT ![w] = Append(fromRoot[w], m)]
    BY <1>2 DEF Live, Send
  <2>2. PICK s, t : s = fromRoot[w] /\ t = Append(s, m)
    OBVIOUS
  <2>3. s \in Seq(Messages)
    BY <2>2 DEF StartupType
  <2>4. /\ t \in Seq(Messages) /\ Len(t) = Len(s) + 1 /\ t[Len(s) + 1] = m
        /\ \A i \in 1..Len(s) : t[i] = s[i]
    BY <2>2, <2>3, AppendProperties
  <2>5. /\ fromRoot' \in [Workers -> Seq(Messages)] /\ fromRoot'[w] = t
        /\ \A v \in Workers \ {w} : fromRoot'[v] = fromRoot[v]
    BY <2>1, <2>2, <2>4 DEF StartupType
  <2> QED
    BY <1>2, <2>2, <2>4, <2>5
<1> QED
  BY <1>1, <1>2

\* The root starts to connect to the next worker.
LEMMA RootConnectStep ==
    ASSUME StartupInv, RootConnect, UNCHANGED startupVars
    PROVE  StartupInv'
<1>0. /\ UNCHANGED <<rootAt, acks, fromRoot, pc, peer, backlog, sockets, crashes, layout, loadAt>>
      /\ rootPc = "connect" /\ rootPc' = "ack"
      /\ connecting' = connecting \cup {<<ROOT, rootAt>>}
      /\ rootSockets' = [rootSockets EXCEPT ![rootAt] = rootAt] /\ StartupType
  BY DEF RootConnect, ConnectSocket, startupVars, StartupInv
<1>1. PICK a \in Workers : a = rootAt /\ a \in Nat
  BY <1>0, StartupConstants DEF StartupType
<1>2. /\ rootSockets' \in [Workers -> Workers \cup {NoNode, GONE}] /\ rootSockets'[a] = a
      /\ \A v \in Workers \ {a} : rootSockets'[v] = rootSockets[v]
  BY <1>0, <1>1 DEF StartupType
<1>3. connecting' \in SUBSET (Nodes \X Workers)
  BY <1>0, <1>1, StartupConstants DEF StartupType
<1>4. StartupType' /\ LoadOrder'
  BY <1>0, <1>2, <1>3 DEF StartupInv, StartupType, LoadOrder, RootPcs
<1>5. ASSUME NEW v \in Workers PROVE Fresh(v)' /\ NotYet(v)'
  <2>1. Fresh(v) /\ NotYet(v) /\ v \in Nat
    BY OfWorker
  <2>2. a # NoNode
    BY <1>1, StartupConstants
  <2> QED
    BY <1>0, <1>1, <1>2, <2>1, <2>2 DEF Fresh, NotYet
<1>6. ASSUME NEW v \in Workers \ {a} PROVE EndsOf(v)' /\ Talk(v)'
  <2>1. EndsOf(v) /\ Talk(v) /\ v \in Workers /\ v # a
    BY <1>6, OfWorker
  <2>2. EndsOf(v)'
    BY <1>0, <1>1, <1>2, <2>1, EndsFrame
  <2>3. (Heard(v)' <=> Heard(v)) /\ Stage(v)' = Stage(v)
    BY <1>0 DEF Heard, Stage
  <2>4. Talk(v)'
    BY <1>0, <1>2, <2>1, <2>3, TalkMoves
  <2> QED
    BY <2>2, <2>4
<1>7. EndsOf(a)' /\ Talk(a)'
  <2>1. EndsOf(a) /\ NotYet(a)
    BY <1>1, OfWorker
  <2>2. rootSockets[a] = NoNode /\ a \notin acks /\ ~Live(a)
    BY <1>0, <1>1, <2>1, StartupConstants DEF NotYet, Live
  <2>3. ~InBacklog(a, ROOT) /\ \A k \in SocketIndexes : sockets[a][k] # ROOT
    BY <2>1, <2>2 DEF EndsOf
  <2>4. ~InBacklog(a, ROOT)' /\ Live(a)'
    BY <1>0, <1>2, <2>3 DEF InBacklog, Live
  <2>5. EndsOf(a)'
    BY <1>0, <1>1, <2>1, <2>3, <2>4 DEF EndsOf
  <2>6. ~Heard(a)'
    BY <1>0, <1>1 DEF Heard
  <2>7. Talk(a)'
    BY <1>0, <2>2, <2>3, <2>6, StartupConstants DEF Talk, Hello
  <2> QED
    BY <2>5, <2>7
<1>8. ASSUME NEW v \in Workers PROVE EndsOf(v)' /\ Talk(v)'
  <2>1. CASE v = a
    BY <1>7, <2>1
  <2>2. CASE v # a
    BY <1>6, <2>2
  <2> QED
    BY <2>1, <2>2
<1> QED
  BY <1>4, <1>5, <1>8, WorkerByWorker

\* The ACK of a handshake is read.
LEMMA RootReadAckStep ==
    ASSUME StartupInv, RootReadAck, UNCHANGED startupVars
    PROVE  StartupInv'
<1>0. /\ UNCHANGED <<rootSockets, connecting, backlog, sockets, fromRoot, pc, peer, crashes, layout,
                     loadAt>>
      /\ rootPc = "ack" /\ rootAt \in acks /\ acks' = acks \ {rootAt}
      /\ \/ rootAt < nWorkers /\ rootAt' = rootAt + 1 /\ rootPc' = "connect"
         \/ ~(rootAt < nWorkers) /\ rootAt' = 1 /\ rootPc' = "ready"
  BY DEF RootReadAck, ReadAck, netVars, startupVars
<1>1. PICK a \in Workers : a = rootAt /\ a \in 1..nWorkers /\ nWorkers \in Nat
  BY StartupConstants DEF StartupInv, StartupType
<1>2. RootSpeaks
  BY <1>0, <1>1, StartupConstants, SMTT(30)
    DEF RootSpeaks, StartupInv, StartupType, RootPcs, Workers
<1>3. LoadOrder'
  BY <1>0 DEF StartupInv, LoadOrder
<1>4. ASSUME NEW v \in Workers PROVE NotYet(v)'
  <2>1. NotYet(v) /\ v \in 1..nWorkers
    BY OfWorker, StartupConstants
  <2> QED
    BY <1>0, <1>1, <2>1 DEF NotYet
<1>5. ASSUME NEW v \in Workers, v # a PROVE Talk(v)'
  <2>1. Talk(v) /\ v \in 1..nWorkers
    BY OfWorker, StartupConstants
  <2>2. Heard(v)' <=> Heard(v)
    BY <1>0, <1>1, <1>5, <2>1 DEF Heard
  <2>3. Stage(v)' = Stage(v)
    BY <1>0, <1>1, <2>1 DEF Stage
  <2> QED
    BY <1>0, <1>1, <1>5, <2>1, <2>2, <2>3, TalkMoves
<1>6. Talk(a)'
  <2>1. Talk(a) /\ EndsOf(a) /\ ~Heard(a) /\ a \in acks
    BY <1>0, <1>1, OfWorker DEF Heard
  <2>2. Live(a) => sockets[a][0] = ROOT /\ pc[a] = "ready" /\ None(a)
    BY <2>1 DEF Talk, Hello
  <2>3. Heard(a)' /\ Stage(a)' = "acked"
    BY <1>0, <1>1 DEF Heard, Stage
  <2>4. Live(a) => Said(a, "acked")'
    BY <1>0, <1>1, <2>2 DEF Said, None
  <2> QED
    BY <1>0, <2>2, <2>3, <2>4 DEF Talk, Live
<1> QED
  BY <1>2, <1>3, <1>4, <1>5, <1>6, RootSpeaksStep

\* "root ready" is written to a worker.
LEMMA RootSendReadyStep ==
    ASSUME StartupInv, RootSendReady, UNCHANGED startupVars
    PROVE  StartupInv'
<1>0. /\ UNCHANGED <<rootSockets, connecting, backlog, sockets, acks, pc, peer, crashes, layout, loadAt>>
      /\ rootPc = "ready" /\ Send(rootAt, [kind |-> "ready"])
      /\ \/ rootAt < nWorkers /\ rootAt' = rootAt + 1 /\ rootPc' = "ready"
         \/ ~(rootAt < nWorkers) /\ rootAt' = 1 /\ rootPc' = "done"
  BY DEF RootSendReady, netVars, startupVars
<1>1. PICK a \in Workers : a = rootAt /\ a \in 1..nWorkers /\ nWorkers \in Nat
  BY StartupConstants DEF StartupInv, StartupType
<1>2. PICK m \in Messages : m = [kind |-> "ready"] /\ m.kind = "ready"
  BY MessageKinds
<1>3. /\ fromRoot' \in [Workers -> Seq(Messages)]
      /\ \A v \in Workers \ {a} : fromRoot'[v] = fromRoot[v]
      /\ ~Live(a) => fromRoot'[a] = fromRoot[a]
      /\ Live(a) => /\ Len(fromRoot'[a]) = Len(fromRoot[a]) + 1
                    /\ fromRoot'[a][Len(fromRoot[a]) + 1] = m
                    /\ \A i \in 1..Len(fromRoot[a]) : fromRoot'[a][i] = fromRoot[a][i]
  BY <1>0, <1>1, <1>2, Sent DEF StartupInv
<1>4. \A v \in Workers : Heard(v)' /\ Heard(v)
  BY <1>0 DEF Heard
<1>5. RootSpeaks
  <2>1. \A v \in Workers : fromRoot'[v] = fromRoot[v] \/ (Live(v) /\ Heard(v))
    BY <1>3, <1>4
  <2>2. rootAt' \in Workers
    BY <1>0, <1>1 DEF Workers
  <2> QED
    BY <1>0, <1>3, <2>1, <2>2 DEF RootSpeaks, StartupInv, StartupType, RootPcs
<1>6. LoadOrder'
  BY <1>0 DEF StartupInv, LoadOrder
<1>7. ASSUME NEW v \in Workers, v # a PROVE Talk(v)'
  <2>1. Talk(v) /\ v \in 1..nWorkers
    BY OfWorker, StartupConstants
  <2>2. Stage(v)' = Stage(v)
    BY <1>0, <1>1, <1>7, <2>1 DEF Stage
  <2> QED
    BY <1>0, <1>3, <1>4, <1>7, <2>1, <2>2, TalkMoves
<1>8. Talk(a)'
  <2>1. /\ Live(a) => sockets[a][0] = ROOT /\ Said(a, Stage(a))
        /\ None(a) <=> Len(fromRoot[a]) = 0
    BY <1>4, OfWorker DEF Talk
  <2>2. Stage(a) = "acked" /\ Stage(a)' = "ready"
    BY <1>0, <1>1 DEF Stage
  <2>3. ASSUME Live(a) PROVE Said(a, "ready")'
    <3>1. a \notin acks /\ pc[a] = "ready" /\ Len(fromRoot[a]) = 0
      BY <2>1, <2>2, <2>3 DEF Said
    <3>2. One(a, "ready")'
      BY <1>2, <1>3, <2>3, <3>1 DEF One
    <3> QED
      BY <1>0, <3>1, <3>2 DEF Said
  <2> QED
    BY <1>0, <1>4, <2>1, <2>2, <2>3 DEF Talk, Live
<1>9. \A v \in Workers : NotYet(v)'
  BY <1>0, <1>5, NotYetLater
<1> QED
  BY <1>5, <1>6, <1>7, <1>8, <1>9, RootSpeaksStep

\* The configuration of the network, or of the node, is written to a worker.
LEMMA RootWriteConfigStep ==
    ASSUME StartupInv, RootWriteConfig
    PROVE  StartupInv'
<1>0. /\ UNCHANGED <<rootSockets, connecting, backlog, sockets, acks, pc, peer, crashes, rootAt, loadAt>>
      /\ \/ rootPc = "done" /\ rootPc' = "netAck" /\ Send(rootAt, [kind |-> "net"])
         \/ rootPc = "node" /\ rootPc' = "nodeAck" /\ Send(rootAt, [kind |-> "node"])
      /\ layout' \in Layouts \/ layout' = layout
  BY DEF RootWriteConfig, netVars
<1>1. PICK a \in Workers : a = rootAt /\ a \in 1..nWorkers /\ nWorkers \in Nat
  BY StartupConstants DEF StartupInv, StartupType
<1>2. PICK k \in {"net", "node"} :
        /\ rootPc = (IF k = "net" THEN "done" ELSE "node") /\ Send(rootAt, [kind |-> k])
        /\ rootPc' = IF k = "net" THEN "netAck" ELSE "nodeAck"
  BY <1>0
<1>3. PICK m \in Messages : m = [kind |-> k] /\ m.kind = k
  BY MessageKinds
<1>4. /\ fromRoot' \in [Workers -> Seq(Messages)]
      /\ \A v \in Workers \ {a} : fromRoot'[v] = fromRoot[v]
      /\ ~Live(a) => fromRoot'[a] = fromRoot[a]
      /\ Live(a) => /\ Len(fromRoot'[a]) = Len(fromRoot[a]) + 1
                    /\ fromRoot'[a][Len(fromRoot[a]) + 1] = m
                    /\ \A i \in 1..Len(fromRoot[a]) : fromRoot'[a][i] = fromRoot[a][i]
  BY <1>1, <1>2, <1>3, Sent DEF StartupInv
<1>5. \A v \in Workers : Heard(v)' /\ Heard(v)
  BY <1>0 DEF Heard
<1>6. RootSpeaks
  <2>1. \A v \in Workers : fromRoot'[v] = fromRoot[v] \/ (Live(v) /\ Heard(v))
    BY <1>4, <1>5
  <2> QED
    BY <1>0, <1>4, <2>1 DEF RootSpeaks, StartupInv, StartupType, RootPcs
<1>7. LoadOrder'
  BY <1>0 DEF StartupInv, LoadOrder
<1>8. ASSUME NEW v \in Workers, v # a PROVE Talk(v)'
  <2>1. Talk(v) /\ v \in 1..nWorkers
    BY OfWorker, StartupConstants
  <2>2. Stage(v)' = Stage(v)
    BY <1>0, <1>1, <1>8, <2>1 DEF Stage
  <2> QED
    BY <1>0, <1>4, <1>5, <1>8, <2>1, <2>2, TalkMoves
<1>9. Talk(a)'
  <2>1. /\ Live(a) => sockets[a][0] = ROOT /\ Said(a, Stage(a))
        /\ None(a) <=> Len(fromRoot[a]) = 0
    BY <1>5, OfWorker DEF Talk
  <2>2. CASE k = "net"
    <3>1. Stage(a) = "ready" /\ Stage(a)' = "netAck"
      BY <1>0, <1>1, <1>2, <2>2 DEF Stage
    <3>2. ASSUME Live(a) PROVE Said(a, "netAck")'
      <4>1. /\ a \notin acks
            /\ \/ pc[a] = "ready" /\ One(a, "ready")
               \/ pc[a] \in {"peers", "served"} /\ Len(fromRoot[a]) = 0
        BY <2>1, <3>1, <3>2 DEF Said
      <4>2. One(a, "ready") => Two(a, "ready", "net")'
        BY <1>3, <1>4, <2>2, <3>2 DEF One, Two
      <4>3. Len(fromRoot[a]) = 0 => One(a, "net")'
        BY <1>3, <1>4, <2>2, <3>2 DEF One
      <4> QED
        BY <1>0, <4>1, <4>2, <4>3 DEF Said
    <3> QED
      BY <1>0, <1>5, <2>1, <3>1, <3>2 DEF Talk, Live
  <2>3. CASE k = "node"
    <3>1. Stage(a) = "node" /\ Stage(a)' = "nodeAck"
      BY <1>0, <1>1, <1>2, <2>3 DEF Stage
    <3>2. ASSUME Live(a) PROVE Said(a, "nodeAck")'
      <4>1. a \notin acks /\ pc[a] = "node" /\ Len(fromRoot[a]) = 0
        BY <2>1, <3>1, <3>2 DEF Said
      <4>2. One(a, "node")'
        BY <1>3, <1>4, <2>3, <3>2, <4>1 DEF One
      <4> QED
        BY <1>0, <4>1, <4>2 DEF Said
    <3> QED
      BY <1>0, <1>5, <2>1, <3>1, <3>2 DEF Talk, Live
  <2> QED
    BY <2>2, <2>3
<1>10. \A v \in Workers : NotYet(v)'
  BY <1>0, <1>6, NotYetLater
<1> QED
  BY <1>6, <1>7, <1>8, <1>9, <1>10, RootSpeaksStep

\* The ACK of a configuration is read.
LEMMA RootReadConfigAckStep ==
    ASSUME StartupInv, RootReadConfigAck
    PROVE  StartupInv'
<1>0. /\ UNCHANGED <<rootSockets, connecting, backlog, sockets, fromRoot, pc, peer, crashes, layout,
                     loadAt>>
      /\ rootAt \in acks /\ acks' = acks \ {rootAt}
      /\ \/ rootPc = "netAck" /\ rootPc' = "node" /\ rootAt' = rootAt
         \/ rootPc = "nodeAck" /\ rootAt < nWorkers /\ rootPc' = "done" /\ rootAt' = rootAt + 1
         \/ rootPc = "nodeAck" /\ rootAt = nWorkers /\ rootPc' = "load" /\ rootAt' = 1
  BY DEF RootReadConfigAck, ReadAck, netVars, startupVars
<1>1. PICK a \in Workers : a = rootAt /\ a \in 1..nWorkers /\ nWorkers \in Nat
  BY StartupConstants DEF StartupInv, StartupType
<1>2. RootSpeaks
  <2>1. rootAt' \in Workers
    BY <1>0, <1>1 DEF Workers
  <2> QED
    BY <1>0, <2>1 DEF RootSpeaks, StartupInv, StartupType, RootPcs
<1>3. LoadOrder'
  BY <1>0 DEF StartupInv, LoadOrder
<1>4. \A v \in Workers : Heard(v)' /\ Heard(v)
  BY <1>0 DEF Heard
<1>5. ASSUME NEW v \in Workers, v # a PROVE Talk(v)'
  <2>1. Talk(v) /\ v \in 1..nWorkers
    BY OfWorker, StartupConstants
  <2>2. Stage(v)' = Stage(v)
    BY <1>0, <1>1, <1>5, <2>1 DEF Stage
  <2> QED
    BY <1>0, <1>1, <1>4, <1>5, <2>1, <2>2, TalkMoves
<1>6. Talk(a)'
  <2>1. /\ Live(a) => sockets[a][0] = ROOT /\ Said(a, Stage(a))
        /\ None(a) <=> Len(fromRoot[a]) = 0
    BY <1>4, OfWorker DEF Talk
  <2>2. a \in acks /\ a \notin acks'
    BY <1>0, <1>1
  <2>3. CASE rootPc = "netAck"
    <3>1. Stage(a) = "netAck" /\ Stage(a)' = "node"
      BY <1>0, <1>1, <2>3 DEF Stage
    <3>2. Live(a) => Said(a, "node")'
      BY <1>0, <2>1, <2>2, <3>1 DEF Said, None
    <3> QED
      BY <1>0, <1>4, <2>1, <3>1, <3>2 DEF Talk, Live
  <2>4. CASE rootPc = "nodeAck"
    <3>1. Stage(a) = "nodeAck" /\ Stage(a)' = "loading"
      BY <1>0, <1>1, <2>4 DEF Stage
    <3>2. Live(a) => pc[a] = "weights" /\ Len(fromRoot[a]) = 0
      BY <2>1, <2>2, <3>1 DEF Said
    <3>3. Live(a) => Said(a, "loading")'
      BY <1>0, <2>2, <3>2 DEF Said, OnlyWeights
    <3> QED
      BY <1>0, <1>4, <2>1, <3>1, <3>3 DEF Talk, Live
  <2> QED
    BY <1>0, <2>3, <2>4
<1>7. \A v \in Workers : NotYet(v)'
  BY <1>0, <1>2, NotYetLater
<1> QED
  BY <1>2, <1>3, <1>5, <1>6, <1>7, RootSpeaksStep

\* A weight is dealt out.
LEMMA RootLoadStep ==
    ASSUME StartupInv, RootLoad
    PROVE  StartupInv'
<1>0. /\ UNCHANGED <<rootPc, rootAt, rootSockets, connecting, backlog, sockets, acks, pc, peer, crashes,
                     layout>>
      /\ rootPc = "load" /\ loadAt <= nLoads /\ loadAt' = loadAt + 1
      /\ fromRoot' = [w \in Workers |->
           IF w \in Targets(Loads[loadAt]) /\ rootSockets[w] = w
             THEN Append(fromRoot[w], WeightFor(w, Loads[loadAt]))
             ELSE fromRoot[w]]
  BY DEF RootLoad, rootVars, netVars
<1>1. loadAt \in 1..(nLoads + 1) /\ nLoads \in Nat /\ loadAt \in 1..nLoads /\ rootAt \in Workers
  BY <1>0, StartupConstants DEF StartupInv, StartupType
<1>2. rootAt = 1
  BY <1>0, <1>1, StartupConstants DEF StartupInv, LoadOrder
<1>3. layout.tpSize \in Nat \ {0}
  BY LayoutSizes DEF StartupInv, StartupType
<1>4. ASSUME NEW v \in Workers
      PROVE  /\ fromRoot'[v] \in Seq(Messages)
             /\ ~Live(v) => fromRoot'[v] = fromRoot[v]
             /\ \/ fromRoot'[v] = fromRoot[v]
                \/ /\ Len(fromRoot'[v]) = Len(fromRoot[v]) + 1
                   /\ fromRoot'[v][Len(fromRoot[v]) + 1].kind = "weight"
                   /\ \A i \in 1..Len(fromRoot[v]) : fromRoot'[v][i] = fromRoot[v][i]
  <2>1. PICK s, m : s = fromRoot[v] /\ m = WeightFor(v, Loads[loadAt])
    OBVIOUS
  <2>2. s \in Seq(Messages) /\ m \in Messages /\ m.kind = "weight"
    BY <1>1, <1>3, <2>1, OfWorker, MessageKinds, StartupConstants
  <2>3. /\ Append(s, m) \in Seq(Messages) /\ Len(Append(s, m)) = Len(s) + 1
        /\ Append(s, m)[Len(s) + 1] = m /\ \A i \in 1..Len(s) : Append(s, m)[i] = s[i]
    BY <2>2, AppendProperties
  <2>4. fromRoot'[v] = IF v \in Targets(Loads[loadAt]) /\ Live(v) THEN Append(s, m) ELSE s
    BY <1>0, <2>1 DEF Live
  <2> QED
    BY <2>1, <2>2, <2>3, <2>4
<1>5. \A v \in Workers : Heard(v)' /\ Heard(v)
  BY <1>0 DEF Heard
<1>6. RootSpeaks
  <2>1. fromRoot' = [v \in Workers |-> fromRoot'[v]]
    BY <1>0
  <2>2. fromRoot' \in [Workers -> Seq(Messages)]
    BY <1>4, <2>1
  <2>3. \A v \in Workers : fromRoot'[v] = fromRoot[v] \/ (Live(v) /\ Heard(v))
    BY <1>4, <1>5
  <2>4. loadAt' \in 1..(nLoads + 1)
    BY <1>0, <1>1
  <2> QED
    BY <1>0, <2>2, <2>3, <2>4 DEF RootSpeaks, StartupInv, StartupType
<1>7. LoadOrder'
  BY <1>0, <1>2 DEF LoadOrder
<1>8. ASSUME NEW v \in Workers PROVE Talk(v)'
  <2>1. /\ Live(v) => sockets[v][0] = ROOT /\ Said(v, Stage(v))
        /\ v \in Nat /\ v >= 1 /\ Len(fromRoot[v]) \in Nat
    BY <1>5, OfWorker, StartupConstants DEF Talk
  <2>2. Stage(v) = "loading" /\ Stage(v)' = "loading"
    BY <1>0, <1>2, <2>1 DEF Stage
  <2>3. ASSUME Live(v) PROVE Said(v, "loading")'
    <3>1. v \notin acks /\ pc[v] = "weights" /\ OnlyWeights(v)
      BY <2>1, <2>2, <2>3 DEF Said
    <3>2. OnlyWeights(v)'
      BY <1>4, <2>1, <3>1 DEF OnlyWeights
    <3> QED
      BY <1>0, <3>1, <3>2 DEF Said
  <2> QED
    BY <1>0, <1>5, <2>1, <2>2, <2>3 DEF Talk, Live
<1>9. \A v \in Workers : NotYet(v)'
  BY <1>0, <1>6, NotYetLater
<1> QED
  BY <1>6, <1>7, <1>8, <1>9, RootSpeaksStep

\* The zero size is written to a worker.
LEMMA RootFinishStep ==
    ASSUME StartupInv, RootFinish
    PROVE  StartupInv'
<1>0. /\ UNCHANGED <<rootAt, rootSockets, connecting, backlog, sockets, acks, pc, peer, crashes, layout,
                     loadAt>>
      /\ rootPc = "load" /\ loadAt > nLoads /\ rootPc' = "endAck" /\ Send(rootAt, [kind |-> "end"])
  BY DEF RootFinish, netVars, startupVars
<1>1. PICK a \in Workers : a = rootAt /\ a \in 1..nWorkers /\ nWorkers \in Nat
  BY StartupConstants DEF StartupInv, StartupType
<1>2. PICK m \in Messages : m = [kind |-> "end"] /\ m.kind = "end"
  BY MessageKinds
<1>3. /\ fromRoot' \in [Workers -> Seq(Messages)]
      /\ \A v \in Workers \ {a} : fromRoot'[v] = fromRoot[v]
      /\ ~Live(a) => fromRoot'[a] = fromRoot[a]
      /\ Live(a) => /\ Len(fromRoot'[a]) = Len(fromRoot[a]) + 1
                    /\ fromRoot'[a][Len(fromRoot[a]) + 1] = m
                    /\ \A i \in 1..Len(fromRoot[a]) : fromRoot'[a][i] = fromRoot[a][i]
  BY <1>0, <1>1, <1>2, Sent DEF StartupInv
<1>4. \A v \in Workers : Heard(v)' /\ Heard(v)
  BY <1>0 DEF Heard
<1>5. RootSpeaks
  <2>1. \A v \in Workers : fromRoot'[v] = fromRoot[v] \/ (Live(v) /\ Heard(v))
    BY <1>3, <1>4
  <2> QED
    BY <1>0, <1>3, <2>1 DEF RootSpeaks, StartupInv, StartupType, RootPcs
<1>6. LoadOrder'
  BY <1>0, StartupConstants DEF StartupInv, StartupType, LoadOrder
<1>7. ASSUME NEW v \in Workers, v # a PROVE Talk(v)'
  <2>1. Talk(v) /\ v \in 1..nWorkers
    BY OfWorker, StartupConstants
  <2>2. Stage(v)' = Stage(v)
    BY <1>0, <1>1, <1>7, <2>1 DEF Stage
  <2> QED
    BY <1>0, <1>3, <1>4, <1>7, <2>1, <2>2, TalkMoves
<1>8. Talk(a)'
  <2>1. /\ Live(a) => sockets[a][0] = ROOT /\ Said(a, Stage(a))
        /\ Len(fromRoot[a]) \in Nat
    BY <1>4, OfWorker DEF Talk
  <2>2. Stage(a) = "loading" /\ Stage(a)' = "endAck"
    BY <1>0, <1>1 DEF Stage
  <2>3. ASSUME Live(a) PROVE Said(a, "endAck")'
    <3>1. a \notin acks /\ pc[a] = "weights" /\ OnlyWeights(a)
      BY <2>1, <2>2, <2>3 DEF Said
    <3>2. WeightsThenEnd(a)'
      <4>1. PICK n \in Nat : n = Len(fromRoot[a])
        BY <2>1
      <4>2. Len(fromRoot'[a]) = n + 1 /\ fromRoot'[a][n + 1].kind = "end"
        BY <1>2, <1>3, <2>3, <4>1
      <4>3. \A i \in 1..n : fromRoot'[a][i].kind = "weight"
        BY <1>3, <2>3, <3>1, <4>1 DEF OnlyWeights
      <4>4. n + 1 > 0 /\ (n + 1) - 1 = n
        BY <4>1
      <4> QED
        BY <4>2, <4>3, <4>4 DEF WeightsThenEnd
    <3> QED
      BY <1>0, <3>1, <3>2 DEF Said
  <2> QED
    BY <1>0, <1>4, <2>1, <2>2, <2>3 DEF Talk, Live
<1>9. \A v \in Workers : NotYet(v)'
  BY <1>0, <1>5, NotYetLater
<1> QED
  BY <1>5, <1>6, <1>7, <1>8, <1>9, RootSpeaksStep

\* The last ACK of a worker's start is read.
LEMMA RootReadEndAckStep ==
    ASSUME StartupInv, RootReadEndAck
    PROVE  StartupInv'
<1>0. /\ UNCHANGED <<rootSockets, connecting, backlog, sockets, fromRoot, pc, peer, crashes, layout,
                     loadAt>>
      /\ rootPc = "endAck" /\ rootAt \in acks /\ acks' = acks \ {rootAt}
      /\ \/ rootAt < nWorkers /\ rootPc' = "load" /\ rootAt' = rootAt + 1
         \/ ~(rootAt < nWorkers) /\ rootPc' = "running" /\ rootAt' = 1
  BY DEF RootReadEndAck, ReadAck, netVars, startupVars
<1>1. PICK a \in Workers : a = rootAt /\ a \in 1..nWorkers /\ nWorkers \in Nat
  BY StartupConstants DEF StartupInv, StartupType
<1>2. RootSpeaks
  <2>1. rootAt' \in Workers
    BY <1>0, <1>1 DEF Workers
  <2> QED
    BY <1>0, <2>1 DEF RootSpeaks, StartupInv, StartupType, RootPcs
<1>3. LoadOrder'
  BY <1>0 DEF StartupInv, LoadOrder
<1>4. \A v \in Workers : Heard(v)' /\ Heard(v)
  BY <1>0 DEF Heard
<1>5. ASSUME NEW v \in Workers, v # a PROVE Talk(v)'
  <2>1. Talk(v) /\ v \in 1..nWorkers
    BY OfWorker, StartupConstants
  <2>2. Stage(v)' = Stage(v)
    BY <1>0, <1>1, <1>5, <2>1 DEF Stage
  <2> QED
    BY <1>0, <1>1, <1>4, <1>5, <2>1, <2>2, TalkMoves
<1>6. Talk(a)'
  <2>1. Live(a) => sockets[a][0] = ROOT /\ Said(a, Stage(a))
    BY <1>4, OfWorker DEF Talk
  <2>2. a \in acks /\ a \notin acks'
    BY <1>0, <1>1
  <2>3. Stage(a) = "endAck" /\ Stage(a)' = "ended"
    BY <1>0, <1>1 DEF Stage
  <2>4. Live(a) => Said(a, "ended")'
    BY <1>0, <2>1, <2>2, <2>3 DEF Said, None
  <2> QED
    BY <1>0, <1>4, <2>1, <2>3, <2>4 DEF Talk, Live
<1>7. \A v \in Workers : NotYet(v)'
  BY <1>0, <1>2, NotYetLater
<1> QED
  BY <1>2, <1>3, <1>5, <1>6, <1>7, RootSpeaksStep

\* The root is started again.
LEMMA RootAgainStep ==
    ASSUME StartupInv, RootAgain
    PROVE  StartupInv'
<1>0. /\ UNCHANGED <<rootSockets, connecting, backlog, sockets, acks, fromRoot, pc, peer, crashes>>
      /\ rootPc = "failed" /\ rootPc' = "connect" /\ rootAt' = 1 /\ layout' = NoLayout /\ loadAt' = 1
  BY DEF RootAgain, RootRestart, netVars
<1>1. RootSpeaks
  <2>1. 1 \in Workers /\ 1 \in 1..(nLoads + 1)
    BY StartupConstants DEF Workers
  <2> QED
    BY <1>0, <2>1 DEF RootSpeaks, StartupInv, StartupType, RootPcs
<1>2. LoadOrder'
  BY <1>0 DEF LoadOrder
<1>3. ASSUME NEW v \in Workers PROVE NotYet(v)' /\ Talk(v)'
  <2>1. rootSockets[v] = NoNode /\ v \notin acks /\ v # NoNode
    BY <1>0, OfWorker, StartupConstants DEF NotYet
  <2> QED
    BY <1>0, <2>1 DEF NotYet, Talk, Live
<1> QED
  BY <1>1, <1>2, <1>3, RootSpeaksStep

-----------------------------------------------------------------------------
(* The invariant.                                                          *)

\* A cluster that has just been switched on.
LEMMA StartupInitInv == StartupInit => StartupInv
<1> SUFFICES ASSUME StartupInit PROVE StartupInv
  OBVIOUS
<1> USE DEF StartupInit, Init
<1>1. 1 \in Workers /\ 1 \in 1..(nLoads + 1) /\ 0 \in 0..nOtherWorkers /\ 0 \in 0..maxCrashes
  BY StartupConstants DEF Workers
<1>2. fromRoot \in [Workers -> Seq(Messages)] /\ backlog \in [Workers -> Seq(Nodes \cup {GONE})]
  BY EmptySeq
<1>3. sockets \in [Workers -> [SocketIndexes -> Ends]]
  BY DEF Ends
<1>4. StartupType
  BY <1>1, <1>2, <1>3 DEF StartupType, RootPcs, Pcs
<1>5. ASSUME NEW v \in Workers PROVE EndsOf(v) /\ Fresh(v) /\ NotYet(v) /\ Talk(v)
  <2>1. rootSockets[v] = NoNode /\ v # NoNode /\ ROOT # NoNode /\ v \notin acks
    BY <1>5, StartupConstants
  <2>2. Len(backlog[v]) = 0 /\ \A k \in SocketIndexes : sockets[v][k] = NoNode
    BY <1>5
  <2>3. EndsOf(v)
    BY <2>1, <2>2 DEF EndsOf, InBacklog
  <2>4. Fresh(v) /\ NotYet(v)
    BY <1>5, <2>1, <2>2 DEF Fresh, NotYet
  <2>5. Talk(v)
    BY <2>1 DEF Talk, Live
  <2> QED
    BY <2>3, <2>4, <2>5
<1>6. LoadOrder
  BY DEF LoadOrder
<1> QED
  BY <1>4, <1>5, <1>6 DEF StartupInv, RootEnds

\* Nothing moves.
LEMMA StartupStutter ==
    ASSUME StartupInv, UNCHANGED allVars
    PROVE  StartupInv'
<1>0. UNCHANGED <<rootPc, rootAt, rootSockets, connecting, backlog, sockets, acks, fromRoot, pc, peer,
                  crashes, layout, loadAt, loaded>>
  BY DEF allVars, vars, rootVars, netVars, startupVars
<1>1. RootSpeaks
  BY <1>0 DEF RootSpeaks, StartupInv, StartupType
<1>2. LoadOrder'
  BY <1>0 DEF StartupInv, LoadOrder
<1>3. ASSUME NEW v \in Workers PROVE NotYet(v)' /\ Talk(v)'
  <2>1. Talk(v)'
    BY <1>0, OfWorker, TalkFrame
  <2> QED
    BY <1>0, <2>1, OfWorker DEF NotYet
<1> QED
  BY <1>1, <1>2, <1>3, RootSpeaksStep

\* Every step of a root, a worker or the network keeps the invariant.
LEMMA StartupInvStep ==
    ASSUME StartupInv, [StartupNext]_allVars
    PROVE  StartupInv'
<1>1. CASE StartupRoot
  <2>1. CASE (RootConnect \/ RootReadAck \/ RootSendReady \/ RootFails) /\ UNCHANGED startupVars
    <3>1. RootFails /\ UNCHANGED startupVars => StartupInv'
      <4> HAVE RootFails /\ UNCHANGED startupVars
      <4>1. /\ RootHangUp /\ crashes' \in 0..maxCrashes
            /\ UNCHANGED <<rootAt, fromRoot, pc, peer, layout, loadAt>>
        BY DEF RootFails, startupVars, StartupInv, StartupType
      <4> QED
        BY <4>1, RootHangUpStep
    <3> QED
      BY <2>1, <3>1, RootConnectStep, RootReadAckStep, RootSendReadyStep
  <2> QED
    BY <1>1, <2>1, RootWriteConfigStep, RootReadConfigAckStep, RootLoadStep, RootFinishStep,
       RootReadEndAckStep, RootAgainStep DEF StartupRoot
<1>2. CASE StartupNet
  <2>1. PICK from \in Nodes, to \in Workers : ConnectionArrives(from, to)
    BY <1>2 DEF StartupNet, NetStep
  <2>2. UNCHANGED startupVars
    BY <1>2 DEF StartupNet
  <2> QED
    BY <2>1, <2>2, ArrivesInBacklog, ArrivesTooLate
<1>3. ASSUME NEW w \in Workers, StartupWorker(w) PROVE StartupInv'
  <2>1. CASE WorkerStep(w) /\ UNCHANGED startupVars
    BY <2>1, StartListeningStep, AcceptRootStep, ReadConfigStep, ReadReadyStep, AcceptPeerStep,
       ConnectPeerStep, ServeStep DEF WorkerStep
  <2>2. CASE SessionEnds(w) /\ Forgets(w)
    <3>1. /\ Relisten(w) /\ crashes' \in 0..maxCrashes
          /\ UNCHANGED <<rootPc, rootAt, acks, layout, loadAt>>
      BY <2>2 DEF SessionEnds, Forgets, rootVars, StartupInv, StartupType
    <3> QED
      BY <3>1, RelistenStep
  <2> QED
    BY <1>3, <2>1, <2>2, ReadNetStep, ReadNodeStep, ReadWeightStep, ReadEndStep DEF StartupWorker
<1>4. ASSUME NEW w \in Workers, WorkerCrash(w), Forgets(w) PROVE StartupInv'
  <2>1. /\ Relisten(w) /\ crashes < maxCrashes /\ crashes' = crashes + 1
        /\ UNCHANGED <<rootPc, rootAt, acks, layout, loadAt>>
    BY <1>4 DEF WorkerCrash, Forgets, rootVars
  <2>2. crashes' \in 0..maxCrashes
    BY <2>1, StartupConstants DEF StartupInv, StartupType
  <2> QED
    BY <2>1, <2>2, RelistenStep
<1>5. CASE RootCrash /\ UNCHANGED startupVars
  <2>1. /\ RootHangUp /\ crashes < maxCrashes /\ crashes' = crashes + 1
        /\ UNCHANGED <<rootAt, fromRoot, pc, peer, layout, loadAt>>
    BY <1>5 DEF RootCrash, startupVars
  <2>2. crashes' \in 0..maxCrashes
    BY <2>1, StartupConstants DEF StartupInv, StartupType
  <2> QED
    BY <2>1, <2>2, RootHangUpStep
<1>6. CASE UNCHANGED allVars
  BY <1>6, StartupStutter
<1> QED
  BY <1>1, <1>2, <1>3, <1>4, <1>5, <1>6 DEF StartupNext

\* The invariant holds always.
LEMMA StartupInvariant == StartupSpec => []StartupInv
BY StartupInitInv, StartupInvStep, PTL DEF StartupSpec

\* TypeOK holds in every reachable state, for any number of workers, layers and
\* crashes: among others, the handshake's socket indexes stay in the table, and
\* the loader never runs past the last weight of the model file.
THEOREM StartupTypeHolds == StartupSpec => []TypeOK
<1>1. StartupInv => TypeOK
  <2> SUFFICES ASSUME StartupInv PROVE TypeOK
    OBVIOUS
  <2>1. StartupType
    BY DEF StartupInv
  <2>2. ASSUME NEW w \in Workers PROVE Waiting(w) \subseteq Nodes \cup {GONE}
    <3>1. backlog[w] \in Seq(Nodes \cup {GONE})
      BY <2>1 DEF StartupType
    <3>2. DOMAIN backlog[w] = 1..Len(backlog[w]) /\ \A i \in 1..Len(backlog[w]) : backlog[w][i] \in Nodes \cup {GONE}
      BY <3>1, LenProperties, ElementOfSeq
    <3> QED
      BY <3>2 DEF Waiting
  <2> QED
    BY <2>1, <2>2 DEF TypeOK, StartupType, RootPcs, Pcs, Ends
<1> QED
  BY <1>1, StartupInvariant, PTL

\* RootRunsLast holds in every reachable state: when the root starts to send
\* control packets, every worker it is still connected to has read the end of its
\* weights and nothing of the start is left in the connection, whoever died
\* and came back on the way.
THEOREM RootRunsLastHolds == StartupSpec => []RootRunsLast
<1>1. StartupInv => RootRunsLast
  <2> SUFFICES ASSUME StartupInv, rootPc = "running", NEW w \in Workers, rootSockets[w] = w
               PROVE  pc[w] = "running" /\ fromRoot[w] = <<>>
    BY DEF RootRunsLast
  <2>1. Talk(w) /\ Live(w) /\ Heard(w) /\ Stage(w) = "ended"
    BY OfWorker DEF Live, Heard, Stage
  <2> QED
    BY <2>1 DEF Talk, Said, None
<1> QED
  BY <1>1, StartupInvariant, PTL

-----------------------------------------------------------------------------
(* Where the weights are.  Every node has, or will have once it has read   *)
(* what is in its connection, what the load calls so far have dealt it.    *)

Weight(m) == <<m.op, m.layer, m.slice>>
Wanted(n, m) == <<m.op, m.layer>> \in Ops(n)

InFlight(w) ==
    {Weight(fromRoot[w][i]) : i \in {j \in 1..Len(fromRoot[w]) :
       fromRoot[w][j].kind = "weight" /\ Wanted(w, fromRoot[w][j])}}

\* What the load calls before the i-th have for node n.
Dealt(n, j) == n \in Targets(Loads[j]) /\ Wanted(n, WeightFor(n, Loads[j]))
Kept(n, i) == {Weight(WeightFor(n, Loads[j])) : j \in {k \in 1..(i - 1) : Dealt(n, k)}}

HasItsWeights(w) ==
    IF pc[w] \in {"weights", "running"}
      THEN sockets[w][0] = ROOT => loaded[w] \cup InFlight(w) = Kept(w, loadAt)
      ELSE loaded[w] = {}

WeightsInv ==
    /\ loaded = [n \in Nodes |-> loaded[n]]
    /\ rootPc # "failed" => loaded[ROOT] = Kept(ROOT, loadAt)
    /\ \A w \in Workers : HasItsWeights(w)

\* They depend on the layout alone.
LEMMA SameLayout ==
    ASSUME layout' = layout, NEW n
    PROVE  /\ Ops(n)' = Ops(n)
           /\ \A load : Targets(load)' = Targets(load)
           /\ \A load : WeightFor(n, load)' = WeightFor(n, load)
<1>1. Ops(n)' = Ops(n)
  BY DEF Ops, AttentionOps, FeedForwardOps, EndOps, Owns, InStage, ppRank
<1>2. ASSUME NEW load PROVE WeightFor(n, load)' = WeightFor(n, load)
  BY DEF WeightFor
<1>3. ASSUME NEW load PROVE Targets(load)' = Targets(load)
  BY DEF Targets, OwnerPpRank, lastPpStage, nodeInPpStage, getLayerOwnerPpRank, InStage
<1> QED
  BY <1>1, <1>2, <1>3

\* And on the load calls and the messages that are in the connection.
LEMMA SameWeights ==
    ASSUME layout' = layout, NEW n
    PROVE  /\ loadAt' = loadAt => Kept(n, loadAt)' = Kept(n, loadAt)
           /\ fromRoot'[n] = fromRoot[n] => InFlight(n)' = InFlight(n)
<1>1. Ops(n)' = Ops(n) /\ \A load : Targets(load)' = Targets(load) /\ WeightFor(n, load)' = WeightFor(n, load)
  BY SameLayout
<1>2. \A j : (Dealt(n, j)' <=> Dealt(n, j)) /\ WeightFor(n, Loads[j])' = WeightFor(n, Loads[j])
  BY <1>1 DEF Dealt, Wanted
<1>3. loadAt' = loadAt => Kept(n, loadAt)' = Kept(n, loadAt)
  BY <1>2 DEF Kept, Weight
<1>4. fromRoot'[n] = fromRoot[n] => InFlight(n)' = InFlight(n)
  BY <1>1 DEF InFlight, Weight, Wanted
<1> QED
  BY <1>3, <1>4

\* Nothing is dealt before the first load call.
LEMMA NothingDealt ==
    ASSUME NEW n PROVE Kept(n, 1) = {}
BY DEF Kept

Reading(w) == pc[w] \in {"weights", "running"}

\* A worker that neither gets, nor reads, nor forgets a weight.
Untouched(w) ==
    /\ loaded'[w] = loaded[w]
    /\ Reading(w)' <=> Reading(w)
    /\ Reading(w) /\ sockets'[w][0] = ROOT => sockets[w][0] = ROOT /\ InFlight(w)' = InFlight(w)

\* It keeps what it has.
LEMMA UntouchedKeeps ==
    ASSUME layout' = layout, loadAt' = loadAt, NEW w \in Workers, HasItsWeights(w), Untouched(w)
    PROVE  HasItsWeights(w)'
<1>1. Kept(w, loadAt)' = Kept(w, loadAt)
  BY SameWeights
<1> QED
  BY <1>1 DEF HasItsWeights, Untouched, Reading

\* A step that is not about weights.
LEMMA QuietStep ==
    ASSUME WeightsInv, layout' = layout, loadAt' = loadAt, loaded' = loaded,
           rootPc' # "failed" => rootPc # "failed", \A w \in Workers : Untouched(w)
    PROVE  WeightsInv'
<1>1. Kept(ROOT, loadAt)' = Kept(ROOT, loadAt)
  BY SameWeights
<1>2. \A w \in Workers : HasItsWeights(w)'
  BY UntouchedKeeps DEF WeightsInv
<1>3. (loaded = [n \in Nodes |-> loaded[n]])'
  BY DEF WeightsInv
<1>4. (rootPc # "failed" => loaded[ROOT] = Kept(ROOT, loadAt))'
  BY <1>1 DEF WeightsInv
<1> QED
  BY <1>2, <1>3, <1>4 DEF WeightsInv

\* A worker on its way through serve().
LEMMA ServingIsQuiet ==
    ASSUME StartupInv, WeightsInv, NEW w \in Workers, WorkerStep(w), UNCHANGED startupVars
    PROVE  WeightsInv'
<1>1. StartupType /\ layout' = layout /\ loadAt' = loadAt /\ loaded' = loaded /\ rootPc' = rootPc
  BY DEF StartupInv, startupVars, WorkerStep, StartListening, AcceptRoot, ReadConfig, ReadReady,
         AcceptPeer, ConnectPeer, Serve, rootVars
<1>2. /\ ~Reading(w) /\ ~Reading(w)'
      /\ \A v \in Workers \ {w} : pc'[v] = pc[v]
  BY <1>1 DEF StartupType, WorkerStep, StartListening, AcceptRoot, ReadConfig, ReadReady,
         AcceptPeer, ConnectPeer, Serve, Goto, Reading
<1>3. \A v \in Workers \ {w} : fromRoot'[v] = fromRoot[v]
  BY <1>1 DEF StartupType, WorkerStep, StartListening, AcceptRoot, ReadConfig, ReadReady,
         AcceptPeer, ConnectPeer, Serve, Receive
<1>4. \A v \in Workers \ {w} : sockets'[v][0] = ROOT => sockets[v][0] = ROOT
  <2>1. CASE Serve(w)
    BY <1>1, <2>1, LostEnds, StartupConstants DEF Serve
  <2>2. CASE ~Serve(w)
    BY <1>1, <2>2 DEF StartupType, WorkerStep, StartListening, AcceptRoot, ReadConfig, ReadReady,
         AcceptPeer, ConnectPeer, Accept, netVars
  <2> QED
    BY <2>1, <2>2
<1>5. ASSUME NEW v \in Workers PROVE Untouched(v)
  <2>1. CASE v = w
    BY <1>1, <1>2, <2>1 DEF Untouched
  <2>2. CASE v # w
    <3>1. InFlight(v)' = InFlight(v)
      BY <1>1, <1>3, <2>2, SameWeights
    <3> QED
      BY <1>1, <1>2, <1>4, <2>2, <3>1 DEF Untouched, Reading
  <2> QED
    BY <2>1, <2>2
<1> QED
  BY <1>1, <1>5, QuietStep

\* A connection is made or refused.
LEMMA ArrivalIsQuiet ==
    ASSUME StartupInv, WeightsInv, NEW from \in Nodes, NEW to \in Workers,
           ConnectionArrives(from, to), UNCHANGED startupVars
    PROVE  WeightsInv'
<1>1. /\ StartupType /\ layout' = layout /\ loadAt' = loadAt /\ loaded' = loaded /\ rootPc' = rootPc
      /\ pc' = pc /\ fromRoot' = fromRoot
  BY DEF StartupInv, startupVars, ConnectionArrives, rootVars
<1>2. \A v \in Workers : sockets'[v][0] = ROOT => sockets[v][0] = ROOT
  BY <1>1, LostEnds, StartupConstants DEF ConnectionArrives
<1>3. ASSUME NEW v \in Workers PROVE Untouched(v)
  <2>1. InFlight(v)' = InFlight(v)
    BY <1>1, SameWeights
  <2> QED
    BY <1>1, <1>2, <2>1 DEF Untouched, Reading
<1> QED
  BY <1>1, <1>3, QuietStep

\* The root connects or reads an ACK.
LEMMA RootReadsIsQuiet ==
    ASSUME WeightsInv, layout' = layout, loadAt' = loadAt, loaded' = loaded, pc' = pc,
           fromRoot' = fromRoot, rootPc # "failed",
           \A v \in Workers : sockets'[v][0] = ROOT => sockets[v][0] = ROOT
    PROVE  WeightsInv'
<1>1. ASSUME NEW v \in Workers PROVE Untouched(v)
  <2>1. InFlight(v)' = InFlight(v)
    BY SameWeights
  <2> QED
    BY <2>1 DEF Untouched, Reading
<1> QED
  BY <1>1, QuietStep

\* A message that is not a weight changes nothing of what is in flight.
LEMMA SentInFlight ==
    ASSUME StartupType, layout' = layout, NEW a \in Workers, NEW m \in Messages, m.kind # "weight",
           Send(a, m), NEW v \in Workers
    PROVE  InFlight(v)' = InFlight(v)
<1>1. /\ \A u \in Workers \ {a} : fromRoot'[u] = fromRoot[u]
      /\ ~Live(a) => fromRoot'[a] = fromRoot[a]
      /\ Live(a) => /\ Len(fromRoot'[a]) = Len(fromRoot[a]) + 1
                    /\ fromRoot'[a][Len(fromRoot[a]) + 1] = m
                    /\ \A i \in 1..Len(fromRoot[a]) : fromRoot'[a][i] = fromRoot[a][i]
  BY Sent
<1>2. CASE fromRoot'[v] = fromRoot[v]
  BY <1>2, SameWeights
<1>3. CASE fromRoot'[v] # fromRoot[v]
  <2>1. v = a /\ Live(a)
    BY <1>1, <1>3
  <2>2. PICK s, t : s = fromRoot[a] /\ t = fromRoot'[a]
    OBVIOUS
  <2>3. /\ Len(s) \in Nat /\ Len(t) = Len(s) + 1 /\ t[Len(s) + 1].kind # "weight"
        /\ \A i \in 1..Len(s) : t[i] = s[i]
    BY <1>1, <2>1, <2>2, NoneIsEmpty
  <2>4. \A j \in 1..Len(t) : t[j].kind = "weight" => j \in 1..Len(s)
    BY <2>3
  <2>5. Ops(a)' = Ops(a)
    BY SameLayout
  <2>6. \A j \in 1..Len(s) : j \in 1..Len(t) /\ t[j] = s[j]
    BY <2>3
  <2>7. ASSUME NEW x PROVE x \in InFlight(a)' <=> x \in InFlight(a)
    <3>1. x \in InFlight(a)' <=> \E j \in 1..Len(t) : /\ t[j].kind = "weight"
                                                      /\ <<t[j].op, t[j].layer>> \in Ops(a)
                                                      /\ x = <<t[j].op, t[j].layer, t[j].slice>>
      BY <2>2, <2>5 DEF InFlight, Weight, Wanted
    <3>2. x \in InFlight(a) <=> \E j \in 1..Len(s) : /\ s[j].kind = "weight"
                                                     /\ <<s[j].op, s[j].layer>> \in Ops(a)
                                                     /\ x = <<s[j].op, s[j].layer, s[j].slice>>
      BY <2>2 DEF InFlight, Weight, Wanted
    <3> QED
      BY <2>4, <2>6, <3>1, <3>2
  <2>8. InFlight(a)' = InFlight(a)
    BY <2>7
  <2> QED
    BY <2>1, <2>8
<1> QED
  BY <1>2, <1>3

\* The root writes something else than a weight.
LEMMA RootWritesIsQuiet ==
    ASSUME StartupInv, WeightsInv, layout' = layout, loadAt' = loadAt, loaded' = loaded, pc' = pc,
           sockets' = sockets, rootPc # "failed", NEW k \in {"ready", "net", "node", "end"},
           Send(rootAt, [kind |-> k])
    PROVE  WeightsInv'
<1>1. PICK a \in Workers : a = rootAt
  BY DEF StartupInv, StartupType
<1>2. PICK m \in Messages : m = [kind |-> k] /\ m.kind = k
  BY MessageKinds
<1>3. Send(a, m) /\ m.kind # "weight"
  BY <1>1, <1>2
<1>4. ASSUME NEW v \in Workers PROVE Untouched(v)
  <2>1. InFlight(v)' = InFlight(v)
    BY <1>3, SentInFlight DEF StartupInv
  <2> QED
    BY <2>1 DEF Untouched, Reading
<1> QED
  BY <1>4, QuietStep

\* The layout is chosen when nobody has a weight.
LEMMA RootWriteConfigWeights ==
    ASSUME StartupInv, WeightsInv, RootWriteConfig
    PROVE  WeightsInv'
<1>0. /\ loadAt' = loadAt /\ loaded' = loaded /\ pc' = pc /\ sockets' = sockets
      /\ rootPc \in {"done", "node"} /\ rootPc' # "failed"
      /\ \E k \in {"net", "node"} : Send(rootAt, [kind |-> k])
      /\ layout' = layout \/ (rootPc = "done" /\ rootAt = 1)
  BY DEF RootWriteConfig, netVars
<1>1. CASE layout' = layout
  BY <1>0, <1>1, RootWritesIsQuiet
<1>2. CASE rootPc = "done" /\ rootAt = 1
  <2>1. loadAt = 1
    BY <1>2 DEF StartupInv, LoadOrder
  <2>2. ASSUME NEW v \in Workers, Reading(v) PROVE sockets[v][0] # ROOT
    <3>1. v \in Nat /\ v >= 1 /\ EndsOf(v) /\ Talk(v) /\ 0 \in SocketIndexes
      BY OfWorker, StartupConstants
    <3>2. Stage(v) = "ready" /\ Heard(v)
      BY <1>2, <3>1 DEF Stage, Heard
    <3>3. ~Live(v)
      BY <2>2, <3>1, <3>2 DEF Talk, Said, Reading
    <3> QED
      BY <3>1, <3>3 DEF EndsOf
  <2>3. \A w \in Workers : HasItsWeights(w)'
    BY <1>0, <2>2 DEF WeightsInv, HasItsWeights, Reading
  <2>4. Kept(ROOT, loadAt) = {} /\ Kept(ROOT, loadAt)' = {}
    BY <1>0, <2>1 DEF Kept
  <2>5. loaded[ROOT] = {}
    BY <1>0, <2>4 DEF WeightsInv
  <2> QED
    BY <1>0, <2>3, <2>4, <2>5 DEF WeightsInv
<1> QED
  BY <1>0, <1>1, <1>2

\* A process forgets its weights when it starts again.
LEMMA RelistenWeights ==
    ASSUME StartupInv, WeightsInv, NEW w \in Workers, Relisten(w), Forgets(w), rootPc' = rootPc
    PROVE  WeightsInv'
<1>1. /\ StartupType /\ layout' = layout /\ loadAt' = loadAt /\ loaded' = [loaded EXCEPT ![w] = {}]
      /\ pc' = [pc EXCEPT ![w] = "starting"] /\ fromRoot' = [fromRoot EXCEPT ![w] = <<>>]
      /\ sockets' = [v \in Workers |-> [k \in SocketIndexes |->
           IF v = w THEN NoNode
           ELSE IF sockets[v][k] = w /\ <<v, w>> \notin connecting THEN GONE
           ELSE sockets[v][k]]]
  BY DEF StartupInv, Relisten, HangUp, Goto, Forgets
<1>2. w # ROOT /\ ROOT \in Nodes /\ w \in Nodes /\ 0 \in SocketIndexes /\ GONE # ROOT
  BY StartupConstants
<1>3. /\ loaded' = [n \in Nodes |-> loaded'[n]] /\ loaded'[w] = {}
      /\ \A n \in Nodes \ {w} : loaded'[n] = loaded[n]
  BY <1>1, <1>2 DEF WeightsInv
<1>4. HasItsWeights(w)'
  BY <1>1, <1>3 DEF HasItsWeights, StartupType
<1>5. ASSUME NEW v \in Workers, v # w PROVE HasItsWeights(v)'
  <2>1. v \in Nodes /\ pc'[v] = pc[v] /\ fromRoot'[v] = fromRoot[v]
    BY <1>1, <1>5, StartupConstants DEF StartupType
  <2>2. sockets'[v][0] = ROOT => sockets[v][0] = ROOT
    BY <1>1, <1>2, <1>5
  <2>3. InFlight(v)' = InFlight(v)
    BY <1>1, <2>1, SameWeights
  <2>4. Untouched(v)
    BY <1>3, <1>5, <2>1, <2>2, <2>3 DEF Untouched, Reading
  <2> QED
    BY <1>1, <2>4, UntouchedKeeps DEF WeightsInv
<1>6. Kept(ROOT, loadAt)' = Kept(ROOT, loadAt)
  BY <1>1, SameWeights
<1>7. (rootPc # "failed" => loaded[ROOT] = Kept(ROOT, loadAt))'
  BY <1>2, <1>3, <1>6 DEF WeightsInv
<1> QED
  BY <1>3, <1>4, <1>5, <1>7 DEF WeightsInv

\* The root forgets, too, and has no worker left.
LEMMA RootAgainWeights ==
    ASSUME StartupInv, WeightsInv, RootAgain
    PROVE  WeightsInv'
<1>1. /\ rootPc = "failed" /\ pc' = pc /\ sockets' = sockets /\ loadAt' = 1
      /\ loaded' = [loaded EXCEPT ![ROOT] = {}]
  BY DEF RootAgain, RootRestart, netVars
<1>2. /\ loaded' = [n \in Nodes |-> loaded'[n]] /\ loaded'[ROOT] = {}
      /\ \A n \in Nodes \ {ROOT} : loaded'[n] = loaded[n]
  BY <1>1, StartupConstants DEF WeightsInv
<1>3. ASSUME NEW v \in Workers PROVE HasItsWeights(v)'
  <2>1. sockets[v][0] # ROOT
    <3>1. ~Live(v)
      BY <1>1, OfWorker, StartupConstants DEF NotYet, Live
    <3> QED
      BY <3>1, OfWorker, StartupConstants DEF EndsOf
  <2>2. loaded'[v] = loaded[v]
    BY <1>2, StartupConstants
  <2> QED
    BY <1>1, <2>1, <2>2 DEF WeightsInv, HasItsWeights
<1>4. Kept(ROOT, loadAt)' = {}
  BY <1>1 DEF Kept
<1> QED
  BY <1>2, <1>3, <1>4 DEF WeightsInv

\* What is in flight when a message has been read.
LEMMA ReceivedInFlight ==
    ASSUME StartupType, layout' = layout, NEW w \in Workers, NEW kind, Receive(w, kind)
    PROVE  /\ \A v \in Workers \ {w} : InFlight(v)' = InFlight(v)
           /\ \A x : x \in InFlight(w) <=>
                \/ x \in InFlight(w)'
                \/ kind = "weight" /\ Wanted(w, fromRoot[w][1]) /\ x = Weight(fromRoot[w][1])
<1>0. /\ \A v \in Workers \ {w} : fromRoot'[v] = fromRoot[v]
      /\ Len(fromRoot[w]) >= 1 /\ fromRoot[w][1].kind = kind
      /\ Len(fromRoot'[w]) = Len(fromRoot[w]) - 1
      /\ \A i \in 1..(Len(fromRoot[w]) - 1) : fromRoot'[w][i] = fromRoot[w][i + 1]
      /\ Len(fromRoot[w]) \in Nat
  BY Received, NoneIsEmpty
<1>1. \A v \in Workers \ {w} : InFlight(v)' = InFlight(v)
  BY <1>0, SameWeights
<1>2. PICK s, t : s = fromRoot[w] /\ t = fromRoot'[w]
  OBVIOUS
<1>3. /\ Len(s) \in Nat /\ Len(s) >= 1 /\ Len(t) = Len(s) - 1 /\ s[1].kind = kind
      /\ \A i \in 1..Len(t) : t[i] = s[i + 1]
  BY <1>0, <1>2
<1>4. Ops(w)' = Ops(w)
  BY SameLayout
<1>5. ASSUME NEW x
      PROVE  x \in InFlight(w) <=>
                \/ x \in InFlight(w)'
                \/ kind = "weight" /\ Wanted(w, fromRoot[w][1]) /\ x = Weight(fromRoot[w][1])
  <2> DEFINE At(m) == m.kind = "weight" /\ <<m.op, m.layer>> \in Ops(w) /\ x = <<m.op, m.layer, m.slice>>
  <2>1. x \in InFlight(w)' <=> \E j \in 1..Len(t) : At(t[j])
    BY <1>2, <1>4 DEF InFlight, Weight, Wanted
  <2>2. x \in InFlight(w) <=> \E j \in 1..Len(s) : At(s[j])
    BY <1>2 DEF InFlight, Weight, Wanted
  <2>3. kind = "weight" /\ Wanted(w, fromRoot[w][1]) /\ x = Weight(fromRoot[w][1]) <=> At(s[1])
    BY <1>2, <1>3 DEF Weight, Wanted
  <2> HIDE DEF At
  <2>4. (\E j \in 1..Len(s) : At(s[j])) => At(s[1]) \/ \E j \in 1..Len(t) : At(t[j])
    <3> SUFFICES ASSUME NEW j \in 1..Len(s), At(s[j]), j # 1
                 PROVE  \E i \in 1..Len(t) : At(t[i])
      OBVIOUS
    <3>1. j - 1 \in 1..Len(t) /\ t[j - 1] = s[(j - 1) + 1] /\ (j - 1) + 1 = j
      BY <1>3
    <3> QED
      BY <3>1
  <2>5. At(s[1]) => \E j \in 1..Len(s) : At(s[j])
    BY <1>3
  <2>6. (\E j \in 1..Len(t) : At(t[j])) => \E j \in 1..Len(s) : At(s[j])
    <3> SUFFICES ASSUME NEW j \in 1..Len(t), At(t[j])
                 PROVE  \E i \in 1..Len(s) : At(s[i])
      OBVIOUS
    <3>1. j + 1 \in 1..Len(s) /\ t[j] = s[j + 1]
      BY <1>3
    <3> QED
      BY <3>1
  <2> QED
    BY <2>1, <2>2, <2>3, <2>4, <2>5, <2>6
<1> QED
  BY <1>1, <1>5

\* What is dealt by one more load call.
LEMMA OneMoreDealt ==
    ASSUME NEW n, NEW i \in 1..nLoads, NEW x
    PROVE  x \in Kept(n, i + 1) <=> \/ x \in Kept(n, i)
                                    \/ Dealt(n, i) /\ x = Weight(WeightFor(n, Loads[i]))
<1>1. i \in Nat /\ i >= 1
  BY StartupConstants
<1>2. \A k : k \in 1..((i + 1) - 1) <=> k \in 1..(i - 1) \/ k = i
  BY <1>1
<1> QED
  BY <1>2 DEF Kept

\* A worker that reads: nothing to show of the others.
LEMMA ReaderWeights ==
    ASSUME StartupInv, WeightsInv, NEW w \in Workers, NEW kind, Receive(w, kind),
           UNCHANGED <<rootPc, sockets, layout, loadAt>>,
           \A v \in Workers \ {w} : pc'[v] = pc[v],
           loaded' = [loaded EXCEPT ![w] = loaded'[w]], HasItsWeights(w)'
    PROVE  WeightsInv'
<1>1. \A v \in Workers \ {w} : InFlight(v)' = InFlight(v)
  BY ReceivedInFlight DEF StartupInv
<1>2. w \in Nodes /\ ROOT \in Nodes /\ w # ROOT
  BY StartupConstants
<1>3. loaded' = [n \in Nodes |-> loaded'[n]] /\ \A n \in Nodes \ {w} : loaded'[n] = loaded[n]
  BY <1>2 DEF WeightsInv
<1>4. ASSUME NEW v \in Workers, v # w PROVE HasItsWeights(v)'
  <2>1. v \in Nodes
    BY StartupConstants
  <2>2. Untouched(v)
    BY <1>1, <1>3, <1>4, <2>1 DEF Untouched, Reading
  <2> QED
    BY <2>2, UntouchedKeeps DEF WeightsInv
<1>5. Kept(ROOT, loadAt)' = Kept(ROOT, loadAt)
  BY SameWeights
<1>6. (rootPc # "failed" => loaded[ROOT] = Kept(ROOT, loadAt))'
  BY <1>2, <1>3, <1>5 DEF WeightsInv
<1> QED
  BY <1>3, <1>4, <1>6 DEF WeightsInv

\* The configurations are read before there are weights.
LEMMA ReadConfigWeights ==
    ASSUME StartupInv, StartupInv', WeightsInv, NEW w \in Workers, ReadNet(w) \/ ReadNode(w)
    PROVE  WeightsInv'
<1>0. /\ UNCHANGED <<rootPc, rootAt, sockets, layout, loadAt, loaded>> /\ sockets[w][0] = ROOT
      /\ acks' = acks \cup {w}
      /\ \/ pc[w] = "served" /\ pc' = [pc EXCEPT ![w] = "node"] /\ Receive(w, "net")
         \/ pc[w] = "node" /\ pc' = [pc EXCEPT ![w] = "weights"] /\ Receive(w, "node")
  BY DEF ReadNet, ReadNode, Read, Goto, WriteAck, rootVars, netVars, startupVars
<1>1. pc \in [Workers -> Pcs] /\ w \in Nodes
  BY StartupConstants DEF StartupInv, StartupType
<1>2. \A v \in Workers \ {w} : pc'[v] = pc[v]
  BY <1>0, <1>1
<1>3. loaded[w] = {} /\ loaded' = [loaded EXCEPT ![w] = loaded'[w]]
  BY <1>0, <1>1 DEF WeightsInv, HasItsWeights
<1>4. HasItsWeights(w)'
  <2>1. CASE pc[w] = "served"
    BY <1>0, <1>1, <1>3, <2>1 DEF HasItsWeights
  <2>2. CASE pc[w] = "node"
    <3>1. pc'[w] = "weights" /\ w \in acks'
      BY <1>0, <1>1, <2>2
    <3>2. EndsOf(w)' /\ Talk(w)' /\ (rootPc \in RootPcs)' /\ LoadOrder'
      BY DEF StartupInv, RootEnds, StartupType
    <3>3. Live(w)'
      BY <1>0, <3>2, StartupConstants DEF EndsOf
    <3>4. Heard(w)' /\ Said(w, Stage(w))'
      BY <3>1, <3>2, <3>3 DEF Talk, Hello
    <3>5. Stage(w)' = "nodeAck"
      BY <3>1, <3>2, <3>4 DEF Said, Stage, RootPcs
    <3>6. None(w)' /\ loadAt' = 1
      <4>1. rootPc' = "nodeAck"
        BY <3>2, <3>5 DEF Stage, RootPcs
      <4>2. None(w)'
        BY <3>1, <3>4, <3>5 DEF Said
      <4> QED
        BY <3>2, <4>1, <4>2 DEF LoadOrder
    <3>7. InFlight(w)' = {} /\ Kept(w, loadAt)' = {}
      BY <3>6 DEF InFlight, None, Kept
    <3> QED
      BY <1>0, <1>3, <3>7 DEF HasItsWeights
  <2> QED
    BY <1>0, <2>1, <2>2
<1> QED
  BY <1>0, <1>2, <1>3, <1>4, ReaderWeights

\* A weight goes from the connection to its operation, or is dropped for want of one.
LEMMA ReadWeightWeights ==
    ASSUME StartupInv, WeightsInv, NEW w \in Workers, ReadWeight(w)
    PROVE  WeightsInv'
<1>0. /\ UNCHANGED <<rootPc, rootAt, sockets, layout, loadAt, pc>> /\ sockets[w][0] = ROOT
      /\ pc[w] = "weights" /\ Receive(w, "weight") /\ LoadWeight(w, Head(fromRoot[w]))
  BY DEF ReadWeight, Read, rootVars, netVars
<1>1. w \in Nodes
  BY StartupConstants
<1>2. PICK m : m = fromRoot[w][1] /\ m = Head(fromRoot[w])
  <2>1. fromRoot[w] \in Seq(Messages) /\ fromRoot[w] # <<>>
    BY <1>0 DEF StartupInv, StartupType, Receive
  <2> QED
    BY <2>1, HeadTailProperties
<1>3. loaded' = [loaded EXCEPT ![w] =
                   IF Wanted(w, m) THEN loaded[w] \cup {Weight(m)} ELSE loaded[w]]
  BY <1>0, <1>2 DEF LoadWeight, Wanted, Weight
<1>4. loaded'[w] = IF Wanted(w, m) THEN loaded[w] \cup {Weight(m)} ELSE loaded[w]
  BY <1>1, <1>3 DEF WeightsInv
<1>5. \A x : x \in InFlight(w) <=> x \in InFlight(w)' \/ (Wanted(w, m) /\ x = Weight(m))
  BY <1>0, <1>2, ReceivedInFlight DEF StartupInv
<1>6. loaded'[w] \cup InFlight(w)' = loaded[w] \cup InFlight(w)
  BY <1>4, <1>5
<1>7. Kept(w, loadAt)' = Kept(w, loadAt)
  BY <1>0, SameWeights
<1>8. HasItsWeights(w)'
  BY <1>0, <1>6, <1>7 DEF HasItsWeights, WeightsInv
<1>9. loaded' = [loaded EXCEPT ![w] = loaded'[w]]
  BY <1>3, <1>4
<1> QED
  BY <1>0, <1>8, <1>9, ReaderWeights

\* The end is not a weight.
LEMMA ReadEndWeights ==
    ASSUME StartupInv, WeightsInv, NEW w \in Workers, ReadEnd(w)
    PROVE  WeightsInv'
<1>0. /\ UNCHANGED <<rootPc, rootAt, sockets, layout, loadAt, loaded>> /\ sockets[w][0] = ROOT
      /\ pc[w] = "weights" /\ pc' = [pc EXCEPT ![w] = "running"] /\ Receive(w, "end")
  BY DEF ReadEnd, Read, Goto, rootVars, netVars, startupVars
<1>1. pc \in [Workers -> Pcs]
  BY DEF StartupInv, StartupType
<1>2. \A v \in Workers \ {w} : pc'[v] = pc[v]
  BY <1>0, <1>1
<1>3. InFlight(w)' = InFlight(w)
  BY <1>0, ReceivedInFlight DEF StartupInv
<1>4. HasItsWeights(w)'
  <2>1. Untouched(w)
    BY <1>0, <1>1, <1>3 DEF Untouched, Reading
  <2> QED
    BY <1>0, <2>1, UntouchedKeeps DEF WeightsInv
<1>5. loaded' = [loaded EXCEPT ![w] = loaded'[w]]
  BY <1>0 DEF WeightsInv
<1> QED
  BY <1>0, <1>2, <1>4, <1>5, ReaderWeights

\* One load call: the root's part is stored, the others are in flight.
LEMMA RootLoadWeights ==
    ASSUME StartupInv, WeightsInv, RootLoad
    PROVE  WeightsInv'
<1>0. /\ UNCHANGED <<rootPc, rootSockets, sockets, pc, layout>>
      /\ rootPc = "load" /\ loadAt <= nLoads /\ loadAt' = loadAt + 1
      /\ IF ROOT \in Targets(Loads[loadAt]) THEN LoadWeight(ROOT, WeightFor(ROOT, Loads[loadAt]))
                                            ELSE UNCHANGED loaded
      /\ fromRoot' = [w \in Workers |->
           IF w \in Targets(Loads[loadAt]) /\ rootSockets[w] = w
             THEN Append(fromRoot[w], WeightFor(w, Loads[loadAt]))
             ELSE fromRoot[w]]
  BY DEF RootLoad, rootVars, netVars
<1>1. PICK i \in 1..nLoads : i = loadAt
  BY <1>0, StartupConstants DEF StartupInv, StartupType
<1>2. ASSUME NEW n PROVE Kept(n, loadAt)' = Kept(n, i + 1)
  <2>1. \A j : (Dealt(n, j)' <=> Dealt(n, j)) /\ WeightFor(n, Loads[j])' = WeightFor(n, Loads[j])
    BY <1>0, SameLayout DEF Dealt, Wanted
  <2> QED
    BY <1>0, <1>1, <2>1 DEF Kept, Weight
<1>3. layout.tpSize \in Nat \ {0}
  BY LayoutSizes DEF StartupInv, StartupType
<1>4. PICK M : M = WeightFor(ROOT, Loads[i])
  OBVIOUS
<1>5. /\ loaded' = [n \in Nodes |-> loaded'[n]]
      /\ \A n \in Nodes \ {ROOT} : loaded'[n] = loaded[n]
      /\ loaded'[ROOT] = IF Dealt(ROOT, i) THEN loaded[ROOT] \cup {Weight(M)} ELSE loaded[ROOT]
  BY <1>0, <1>1, <1>4, StartupConstants DEF WeightsInv, LoadWeight, Dealt, Wanted, Weight
<1>6. loaded'[ROOT] = Kept(ROOT, i + 1)
  <2>1. loaded[ROOT] = Kept(ROOT, i)
    BY <1>0, <1>1 DEF WeightsInv
  <2>2. \A x : x \in Kept(ROOT, i + 1) <=> x \in Kept(ROOT, i) \/ (Dealt(ROOT, i) /\ x = Weight(M))
    BY <1>4, OneMoreDealt
  <2> QED
    BY <1>5, <2>1, <2>2
<1>7. ASSUME NEW v \in Workers PROVE HasItsWeights(v)'
  <2>1. loaded'[v] = loaded[v] /\ HasItsWeights(v) /\ EndsOf(v) /\ v \in Nodes
    BY <1>5, StartupConstants, OfWorker DEF WeightsInv
  <2>2. CASE ~(Reading(v) /\ sockets[v][0] = ROOT)
    BY <1>0, <2>1, <2>2 DEF HasItsWeights, Reading
  <2>3. CASE Reading(v) /\ sockets[v][0] = ROOT
    <3>1. Live(v)
      BY <2>1, <2>3, StartupConstants DEF EndsOf
    <3>2. PICK s, t, m : s = fromRoot[v] /\ t = fromRoot'[v] /\ m = WeightFor(v, Loads[i])
      OBVIOUS
    <3>3. s \in Seq(Messages) /\ Len(s) \in Nat /\ m \in Messages /\ m.kind = "weight"
      BY <1>3, <2>1, <3>2, OfWorker, MessageKinds
    <3>4. t = IF v \in Targets(Loads[i]) THEN Append(s, m) ELSE s
      BY <1>0, <1>1, <3>1, <3>2 DEF Live
    <3>5. Ops(v)' = Ops(v)
      BY <1>0, SameLayout
    <3>6. \A x : x \in InFlight(v)' <=> \/ x \in InFlight(v)
                                        \/ Dealt(v, i) /\ x = Weight(m)
      <4>1. CASE v \notin Targets(Loads[i])
        <5>1. InFlight(v)' = InFlight(v)
          BY <1>0, <3>2, <3>4, <4>1, SameWeights
        <5> QED
          BY <4>1, <5>1 DEF Dealt
      <4>2. CASE v \in Targets(Loads[i])
        <5>1. /\ Len(t) = Len(s) + 1 /\ t[Len(s) + 1] = m
              /\ \A j \in 1..Len(s) : t[j] = s[j]
          BY <3>3, <3>4, <4>2, AppendProperties
        <5> SUFFICES ASSUME NEW x
                     PROVE  x \in InFlight(v)' <=> \/ x \in InFlight(v)
                                                   \/ Dealt(v, i) /\ x = Weight(m)
          OBVIOUS
        <5> DEFINE At(q) == q.kind = "weight" /\ <<q.op, q.layer>> \in Ops(v) /\ x = <<q.op, q.layer, q.slice>>
        <5>2. x \in InFlight(v)' <=> \E j \in 1..Len(t) : At(t[j])
          BY <3>2, <3>5 DEF InFlight, Weight, Wanted
        <5>3. x \in InFlight(v) <=> \E j \in 1..Len(s) : At(s[j])
          BY <3>2 DEF InFlight, Weight, Wanted
        <5>4. Dealt(v, i) /\ x = Weight(m) <=> At(m)
          BY <3>2, <3>3, <4>2 DEF Dealt, Weight, Wanted
        <5> HIDE DEF At
        <5>5. (\E j \in 1..Len(t) : At(t[j])) <=> At(m) \/ \E j \in 1..Len(s) : At(s[j])
          <6>1. \A j : j \in 1..Len(t) <=> j \in 1..Len(s) \/ j = Len(s) + 1
            BY <3>3, <5>1
          <6> QED
            BY <5>1, <6>1
        <5> QED
          BY <5>2, <5>3, <5>4, <5>5
      <4> QED
        BY <4>1, <4>2
    <3>7. loaded[v] \cup InFlight(v) = Kept(v, i)
      BY <1>1, <2>1, <2>3 DEF HasItsWeights, Reading
    <3>8. \A x : x \in Kept(v, i + 1) <=> x \in Kept(v, i) \/ (Dealt(v, i) /\ x = Weight(m))
      BY <3>2, OneMoreDealt
    <3>9. loaded'[v] \cup InFlight(v)' = Kept(v, i + 1)
      BY <2>1, <3>6, <3>7, <3>8
    <3>10. Kept(v, loadAt)' = Kept(v, i + 1)
      BY <1>2
    <3>11. (loaded[v] \cup InFlight(v) = Kept(v, loadAt))'
      BY <3>9, <3>10
    <3> QED
      BY <1>0, <2>3, <3>11 DEF HasItsWeights, Reading
  <2> QED
    BY <2>2, <2>3
<1>8. (rootPc # "failed" => loaded[ROOT] = Kept(ROOT, loadAt))'
  BY <1>2, <1>6
<1> QED
  BY <1>5, <1>7, <1>8 DEF WeightsInv

\* Nobody has a weight when the cluster is switched on.
LEMMA WeightsInitInv == StartupInit => WeightsInv
<1> SUFFICES ASSUME StartupInit PROVE WeightsInv
  OBVIOUS
<1>1. loaded = [n \in Nodes |-> {}] /\ loadAt = 1 /\ \A w \in Workers : pc[w] = "starting"
  BY DEF StartupInit, Init
<1>2. loaded = [n \in Nodes |-> loaded[n]] /\ loaded[ROOT] = {}
  BY <1>1, StartupConstants
<1>3. \A w \in Workers : HasItsWeights(w)
  BY <1>1, StartupConstants DEF HasItsWeights
<1> QED
  BY <1>1, <1>2, <1>3, NothingDealt DEF WeightsInv

\* No step loses a weight or stores one twice under different names.
LEMMA WeightsInvStep ==
    ASSUME StartupInv, StartupInv', WeightsInv, [StartupNext]_allVars
    PROVE  WeightsInv'
<1>1. ASSUME RootHangUp, UNCHANGED <<pc, layout, loadAt, loaded, fromRoot>> PROVE WeightsInv'
  <2>1. rootPc' = "failed" /\ \A v \in Workers : sockets'[v][0] # ROOT
    BY <1>1, StartupConstants DEF RootHangUp
  <2>2. ASSUME NEW v \in Workers PROVE Untouched(v)
    BY <1>1, <2>1 DEF Untouched, Reading
  <2> QED
    BY <1>1, <2>1, <2>2, QuietStep
<1>2. CASE StartupRoot
  <2>1. CASE (RootConnect \/ RootReadAck) /\ UNCHANGED startupVars
    <3>1. /\ UNCHANGED <<layout, loadAt, loaded, pc, fromRoot, sockets>> /\ rootPc # "failed"
      BY <2>1 DEF RootConnect, RootReadAck, netVars, startupVars
    <3> QED
      BY <3>1, RootReadsIsQuiet
  <2>2. CASE RootReadConfigAck \/ RootReadEndAck
    <3>1. /\ UNCHANGED <<layout, loadAt, loaded, pc, fromRoot, sockets>> /\ rootPc # "failed"
      BY <2>2 DEF RootReadConfigAck, RootReadEndAck, netVars, startupVars
    <3> QED
      BY <3>1, RootReadsIsQuiet
  <2>3. CASE RootSendReady /\ UNCHANGED startupVars
    <3>1. /\ UNCHANGED <<layout, loadAt, loaded, pc, sockets>> /\ rootPc # "failed"
          /\ Send(rootAt, [kind |-> "ready"])
      BY <2>3 DEF RootSendReady, netVars, startupVars
    <3> QED
      BY <3>1, RootWritesIsQuiet
  <2>4. CASE RootFinish
    <3>1. /\ UNCHANGED <<layout, loadAt, loaded, pc, sockets>> /\ rootPc # "failed"
          /\ Send(rootAt, [kind |-> "end"])
      BY <2>4 DEF RootFinish, netVars, startupVars
    <3> QED
      BY <3>1, RootWritesIsQuiet
  <2>5. CASE RootFails /\ UNCHANGED startupVars
    BY <1>1, <2>5 DEF RootFails, startupVars
  <2> QED
    BY <1>2, <2>1, <2>2, <2>3, <2>4, <2>5, RootWriteConfigWeights, RootLoadWeights,
       RootAgainWeights DEF StartupRoot
<1>3. CASE StartupNet
  <2>1. PICK from \in Nodes, to \in Workers : ConnectionArrives(from, to)
    BY <1>3 DEF StartupNet, NetStep
  <2>2. UNCHANGED startupVars
    BY <1>3 DEF StartupNet
  <2> QED
    BY <2>1, <2>2, ArrivalIsQuiet
<1>4. ASSUME NEW w \in Workers, StartupWorker(w) PROVE WeightsInv'
  <2>1. CASE SessionEnds(w) /\ Forgets(w)
    <3>1. Relisten(w) /\ rootPc' = rootPc
      BY <2>1 DEF SessionEnds, rootVars
    <3> QED
      BY <2>1, <3>1, RelistenWeights
  <2> QED
    BY <1>4, <2>1, ServingIsQuiet, ReadConfigWeights, ReadWeightWeights, ReadEndWeights
       DEF StartupWorker
<1>5. ASSUME NEW w \in Workers, WorkerCrash(w), Forgets(w) PROVE WeightsInv'
  <2>1. Relisten(w) /\ rootPc' = rootPc
    BY <1>5 DEF WorkerCrash, rootVars
  <2> QED
    BY <1>5, <2>1, RelistenWeights
<1>6. CASE RootCrash /\ UNCHANGED startupVars
  BY <1>1, <1>6 DEF RootCrash, startupVars
<1>7. CASE UNCHANGED allVars
  <2>1. UNCHANGED <<layout, loadAt, loaded, pc, fromRoot, sockets, rootPc>>
    BY <1>7 DEF allVars, vars, rootVars, netVars, startupVars
  <2>2. ASSUME NEW v \in Workers PROVE Untouched(v)
    BY <2>1, SameWeights DEF Untouched, Reading
  <2> QED
    BY <2>1, <2>2, QuietStep
<1> QED
  BY <1>2, <1>3, <1>4, <1>5, <1>6, <1>7 DEF StartupNext

\* Every node has what the load calls so far have dealt it.
LEMMA WeightsInvariant == StartupSpec => [](StartupInv /\ WeightsInv)
<1>1. StartupInit => StartupInv /\ WeightsInv
  BY StartupInitInv, WeightsInitInv
<1>2. StartupInv /\ WeightsInv /\ [StartupNext]_allVars => (StartupInv /\ WeightsInv)'
  BY StartupInvStep, WeightsInvStep
<1> QED
  BY <1>1, <1>2, PTL DEF StartupSpec

-----------------------------------------------------------------------------
(* The loader's idea of where a weight belongs is buildLlmNet's.           *)

\* A product of ranks is below the number of nodes.
LEMMA QuotientBelow ==
    ASSUME NEW n \in Nat, NEW t \in Nat \ {0}, NEW p \in Nat, n < p * t
    PROVE  n \div t \in 0..(p - 1)
<1>1. n \div t \in Int /\ n \div t >= 0
  OBVIOUS
<1>2. PICK q \in Int : q = n \div t
  BY <1>1
<1>3. t * q <= n
  BY <1>2
<1>4. ASSUME q >= p PROVE FALSE
  <2>1. t * q >= t * p
    BY <1>2, <1>4
  <2> QED
    BY <1>2, <1>3, <2>1
<1> QED
  BY <1>1, <1>2, <1>4

\* The ranks of a node when the sequence is not split.
LEMMA Ranks ==
    ASSUME layout \in Layouts \cup {NoLayout}, layout.spSize = 1, NEW n \in Nodes
    PROVE  /\ ppRank(n) = n \div layout.tpSize /\ ppRank(n) \in 0..(layout.ppSize - 1)
           /\ tpRank(n) = n % layout.tpSize /\ lastPpStage = layout.ppSize - 1
<1>1. PICK p, t : p = layout.ppSize /\ t = layout.tpSize
  OBVIOUS
<1>2. nNodes \in Nat \ {0} /\ nNodes = nWorkers + 1
  BY StartupConstants DEF nNodes
<1>3. p \in Nat \ {0} /\ t \in Nat \ {0} /\ nNodes = p * t
  <2>1. /\ layout.ppSize \in 1..nNodes /\ layout.tpSize \in Nat \ {0}
        /\ nNodes = (layout.ppSize * layout.spSize) * layout.tpSize
    BY LayoutSizes
  <2>2. p \in Nat \ {0} /\ t \in Nat \ {0}
    BY <1>1, <1>2, <2>1
  <2>3. nNodes = (p * 1) * t
    BY <1>1, <2>1
  <2> QED
    BY <2>2, <2>3
<1>4. n \in Nat /\ n < p * t
  BY <1>2, <1>3, StartupConstants DEF Nodes
<1>5. n \div t \in 0..(p - 1)
  BY <1>3, <1>4, QuotientBelow
<1>6. 1 * t = t
  BY <1>3
<1>7. (n % t) % t = n % t
  <2>1. n % t \in 0..(t - 1)
    BY <1>3, <1>4
  <2>2. \A x \in 0..(t - 1) : x % t = x
    BY <1>3
  <2> QED
    BY <2>1, <2>2
<1>8. (p * t) \div t = p
  <2>1. p * t = t * p + 0
    BY <1>3
  <2> QED
    BY <1>3, <2>1
<1> QED
  BY <1>1, <1>3, <1>5, <1>6, <1>7, <1>8 DEF ppRank, tpRank, lastPpStage

\* The offsets of the stages do not decrease.
LEMMA OffsetsGrow ==
    ASSUME NEW p \in Nat \ {0}, NEW o \in StageOffsets(p), NEW q \in 0..p, NEW r \in 0..p, q <= r
    PROVE  o[q] \in Int /\ o[r] \in Int /\ o[q] <= o[r]
<1>0. o \in [0..p -> 0..(2 * nLayers)] /\ nLayers \in Nat
  BY StartupConstants DEF StageOffsets
<1>1. o[q] \in Int /\ o[r] \in Int
  BY <1>0
<1>2. CASE \A a, b \in 0..p : a < b => o[a] < o[b]
  BY <1>1, <1>2
<1>3. CASE o = EqualSplit(p)
  <2>1. PICK c : c = nLayers \div p
    OBVIOUS
  <2>2. c \in Nat /\ p * c <= nLayers
    <3>1. p * (nLayers \div p) <= nLayers
      BY <1>0
    <3>2. c \in Int /\ c >= 0
      BY <1>0, <2>1
    <3> QED
      BY <1>0, <2>1, <3>1, <3>2
  <2>3. /\ o[q] = IF q = p THEN 2 * nLayers ELSE 2 * q * c
        /\ o[r] = IF r = p THEN 2 * nLayers ELSE 2 * r * c
    BY <1>3, <2>1 DEF EqualSplit
  <2>4. q * c <= r * c /\ q * c <= p * c /\ q * c \in Nat /\ r * c \in Nat
    BY <2>2
  <2>5. 2 * q * c = 2 * (q * c) /\ 2 * r * c = 2 * (r * c)
    BY <2>2
  <2> QED
    BY <1>0, <1>1, <2>2, <2>3, <2>4, <2>5, SMTT(30)
<1> QED
  BY <1>1, <1>2, <1>3 DEF StageOffsets

\* A sub-block is in one stage, and getLayerOwnerPpRank finds it.
LEMMA OwnerIsStage ==
    ASSUME layout \in Layouts \cup {NoLayout}, NEW load, NEW r \in 0..(layout.ppSize - 1),
           2 * load.layer + subPartOfOp(load.op) \in Int,
           InStage(r, 2 * load.layer + subPartOfOp(load.op))
    PROVE  getLayerOwnerPpRank(load) = UINT_MAX \/ getLayerOwnerPpRank(load) = r
<1>1. PICK p, o, sub : p = layout.ppSize /\ o = layout.offsets
                       /\ sub = 2 * load.layer + subPartOfOp(load.op)
  OBVIOUS
<1>2. p \in Nat \ {0} /\ o \in StageOffsets(p) /\ sub \in Int
  BY <1>1, LayoutSizes, StartupConstants DEF nNodes
<1>3. ASSUME NEW a \in 0..(p - 1), NEW b \in 0..(p - 1), InStage(a, sub), InStage(b, sub), a < b
      PROVE  FALSE
  <2>1. a + 1 \in 0..p /\ b \in 0..p /\ a + 1 <= b
    BY <1>2, <1>3
  <2>2. o[a + 1] \in Int /\ o[b] \in Int /\ o[a + 1] <= o[b]
    BY <1>2, <2>1, OffsetsGrow
  <2>3. o[b] <= sub /\ sub < o[a + 1]
    BY <1>1, <1>3 DEF InStage
  <2> QED
    BY <1>2, <2>2, <2>3
<1>4. InStage(r, sub) /\ r \in 0..(p - 1)
  BY <1>1
<1>5. PICK c : c = CHOOSE q \in 0..(p - 1) : InStage(q, sub)
  OBVIOUS
<1>6. c \in 0..(p - 1) /\ InStage(c, sub)
  BY <1>4, <1>5
<1>7. c = r
  <2>1. c \in Int /\ r \in Int
    BY <1>2, <1>4, <1>6
  <2>2. ~(c < r) /\ ~(r < c)
    BY <1>3, <1>4, <1>6
  <2> QED
    BY <2>1, <2>2
<1> QED
  BY <1>1, <1>5, <1>7 DEF getLayerOwnerPpRank

\* The load calls by name.
LEMMA LoadCalls ==
    /\ Loads[1] = [op |-> "embedding", layer |-> 0, how |-> "root"]
    /\ Loads[nLoads - 1] = [op |-> "final_norm", layer |-> 0, how |-> "all"]
    /\ Loads[nLoads] = [op |-> "final_matmul_logits", layer |-> 0, how |-> "last"]
    /\ \A l \in 0..(nLayers - 1), j \in 1..4 :
         4 * l + 1 + j \in 1..nLoads /\ Loads[4 * l + 1 + j] = LayerLoads(l)[j]
    /\ \A i \in 1..nLoads :
         Loads[i].how \in {"slices", "last"} <=>
           Loads[i].op \in {"block_matmul_q", "block_matmul_w1", "final_matmul_logits"}
<1>0. nLayers \in Nat /\ nLayers >= 1 /\ nLoads = 4 * nLayers + 3
  BY StartupConstants DEF nLoads
<1>1. /\ Loads[1] = [op |-> "embedding", layer |-> 0, how |-> "root"]
      /\ Loads[nLoads - 1] = [op |-> "final_norm", layer |-> 0, how |-> "all"]
      /\ Loads[nLoads] = [op |-> "final_matmul_logits", layer |-> 0, how |-> "last"]
  BY <1>0 DEF Loads
<1>2. ASSUME NEW l \in 0..(nLayers - 1), NEW j \in 1..4
      PROVE  4 * l + 1 + j \in 1..nLoads /\ Loads[4 * l + 1 + j] = LayerLoads(l)[j]
  <2>1. PICK i \in Int : i = 4 * l + 1 + j
    BY <1>0
  <2>2. i \in 2..(nLoads - 2) /\ (i - 2) \div 4 = l /\ 1 + ((i - 2) % 4) = j
    BY <1>0, <2>1
  <2>3. i \in 1..nLoads /\ i # 1 /\ i # nLoads - 1 /\ i # nLoads
    BY <1>0, <2>2
  <2>4. Loads[i] = LayerLoads((i - 2) \div 4)[1 + ((i - 2) % 4)]
    BY <2>3 DEF Loads
  <2> QED
    BY <2>1, <2>2, <2>3, <2>4
<1>3. ASSUME NEW i \in 1..nLoads
      PROVE  Loads[i].how \in {"slices", "last"} <=>
               Loads[i].op \in {"block_matmul_q", "block_matmul_w1", "final_matmul_logits"}
  <2>1. CASE i = 1 \/ i = nLoads - 1 \/ i = nLoads
    BY <1>1, <2>1
  <2>2. CASE ~(i = 1 \/ i = nLoads - 1 \/ i = nLoads)
    <3>1. (i - 2) \div 4 \in Nat /\ 1 + ((i - 2) % 4) \in 1..4
      BY <1>0, <2>2
    <3>2. Loads[i] = LayerLoads((i - 2) \div 4)[1 + ((i - 2) % 4)]
      BY <2>2 DEF Loads
    <3>3. \A l \in Nat : \A j \in 1..4 :
            LayerLoads(l)[j].how \in {"slices", "last"} <=>
              LayerLoads(l)[j].op \in {"block_matmul_q", "block_matmul_w1", "final_matmul_logits"}
      BY DEF LayerLoads
    <3> QED
      BY <3>1, <3>2, <3>3
  <2> QED
    BY <2>1, <2>2
<1> QED
  BY <1>1, <1>2, <1>3

\* A node is among the targets of every operation it has.
LEMMA OpsAreServed ==
    ASSUME layout \in Layouts \cup {NoLayout}, layout.spSize = 1, NEW n \in Nodes, NEW o \in Ops(n)
    PROVE  \E j \in 1..nLoads : o = <<Loads[j].op, Loads[j].layer>> /\ n \in Targets(Loads[j])
<1>0. nLayers \in Nat /\ nLayers >= 1 /\ nLoads \in Nat /\ nLoads >= 3
  BY StartupConstants DEF nLoads
<1>1. /\ ppRank(n) = n \div layout.tpSize /\ ppRank(n) \in 0..(layout.ppSize - 1)
      /\ lastPpStage = layout.ppSize - 1 /\ layout.ppSize \in Int
  BY Ranks, LayoutSizes, StartupConstants DEF nNodes
<1>2. CASE o = <<"embedding", 0>> /\ n = ROOT
  <2>1. 1 \in 1..nLoads /\ o = <<Loads[1].op, Loads[1].layer>> /\ n \in Targets(Loads[1])
    BY <1>0, <1>2, LoadCalls DEF Targets
  <2> QED
    BY <2>1
<1>3. ASSUME NEW l \in 0..(nLayers - 1), NEW j \in {1, 2}, o = <<LayerLoads(l)[j].op, l>>,
             InStage(ppRank(n), 2 * l + (j - 1))
      PROVE  \E i \in 1..nLoads : o = <<Loads[i].op, Loads[i].layer>> /\ n \in Targets(Loads[i])
  <2>1. PICK load : load = LayerLoads(l)[j]
    OBVIOUS
  <2>2. load.layer = l /\ load.how = "slices" /\ subPartOfOp(load.op) = j - 1
    BY <1>3, <2>1 DEF LayerLoads, subPartOfOp
  <2>3. 2 * load.layer + subPartOfOp(load.op) = 2 * l + (j - 1) /\ 2 * l + (j - 1) \in Int
    BY <1>0, <2>2
  <2>4. getLayerOwnerPpRank(load) = UINT_MAX \/ getLayerOwnerPpRank(load) = ppRank(n)
    BY <1>1, <1>3, <2>3, OwnerIsStage
  <2>5. n \in Targets(load)
    BY <1>1, <2>2, <2>4 DEF Targets, OwnerPpRank, nodeInPpStage
  <2>6. j \in 1..4
    OBVIOUS
  <2>7. 4 * l + 1 + j \in 1..nLoads /\ Loads[4 * l + 1 + j] = load
    BY <2>1, <2>6, LoadCalls
  <2> QED
    BY <1>3, <2>1, <2>2, <2>5, <2>7
<1>4. ASSUME NEW l \in 0..(nLayers - 1), NEW j \in {3, 4}, o = <<LayerLoads(l)[j].op, l>>
      PROVE  \E i \in 1..nLoads : o = <<Loads[i].op, Loads[i].layer>> /\ n \in Targets(Loads[i])
  <2>1. PICK load : load = LayerLoads(l)[j]
    OBVIOUS
  <2>2. load.layer = l /\ load.how = "all"
    BY <1>4, <2>1 DEF LayerLoads
  <2>3. n \in Targets(load)
    BY <2>2 DEF Targets
  <2>4. j \in 1..4
    OBVIOUS
  <2>5. 4 * l + 1 + j \in 1..nLoads /\ Loads[4 * l + 1 + j] = load
    BY <2>1, <2>4, LoadCalls
  <2> QED
    BY <1>4, <2>1, <2>2, <2>3, <2>5
<1>5. CASE o \in AttentionOps(n)
  <2>1. PICK l \in 0..(nLayers - 1) : InStage(ppRank(n), 2 * l)
                                      /\ o \in {<<"block_matmul_q", l>>, <<"block_norm_0", l>>}
    BY <1>5 DEF AttentionOps, Owns
  <2>2. LayerLoads(l)[1].op = "block_matmul_q" /\ LayerLoads(l)[3].op = "block_norm_0"
    BY DEF LayerLoads
  <2>3. 2 * l + (1 - 1) = 2 * l
    BY <1>0
  <2> QED
    BY <1>3, <1>4, <2>1, <2>2, <2>3
<1>6. CASE o \in FeedForwardOps(n)
  <2>1. PICK l \in 0..(nLayers - 1) : InStage(ppRank(n), 2 * l + 1)
                                      /\ o \in {<<"block_matmul_w1", l>>, <<"block_norm_1", l>>}
    BY <1>6 DEF FeedForwardOps, Owns
  <2>2. LayerLoads(l)[2].op = "block_matmul_w1" /\ LayerLoads(l)[4].op = "block_norm_1"
    BY DEF LayerLoads
  <2>3. 2 * l + (2 - 1) = 2 * l + 1
    BY <1>0
  <2> QED
    BY <1>3, <1>4, <2>1, <2>2, <2>3
<1>7. CASE o \in EndOps(n)
  <2>1. ppRank(n) = layout.ppSize - 1 /\ o \in {<<"final_norm", 0>>, <<"final_matmul_logits", 0>>}
    BY <1>7 DEF EndOps
  <2>2. CASE o = <<"final_norm", 0>>
    <3>1. nLoads - 1 \in 1..nLoads /\ o = <<Loads[nLoads - 1].op, Loads[nLoads - 1].layer>>
      BY <1>0, <2>2, LoadCalls
    <3>2. n \in Targets(Loads[nLoads - 1])
      BY LoadCalls DEF Targets
    <3> QED
      BY <3>1, <3>2
  <2>3. CASE o = <<"final_matmul_logits", 0>>
    <3>1. nLoads \in 1..nLoads /\ o = <<Loads[nLoads].op, Loads[nLoads].layer>>
      BY <1>0, <2>3, LoadCalls
    <3>2. PICK load : load = Loads[nLoads] /\ load.how = "last"
      BY LoadCalls
    <3>3. OwnerPpRank(load) = UINT_MAX \/ OwnerPpRank(load) = ppRank(n)
      BY <1>1, <2>1, <3>2 DEF OwnerPpRank, getLayerOwnerPpRank
    <3>4. n \in Targets(load)
      BY <1>1, <3>2, <3>3 DEF Targets, nodeInPpStage
    <3> QED
      BY <3>1, <3>2, <3>4
  <2> QED
    BY <2>1, <2>2, <2>3
<1> QED
  BY <1>2, <1>5, <1>6, <1>7 DEF Ops

\* All load calls together have for a node exactly what its operations need.
LEMMA KeptIsNeeded ==
    ASSUME layout \in Layouts \cup {NoLayout}, layout.spSize = 1, NEW n \in Nodes
    PROVE  Kept(n, nLoads + 1) = Needed(n)
<1> DEFINE Sliced == {"block_matmul_q", "block_matmul_w1", "final_matmul_logits"}
<1>0. tpRank(n) = n % layout.tpSize /\ (nLoads + 1) - 1 = nLoads
  BY Ranks, StartupConstants
<1>1. ASSUME NEW j \in 1..nLoads
      PROVE  Weight(WeightFor(n, Loads[j])) =
               <<Loads[j].op, Loads[j].layer, IF Loads[j].op \in Sliced THEN tpRank(n) ELSE -1>>
  BY <1>0, LoadCalls DEF Weight, WeightFor
<1>2. ASSUME NEW x \in Kept(n, nLoads + 1) PROVE x \in Needed(n)
  <2>1. PICK j \in 1..nLoads : Dealt(n, j) /\ x = Weight(WeightFor(n, Loads[j]))
    BY <1>0, <1>2 DEF Kept
  <2>2. PICK o : o = <<Loads[j].op, Loads[j].layer>>
    OBVIOUS
  <2>3. o \in Ops(n)
    BY <2>1, <2>2 DEF Dealt, Wanted, WeightFor
  <2>4. x = <<o[1], o[2], IF o[1] \in Sliced THEN tpRank(n) ELSE -1>>
    BY <1>1, <2>1, <2>2
  <2> QED
    BY <2>3, <2>4 DEF Needed
<1>3. ASSUME NEW x \in Needed(n) PROVE x \in Kept(n, nLoads + 1)
  <2>1. PICK o \in Ops(n) : x = <<o[1], o[2], IF o[1] \in Sliced THEN tpRank(n) ELSE -1>>
    BY <1>3 DEF Needed
  <2>2. PICK j \in 1..nLoads : o = <<Loads[j].op, Loads[j].layer>> /\ n \in Targets(Loads[j])
    BY OpsAreServed
  <2>3. x = Weight(WeightFor(n, Loads[j]))
    BY <1>1, <2>1, <2>2
  <2>4. Dealt(n, j)
    BY <2>2 DEF Dealt, Wanted, WeightFor
  <2> QED
    BY <1>0, <2>3, <2>4 DEF Kept
<1> QED
  BY <1>2, <1>3

\* WeightsInPlace holds in every reachable state of a session that does not split
\* the sequence, for any number of workers and layers, any accepted split of the
\* layers into stages and any number of crashes: loadLlmNetWeight's arithmetic
\* on node indexes sends each operation buildLlmNet has placed its weights, in
\* the slice of the node's TP rank, and none is lost between the two.  With
\* sp-size above 1 it is false (the run of MCStartup_sp.cfg): nodeInPpStage
\* divides by tpSize alone.
THEOREM WeightsInPlaceHolds == StartupSpec => [](layout.spSize = 1 => WeightsInPlace)
<1>1. StartupInv /\ WeightsInv => (layout.spSize = 1 => WeightsInPlace)
  <2> SUFFICES ASSUME StartupInv, WeightsInv, layout.spSize = 1 PROVE WeightsInPlace
    OBVIOUS
  <2>1. layout \in Layouts \cup {NoLayout} /\ rootPc \in RootPcs /\ LoadOrder
    BY DEF StartupInv, StartupType
  <2>2. rootPc = "running" => loaded[ROOT] = Needed(ROOT)
    BY <2>1, KeptIsNeeded, StartupConstants DEF WeightsInv, LoadOrder
  <2>3. ASSUME NEW w \in Workers, pc[w] = "running", sockets[w][0] = ROOT
        PROVE  loaded[w] = Needed(w)
    <3>1. Talk(w) /\ Live(w) /\ w \in Nat /\ rootAt \in Nat /\ w >= 1 /\ w \in Nodes
      <4>1. Talk(w) /\ EndsOf(w) /\ w \in Nat /\ rootAt \in Nat
        BY OfWorker
      <4>2. w >= 1 /\ w \in Nodes /\ 0 \in SocketIndexes
        BY StartupConstants
      <4> QED
        BY <2>3, <4>1, <4>2 DEF EndsOf
    <3>2. Heard(w) /\ Said(w, Stage(w))
      BY <2>3, <3>1 DEF Talk, Hello
    <3>3. Stage(w) \in {"endAck", "ended"} /\ None(w)
      BY <2>1, <2>3, <3>2 DEF Said, Stage, RootPcs
    <3>4. loadAt = nLoads + 1
      BY <2>1, <3>1, <3>2, <3>3 DEF LoadOrder, Stage, Heard, RootPcs
    <3>5. InFlight(w) = {}
      BY <3>3 DEF InFlight, None
    <3>6. loaded[w] = Kept(w, nLoads + 1)
      BY <2>3, <3>4, <3>5 DEF WeightsInv, HasItsWeights
    <3> QED
      BY <2>1, <3>1, <3>6, KeptIsNeeded
  <2> QED
    BY <2>2, <2>3 DEF WeightsInPlace
<1> QED
  BY <1>1, WeightsInvariant, PTL
=============================================================================
