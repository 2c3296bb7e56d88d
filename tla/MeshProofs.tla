----------------------------- MODULE MeshProofs -----------------------------
(***************************************************************************)
(* The handshake wires the whole mesh (MeshComplete), for every number of  *)
(* workers and crashes.                                                    *)
(*                                                                         *)
(* A worker files what it accepts without asking who it is.  What makes    *)
(* this sound is an order: a worker accepts its root first, so a           *)
(* connection that is behind the root's, in the backlog or in the table,   *)
(* came after it; and workers connect to each other only after the root    *)
(* has heard of all of them.  MeshInv says so for each worker whose root   *)
(* is connected to it and to all below it: behind the root there are only  *)
(* workers of a lower index, of the present session, each in one place.    *)
(* Then a worker with one connection per lower worker has all of them      *)
(* (AllFiled, by counting), and closing the server socket drops nobody.    *)
(***************************************************************************)
EXTENDS StartupProofs, FiniteSetTheorems, FunctionTheorems

\* The root has a live connection to the worker and to all with a lower index.
Sound(j) == \A i \in 1..j : Live(i)

\* The places of j's backlog that are behind the root's connection.
IsBehind(j, p) == sockets[j][0] = ROOT \/ \E q \in 1..(p - 1) : backlog[j][q] = ROOT

\* Worker i has connected to j, of a higher index, in its present session.
Past(i, j) == peer[i] >= j - 1

Taken(j) == {k \in 1..(j - 1) : k <= peer[j]}

\* A connection behind the root's is one of a lower worker of this session, and
\* it is in one place only.
BacklogMesh(j) ==
    \A p \in 1..Len(backlog[j]) : IsBehind(j, p) =>
      /\ backlog[j][p] \in 1..(j - 1) /\ Past(backlog[j][p], j)
      /\ <<backlog[j][p], j>> \notin connecting
      /\ \A q \in 1..Len(backlog[j]) : backlog[j][q] = backlog[j][p] /\ IsBehind(j, q) => p = q

\* So is one that has been filed.
SocketMesh(j) ==
    sockets[j][0] = ROOT => \A k \in Taken(j) :
      /\ sockets[j][k] \in 1..(j - 1) /\ Past(sockets[j][k], j)
      /\ <<sockets[j][k], j>> \notin connecting
      /\ \A p \in 1..Len(backlog[j]) : backlog[j][p] # sockets[j][k]
      /\ \A l \in Taken(j) : sockets[j][l] = sockets[j][k] => k = l

\* The lower worker has the other end.
LowerEnds(j) ==
    \A i \in 1..(j - 1) : sockets[i][0] = ROOT /\ Past(i, j) => sockets[i][j - 1] = j

\* The loop of serve().
PeerLoop(w) ==
    /\ pc[w] \in {"starting", "listen", "config", "ready"} => peer[w] = 0
    /\ Served(w) => peer[w] = nOtherWorkers
    /\ \A j \in Workers : <<w, j>> \in connecting => w < j /\ Past(w, j)

\* The inductive invariant.
MeshInv ==
    \A j \in Workers : PeerLoop(j) /\ (Sound(j) => BacklogMesh(j) /\ SocketMesh(j) /\ LowerEnds(j))

-----------------------------------------------------------------------------
(* Who can be where.                                                       *)

\* The workers below one of them are workers.
LEMMA Lower ==
    ASSUME NEW j \in Workers
    PROVE  /\ j \in Nat /\ j >= 1 /\ j <= nWorkers /\ nWorkers \in Nat /\ j - 1 \in Nat /\ j \in 1..j
           /\ \A i \in 1..j : i \in Workers /\ i \in Nat
           /\ \A i \in 1..(j - 1) : /\ i \in Workers /\ i \in Nat /\ i >= 1 /\ i < j /\ i \in 1..j
                                    /\ i \in SocketIndexes /\ i # 0
           /\ j - 1 \in SocketIndexes /\ nOtherWorkers = nWorkers - 1
           /\ peer \in [Workers -> 0..nOtherWorkers] => peer[j] \in Nat /\ peer[j] <= nWorkers - 1
BY StartupConstants DEF Workers, SocketIndexes, nOtherWorkers

\* Before the root has heard of everybody, nobody connects to a peer.
LEMMA StillReady ==
    ASSUME StartupInv, NEW i \in Workers, PeerLoop(i), Live(i), rootPc \in {"connect", "ack"}, i < rootAt
    PROVE  peer[i] = 0
<1>1. Talk(i) /\ Heard(i) /\ Stage(i) = "acked"
  BY OfWorker DEF Heard, Stage
<1>2. pc[i] = "ready"
  BY <1>1 DEF Talk, Said
<1> QED
  BY <1>2 DEF PeerLoop

\* The root is not connected to those above one it has not heard of.
LEMMA UpperNotLive ==
    ASSUME StartupInv, NEW w \in Workers, ~Heard(w), NEW v \in Workers, v > w
    PROVE  ~Live(v)
<1>1. NotYet(v) /\ rootPc \in RootPcs /\ w \in Nat /\ v \in Nat /\ rootAt \in Nat /\ v # NoNode
  BY OfWorker, StartupConstants
<1>2. rootPc = "failed" \/ (rootPc \in {"connect", "ack"} /\ w >= rootAt)
  BY <1>1 DEF Heard, RootPcs
<1> QED
  BY <1>1, <1>2 DEF NotYet, Live

\* When the root has not heard of a worker yet, those below it connect to nobody.
LEMMA NobodyConnects ==
    ASSUME StartupInv, NEW j \in Workers, Sound(j), ~Heard(j), NEW i \in 1..(j - 1), PeerLoop(i)
    PROVE  peer[i] = 0 /\ ~Past(i, j) /\ <<i, j>> \notin connecting
<1>1. NotYet(j) /\ rootPc \in RootPcs /\ j \in Nat /\ rootAt \in Nat /\ j # NoNode /\ j >= 1
  BY OfWorker, StartupConstants
<1>2. Live(j) /\ Live(i) /\ i \in Workers /\ i \in Nat /\ i >= 1 /\ i < j
  BY Lower DEF Sound
<1>3. rootPc = "ack" /\ j = rootAt
  BY <1>1, <1>2 DEF Heard, NotYet, Live, RootPcs
<1>4. peer[i] = 0
  BY <1>2, <1>3, StillReady
<1>5. ~Past(i, j)
  BY <1>2, <1>4, <1>1 DEF Past
<1> QED
  BY <1>4, <1>5 DEF PeerLoop

\* An injection of 1..n into itself reaches everything.
LEMMA Pigeonhole ==
    ASSUME NEW n \in Nat, NEW f \in [1..n -> 1..n], \A k, l \in 1..n : f[k] = f[l] => k = l
    PROVE  \A i \in 1..n : \E k \in 1..n : f[k] = i
<1>1. f \in Injection(1..n, 1..n)
  BY Fun_IsInj
<1>2. IsFiniteSet(1..n)
  BY FS_Interval
<1>3. f \in Surjection(1..n, 1..n)
  BY <1>1, <1>2, FS_Injection
<1> QED
  BY <1>3, Zenon DEF Surjection

\* A worker that has filed one connection for each lower one has filed them all,
\* and nobody is left in its backlog.
LEMMA AllFiled ==
    ASSUME StartupInv, NEW j \in Workers, BacklogMesh(j), SocketMesh(j), sockets[j][0] = ROOT,
           peer[j] >= j - 1
    PROVE  /\ \A i \in 1..(j - 1) : \E k \in 1..(j - 1) : sockets[j][k] = i
           /\ \A i \in 1..(j - 1) : <<i, j>> \notin connecting
           /\ Len(backlog[j]) = 0
<1>0. /\ j \in Nat /\ j - 1 \in Nat /\ peer[j] \in Nat /\ Len(backlog[j]) \in Nat
  BY Lower, LenProperties DEF StartupInv, StartupType
<1>1. Taken(j) = 1..(j - 1)
  BY <1>0 DEF Taken
<1>2. PICK f : f = [k \in 1..(j - 1) |-> sockets[j][k]]
  OBVIOUS
<1>3. f \in [1..(j - 1) -> 1..(j - 1)] /\ \A k, l \in 1..(j - 1) : f[k] = f[l] => k = l
  BY <1>1, <1>2 DEF SocketMesh
<1>4. \A i \in 1..(j - 1) : \E k \in 1..(j - 1) : f[k] = i
  BY <1>0, <1>3, Pigeonhole
<1>5. \A i \in 1..(j - 1) : \E k \in 1..(j - 1) : sockets[j][k] = i
  BY <1>2, <1>4
<1>6. \A i \in 1..(j - 1) : <<i, j>> \notin connecting
  BY <1>1, <1>5 DEF SocketMesh
<1>7. ASSUME NEW p \in 1..Len(backlog[j]) PROVE FALSE
  <2>1. backlog[j][p] \in 1..(j - 1)
    BY DEF BacklogMesh, IsBehind
  <2>2. PICK k \in 1..(j - 1) : sockets[j][k] = backlog[j][p]
    BY <1>5, <2>1
  <2> QED
    BY <1>1, <2>2 DEF SocketMesh
<1>8. Len(backlog[j]) = 0
  <2>1. PICK n \in Nat : n = Len(backlog[j])
    BY <1>0
  <2>2. \A p \in 1..n : FALSE
    BY <1>7, <2>1
  <2>3. n = 0
    BY <2>2
  <2> QED
    BY <2>1, <2>3
<1> QED
  BY <1>5, <1>6, <1>8

-----------------------------------------------------------------------------
(* What a step leaves alone.                                               *)

\* The lower workers' loops go on, and none connects to j a second time.
LowerGoOn(j) ==
    \A i \in 1..(j - 1) : /\ peer'[i] >= peer[i] /\ peer[i] \in Int /\ peer'[i] \in Int
                          /\ <<i, j>> \in connecting' => <<i, j>> \in connecting \/ ~Past(i, j)

\* The backlog of j.
LEMMA BacklogFrame ==
    ASSUME NEW j \in Workers, BacklogMesh(j), LowerGoOn(j), backlog'[j] = backlog[j],
           sockets'[j][0] = ROOT => sockets[j][0] = ROOT
    PROVE  BacklogMesh(j)'
<1>1. \A p : IsBehind(j, p)' => IsBehind(j, p)
  BY DEF IsBehind
<1>2. \A i \in 1..(j - 1) : Past(i, j) => Past(i, j)' /\ (<<i, j>> \in connecting' => <<i, j>> \in connecting)
  BY Lower DEF LowerGoOn, Past
<1> SUFFICES ASSUME NEW p \in 1..Len(backlog[j]), IsBehind(j, p)'
             PROVE  /\ backlog[j][p] \in 1..(j - 1) /\ Past(backlog[j][p], j)'
                    /\ <<backlog[j][p], j>> \notin connecting'
                    /\ \A q \in 1..Len(backlog[j]) :
                         backlog[j][q] = backlog[j][p] /\ IsBehind(j, q)' => p = q
  BY DEF BacklogMesh, Past
<1> QED
  BY <1>1, <1>2 DEF BacklogMesh

\* The connections j has filed.
LEMMA SocketFrame ==
    ASSUME NEW j \in Workers, SocketMesh(j), LowerGoOn(j), backlog'[j] = backlog[j],
           sockets'[j][0] = ROOT => sockets[j][0] = ROOT,
           Taken(j)' = Taken(j),
           sockets[j][0] = ROOT => \A k \in Taken(j) : sockets'[j][k] = sockets[j][k]
    PROVE  SocketMesh(j)'
<1>1. \A i \in 1..(j - 1) : Past(i, j) => Past(i, j)' /\ (<<i, j>> \in connecting' => <<i, j>> \in connecting)
  BY Lower DEF LowerGoOn, Past
<1> SUFFICES ASSUME sockets[j][0] = ROOT, NEW k \in Taken(j)
             PROVE  /\ sockets[j][k] \in 1..(j - 1) /\ Past(sockets[j][k], j)'
                    /\ <<sockets[j][k], j>> \notin connecting'
                    /\ \A p \in 1..Len(backlog[j]) : backlog[j][p] # sockets[j][k]
                    /\ \A l \in Taken(j) : sockets[j][l] = sockets[j][k] => k = l
  BY DEF SocketMesh, Past
<1> QED
  BY <1>1 DEF SocketMesh

\* The ends the lower workers have.
LEMMA LowerFrame ==
    ASSUME NEW j \in Workers, LowerEnds(j),
           \A i \in 1..(j - 1) :
             sockets'[i][0] = ROOT /\ Past(i, j)' =>
               /\ sockets[i][0] = ROOT /\ Past(i, j)
               /\ sockets[i][j - 1] = j => sockets'[i][j - 1] = j
    PROVE  LowerEnds(j)'
BY DEF LowerEnds

Mesh(j) == BacklogMesh(j) /\ SocketMesh(j) /\ LowerEnds(j)

\* What the invariant says of one worker.
LEMMA MeshOf ==
    ASSUME MeshInv, NEW j \in Workers
    PROVE  PeerLoop(j) /\ (Sound(j) => Mesh(j))
BY DEF MeshInv, Mesh

\* And after a step.
LEMMA MeshByWorker ==
    ASSUME \A j \in Workers : PeerLoop(j)' /\ (Sound(j)' => Mesh(j)')
    PROVE  MeshInv'
BY DEF MeshInv, Mesh

\* A step that leaves the connections and the loops of serve() alone.
LEMMA StillMesh ==
    ASSUME MeshInv, UNCHANGED <<rootSockets, connecting, backlog, sockets, peer>>,
           \A w \in Workers :
             /\ pc'[w] \in {"starting", "listen", "config", "ready"} =>
                  pc[w] \in {"starting", "listen", "config", "ready"}
             /\ Served(w)' => Served(w)
    PROVE  MeshInv'
<1>1. ASSUME NEW j \in Workers PROVE PeerLoop(j)' /\ (Sound(j)' => Mesh(j)')
  <2>1. PeerLoop(j)'
    BY MeshOf DEF PeerLoop, Past
  <2>2. Sound(j)' => Sound(j)
    BY DEF Sound, Live
  <2>3. Mesh(j) => Mesh(j)'
    BY DEF Mesh, BacklogMesh, SocketMesh, LowerEnds, IsBehind, Taken, Past
  <2> QED
    BY <2>1, <2>2, <2>3, MeshOf
<1> QED
  BY <1>1, MeshByWorker

-----------------------------------------------------------------------------
(* The steps.                                                              *)

\* The oldest connection leaves the backlog, and behind the root nothing changes.
LEMMA AcceptBacklog ==
    ASSUME StartupInv, NEW w \in Workers, NEW k \in SocketIndexes, Accept(w, k), BacklogMesh(w),
           \A i \in 1..(w - 1) : peer'[i] = peer[i]
    PROVE  /\ Len(backlog'[w]) \in Nat /\ Len(backlog[w]) = Len(backlog'[w]) + 1
           /\ \A p \in 1..Len(backlog'[w]) : backlog'[w][p] = backlog[w][p + 1] /\ p + 1 \in 1..Len(backlog[w])
           /\ BacklogMesh(w)'
<1>1. PICK s, t : s = backlog[w] /\ t = Tail(s)
  OBVIOUS
<1>2. s \in Seq(Nodes \cup {GONE}) /\ s # <<>> /\ Head(s) = s[1]
  BY <1>1, HeadTailProperties DEF StartupInv, StartupType, Accept
<1>3. /\ t \in Seq(Nodes \cup {GONE}) /\ Len(s) \in Nat /\ Len(t) = Len(s) - 1 /\ Len(t) \in Nat
      /\ \A p \in 1..Len(t) : t[p] = s[p + 1] /\ p + 1 \in 1..Len(s)
  <2>1. t \in Seq(Nodes \cup {GONE})
    BY <1>1, <1>2, HeadTailProperties, Zenon
  <2>2. Len(t) = Len(s) - 1 /\ \A p \in 1..Len(t) : t[p] = s[p + 1]
    BY <1>1, <1>2, HeadTailProperties
  <2>3. Len(s) \in Nat /\ Len(t) \in Nat
    BY <1>2, <2>1, LenProperties
  <2> QED
    BY <2>1, <2>2, <2>3
<1>4. backlog'[w] = t /\ connecting' = connecting
  BY <1>1 DEF Accept, StartupInv, StartupType
<1>5. sockets'[w][0] = ROOT => sockets[w][0] = ROOT \/ s[1] = ROOT
  <2>1. sockets' = [sockets EXCEPT ![w][k] = s[1]] /\ sockets \in [Workers -> [SocketIndexes -> Ends]]
    BY <1>1, <1>2 DEF Accept, StartupInv, StartupType
  <2> QED
    BY <2>1, StartupConstants
<1>6. ASSUME NEW p \in 1..Len(t), IsBehind(w, p)' PROVE IsBehind(w, p + 1)
  <2>0. p \in Nat /\ p >= 1 /\ p + 1 \in Nat /\ (p + 1) - 1 = p
    BY <1>3
  <2>1. CASE sockets[w][0] = ROOT
    BY <2>1 DEF IsBehind
  <2>2. CASE s[1] = ROOT
    <3>1. 1 \in 1..((p + 1) - 1)
      BY <2>0
    <3> QED
      BY <1>1, <2>2, <3>1 DEF IsBehind
  <2>3. CASE \E q \in 1..(p - 1) : t[q] = ROOT
    <3>1. PICK q \in 1..(p - 1) : t[q] = ROOT
      BY <2>3
    <3>2. q \in 1..Len(t) /\ q + 1 \in 1..((p + 1) - 1)
      BY <1>3, <2>0, <3>1
    <3>3. s[q + 1] = ROOT
      BY <1>3, <3>1, <3>2
    <3> QED
      BY <1>1, <3>2, <3>3 DEF IsBehind
  <2> QED
    BY <1>4, <1>5, <1>6, <2>1, <2>2, <2>3 DEF IsBehind
<1>7. ASSUME NEW p \in 1..Len(t), IsBehind(w, p)'
      PROVE  /\ t[p] \in 1..(w - 1) /\ Past(t[p], w)'
             /\ <<t[p], w>> \notin connecting'
             /\ \A q \in 1..Len(t) : t[q] = t[p] /\ IsBehind(w, q)' => p = q
  <2>1. p + 1 \in 1..Len(s) /\ IsBehind(w, p + 1) /\ t[p] = s[p + 1]
    BY <1>3, <1>6, <1>7
  <2>2. /\ s[p + 1] \in 1..(w - 1) /\ Past(s[p + 1], w) /\ <<s[p + 1], w>> \notin connecting
    BY <1>1, <2>1 DEF BacklogMesh
  <2>3. ASSUME NEW q \in 1..Len(t), t[q] = t[p], IsBehind(w, q)' PROVE p = q
    <3>1. q + 1 \in 1..Len(s) /\ IsBehind(w, q + 1) /\ t[q] = s[q + 1]
      BY <1>3, <1>6, <2>3
    <3>2. p + 1 = q + 1
      BY <1>1, <2>1, <2>3, <3>1 DEF BacklogMesh
    <3> QED
      BY <1>3, <3>2
  <2> QED
    BY <1>4, <2>1, <2>2, <2>3 DEF Past
<1>8. BacklogMesh(w)'
  BY <1>4, <1>7 DEF BacklogMesh, Past
<1> QED
  BY <1>1, <1>3, <1>4, <1>8

\* A worker takes a connection for the root's.
LEMMA AcceptRootMesh ==
    ASSUME StartupInv, MeshInv, NEW w \in Workers, AcceptRoot(w)
    PROVE  MeshInv'
<1>0. /\ UNCHANGED <<rootSockets, connecting, peer>> /\ pc[w] = "listen" /\ pc'[w] = "config"
      /\ Accept(w, 0) /\ \A v \in Workers \ {w} : pc'[v] = pc[v]
      /\ peer \in [Workers -> 0..nOtherWorkers]
  BY DEF AcceptRoot, Accept, Goto, StartupInv, StartupType
<1>1. /\ \A v \in Workers : \A l \in SocketIndexes :
           v # w \/ l # 0 => sockets'[v][l] = sockets[v][l]
      /\ \A v \in Workers \ {w} : backlog'[v] = backlog[v] /\ sockets'[v] = sockets[v]
  BY <1>0, StartupConstants DEF Accept, StartupInv, StartupType
<1>2. peer[w] = 0
  BY <1>0, MeshOf DEF PeerLoop
<1>3. ASSUME NEW j \in Workers PROVE PeerLoop(j)' /\ (Sound(j)' => Mesh(j)')
  <2>1. PeerLoop(j)'
    BY <1>0, MeshOf DEF PeerLoop, Past, Served
  <2>2. ASSUME Sound(j)' PROVE Mesh(j)'
    <3>1. Sound(j) /\ Mesh(j)
      BY <1>0, <2>2, MeshOf DEF Sound, Live
    <3>2. LowerGoOn(j)
      BY <1>0, Lower DEF LowerGoOn
    <3>3. LowerEnds(j)'
      <4>1. ASSUME NEW i \in 1..(j - 1), Past(i, j) PROVE i # w
        BY <1>2, <4>1, Lower DEF Past
      <4>2. \A i \in 1..(j - 1) : Past(i, j)' => sockets'[i] = sockets[i] /\ Past(i, j)
        BY <1>0, <1>1, <4>1, Lower DEF Past
      <4> QED
        BY <3>1, <4>2, LowerFrame DEF Mesh
    <3>4. CASE j # w
      <4>1. BacklogMesh(j)' /\ SocketMesh(j)'
        BY <1>0, <1>1, <3>1, <3>2, <3>4, BacklogFrame, SocketFrame DEF Mesh, Taken
      <4> QED
        BY <3>3, <4>1 DEF Mesh
    <3>5. CASE j = w
      <4>1. BacklogMesh(w)'
        BY <1>0, <3>1, <3>5, AcceptBacklog, StartupConstants DEF Mesh
      <4>2. Taken(w)' = {}
        BY <1>0, <1>2 DEF Taken
      <4>3. SocketMesh(w)'
        BY <4>2 DEF SocketMesh
      <4> QED
        BY <3>3, <3>5, <4>1, <4>3 DEF Mesh
    <3> QED
      BY <3>4, <3>5
  <2> QED
    BY <2>1, <2>2
<1> QED
  BY <1>3, MeshByWorker

\* A worker takes a connection for a peer's.
LEMMA AcceptPeerMesh ==
    ASSUME StartupInv, MeshInv, NEW w \in Workers, AcceptPeer(w)
    PROVE  MeshInv'
<1>0. PICK k : k = peer[w] + 1
  OBVIOUS
<1>1. /\ peer \in [Workers -> 0..nOtherWorkers] /\ w \in Nat /\ w >= 1 /\ peer[w] \in Nat
      /\ sockets \in [Workers -> [SocketIndexes -> Ends]]
  BY Lower DEF StartupInv, StartupType
<1>2. k < w /\ SocketIndex(w, OtherWorkerIndex(w, peer[w])) = k /\ k \in 1..(w - 1)
  BY <1>0, <1>1, StartupConstants DEF AcceptPeer, OtherWorkerIndex, SocketIndex
<1>3. /\ UNCHANGED <<rootSockets, connecting, pc>> /\ pc[w] = "peers" /\ Accept(w, k)
      /\ peer' = [peer EXCEPT ![w] = k]
  BY <1>0, <1>2 DEF AcceptPeer, Accept
<1>4. k \in SocketIndexes /\ k # 0
  BY <1>2, Lower
<1>5. /\ \A v \in Workers : \A l \in SocketIndexes :
           v # w \/ l # k => sockets'[v][l] = sockets[v][l]
      /\ \A v \in Workers \ {w} : backlog'[v] = backlog[v] /\ sockets'[v] = sockets[v]
      /\ sockets'[w][k] = backlog[w][1] /\ Len(backlog[w]) >= 1
  <2>1. sockets'[w][k] = backlog[w][1] /\ Len(backlog[w]) >= 1
    BY <1>3, <1>4, AcceptEnds
  <2> QED
    BY <1>1, <1>3, <1>4, <2>1 DEF Accept, StartupInv, StartupType
<1>6. peer'[w] = k /\ \A v \in Workers \ {w} : peer'[v] = peer[v]
  BY <1>1, <1>3
<1>7. ASSUME NEW j \in Workers PROVE PeerLoop(j)' /\ (Sound(j)' => Mesh(j)')
  <2>1. PeerLoop(j)'
    <3>1. CASE j # w
      BY <1>3, <1>6, <3>1, MeshOf DEF PeerLoop, Past, Served
    <3>2. CASE j = w
      <4>1. \A v \in Workers : Past(w, v) => Past(w, v)'
        BY <1>0, <1>1, <1>6, StartupConstants DEF Past
      <4> QED
        BY <1>3, <3>2, <4>1, MeshOf DEF PeerLoop, Served
    <3> QED
      BY <3>1, <3>2
  <2>2. ASSUME Sound(j)' PROVE Mesh(j)'
    <3>1. Sound(j) /\ Mesh(j)
      BY <1>3, <2>2, MeshOf DEF Sound, Live
    <3>2. LowerGoOn(j)
      <4>1. ASSUME NEW i \in 1..(j - 1) PROVE peer'[i] >= peer[i] /\ peer[i] \in Int /\ peer'[i] \in Int
        <5>1. i \in Workers
          BY Lower
        <5> QED
          BY <1>0, <1>1, <1>6, <5>1, Lower
      <4> QED
        BY <1>3, <4>1 DEF LowerGoOn
    <3>3. LowerEnds(j)'
      <4>1. ASSUME NEW i \in 1..(j - 1), Past(i, j)' PROVE i # w
        BY <1>2, <1>6, <4>1, Lower DEF Past
      <4>2. \A i \in 1..(j - 1) : Past(i, j)' => sockets'[i] = sockets[i] /\ Past(i, j)
        BY <1>5, <1>6, <4>1, Lower DEF Past
      <4> QED
        BY <3>1, <4>2, LowerFrame DEF Mesh
    <3>4. CASE j # w
      <4>1. BacklogMesh(j)' /\ SocketMesh(j)'
        BY <1>5, <1>6, <3>1, <3>2, <3>4, BacklogFrame, SocketFrame DEF Mesh, Taken
      <4> QED
        BY <3>3, <4>1 DEF Mesh
    <3>5. CASE j = w
      <4>1. \A i \in 1..(w - 1) : peer'[i] = peer[i]
        BY <1>6, Lower
      <4>2. /\ Len(backlog'[w]) \in Nat /\ Len(backlog[w]) = Len(backlog'[w]) + 1
            /\ \A p \in 1..Len(backlog'[w]) :
                 backlog'[w][p] = backlog[w][p + 1] /\ p + 1 \in 1..Len(backlog[w])
            /\ BacklogMesh(w)'
        BY <1>3, <1>4, <3>1, <3>5, <4>1, AcceptBacklog DEF Mesh
      <4>3. Taken(w)' = Taken(w) \cup {k} /\ k \notin Taken(w)
        BY <1>0, <1>1, <1>2, <1>6 DEF Taken
      <4>4. ASSUME sockets'[w][0] = ROOT PROVE SocketMesh(w)'
        <5>1. sockets[w][0] = ROOT
          BY <1>4, <1>5, <4>4, StartupConstants
        <5>2. \A p \in 1..Len(backlog[w]) : IsBehind(w, p)
          BY <5>1 DEF IsBehind
        <5>3. PICK b : b = backlog[w][1]
          OBVIOUS
        <5>4. 1 \in 1..Len(backlog[w])
          BY <4>2
        <5>5. /\ b \in 1..(w - 1) /\ Past(b, w) /\ <<b, w>> \notin connecting
              /\ \A q \in 1..Len(backlog[w]) : backlog[w][q] = b => q = 1
          BY <3>1, <3>5, <5>2, <5>3, <5>4 DEF Mesh, BacklogMesh
        <5>6. \A p \in 1..Len(backlog'[w]) : backlog'[w][p] # b
          BY <4>2, <5>5
        <5>7. \A l \in Taken(w) :
                /\ sockets'[w][l] = sockets[w][l] /\ sockets[w][l] # b
                /\ sockets[w][l] \in 1..(w - 1) /\ Past(sockets[w][l], w)
                /\ <<sockets[w][l], w>> \notin connecting
                /\ \A p \in 1..Len(backlog[w]) : backlog[w][p] # sockets[w][l]
                /\ \A m \in Taken(w) : sockets[w][m] = sockets[w][l] => l = m
          <6>1. \A l \in Taken(w) : l \in SocketIndexes /\ l # k
            BY <4>3, Lower DEF Taken
          <6> QED
            BY <1>5, <3>1, <3>5, <5>1, <5>3, <5>4, <6>1 DEF Mesh, SocketMesh
        <5>8. \A i \in 1..(w - 1) : Past(i, w)' <=> Past(i, w)
          BY <4>1 DEF Past
        <5>9. ASSUME NEW l \in Taken(w) \cup {k}
              PROVE  /\ sockets'[w][l] \in 1..(w - 1) /\ Past(sockets[w][l], w)'
                     /\ <<sockets'[w][l], w>> \notin connecting'
                     /\ \A p \in 1..Len(backlog'[w]) : backlog'[w][p] # sockets'[w][l]
                     /\ \A m \in Taken(w) \cup {k} : sockets'[w][m] = sockets'[w][l] => l = m
          <6>1. CASE l = k
            <7>1. sockets'[w][l] = b
              BY <1>5, <5>3, <6>1
            <7>2. \A m \in Taken(w) \cup {k} : sockets'[w][m] = b => l = m
              BY <5>7, <6>1
            <7>3. Past(b, w)' /\ <<b, w>> \notin connecting'
              BY <1>3, <5>5, <5>8
            <7> QED
              BY <5>5, <5>6, <7>1, <7>2, <7>3, Zenon DEF Past
          <6>2. CASE l \in Taken(w)
            <7>1. PICK x : x = sockets[w][l]
              OBVIOUS
            <7>2. /\ sockets'[w][l] = x /\ x # b /\ x \in 1..(w - 1) /\ Past(x, w)
                  /\ <<x, w>> \notin connecting
                  /\ \A p \in 1..Len(backlog[w]) : backlog[w][p] # x
                  /\ \A m \in Taken(w) : sockets[w][m] = x => l = m
              BY <5>7, <6>2, <7>1, Zenon
            <7>3. \A m \in Taken(w) \cup {k} : sockets'[w][m] = x => l = m
              BY <1>5, <5>3, <5>7, <7>2
            <7>4. Past(x, w)' /\ <<x, w>> \notin connecting'
              BY <1>3, <5>8, <7>2
            <7>5. \A p \in 1..Len(backlog'[w]) : backlog'[w][p] # x
              BY <4>2, <7>2
            <7> QED
              BY <7>2, <7>3, <7>4, <7>5, Zenon DEF Past
          <6> QED
            BY <5>9, <6>1, <6>2
        <5> SUFFICES ASSUME NEW l \in Taken(w)'
                     PROVE  /\ sockets'[w][l] \in 1..(w - 1) /\ Past(sockets[w][l], w)'
                            /\ <<sockets'[w][l], w>> \notin connecting'
                            /\ \A p \in 1..Len(backlog'[w]) : backlog'[w][p] # sockets'[w][l]
                            /\ \A m \in Taken(w)' : sockets'[w][m] = sockets'[w][l] => l = m
          BY Zenon DEF SocketMesh, Past
        <5> QED
          BY <4>3, <5>9, Zenon
      <4>5. SocketMesh(w)'
        BY <4>4 DEF SocketMesh
      <4> QED
        BY <3>3, <3>5, <4>2, <4>5 DEF Mesh
    <3> QED
      BY <3>4, <3>5
  <2> QED
    BY <2>1, <2>2
<1> QED
  BY <1>7, MeshByWorker

\* A worker connects to a peer.
LEMMA ConnectPeerMesh ==
    ASSUME StartupInv, MeshInv, NEW w \in Workers, ConnectPeer(w)
    PROVE  MeshInv'
<1>0. PICK k : k = peer[w] + 1
  OBVIOUS
<1>1. /\ peer \in [Workers -> 0..nOtherWorkers] /\ w \in Nat /\ w >= 1 /\ peer[w] \in Nat
      /\ sockets \in [Workers -> [SocketIndexes -> Ends]]
      /\ peer[w] \in 0..nOtherWorkers /\ peer[w] < nOtherWorkers
  BY Lower DEF StartupInv, StartupType, ConnectPeer
<1>2. /\ peer[w] >= w - 1 /\ OtherWorkerIndex(w, peer[w]) = k + 1 /\ k + 1 > w
      /\ SocketIndex(w, k + 1) = k
  BY <1>0, <1>1, StartupConstants DEF ConnectPeer, OtherWorkerIndex, SocketIndex
<1>3. /\ UNCHANGED <<rootSockets, backlog, pc>> /\ pc[w] = "peers"
      /\ connecting' = connecting \cup {<<w, k + 1>>}
      /\ sockets' = [sockets EXCEPT ![w][k] = k + 1]
      /\ peer' = [peer EXCEPT ![w] = k]
  BY <1>0, <1>2 DEF ConnectPeer, ConnectSocket
<1>4. k \in SocketIndexes /\ k # 0 /\ k >= w /\ k \in Nat /\ k + 1 \in Workers
  BY <1>0, <1>1, <1>2, PeerIndexes
<1>5. /\ \A v \in Workers : \A l \in SocketIndexes :
           v # w \/ l # k => sockets'[v][l] = sockets[v][l]
      /\ \A v \in Workers \ {w} : sockets'[v] = sockets[v]
      /\ sockets'[w][k] = k + 1
  BY <1>1, <1>3, <1>4
<1>6. peer'[w] = k /\ \A v \in Workers \ {w} : peer'[v] = peer[v]
  BY <1>1, <1>3
<1>7. \A v, j \in Workers : <<v, j>> \in connecting' <=> <<v, j>> \in connecting \/ (v = w /\ j = k + 1)
  BY <1>3
<1>8. \A j \in Workers : j \in Nat /\ (Past(w, j) => Past(w, j)')
  BY <1>0, <1>1, <1>6, StartupConstants DEF Past
<1>9. ~Past(w, k + 1) /\ Past(w, k + 1)'
  BY <1>0, <1>1, <1>4, <1>6 DEF Past
<1>10. ASSUME NEW j \in Workers PROVE PeerLoop(j)' /\ (Sound(j)' => Mesh(j)')
  <2>1. PeerLoop(j)'
    <3>1. CASE j # w
      BY <1>3, <1>6, <1>7, <3>1, MeshOf DEF PeerLoop, Past, Served
    <3>2. CASE j = w
      <4>1. \A v \in Workers : <<w, v>> \in connecting' => w < v /\ Past(w, v)'
        BY <1>2, <1>7, <1>8, <1>9, MeshOf DEF PeerLoop
      <4> QED
        BY <1>3, <3>2, <4>1 DEF PeerLoop, Served
    <3> QED
      BY <3>1, <3>2
  <2>2. ASSUME Sound(j)' PROVE Mesh(j)'
    <3>1. Sound(j) /\ Mesh(j)
      BY <1>3, <2>2, MeshOf DEF Sound, Live
    <3>2. LowerGoOn(j)
      <4>1. ASSUME NEW i \in 1..(j - 1)
            PROVE  /\ peer'[i] >= peer[i] /\ peer[i] \in Int /\ peer'[i] \in Int
                   /\ <<i, j>> \in connecting' => <<i, j>> \in connecting \/ ~Past(i, j)
        <5>1. i \in Workers /\ peer[i] \in Nat
          BY <1>1, Lower
        <5> QED
          BY <1>0, <1>1, <1>4, <1>6, <1>7, <1>9, <5>1
      <4> QED
        BY <4>1 DEF LowerGoOn
    <3>3. LowerEnds(j)'
      <4>1. ASSUME NEW i \in 1..(j - 1), sockets'[i][0] = ROOT, Past(i, j)' PROVE sockets'[i][j - 1] = j
        <5>1. i \in Workers /\ j - 1 \in SocketIndexes /\ 0 \in SocketIndexes /\ j \in Nat
          BY Lower, StartupConstants
        <5>2. CASE i # w
          BY <1>5, <1>6, <3>1, <4>1, <5>1, <5>2 DEF Mesh, LowerEnds, Past
        <5>3. CASE i = w /\ j = k + 1
          BY <1>4, <1>5, <5>3
        <5>4. CASE i = w /\ j # k + 1
          <6>1. Past(i, j)
            BY <1>0, <1>1, <1>4, <1>6, <4>1, <5>1, <5>4 DEF Past
          <6>2. j - 1 # k /\ 0 # k
            BY <1>4, <5>1, <5>4
          <6> QED
            BY <1>5, <3>1, <4>1, <5>1, <5>4, <6>1, <6>2 DEF Mesh, LowerEnds
        <5> QED
          BY <5>2, <5>3, <5>4
      <4> QED
        BY <4>1 DEF LowerEnds, Past
    <3>4. sockets'[j][0] = sockets[j][0]
      BY <1>4, <1>5, StartupConstants
    <3>5. Taken(j)' = Taken(j)
      <4>1. CASE j # w
        BY <1>6, <4>1 DEF Taken
      <4>2. CASE j = w
        BY <1>0, <1>1, <1>2, <1>6, <4>2 DEF Taken
      <4> QED
        BY <4>1, <4>2
    <3>6. \A l \in Taken(j) : sockets'[j][l] = sockets[j][l]
      <4>1. \A l \in Taken(j) : l \in SocketIndexes /\ l < j
        BY Lower DEF Taken
      <4>2. \A l \in Taken(j) : j # w \/ l # k
        BY <1>1, <1>4, <4>1
      <4> QED
        BY <1>5, <4>1, <4>2
    <3>7. BacklogMesh(j)'
      BY <1>3, <3>1, <3>2, <3>4, BacklogFrame DEF Mesh
    <3>8. SocketMesh(j)'
      BY <1>3, <3>1, <3>2, <3>4, <3>5, <3>6, SocketFrame DEF Mesh
    <3> QED
      BY <3>3, <3>7, <3>8 DEF Mesh
  <2> QED
    BY <2>1, <2>2
<1> QED
  BY <1>10, MeshByWorker

\* A worker of the present session that has got through its lower peers has
\* nobody left to accept.
LEMMA NobodyWaits ==
    ASSUME StartupInv, MeshInv, NEW w \in Workers, Sound(w), Heard(w), peer[w] >= w - 1
    PROVE  /\ Waiting(w) = {} /\ Len(backlog[w]) = 0 /\ sockets[w][0] = ROOT
           /\ \A i \in 1..(w - 1) : <<i, w>> \notin connecting
<1>1. sockets[w][0] = ROOT
  BY OfWorker, Lower DEF Talk, Sound
<1>2. Len(backlog[w]) = 0 /\ \A i \in 1..(w - 1) : <<i, w>> \notin connecting
  BY <1>1, MeshOf, AllFiled DEF Mesh
<1>3. Waiting(w) = {}
  <2>1. PICK s : s = backlog[w]
    OBVIOUS
  <2>2. s \in Seq(Nodes \cup {GONE}) /\ Len(s) = 0
    BY <1>2, <2>1 DEF StartupInv, StartupType
  <2>3. DOMAIN s = {}
    BY <2>2
  <2> QED
    BY <2>1, <2>3 DEF Waiting
<1> QED
  BY <1>1, <1>2, <1>3

\* A worker returns from serve() and closes its server socket.
LEMMA ServeMesh ==
    ASSUME StartupInv, MeshInv, NEW w \in Workers, Serve(w)
    PROVE  MeshInv'
<1>1. /\ peer \in [Workers -> 0..nOtherWorkers] /\ w \in Nat /\ w >= 1 /\ peer[w] = nOtherWorkers
      /\ peer[w] >= w - 1 /\ UNCHANGED <<connecting, peer>> /\ LoseEnds(Waiting(w), w)
      /\ StartupType /\ pc'[w] = "served" /\ \A v \in Workers \ {w} : pc'[v] = pc[v]
  <2>1. /\ peer \in [Workers -> 0..nOtherWorkers] /\ peer[w] = nOtherWorkers
        /\ UNCHANGED <<connecting, peer>> /\ LoseEnds(Waiting(w), w) /\ StartupType
    BY DEF StartupInv, StartupType, Serve
  <2>2. pc'[w] = "served" /\ \A v \in Workers \ {w} : pc'[v] = pc[v]
    BY DEF StartupInv, StartupType, Serve, Goto
  <2>3. w \in Nat /\ w >= 1 /\ nOtherWorkers >= w - 1
    BY Lower
  <2> QED
    BY <2>1, <2>2, <2>3
<1>2. /\ \A v \in Workers \ {w} : backlog'[v] = backlog[v]
      /\ backlog'[w] = <<>>
  BY DEF Serve, StartupInv, StartupType
<1>3. PICK S : S = Waiting(w)
  OBVIOUS
<1>4. /\ \A v \in Workers \ {w} : rootSockets'[v] = rootSockets[v]
      /\ rootSockets'[w] = w => rootSockets[w] = w
      /\ \A v \in Workers : \A k \in SocketIndexes :
           /\ sockets'[v][k] = sockets[v][k] \/ (v \in S /\ sockets[v][k] = w)
           /\ sockets'[v][k] = ROOT <=> sockets[v][k] = ROOT
  <2>1. LoseEnds(S, w)
    BY <1>1, <1>3
  <2> QED
    BY <1>1, <2>1, LostEnds, StartupConstants
<1>5. ASSUME NEW v \in Workers, v > w, Sound(v) PROVE S = {}
  <2>1. Sound(w) /\ Live(v)
    BY <1>5, Lower DEF Sound
  <2>2. Heard(w)
    BY <1>5, <2>1, UpperNotLive
  <2> QED
    BY <1>1, <1>3, <2>1, <2>2, NobodyWaits
<1>6. ASSUME NEW j \in Workers PROVE PeerLoop(j)' /\ (Sound(j)' => Mesh(j)')
  <2>1. PeerLoop(j)'
    <3>1. CASE j # w
      BY <1>1, <3>1, MeshOf DEF PeerLoop, Past, Served
    <3>2. CASE j = w
      BY <1>1, <3>2, MeshOf DEF PeerLoop, Past, Served
    <3> QED
      BY <3>1, <3>2
  <2>2. ASSUME Sound(j)' PROVE Mesh(j)'
    <3>1. Sound(j) /\ Mesh(j)
      <4>1. \A v \in Workers : Live(v)' => Live(v)
        BY <1>4 DEF Live
      <4>2. \A i \in 1..j : i \in Workers
        BY Lower
      <4> QED
        BY <2>2, <4>1, <4>2, MeshOf DEF Sound
    <3>2. LowerGoOn(j)
      <4>1. \A i \in 1..(j - 1) : peer[i] \in Int /\ peer[i] >= peer[i]
        BY <1>1, Lower
      <4> QED
        BY <1>1, <4>1 DEF LowerGoOn
    <3>3. \A i \in 1..(j - 1) : Past(i, j)' <=> Past(i, j)
      BY <1>1 DEF Past
    <3>4. LowerEnds(j)'
      <4>1. ASSUME NEW i \in 1..(j - 1), sockets'[i][0] = ROOT, Past(i, j)' PROVE sockets'[i][j - 1] = j
        <5>1. i \in Workers /\ i < j /\ j - 1 \in SocketIndexes /\ 0 \in SocketIndexes
          BY Lower, StartupConstants
        <5>2. sockets[i][j - 1] = j
          BY <1>4, <3>1, <3>3, <4>1, <5>1 DEF Mesh, LowerEnds
        <5>3. ASSUME j = w PROVE S = {}
          <6>1. Heard(w)
            BY <3>1, <3>3, <4>1, <5>1, <5>3, MeshOf, NobodyConnects
          <6> QED
            BY <1>1, <1>3, <3>1, <5>3, <6>1, NobodyWaits
        <5> QED
          BY <1>4, <5>1, <5>2, <5>3
      <4> QED
        BY <4>1 DEF LowerEnds, Past
    <3>5. sockets'[j][0] = ROOT <=> sockets[j][0] = ROOT
      BY <1>4, StartupConstants
    <3>6. Taken(j)' = Taken(j)
      BY <1>1 DEF Taken
    <3>7. sockets[j][0] = ROOT => \A l \in Taken(j) : sockets'[j][l] = sockets[j][l]
      <4>1. ASSUME sockets[j][0] = ROOT, NEW l \in Taken(j) PROVE sockets'[j][l] = sockets[j][l]
        <5>1. l \in SocketIndexes
          BY Lower DEF Taken
        <5>2. sockets[j][l] \in 1..(j - 1)
          BY <3>1, <4>1 DEF Mesh, SocketMesh
        <5>3. ASSUME sockets[j][l] = w PROVE S = {}
          BY <1>1, <1>5, <3>1, <5>2, <5>3, Lower
        <5> QED
          BY <1>4, <5>1, <5>3
      <4> QED
        BY <4>1
    <3>8. CASE j # w
      <4>1. BacklogMesh(j)'
        BY <1>2, <3>1, <3>2, <3>5, <3>8, BacklogFrame DEF Mesh
      <4>2. SocketMesh(j)'
        BY <1>2, <3>1, <3>2, <3>5, <3>6, <3>7, <3>8, SocketFrame DEF Mesh
      <4> QED
        BY <3>4, <4>1, <4>2 DEF Mesh
    <3>9. CASE j = w
      <4>1. BacklogMesh(w)'
        BY <1>2 DEF BacklogMesh
      <4>2. ASSUME sockets[w][0] = ROOT PROVE SocketMesh(w)'
        <5>1. Len(backlog[w]) = 0
          BY <1>1, <3>1, <3>9, <4>2, AllFiled DEF Mesh
        <5>2. backlog[w] = <<>>
          BY <5>1, EmptySeq DEF StartupInv, StartupType
        <5> QED
          BY <1>2, <3>1, <3>2, <3>5, <3>6, <3>7, <3>9, <5>2, SocketFrame DEF Mesh
      <4>3. SocketMesh(w)'
        BY <3>5, <3>9, <4>2 DEF SocketMesh
      <4> QED
        BY <3>4, <3>9, <4>1, <4>3 DEF Mesh
    <3> QED
      BY <3>8, <3>9
  <2> QED
    BY <2>1, <2>2
<1> QED
  BY <1>6, MeshByWorker

\* A listening worker gets a connection into its backlog.
LEMMA ArrivesMesh ==
    ASSUME StartupInv, MeshInv, NEW from \in Nodes, NEW to \in Workers, ConnectionArrives(from, to),
           Listening(to)
    PROVE  MeshInv'
<1>0. /\ UNCHANGED <<rootSockets, sockets, pc, peer>> /\ peer \in [Workers -> 0..nOtherWorkers]
      /\ <<from, to>> \in connecting /\ connecting' = connecting \ {<<from, to>>}
      /\ backlog' = [backlog EXCEPT ![to] = Append(backlog[to], from)]
  BY DEF ConnectionArrives, StartupInv, StartupType
<1>1. PICK s, t : s = backlog[to] /\ t = Append(s, from)
  OBVIOUS
<1>2. /\ Len(s) \in Nat /\ Len(t) = Len(s) + 1 /\ t[Len(s) + 1] = from
      /\ \A i \in 1..Len(s) : t[i] = s[i]
  <2>1. s \in Seq(Nodes \cup {GONE}) /\ from \in Nodes \cup {GONE}
    BY <1>1 DEF StartupInv, StartupType
  <2>2. Len(t) = Len(s) + 1 /\ t[Len(s) + 1] = from
    BY <1>1, <2>1, AppendProperties
  <2>3. \A i \in 1..Len(s) : t[i] = s[i]
    BY <1>1, <2>1, AppendProperties
  <2> QED
    BY <2>1, <2>2, <2>3, LenProperties
<1>3. backlog'[to] = t /\ \A v \in Workers \ {to} : backlog'[v] = backlog[v]
  BY <1>0, <1>1 DEF StartupInv, StartupType
<1>4. ASSUME sockets[to][0] = ROOT \/ \E q \in 1..Len(s) : s[q] = ROOT
      PROVE  from \in 1..(to - 1) /\ Past(from, to)
  <2>1. from # ROOT
    BY <1>0, <1>1, <1>4, OfWorker, StartupConstants DEF EndsOf, InBacklog
  <2>2. from \in Workers
    BY <2>1, StartupConstants DEF Nodes, Workers
  <2>3. from < to /\ Past(from, to)
    BY <1>0, <2>2, MeshOf DEF PeerLoop
  <2> QED
    BY <2>2, <2>3, StartupConstants
<1>5. ASSUME NEW j \in Workers PROVE PeerLoop(j)' /\ (Sound(j)' => Mesh(j)')
  <2>1. PeerLoop(j)'
    BY <1>0, MeshOf DEF PeerLoop, Past, Served
  <2>2. ASSUME Sound(j)' PROVE Mesh(j)'
    <3>1. Sound(j) /\ Mesh(j)
      BY <1>0, <2>2, MeshOf DEF Sound, Live
    <3>2. LowerGoOn(j)
      <4>1. \A i \in 1..(j - 1) : peer[i] \in Int /\ peer[i] >= peer[i]
        BY <1>0, Lower
      <4> QED
        BY <1>0, <4>1 DEF LowerGoOn
    <3>3. LowerEnds(j)'
      BY <1>0, <3>1 DEF Mesh, LowerEnds, Past
    <3>4. CASE j # to
      <4>1. Taken(j)' = Taken(j)
        BY <1>0 DEF Taken
      <4>2. BacklogMesh(j)' /\ SocketMesh(j)'
        BY <1>0, <1>3, <3>1, <3>2, <3>4, <4>1, BacklogFrame, SocketFrame DEF Mesh
      <4> QED
        BY <3>3, <4>2 DEF Mesh
    <3>5. CASE j = to
      <4>1. ASSUME NEW p \in 1..Len(t), IsBehind(to, p)', p # Len(s) + 1
            PROVE  /\ p \in 1..Len(s) /\ IsBehind(to, p) /\ t[p] = s[p] /\ t[p] # from
                   /\ t[p] \in 1..(to - 1) /\ Past(t[p], to) /\ <<t[p], to>> \notin connecting
        <5>1. p \in 1..Len(s) /\ t[p] = s[p] /\ \A q \in 1..(p - 1) : t[q] = s[q]
          BY <1>2, <4>1
        <5>2. IsBehind(to, p)
          BY <1>0, <1>1, <1>3, <4>1, <5>1 DEF IsBehind
        <5> QED
          BY <1>0, <1>1, <3>1, <3>5, <5>1, <5>2 DEF Mesh, BacklogMesh
      <4>2. ASSUME IsBehind(to, Len(s) + 1)'
            PROVE  from \in 1..(to - 1) /\ Past(from, to)
        <5>1. \A q \in 1..((Len(s) + 1) - 1) : q \in 1..Len(s) /\ t[q] = s[q]
          BY <1>2
        <5>2. sockets[to][0] = ROOT \/ \E q \in 1..Len(s) : s[q] = ROOT
          BY <1>0, <1>3, <4>2, <5>1 DEF IsBehind
        <5> QED
          BY <1>4, <5>2
      <4>3. ASSUME NEW p \in 1..Len(t), IsBehind(to, p)'
            PROVE  /\ t[p] \in 1..(to - 1) /\ Past(t[p], to)' /\ <<t[p], to>> \notin connecting'
                   /\ \A q \in 1..Len(t) : t[q] = t[p] /\ IsBehind(to, q)' => p = q
        <5>1. CASE p = Len(s) + 1
          <6>1. t[p] = from
            BY <1>2, <5>1
          <6>2. from \in 1..(to - 1) /\ Past(from, to)
            BY <4>2, <4>3, <5>1
          <6>3. \A q \in 1..Len(t) : t[q] = t[p] /\ IsBehind(to, q)' => p = q
            BY <4>1, <5>1, <6>1
          <6> QED
            BY <1>0, <6>1, <6>2, <6>3 DEF Past
        <5>2. CASE p # Len(s) + 1
          <6>1. /\ p \in 1..Len(s) /\ IsBehind(to, p) /\ t[p] = s[p] /\ t[p] # from
                /\ t[p] \in 1..(to - 1) /\ Past(t[p], to) /\ <<t[p], to>> \notin connecting
            BY <4>1, <4>3, <5>2
          <6>2. ASSUME NEW q \in 1..Len(t), t[q] = t[p], IsBehind(to, q)' PROVE p = q
            <7>1. q # Len(s) + 1
              BY <1>2, <6>1, <6>2
            <7>2. q \in 1..Len(s) /\ IsBehind(to, q) /\ t[q] = s[q]
              BY <4>1, <6>2, <7>1
            <7> QED
              BY <1>1, <3>1, <3>5, <6>1, <6>2, <7>2 DEF Mesh, BacklogMesh
          <6> QED
            BY <1>0, <6>1, <6>2 DEF Past
        <5> QED
          BY <5>1, <5>2
      <4>4. BacklogMesh(to)'
        BY <1>3, <4>3 DEF BacklogMesh, Past
      <4>5. ASSUME sockets[to][0] = ROOT, NEW k \in Taken(to)
            PROVE  /\ sockets[to][k] \in 1..(to - 1) /\ Past(sockets[to][k], to)'
                   /\ <<sockets[to][k], to>> \notin connecting'
                   /\ \A p \in 1..Len(t) : t[p] # sockets[to][k]
                   /\ \A l \in Taken(to) : sockets[to][l] = sockets[to][k] => k = l
        <5>1. PICK x : x = sockets[to][k]
          OBVIOUS
        <5>2. /\ x \in 1..(to - 1) /\ Past(x, to) /\ <<x, to>> \notin connecting
              /\ \A p \in 1..Len(s) : s[p] # x
              /\ \A l \in Taken(to) : sockets[to][l] = x => k = l
          BY <1>1, <3>1, <3>5, <4>5, <5>1 DEF Mesh, SocketMesh
        <5>3. \A p \in 1..Len(t) : t[p] # x
          BY <1>0, <1>2, <5>2
        <5>4. Past(x, to)' /\ <<x, to>> \notin connecting'
          BY <1>0, <5>2 DEF Past
        <5> QED
          BY <1>0, <5>1, <5>2, <5>3, <5>4 DEF Past
      <4>6. SocketMesh(to)'
        <5>1. Taken(to)' = Taken(to)
          BY <1>0 DEF Taken
        <5> QED
          BY <1>0, <1>3, <4>5, <5>1, SMTT(30) DEF SocketMesh, Past
      <4> QED
        BY <3>3, <3>5, <4>4, <4>6 DEF Mesh
    <3> QED
      BY <3>4, <3>5
  <2> QED
    BY <2>1, <2>2
<1> QED
  BY <1>5, MeshByWorker

\* A worker that does not listen refuses a connection: it is not one of this
\* session's lower workers.
LEMMA RefusedMesh ==
    ASSUME StartupInv, MeshInv, NEW from \in Nodes, NEW to \in Workers, ConnectionArrives(from, to),
           ~Listening(to)
    PROVE  MeshInv'
<1>0. /\ UNCHANGED <<backlog, pc, peer>> /\ peer \in [Workers -> 0..nOtherWorkers]
      /\ <<from, to>> \in connecting /\ connecting' = connecting \ {<<from, to>>}
      /\ LoseEnds({from}, to) /\ StartupType
  BY DEF ConnectionArrives, StartupInv, StartupType
<1>1. /\ \A v \in Workers \ {to} : rootSockets'[v] = rootSockets[v]
      /\ rootSockets'[to] = to => rootSockets[to] = to
      /\ \A v \in Workers : \A k \in SocketIndexes :
           /\ sockets'[v][k] = sockets[v][k] \/ (v = from /\ sockets[v][k] = to)
           /\ sockets'[v][k] = ROOT <=> sockets[v][k] = ROOT
  BY <1>0, LostEnds, StartupConstants
<1>2. ASSUME from \in Workers PROVE from < to /\ from \in 1..(to - 1)
  <2>1. from < to
    BY <1>0, <1>2, MeshOf DEF PeerLoop
  <2> QED
    BY <1>2, <2>1, StartupConstants
<1>3. ASSUME Sound(to), from \in Workers PROVE FALSE
  <2>1. Heard(to)
    BY <1>0, <1>2, <1>3, MeshOf, NobodyConnects
  <2>2. sockets[to][0] = ROOT
    BY <1>3, <2>1, OfWorker, Lower DEF Talk, Sound
  <2>3. pc[to] # "starting"
    BY <2>2, OfWorker, StartupConstants DEF Fresh
  <2>4. Served(to)
    BY <2>3 DEF Listening, Served
  <2>5. peer[to] >= to - 1
    BY <2>4, MeshOf, Lower DEF PeerLoop
  <2> QED
    BY <1>0, <1>2, <1>3, <2>1, <2>5, NobodyWaits
<1>4. ASSUME NEW j \in Workers PROVE PeerLoop(j)' /\ (Sound(j)' => Mesh(j)')
  <2>1. PeerLoop(j)'
    BY <1>0, MeshOf DEF PeerLoop, Past, Served
  <2>2. ASSUME Sound(j)' PROVE Mesh(j)'
    <3>1. Sound(j) /\ Mesh(j)
      <4>1. \A v \in Workers : Live(v)' => Live(v)
        BY <1>1 DEF Live
      <4>2. \A i \in 1..j : i \in Workers
        BY Lower
      <4> QED
        BY <2>2, <4>1, <4>2, MeshOf DEF Sound
    <3>2. LowerGoOn(j)
      <4>1. \A i \in 1..(j - 1) : peer[i] \in Int /\ peer[i] >= peer[i]
        BY <1>0, Lower
      <4> QED
        BY <1>0, <4>1 DEF LowerGoOn
    <3>3. Taken(j)' = Taken(j) /\ \A i \in 1..(j - 1) : Past(i, j)' <=> Past(i, j)
      BY <1>0 DEF Taken, Past
    <3>4. LowerEnds(j)'
      <4>1. ASSUME NEW i \in 1..(j - 1), sockets'[i][0] = ROOT, Past(i, j)' PROVE sockets'[i][j - 1] = j
        <5>1. i \in Workers /\ j - 1 \in SocketIndexes /\ 0 \in SocketIndexes
          BY Lower, StartupConstants
        <5>2. sockets[i][j - 1] = j
          BY <1>1, <3>1, <3>3, <4>1, <5>1 DEF Mesh, LowerEnds
        <5> QED
          BY <1>1, <1>3, <3>1, <5>1, <5>2
      <4> QED
        BY <4>1 DEF LowerEnds, Past
    <3>5. sockets'[j][0] = ROOT <=> sockets[j][0] = ROOT
      BY <1>1, StartupConstants
    <3>6. sockets[j][0] = ROOT => \A l \in Taken(j) : sockets'[j][l] = sockets[j][l]
      <4>1. ASSUME sockets[j][0] = ROOT, NEW l \in Taken(j) PROVE sockets'[j][l] = sockets[j][l]
        <5>1. l \in SocketIndexes
          BY Lower DEF Taken
        <5>2. sockets[j][l] \in 1..(j - 1)
          BY <3>1, <4>1 DEF Mesh, SocketMesh
        <5> QED
          BY <1>1, <1>2, <5>1, <5>2, Lower
      <4> QED
        BY <4>1
    <3>7. BacklogMesh(j)' /\ SocketMesh(j)'
      BY <1>0, <3>1, <3>2, <3>3, <3>5, <3>6, BacklogFrame, SocketFrame DEF Mesh
    <3> QED
      BY <3>4, <3>7 DEF Mesh
  <2> QED
    BY <2>1, <2>2
<1> QED
  BY <1>4, MeshByWorker

\* The root's process ends.
LEMMA RootHangUpMesh ==
    ASSUME StartupInv, MeshInv, RootHangUp, UNCHANGED <<pc, peer>>
    PROVE  MeshInv'
<1>1. connecting' \subseteq connecting /\ \A v \in Workers : rootSockets'[v] = NoNode
  BY DEF RootHangUp
<1>2. ASSUME NEW j \in Workers PROVE PeerLoop(j)' /\ ~Sound(j)'
  <2>1. PeerLoop(j)'
    BY <1>1, MeshOf DEF PeerLoop, Past, Served
  <2>2. ~Live(j)'
    BY <1>1, StartupConstants DEF Live
  <2> QED
    BY <2>1, <2>2, Lower DEF Sound
<1> QED
  BY <1>2, MeshByWorker

\* The root connects to the next worker.
LEMMA RootConnectMesh ==
    ASSUME StartupInv, MeshInv, RootConnect
    PROVE  MeshInv'
<1>0. PICK a \in Workers : a = rootAt
  BY DEF StartupInv, StartupType
<1>1. /\ UNCHANGED <<backlog, sockets, pc, peer>> /\ peer \in [Workers -> 0..nOtherWorkers]
      /\ connecting' = connecting \cup {<<ROOT, a>>} /\ rootPc = "connect"
      /\ \A v \in Workers \ {a} : rootSockets'[v] = rootSockets[v]
  BY <1>0 DEF RootConnect, ConnectSocket, StartupInv, StartupType
<1>2. \A v, j \in Workers : <<v, j>> \in connecting' <=> <<v, j>> \in connecting
  BY <1>1, StartupConstants
<1>3. \A v \in Workers : v >= a => rootSockets[v] = NoNode /\ v # NoNode
  BY <1>0, <1>1, OfWorker, StartupConstants DEF NotYet
<1>4. ASSUME NEW j \in Workers PROVE PeerLoop(j)' /\ (Sound(j)' => Mesh(j)')
  <2>0. j \in Nat /\ a \in Nat /\ \A i \in 1..j : i \in Workers /\ i \in Nat
    BY Lower
  <2>1. PeerLoop(j)'
    BY <1>1, <1>2, MeshOf DEF PeerLoop, Past, Served
  <2>2. ASSUME Sound(j)' PROVE Mesh(j)'
    <3>0. j <= a
      BY <1>1, <1>3, <2>0, <2>2, Lower DEF Sound, Live
    <3>1. CASE j < a
      <4>1. Sound(j) /\ Mesh(j)
        BY <1>1, <2>0, <2>2, <3>1, MeshOf DEF Sound, Live
      <4>2. LowerGoOn(j)
        <5>1. \A i \in 1..(j - 1) : i \in Workers /\ peer[i] \in Int /\ peer[i] >= peer[i]
          BY <1>1, Lower
        <5> QED
          BY <1>1, <1>2, <5>1 DEF LowerGoOn
      <4>3. LowerEnds(j)'
        BY <1>1, <4>1 DEF Mesh, LowerEnds, Past
      <4>4. Taken(j)' = Taken(j)
        BY <1>1 DEF Taken
      <4>5. BacklogMesh(j)' /\ SocketMesh(j)'
        BY <1>1, <4>1, <4>2, <4>4, BacklogFrame, SocketFrame DEF Mesh
      <4> QED
        BY <4>3, <4>5 DEF Mesh
    <3>2. CASE j = a
      <4>1. sockets[a][0] # ROOT /\ ~InBacklog(a, ROOT)
        <5>1. EndsOf(a) /\ 0 \in SocketIndexes
          BY OfWorker, StartupConstants
        <5>2. ~Live(a)
          BY <1>3, <2>0 DEF Live
        <5> QED
          BY <5>1, <5>2 DEF EndsOf
      <4>2. SocketMesh(a)'
        BY <1>1, <4>1 DEF SocketMesh
      <4>3. Len(backlog[a]) \in Nat
        BY LenProperties DEF StartupInv, StartupType
      <4>4. ASSUME NEW p \in 1..Len(backlog[a]) PROVE ~IsBehind(a, p)'
        <5>1. \A q \in 1..(p - 1) : q \in 1..Len(backlog[a])
          BY <4>3
        <5> QED
          BY <1>1, <4>1, <5>1 DEF IsBehind, InBacklog
      <4>5. BacklogMesh(a)'
        BY <1>1, <4>4 DEF BacklogMesh
      <4>6. ASSUME NEW i \in 1..(a - 1) PROVE ~Past(i, a)'
        <5>1. i \in Workers /\ i < a /\ i \in Nat /\ i >= 1 /\ i \in 1..j
          BY <3>2, Lower
        <5>2. Live(i)
          BY <1>1, <2>2, <5>1 DEF Sound, Live
        <5>3. peer[i] = 0
          BY <1>0, <1>1, <5>1, <5>2, MeshOf, StillReady
        <5> QED
          BY <1>1, <2>0, <5>1, <5>3 DEF Past
      <4>7. LowerEnds(a)'
        BY <4>6 DEF LowerEnds
      <4> QED
        BY <3>2, <4>2, <4>5, <4>7 DEF Mesh
    <3> QED
      BY <2>0, <3>0, <3>1, <3>2
  <2> QED
    BY <2>1, <2>2
<1> QED
  BY <1>4, MeshByWorker

\* A worker closes everything.
LEMMA RelistenMesh ==
    ASSUME StartupInv, MeshInv, NEW w \in Workers, Relisten(w)
    PROVE  MeshInv'
<1>0. /\ connecting' = {c \in connecting : c[1] # w}
      /\ backlog' = [v \in Workers |-> IF v = w THEN <<>> ELSE Closed(backlog[v], w)]
      /\ rootSockets' = [rootSockets EXCEPT ![w] =
           IF rootSockets[w] = w /\ <<ROOT, w>> \notin connecting THEN GONE ELSE rootSockets[w]]
      /\ sockets' = [v \in Workers |-> [k \in SocketIndexes |->
           IF v = w THEN NoNode
           ELSE IF sockets[v][k] = w /\ <<v, w>> \notin connecting THEN GONE
           ELSE sockets[v][k]]]
      /\ pc' = [pc EXCEPT ![w] = "starting"]
      /\ peer' = [peer EXCEPT ![w] = 0] /\ StartupType
  BY DEF Relisten, HangUp, Goto, Closed, StartupInv
<1>1. w \in Nat /\ w >= 1 /\ ROOT = 0 /\ GONE = -2 /\ NoNode = -1 /\ 0 \in SocketIndexes
  BY StartupConstants, Lower
<1>2. /\ pc'[w] = "starting" /\ peer'[w] = 0 /\ peer \in [Workers -> 0..nOtherWorkers]
      /\ \A v \in Workers \ {w} : pc'[v] = pc[v] /\ peer'[v] = peer[v]
  BY <1>0 DEF StartupType
<1>3. /\ \A v \in Workers \ {w} : rootSockets'[v] = rootSockets[v]
      /\ rootSockets'[w] = w => rootSockets[w] = w /\ <<ROOT, w>> \in connecting
  BY <1>0, <1>1 DEF StartupType
<1>4. /\ sockets'[w][0] = NoNode
      /\ \A v \in Workers \ {w} : \A k \in SocketIndexes :
           /\ sockets'[v][k] = sockets[v][k] \/ sockets[v][k] = w
           /\ sockets'[v][k] = ROOT <=> sockets[v][k] = ROOT
  <2>1. \A v \in Workers : \A k \in SocketIndexes :
          sockets'[v][k] = IF v = w THEN NoNode
                           ELSE IF sockets[v][k] = w /\ <<v, w>> \notin connecting THEN GONE
                           ELSE sockets[v][k]
    BY <1>0
  <2>2. ASSUME NEW v \in Workers \ {w}, NEW k \in SocketIndexes
        PROVE  /\ sockets'[v][k] = sockets[v][k] \/ sockets[v][k] = w
               /\ sockets'[v][k] = ROOT <=> sockets[v][k] = ROOT
    <3>1. sockets'[v][k] = IF sockets[v][k] = w /\ <<v, w>> \notin connecting THEN GONE
                           ELSE sockets[v][k]
      BY <2>1
    <3> QED
      BY <1>1, <3>1
  <2> QED
    BY <1>1, <2>1, <2>2
<1>5. backlog'[w] = <<>>
  BY <1>0
<1>6. ASSUME NEW v \in Workers \ {w}
      PROVE  /\ Len(backlog[v]) \in Nat /\ Len(backlog'[v]) = Len(backlog[v])
             /\ \A i \in 1..Len(backlog[v]) :
                  backlog'[v][i] = IF backlog[v][i] = w THEN GONE ELSE backlog[v][i]
  <2>1. backlog'[v] = Closed(backlog[v], w) /\ backlog[v] \in Seq(Nodes \cup {GONE})
    BY <1>0 DEF StartupType
  <2>2. /\ Len(Closed(backlog[v], w)) = Len(backlog[v])
        /\ \A i \in 1..Len(backlog[v]) :
             Closed(backlog[v], w)[i] = IF backlog[v][i] = w THEN GONE ELSE backlog[v][i]
    BY <2>1, ClosedOf
  <2> QED
    BY <2>1, <2>2, LenProperties
<1>7. \A v, j \in Workers : <<v, j>> \in connecting' <=> <<v, j>> \in connecting /\ v # w
  BY <1>0
<1>8. Live(w)' => Live(w) /\ ~Heard(w)
  BY <1>1, <1>3, OfWorker DEF Live, Talk, EndsOf
<1>9. ASSUME NEW j \in Workers PROVE PeerLoop(j)' /\ (Sound(j)' => Mesh(j)')
  <2>0. j \in Nat /\ \A i \in 1..j : i \in Workers /\ i \in Nat
    BY Lower
  <2>1. PeerLoop(j)'
    <3>1. CASE j # w
      BY <1>2, <1>7, <3>1, MeshOf DEF PeerLoop, Past, Served
    <3>2. CASE j = w
      BY <1>2, <1>7, <3>2 DEF PeerLoop, Served
    <3> QED
      BY <3>1, <3>2
  <2>2. ASSUME Sound(j)' PROVE Mesh(j)'
    <3>1. Sound(j) /\ Mesh(j)
      <4>1. \A v \in Workers : Live(v)' => Live(v)
        BY <1>3 DEF Live
      <4> QED
        BY <2>0, <2>2, <4>1, MeshOf DEF Sound
    <3>2. CASE j > w
      <4>1. Live(w)' /\ Live(j)
        BY <1>1, <2>0, <2>2, <3>1, <3>2, Lower DEF Sound
      <4> QED
        BY <1>8, <3>2, <4>1, UpperNotLive
    <3>3. CASE j = w
      <4>1. ~Heard(w)
        BY <1>8, <2>2, <3>3, Lower DEF Sound
      <4>2. ASSUME NEW i \in 1..(w - 1) PROVE ~Past(i, w)'
        <5>1. i \in Workers /\ i # w
          BY Lower
        <5>2. ~Past(i, w)
          BY <3>1, <3>3, <4>1, <5>1, MeshOf, NobodyConnects
        <5> QED
          BY <1>2, <5>1, <5>2 DEF Past
      <4>3. BacklogMesh(w)' /\ SocketMesh(w)' /\ LowerEnds(w)'
        BY <1>1, <1>4, <1>5, <4>2 DEF BacklogMesh, SocketMesh, LowerEnds
      <4> QED
        BY <3>3, <4>3 DEF Mesh
    <3>4. CASE j < w
      <4>0. j \in Workers \ {w} /\ j # w
        BY <1>1, <2>0, <3>4
      <4>1. \A i \in 1..(j - 1) : i \in Workers \ {w} /\ i < w /\ i >= 1 /\ i \in Nat
        BY <1>1, <2>0, <3>4, Lower
      <4>2. \A i \in 1..(j - 1) : /\ Past(i, j)' <=> Past(i, j)
                                  /\ <<i, j>> \in connecting' <=> <<i, j>> \in connecting
        BY <1>2, <1>7, <4>1 DEF Past
      <4>3. LowerEnds(j)'
        <5>1. ASSUME NEW i \in 1..(j - 1), sockets'[i][0] = ROOT, Past(i, j)' PROVE sockets'[i][j - 1] = j
          <6>1. i \in Workers \ {w} /\ j - 1 \in SocketIndexes
            BY <4>1, Lower
          <6>2. sockets[i][j - 1] = j
            BY <1>1, <1>4, <3>1, <4>2, <5>1, <6>1 DEF Mesh, LowerEnds
          <6> QED
            BY <1>4, <4>0, <6>1, <6>2
        <5> QED
          BY <5>1 DEF LowerEnds, Past
      <4>4. PICK s, t : s = backlog[j] /\ t = backlog'[j]
        OBVIOUS
      <4>5. /\ Len(s) \in Nat /\ Len(t) = Len(s)
            /\ \A i \in 1..Len(s) : t[i] = IF s[i] = w THEN GONE ELSE s[i]
        BY <1>6, <4>0, <4>4
      <4>6. ASSUME NEW p \in 1..Len(s) PROVE IsBehind(j, p)' <=> IsBehind(j, p)
        <5>1. sockets'[j][0] = ROOT <=> sockets[j][0] = ROOT
          BY <1>1, <1>4, <4>0
        <5>2. \A q \in 1..(p - 1) : t[q] = ROOT <=> s[q] = ROOT
          BY <1>1, <4>5
        <5> QED
          BY <4>4, <5>1, <5>2 DEF IsBehind
      <4>7. \A n \in 1..(j - 1), p \in 1..Len(s) : t[p] = n <=> s[p] = n
        BY <1>1, <4>1, <4>5
      <4>8. ASSUME NEW p \in 1..Len(t), IsBehind(j, p)'
            PROVE  /\ t[p] \in 1..(j - 1) /\ Past(t[p], j)' /\ <<t[p], j>> \notin connecting'
                   /\ \A q \in 1..Len(t) : t[q] = t[p] /\ IsBehind(j, q)' => p = q
        <5>1. p \in 1..Len(s) /\ IsBehind(j, p)
          BY <4>5, <4>6, <4>8
        <5>2. PICK n : n = s[p]
          OBVIOUS
        <5>3. /\ n \in 1..(j - 1) /\ Past(n, j) /\ <<n, j>> \notin connecting
              /\ \A q \in 1..Len(s) : s[q] = n /\ IsBehind(j, q) => p = q
          BY <3>1, <4>4, <5>1, <5>2 DEF Mesh, BacklogMesh
        <5>4. t[p] = n /\ Past(n, j)' /\ <<n, j>> \notin connecting'
          BY <4>2, <4>7, <5>1, <5>2, <5>3
        <5>5. \A q \in 1..Len(t) : t[q] = n /\ IsBehind(j, q)' => p = q
          BY <4>5, <4>6, <4>7, <5>3
        <5> QED
          BY <5>3, <5>4, <5>5 DEF Past
      <4>9. BacklogMesh(j)'
        BY <4>4, <4>8 DEF BacklogMesh, Past
      <4>10. Taken(j)' = Taken(j)
        BY <1>2, <4>0 DEF Taken
      <4>11. ASSUME sockets[j][0] = ROOT, NEW k \in Taken(j)
             PROVE  /\ sockets'[j][k] = sockets[j][k] /\ sockets[j][k] \in 1..(j - 1)
                    /\ Past(sockets[j][k], j)
                    /\ <<sockets[j][k], j>> \notin connecting
                    /\ \A p \in 1..Len(s) : s[p] # sockets[j][k]
                    /\ \A l \in Taken(j) : sockets[j][l] = sockets[j][k] => k = l
        <5>1. k \in SocketIndexes
          BY Lower DEF Taken
        <5>2. /\ sockets[j][k] \in 1..(j - 1) /\ Past(sockets[j][k], j)
              /\ <<sockets[j][k], j>> \notin connecting
              /\ \A p \in 1..Len(s) : s[p] # sockets[j][k]
              /\ \A l \in Taken(j) : sockets[j][l] = sockets[j][k] => k = l
          BY <3>1, <4>4, <4>11 DEF Mesh, SocketMesh
        <5>3. sockets'[j][k] = sockets[j][k]
          BY <1>4, <4>0, <4>1, <5>1, <5>2
        <5> QED
          BY <5>2, <5>3
      <4>12. ASSUME sockets'[j][0] = ROOT, NEW k \in Taken(j)
             PROVE  /\ sockets'[j][k] \in 1..(j - 1) /\ Past(sockets[j][k], j)'
                    /\ <<sockets'[j][k], j>> \notin connecting'
                    /\ \A p \in 1..Len(t) : t[p] # sockets'[j][k]
                    /\ \A l \in Taken(j) : sockets'[j][l] = sockets'[j][k] => k = l
        <5>0. sockets[j][0] = ROOT
          BY <1>1, <1>4, <4>0, <4>12
        <5>1. PICK n : n = sockets[j][k]
          OBVIOUS
        <5>2. /\ sockets'[j][k] = n /\ n \in 1..(j - 1) /\ Past(n, j) /\ <<n, j>> \notin connecting
              /\ \A p \in 1..Len(s) : s[p] # n
              /\ \A l \in Taken(j) : sockets'[j][l] = n => k = l
          BY <4>11, <5>0, <5>1
        <5>3. Past(n, j)' /\ <<n, j>> \notin connecting'
          BY <4>2, <5>2
        <5>4. \A p \in 1..Len(t) : t[p] # n
          BY <4>5, <4>7, <5>2
        <5> QED
          BY <5>2, <5>3, <5>4 DEF Past
      <4>13. SocketMesh(j)'
        BY <4>4, <4>10, <4>12 DEF SocketMesh, Past
      <4> QED
        BY <4>3, <4>9, <4>13 DEF Mesh
    <3> QED
      BY <1>1, <2>0, <3>2, <3>3, <3>4
  <2> QED
    BY <2>1, <2>2
<1> QED
  BY <1>9, MeshByWorker

-----------------------------------------------------------------------------
(* The theorem.                                                            *)

\* In the beginning nobody is connected.
LEMMA MeshInitInv == StartupInit => MeshInv
<1> SUFFICES ASSUME StartupInit PROVE MeshInv
  OBVIOUS
<1>1. ASSUME NEW j \in Workers PROVE PeerLoop(j) /\ ~Sound(j)
  <2>1. pc[j] = "starting" /\ peer[j] = 0 /\ connecting = {} /\ rootSockets[j] = NoNode
    BY DEF StartupInit, Init
  <2>2. PeerLoop(j)
    BY <2>1 DEF PeerLoop, Served
  <2>3. ~Live(j)
    BY <2>1, StartupConstants DEF Live
  <2> QED
    BY <2>2, <2>3, Lower DEF Sound
<1> QED
  BY <1>1 DEF MeshInv

\* A worker's step that neither opens nor closes a connection.
LEMMA TalkerMesh ==
    ASSUME StartupInv, MeshInv, NEW w \in Workers, NEW to, Goto(w, to),
           UNCHANGED <<rootSockets, connecting, backlog, sockets, peer>>,
           to \in {"starting", "listen", "config", "ready"} =>
             pc[w] \in {"starting", "listen", "config", "ready"},
           to \in {"served", "node", "weights", "running"} => Served(w)
    PROVE  to \in Pcs => MeshInv'
<1> HAVE to \in Pcs
<1>1. pc' = [pc EXCEPT ![w] = to] /\ pc \in [Workers -> Pcs]
  BY DEF Goto, StartupInv, StartupType
<1>2. ASSUME NEW v \in Workers
      PROVE  /\ pc'[v] \in {"starting", "listen", "config", "ready"} =>
                  pc[v] \in {"starting", "listen", "config", "ready"}
             /\ Served(v)' => Served(v)
  <2>1. CASE v # w
    BY <1>1, <2>1 DEF Served
  <2>2. CASE v = w
    BY <1>1, <2>2 DEF Served, Pcs
  <2> QED
    BY <2>1, <2>2
<1> QED
  BY <1>2, StillMesh

\* The invariant is kept by every step.
LEMMA MeshInvStep ==
    ASSUME StartupInv, MeshInv, [StartupNext]_allVars
    PROVE  MeshInv'
<1>0. ASSUME UNCHANGED <<rootSockets, connecting, backlog, sockets, peer, pc>> PROVE MeshInv'
  BY <1>0, StillMesh DEF Served
<1>1. CASE StartupRoot
  <2>1. CASE RootReadAck \/ RootSendReady
    BY <1>0, <2>1 DEF RootReadAck, RootSendReady, netVars
  <2>2. CASE RootFails
    BY <2>2, RootHangUpMesh DEF RootFails
  <2>3. CASE RootWriteConfig \/ RootReadConfigAck
    BY <1>0, <2>3 DEF RootWriteConfig, RootReadConfigAck, netVars
  <2>4. CASE RootLoad
    BY <1>0, <2>4 DEF RootLoad, netVars
  <2>5. CASE RootFinish \/ RootReadEndAck
    BY <1>0, <2>5 DEF RootFinish, RootReadEndAck, netVars
  <2>6. CASE RootAgain
    BY <1>0, <2>6 DEF RootAgain, RootRestart, netVars
  <2> QED
    BY <1>1, <2>1, <2>2, <2>3, <2>4, <2>5, <2>6, RootConnectMesh DEF StartupRoot
<1>2. CASE StartupNet
  <2>1. PICK from \in Nodes, to \in Workers : ConnectionArrives(from, to)
    BY <1>2 DEF StartupNet, NetStep
  <2> QED
    BY <2>1, ArrivesMesh, RefusedMesh
<1>3. ASSUME NEW w \in Workers, StartupWorker(w) PROVE MeshInv'
  <2>1. CASE StartListening(w)
    <3>1. Goto(w, "listen") /\ pc[w] = "starting" /\ UNCHANGED <<rootSockets, connecting, backlog, sockets, peer>>
      BY <2>1 DEF StartListening, netVars
    <3> QED
      BY <3>1, TalkerMesh DEF Pcs
  <2>2. CASE ReadConfig(w)
    <3>1. Goto(w, "ready") /\ pc[w] = "config" /\ UNCHANGED <<rootSockets, connecting, backlog, sockets, peer>>
      BY <2>2 DEF ReadConfig, netVars
    <3> QED
      BY <3>1, TalkerMesh DEF Pcs
  <2>3. CASE ReadReady(w)
    <3>1. Goto(w, "peers") /\ UNCHANGED <<rootSockets, connecting, backlog, sockets, peer>>
      BY <2>3 DEF ReadReady, netVars
    <3> QED
      BY <3>1, TalkerMesh DEF Pcs
  <2>4. CASE ReadNet(w) \/ ReadNode(w) \/ ReadEnd(w)
    <3>1. PICK to \in {"node", "weights", "running"} :
            Goto(w, to) /\ UNCHANGED <<rootSockets, connecting, backlog, sockets, peer>>
      BY <2>4 DEF ReadNet, ReadNode, ReadEnd, netVars
    <3>2. Served(w)
      BY <2>4 DEF ReadNet, ReadNode, ReadEnd, Served
    <3> QED
      BY <3>1, <3>2, TalkerMesh DEF Pcs
  <2>5. CASE ReadWeight(w)
    BY <1>0, <2>5 DEF ReadWeight, netVars
  <2>6. CASE SessionEnds(w)
    BY <2>6, RelistenMesh DEF SessionEnds
  <2> QED
    BY <1>3, <2>1, <2>2, <2>3, <2>4, <2>5, <2>6, AcceptRootMesh, AcceptPeerMesh, ConnectPeerMesh,
       ServeMesh DEF StartupWorker, WorkerStep
<1>4. ASSUME NEW w \in Workers, WorkerCrash(w) PROVE MeshInv'
  BY <1>4, RelistenMesh DEF WorkerCrash
<1>5. CASE RootCrash
  BY <1>5, RootHangUpMesh DEF RootCrash
<1>6. CASE UNCHANGED allVars
  BY <1>0, <1>6 DEF allVars, vars, netVars
<1> QED
  BY <1>1, <1>2, <1>3, <1>4, <1>5, <1>6 DEF StartupNext

\* What a worker of a live session has in its socket table when everybody has
\* left serve(): the root, then the lower workers, then the higher ones.
LEMMA WiredWorker ==
    ASSUME StartupInv, MeshInv, rootPc \notin {"connect", "ack"},
           \A v \in Workers : Live(v) /\ Served(v), NEW w \in Workers
    PROVE  {sockets[w][k] : k \in SocketIndexes} = Nodes \ {w}
<1>0. w \in Nat /\ w >= 1 /\ w <= nWorkers /\ nWorkers \in Nat /\ ROOT = 0
  BY Lower, StartupConstants
<1>1. \A v \in Workers : Heard(v) /\ sockets[v][0] = ROOT
  <2>1. ASSUME NEW v \in Workers PROVE Heard(v) /\ sockets[v][0] = ROOT
    <3>1. NotYet(v) /\ Talk(v) /\ Live(v) /\ v # NoNode /\ rootPc \in RootPcs
      BY OfWorker, StartupConstants
    <3>2. rootPc # "failed"
      BY <3>1 DEF NotYet, Live
    <3>3. Heard(v)
      BY <3>1, <3>2 DEF Heard, RootPcs
    <3> QED
      BY <3>1, <3>3 DEF Talk
  <2> QED
    BY <2>1
<1>2. \A v \in Workers : Mesh(v) /\ peer[v] = nWorkers - 1
  <2>1. ASSUME NEW v \in Workers PROVE Mesh(v) /\ peer[v] = nWorkers - 1
    <3>1. Sound(v)
      BY Lower DEF Sound
    <3> QED
      BY <3>1, MeshOf DEF PeerLoop, nOtherWorkers
  <2> QED
    BY <2>1
<1>3. /\ \A i \in 1..(w - 1) : \E k \in 1..(w - 1) : sockets[w][k] = i
      /\ \A k \in 1..(w - 1) : sockets[w][k] \in 1..(w - 1)
  <2>1. BacklogMesh(w) /\ SocketMesh(w) /\ sockets[w][0] = ROOT /\ peer[w] >= w - 1
    BY <1>0, <1>1, <1>2 DEF Mesh
  <2>2. Taken(w) = 1..(w - 1)
    BY <1>0, <1>2 DEF Taken
  <2> QED
    BY <2>1, <2>2, AllFiled DEF SocketMesh
<1>4. \A j \in Workers : j > w => sockets[w][j - 1] = j
  <2>1. ASSUME NEW j \in Workers, j > w PROVE sockets[w][j - 1] = j
    <3>1. w \in 1..(j - 1) /\ j \in Nat /\ j <= nWorkers
      BY <1>0, <2>1, Lower
    <3>2. Past(w, j)
      BY <1>0, <1>2, <3>1 DEF Past
    <3> QED
      BY <1>1, <1>2, <2>1, <3>1, <3>2 DEF Mesh, LowerEnds
  <2> QED
    BY <2>1
<1>5. ASSUME NEW k \in SocketIndexes PROVE sockets[w][k] \in Nodes \ {w}
  <2>0. k \in Nat /\ k <= nWorkers - 1
    BY <1>0 DEF SocketIndexes
  <2>1. CASE k = 0
    BY <1>0, <1>1, <2>1 DEF Nodes
  <2>2. CASE k \in 1..(w - 1)
    <3>1. sockets[w][k] \in 1..(w - 1)
      BY <1>3, <2>2
    <3> QED
      BY <1>0, <3>1 DEF Nodes
  <2>3. CASE k >= w
    <3>1. k + 1 \in Workers /\ k + 1 > w /\ (k + 1) - 1 = k
      BY <1>0, <2>0, <2>3 DEF Workers
    <3>2. sockets[w][k] = k + 1
      BY <1>4, <3>1
    <3> QED
      BY <1>0, <2>0, <2>3, <3>2 DEF Nodes
  <2> QED
    BY <1>0, <2>0, <2>1, <2>2, <2>3
<1>6. ASSUME NEW n \in Nodes, n # w PROVE \E k \in SocketIndexes : sockets[w][k] = n
  <2>0. n \in Nat /\ n <= nWorkers
    BY <1>0 DEF Nodes
  <2>1. CASE n = 0
    BY <1>0, <1>1, <2>1, StartupConstants
  <2>2. CASE n \in 1..(w - 1)
    <3>1. PICK k \in 1..(w - 1) : sockets[w][k] = n
      BY <1>3, <2>2
    <3>2. k \in SocketIndexes
      BY <1>0, <3>1 DEF SocketIndexes
    <3> QED
      BY <3>1, <3>2
  <2>3. CASE n > w
    <3>1. n \in Workers /\ n - 1 \in SocketIndexes
      BY <1>0, <2>0, <2>3 DEF Workers, SocketIndexes
    <3> QED
      BY <1>4, <2>3, <3>1
  <2> QED
    BY <1>0, <1>6, <2>0, <2>1, <2>2, <2>3
<1> QED
  BY <1>5, <1>6

\* MeshComplete holds in every reachable state, for any number of workers and
\* crashes: connect() and serve() wire the whole mesh although an accepted
\* connection does not say whose it is, and no connection of an earlier session
\* is ever counted among those of the present one.
THEOREM MeshCompleteHolds == StartupSpec => []MeshComplete
<1>1. StartupInit => StartupInv /\ MeshInv
  BY StartupInitInv, MeshInitInv
<1>2. StartupInv /\ MeshInv /\ [StartupNext]_allVars => StartupInv' /\ MeshInv'
  BY StartupInvStep, MeshInvStep
<1>3. StartupInv /\ MeshInv => MeshComplete
  BY WiredWorker DEF MeshComplete, Live
<1> QED
  BY <1>1, <1>2, <1>3, PTL DEF StartupSpec
=============================================================================
