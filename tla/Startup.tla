------------------------------ MODULE Startup -------------------------------
(***************************************************************************)
(* From a wired cluster to one that can compute: the root sends every      *)
(* worker the network's and the node's configuration (writeToWorkers) and  *)
(* then reads the model file once, from front to back, dealing its weights *)
(* out to the nodes (loadLlmNetWeight and NnRootWeightLoader;              *)
(* src/src/nn/nn-network.cpp, src/src/llm.cpp, src/src/nn/nn-topology.hpp).*)
(*                                                                         *)
(* Two pieces of code decide where a weight belongs: buildLlmNet gives     *)
(* each node the operations of its stage, and the loader computes from a   *)
(* node's index which weights to send it.  A worker drops the weights of   *)
(* operations it does not have, and nobody asks whether each operation has *)
(* got its weights.                                                        *)
(*                                                                         *)
(* "block_matmul_q" stands for the matrices q, k, v and wo of a layer,     *)
(* "block_matmul_w1" for w1, w2 and w3 of all its experts, "block_norm_0"  *)
(* also for norm_q and norm_k, "block_norm_1" also for moe_gate: the       *)
(* loader treats them alike.                                               *)
(***************************************************************************)
EXTENDS Handshake

CONSTANTS nLayers,
          spSizes,      \* the values of --sp-size that are tried
          socketBuffer  \* bound: weights on their way to one worker

ASSUME StartupAssumption ==
    /\ nLayers \in Nat \ {0} /\ socketBuffer \in Nat \ {0}
    /\ spSizes \subseteq Nat \ {0}

VARIABLES layout,  \* ppSize, spSize, tpSize and the stages' offsets of this session
          loadAt,  \* the load call of loadLlmNetWeight that comes next
          loaded   \* loaded[n]: the weights node n has stored

startupVars == <<layout, loadAt, loaded>>
allVars == <<vars, startupVars>>

nNodes == nWorkers + 1
UINT_MAX == -1

-----------------------------------------------------------------------------
(* NnParallelTopology, and which part of the model a stage computes.       *)

\* The constructor's check.
Accepted(ppSize, spSize) == nNodes % (ppSize * spSize) = 0

\* buildLayerStartOffsets without --pp-layers: the last stage takes the rest.
EqualSplit(ppSize) ==
    [r \in 0..ppSize |-> IF r = ppSize THEN 2 * nLayers ELSE 2 * r * (nLayers \div ppSize)]

\* buildSubBlockOffsets and buildLayerStartOffsets, in sub-blocks (two per layer):
\* the first sub-block of every stage.  They are the running sums of --pp-layers,
\* which counts layers or sub-blocks and is positive for every stage.
StageOffsets(ppSize) ==
    {o \in [0..ppSize -> 0..(2 * nLayers)] :
       \/ /\ o[0] = 0 /\ o[ppSize] = 2 * nLayers
          /\ \A q, r \in 0..ppSize : q < r => o[q] < o[r]
       \/ o = EqualSplit(ppSize)}

Layouts ==
    UNION {{[ppSize |-> t[1], spSize |-> t[2], tpSize |-> nNodes \div (t[1] * t[2]), offsets |-> o] :
              o \in StageOffsets(t[1])} :
           t \in {u \in (1..nNodes) \X spSizes : Accepted(u[1], u[2])}}

ppRank(n) == n \div (layout.spSize * layout.tpSize)
tpRank(n) == (n % (layout.spSize * layout.tpSize)) % layout.tpSize

InStage(r, sub) == layout.offsets[r] <= sub /\ sub < layout.offsets[r + 1]
Owns(n, sub) == InStage(ppRank(n), sub)

\* The operations with weights that buildLlmNet gives to node n: a half layer
\* each, and the ends of the network.
AttentionOps(n) ==
    {"block_matmul_q", "block_norm_0"} \X {l \in 0..(nLayers - 1) : Owns(n, 2 * l)}
FeedForwardOps(n) ==
    {"block_matmul_w1", "block_norm_1"} \X {l \in 0..(nLayers - 1) : Owns(n, 2 * l + 1)}
EndOps(n) ==
    IF ppRank(n) = layout.ppSize - 1 THEN {"final_norm", "final_matmul_logits"} \X {0} ELSE {}
Ops(n) ==
    (IF n = ROOT THEN {<<"embedding", 0>>} ELSE {})
    \cup AttentionOps(n) \cup FeedForwardOps(n) \cup EndOps(n)

-----------------------------------------------------------------------------
(* NnRootWeightLoader.                                                     *)

\* The load calls of loadLlmNetWeight, in the order of the model file.
LayerLoads(l) ==
    << [op |-> "block_matmul_q", layer |-> l, how |-> "slices"],
       [op |-> "block_matmul_w1", layer |-> l, how |-> "slices"],
       [op |-> "block_norm_0", layer |-> l, how |-> "all"],
       [op |-> "block_norm_1", layer |-> l, how |-> "all"] >>

nLoads == 4 * nLayers + 3
Loads ==
    [i \in 1..nLoads |->
       CASE i = 1 -> [op |-> "embedding", layer |-> 0, how |-> "root"]
         [] i = nLoads - 1 -> [op |-> "final_norm", layer |-> 0, how |-> "all"]
         [] i = nLoads -> [op |-> "final_matmul_logits", layer |-> 0, how |-> "last"]
         [] OTHER -> LayerLoads((i - 2) \div 4)[1 + ((i - 2) % 4)]]

subPartOfOp(op) == IF op \in {"block_matmul_w1", "block_norm_1"} THEN 1 ELSE 0

\* Mutant of getLayerOwnerPpRank: every stage has the same number of layers.
MutOwnerEqualSplit(load) ==
    IF layout.ppSize <= 1 \/ nLayers < layout.ppSize THEN UINT_MAX
    ELSE LET r == load.layer \div (nLayers \div layout.ppSize)
         IN  IF r >= layout.ppSize THEN layout.ppSize - 1 ELSE r

getLayerOwnerPpRank(load) ==
    IF layout.ppSize <= 1 THEN UINT_MAX
    ELSE LET sub == 2 * load.layer + subPartOfOp(load.op)
         IN  CHOOSE r \in 0..(layout.ppSize - 1) : InStage(r, sub)

nodeInPpStage(n, r) == n \div layout.tpSize = r

\* lastPpStage of loadLlmNetWeight; the root's tpGroupEnd is tpSize.
lastPpStage == nNodes \div layout.tpSize - 1

OwnerPpRank(load) ==
    IF load.how = "last" /\ lastPpStage > 0 THEN lastPpStage
    ELSE getLayerOwnerPpRank(load)

Targets(load) ==
    CASE load.how = "root" -> {ROOT}
      [] load.how = "all" -> Nodes
      [] OTHER -> {n \in Nodes : OwnerPpRank(load) = UINT_MAX
                                 \/ nodeInPpStage(n, OwnerPpRank(load))}

\* What node n is sent: a slice of the matrix, or the weight as a whole (-1).
WeightFor(n, load) ==
    [kind |-> "weight", op |-> load.op, layer |-> load.layer,
     slice |-> IF load.how \in {"slices", "last"} THEN n % layout.tpSize ELSE -1]

\* executor->loadWeight: a weight without an operation is dropped.
LoadWeight(n, m) ==
    loaded' = [loaded EXCEPT ![n] =
                 IF <<m.op, m.layer>> \in Ops(n) THEN @ \cup {<<m.op, m.layer, m.slice>>}
                 ELSE @]

-----------------------------------------------------------------------------
(* The root.                                                               *)

NoLayout == [ppSize |-> 1, spSize |-> 1, tpSize |-> nNodes, offsets |-> EqualSplit(1)]

StartupInit ==
    /\ Init
    /\ layout = NoLayout
    /\ loadAt = 1
    /\ loaded = [n \in Nodes |-> {}]

\* writeNet and writeNode: an ACK, the configuration, and wait for the ACK.
\* The layout, which nothing has depended on so far, is chosen here.
RootWriteConfig ==
    /\ rootPc \in {"done", "node"}
    /\ rootPc' = IF rootPc = "done" THEN "netAck" ELSE "nodeAck"
    /\ Send(rootAt, [kind |-> IF rootPc = "done" THEN "net" ELSE "node"])
    /\ IF rootPc = "done" /\ rootAt = 1 THEN layout' \in Layouts ELSE UNCHANGED layout
    /\ UNCHANGED <<rootAt, netVars, acks, pc, peer, crashes, loadAt, loaded>>

RootReadConfigAck ==
    /\ rootPc \in {"netAck", "nodeAck"} /\ ReadAck
    /\ \/ rootPc = "netAck" /\ rootPc' = "node" /\ UNCHANGED rootAt
       \/ rootPc = "nodeAck" /\ rootAt < nWorkers
          /\ rootPc' = "done" /\ rootAt' = rootAt + 1
       \/ rootPc = "nodeAck" /\ rootAt = nWorkers
          /\ rootPc' = "load" /\ rootAt' = 1
    /\ UNCHANGED <<netVars, fromRoot, pc, peer, crashes, startupVars>>

\* One load call: the root keeps its own part and writes the others', which
\* blocks while a socket is full.
RootLoad ==
    /\ rootPc = "load" /\ loadAt <= nLoads
    /\ LET load == Loads[loadAt]
       IN  /\ \A w \in Workers \cap Targets(load) : Len(fromRoot[w]) < socketBuffer
           /\ IF ROOT \in Targets(load) THEN LoadWeight(ROOT, WeightFor(ROOT, load))
                                        ELSE UNCHANGED loaded
           /\ fromRoot' = [w \in Workers |->
                             IF w \in Targets(load) /\ rootSockets[w] = w
                               THEN Append(fromRoot[w], WeightFor(w, load))
                               ELSE fromRoot[w]]
    /\ loadAt' = loadAt + 1
    /\ UNCHANGED <<rootVars, netVars, acks, pc, peer, crashes, layout>>

\* Mutant of RootFinish: the ACKs of the workers are not waited for.
MutFinishWithoutAck ==
    /\ rootPc = "load" /\ loadAt > nLoads
    /\ Send(rootAt, [kind |-> "end"])
    /\ IF rootAt < nWorkers THEN rootAt' = rootAt + 1 /\ UNCHANGED rootPc
                            ELSE rootAt' = 1 /\ rootPc' = "running"
    /\ UNCHANGED <<netVars, acks, pc, peer, crashes, startupVars>>

\* finish(): a zero size to each worker in turn, and its ACK.
RootFinish ==
    /\ rootPc = "load" /\ loadAt > nLoads
    /\ Send(rootAt, [kind |-> "end"])
    /\ rootPc' = "endAck"
    /\ UNCHANGED <<rootAt, netVars, acks, pc, peer, crashes, startupVars>>

RootReadEndAck ==
    /\ rootPc = "endAck" /\ ReadAck
    /\ IF rootAt < nWorkers THEN rootAt' = rootAt + 1 /\ rootPc' = "load"
                            ELSE rootAt' = 1 /\ rootPc' = "running"
    /\ UNCHANGED <<netVars, fromRoot, pc, peer, crashes, startupVars>>

\* A new process: the handshake, and nothing loaded.
RootAgain ==
    /\ RootRestart
    /\ layout' = NoLayout
    /\ loadAt' = 1 /\ loaded' = [loaded EXCEPT ![ROOT] = {}]

-----------------------------------------------------------------------------
(* A worker.  When its root is gone, what it still reads changes nothing   *)
(* but itself, and it hangs up when it meets the end.                      *)

Read(w, kind) == sockets[w][0] = ROOT /\ Receive(w, kind)

\* readNet and readNode, each answered with an ACK.
ReadNet(w) ==
    /\ pc[w] = "served" /\ Read(w, "net")
    /\ Goto(w, "node") /\ WriteAck(w)
    /\ UNCHANGED <<rootVars, netVars, peer, crashes, startupVars>>

ReadNode(w) ==
    /\ pc[w] = "node" /\ Read(w, "node")
    /\ Goto(w, "weights") /\ WriteAck(w)
    /\ UNCHANGED <<rootVars, netVars, peer, crashes, startupVars>>

\* NnWorkerWeightReader::read, one weight or the end.
ReadWeight(w) ==
    /\ pc[w] = "weights" /\ Read(w, "weight")
    /\ LoadWeight(w, Head(fromRoot[w]))
    /\ UNCHANGED <<rootVars, netVars, acks, pc, peer, crashes, layout, loadAt>>

ReadEnd(w) ==
    /\ pc[w] = "weights" /\ Read(w, "end")
    /\ Goto(w, "running") /\ WriteAck(w)
    /\ UNCHANGED <<rootVars, netVars, peer, crashes, startupVars>>

Forgets(w) == loaded' = [loaded EXCEPT ![w] = {}] /\ UNCHANGED <<layout, loadAt>>

-----------------------------------------------------------------------------
StartupRoot ==
    \/ (RootConnect \/ RootReadAck \/ RootSendReady \/ RootFails) /\ UNCHANGED startupVars
    \/ RootWriteConfig \/ RootReadConfigAck
    \/ RootLoad \/ RootFinish \/ RootReadEndAck \/ RootAgain

StartupWorker(w) ==
    \/ WorkerStep(w) /\ UNCHANGED startupVars
    \/ SessionEnds(w) /\ Forgets(w)
    \/ ReadNet(w) \/ ReadNode(w) \/ ReadWeight(w) \/ ReadEnd(w)

StartupNet == NetStep /\ UNCHANGED startupVars

StartupNext ==
    \/ StartupRoot \/ StartupNet
    \/ \E w \in Workers : StartupWorker(w) \/ (WorkerCrash(w) /\ Forgets(w))
    \/ RootCrash /\ UNCHANGED startupVars

StartupSpec == StartupInit /\ [][StartupNext]_allVars

\* Every process keeps running, TCP answers every connection request, and the
\* operator starts a root that has ended again.
StartupFairSpec ==
    /\ StartupSpec
    /\ WF_allVars(StartupRoot) /\ WF_allVars(StartupNet)
    /\ \A w \in Workers : WF_allVars(StartupWorker(w))

-----------------------------------------------------------------------------
TypeOK ==
    /\ rootPc \in {"connect", "ack", "ready", "done", "netAck", "node", "nodeAck",
                   "load", "endAck", "running", "failed"}
    /\ rootAt \in Workers
    /\ rootSockets \in [Workers -> Workers \cup {NoNode, GONE}]
    /\ acks \subseteq Workers
    /\ pc \in [Workers -> {"starting", "listen", "config", "ready", "peers",
                           "served", "node", "weights", "running"}]
    /\ peer \in [Workers -> 0..nOtherWorkers]
    /\ connecting \subseteq (Nodes \X Workers)
    /\ \A w \in Workers : Waiting(w) \subseteq Nodes \cup {GONE}
    /\ sockets \in [Workers -> [SocketIndexes -> Nodes \cup {NoNode, GONE}]]
    /\ crashes \in 0..maxCrashes
    /\ loadAt \in 1..(nLoads + 1)

\* The weights of node n's operations, in the slices of its TP rank.
Needed(n) ==
    {<<o[1], o[2], IF o[1] \in {"block_matmul_q", "block_matmul_w1", "final_matmul_logits"}
                     THEN tpRank(n) ELSE -1>> : o \in Ops(n)}

\* A node starts to compute with the weights of exactly the operations it has,
\* cut for its TP rank: the loader's idea of where a weight belongs agrees with
\* buildLlmNet's, whatever the layout.  A weight that went elsewhere is dropped
\* there without a word, and the operation runs on what its buffer held.
WeightsInPlace ==
    /\ rootPc = "running" => loaded[ROOT] = Needed(ROOT)
    /\ \A w \in Workers : pc[w] = "running" /\ sockets[w][0] = ROOT =>
         loaded[w] = Needed(w)

\* The root sends its first control packet to workers that have read all their
\* weights: it would be taken for one.
RootRunsLast ==
    rootPc = "running" =>
        \A w \in Workers : rootSockets[w] = w => pc[w] = "running" /\ fromRoot[w] = <<>>

\* The one way to hang: the root waits for the ACK of a worker that is in
\* accept(), where it expects a peer that has died, or one of a session that
\* has ended (it may even have taken the new root for another).  Neither wait
\* has a timeout.
RootWaitsForAccept ==
    /\ crashes > 0
    /\ rootPc \in {"ack", "netAck"} /\ rootAt \notin acks
    /\ pc[rootAt] = "peers" /\ peer[rootAt] < rootAt - 1
    /\ backlog[rootAt] = <<>>

\* However often processes die on the way, once they have stopped doing so the
\* cluster comes up and stays up, RootWaitsForAccept excepted: every other
\* worker that is left in a session without a root finds out and listens again,
\* and no root that can be served is turned away for ever.
StartupCompletes ==
    <>[](\/ rootPc = "running" /\ \A w \in Workers : pc[w] = "running"
         \/ RootWaitsForAccept)
=============================================================================
