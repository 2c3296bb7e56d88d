---------------------------- MODULE Collectives -----------------------------
(***************************************************************************)
(* The sync steps of tensor and sequence parallelism                       *)
(* (src/src/nn/nn-network.cpp, sync).  SYNC_WITH_ROOT hands the root's     *)
(* rows to every node; SYNC_NODE_SLICES is to leave the sum of the partial *)
(* results of a TP group on each of its nodes,                             *)
(* SYNC_NODE_SLICES_EXCEPT_ROOT on its first node only; SYNC_SP_KV is to   *)
(* fill the KV cache of every node of an SP group with the rows its        *)
(* members have computed.                                                  *)
(*                                                                         *)
(* The slices have three algorithms: a star and a ring, row after row, and *)
(* a batched exchange when there is more than one row.  Each is a fixed    *)
(* list of readMany and writeMany calls, Program; nothing on the wire says *)
(* which sync, row or slice the bytes belong to, so that the result        *)
(* depends on all nodes going through matching lists.                      *)
(*                                                                         *)
(* A row is cut into one slice per node of the group; a batch is packed    *)
(* and travels in pieces of 32 KiB, here one per row.  A cell              *)
(* <<slice, row>> holds the bag of the contributions <<node, round>> added *)
(* up in it.  The KV cache outlives the sync steps: its cell <<"k", p>> or *)
(* <<"v", p>> holds the round that computed the row of position p, or 0.   *)
(***************************************************************************)
EXTENDS Integers, Sequences, FiniteSets, Bags

CONSTANTS Setups,         \* clusters and their sync steps (see SetupOK)
          SocketCapacity  \* transfers that fit into a socket

\* A setup: nNodes nodes of nThreads threads in TP groups of tpSize nodes, spSize
\* of which are an SP group; collectiveType; the length of a row;
\* DLLAMA_NO_BATCHED_SYNC and DLLAMA_KEEP_TP1_SYNCS; are sockets non-blocking; the
\* positions per SP rank, --cp-split and --sp-prefill-only, alike on all nodes; and
\* the sync steps one after the other, each with its type, batch size, first
\* position and phase.
\* Tokens are decoded one by one (batched decoding is not modelled), and a chunk
\* begins at most one position behind what was computed before.
\* The graph builder uses SYNC_WITH_ROOT without pipeline stages only; how the
\* batched exchange goes wrong in a group of several nodes that is not the cluster
\* is not modelled (it writes outside the pipe).
SyncTypes == {"WITH_ROOT", "NODE_SLICES", "NODE_SLICES_EXCEPT_ROOT", "SP_KV"}

SyncSteps ==
    [type : SyncTypes, batchSize : Nat \ {0}, position : Nat, decode : BOOLEAN]
PositionsOf(sync) == sync.position..(sync.position + sync.batchSize - 1)

SetupOK(s) ==
    /\ s.nNodes \in Nat \ {0, 1} /\ s.nThreads \in Nat \ {0}
    /\ s.tpSize \in Nat \ {0} /\ s.spSize \in Nat \ {0}
    /\ s.nNodes % (s.tpSize * s.spSize) = 0
    /\ s.collectiveType \in {"auto", "star", "ring"} /\ s.nBytes \in Nat \ {0}
    /\ s.batchedSyncOff \in BOOLEAN /\ s.keepTp1Syncs \in BOOLEAN /\ s.netTurbo \in BOOLEAN
    /\ s.localSeqLen \in Nat \ {0} /\ s.cpSplit \in BOOLEAN /\ s.spPrefillOnly \in BOOLEAN
    /\ s.syncs \in Seq(SyncSteps) /\ s.syncs # <<>>
    /\ \A k \in DOMAIN s.syncs : LET sync == s.syncs[k] IN
         /\ sync.position + sync.batchSize <= s.spSize * s.localSeqLen
         /\ sync.decode => sync.batchSize = 1
         /\ sync.type = "SP_KV" =>
              /\ s.spSize > 1
              /\ \A p \in 0..(sync.position - 1) : \E l \in 1..(k - 1) :
                   s.syncs[l].type = "SP_KV" /\ p \in PositionsOf(s.syncs[l])
         /\ sync.type = "WITH_ROOT" => s.nNodes = s.tpSize * s.spSize
         /\ s.tpSize > 1 /\ s.tpSize < s.nNodes =>
              s.batchedSyncOff \/ sync.batchSize = 1 \/ sync.type \in {"SP_KV", "WITH_ROOT"}

ASSUME CollectivesAssumption ==
    /\ SocketCapacity \in Nat \ {0}
    /\ \A s \in Setups : SetupOK(s)

VARIABLES setup,
          chan,   \* chan[<<i, j>>]: transfers sent by i and not yet read by j
          round,  \* round[i]: the sync step node i is in
          buf,    \* buf[i][cell]: the pipe of node i
          kv,     \* kv[i][cell]: the KV cache of node i
          ip,     \* ip[<<i, t>>]: the call that thread t of node i is in
          todo    \* peers that call has still to serve

vars == <<setup, chan, round, buf, kv, ip, todo>>

tpSize == setup.tpSize
nThreads == setup.nThreads
Nodes == 0..(setup.nNodes - 1)
Threads == 0..(nThreads - 1)
Procs == Nodes \X Threads
MaxRounds == Len(setup.syncs)
SyncType(r) == setup.syncs[r].type
Rows(r) == 0..(setup.syncs[r].batchSize - 1)
OnlyToRoot(r) == SyncType(r) = "NODE_SLICES_EXCEPT_ROOT"

\* The TP group of a node: tpGroupStart up to tpGroupStart + tpSize.
tpGroupStart(i) == (i \div tpSize) * tpSize
Group(i) == tpGroupStart(i)..(tpGroupStart(i) + tpSize - 1)
Slices == 0..(tpSize - 1)

-----------------------------------------------------------------------------
(* The algorithms.  A call is [op, io, reduce]: io maps every peer to the  *)
(* cells that are written to it, or read from it and stored or added.      *)

Call(op, io, reduce) == [op |-> op, io |-> io, reduce |-> reduce]

RowCells(row) == [k \in 1..tpSize |-> <<k - 1, row>>]

ringTopologySupported == tpSize >= 8 /\ setup.nBytes % tpSize = 0
UsesRing(r) == setup.collectiveType # "star" /\ ringTopologySupported /\ ~OnlyToRoot(r)

\* Alone in its group, a node is through with the slices at once.
UsesBatch(r) == /\ SyncType(r) \in {"NODE_SLICES", "NODE_SLICES_EXCEPT_ROOT"}
                /\ ~setup.batchedSyncOff /\ setup.syncs[r].batchSize > 1 /\ tpSize > 1

\* shouldSkipTp1NoopSyncs: in TP groups of one node the sync steps are left out,
\* SYNC_WITH_ROOT included, whose rows go to the whole cluster.
Tp1Skipped(r) == SyncType(r) # "SP_KV" /\ tpSize = 1 /\ ~setup.keepTp1Syncs

\* Sockets of thread t, and the node at socket k of node i.
SocketsOf(t) == {k \in 0..(setup.nNodes - 2) : k % nThreads = t}
SocketPeer(i, k) == IF k < i THEN k ELSE k + 1
PeerSocket(i, j) == IF j < i THEN j ELSE j - 1
PeersOf(i, t) == {SocketPeer(i, k) : k \in SocketsOf(t)}

\* Mutant of SyncWithRoot: the root's threads write to all sockets.
MutRootWritesTwice(i, t, row) ==
    IF i = 0 THEN Call("write", [j \in Nodes \ {0} |-> RowCells(row)], FALSE)
             ELSE Call("read", [j \in {0} |-> RowCells(row)], FALSE)

\* The root's threads write the row to their sockets; thread 0 of a worker reads.
SyncWithRoot(i, t, row) ==
    IF i = 0 THEN Call("write", [j \in PeersOf(0, t) |-> RowCells(row)], FALSE)
             ELSE Call("read", [j \in {0} |-> RowCells(row)], FALSE)

\* Mutant of StarAllReduce: the root stores what it reads instead of adding.
MutStarStores(i, c, row) ==
    LET rootNode == tpGroupStart(i)
        peers == IF i = rootNode THEN Group(i) \ {i} ELSE {rootNode}
    IN  Call(IF (i = rootNode) = (c = 1) THEN "read" ELSE "write",
             [j \in peers |-> RowCells(row)], FALSE)

\* The first node of the group reads and adds all rows, then writes the sum back.
StarAllReduce(i, c, row) ==
    LET rootNode == tpGroupStart(i)
        peers == IF i = rootNode THEN Group(i) \ {i} ELSE {rootNode}
    IN  Call(IF (i = rootNode) = (c = 1) THEN "read" ELSE "write",
             [j \in peers |-> RowCells(row)], i = rootNode /\ c = 1)

\* Even nodes send first, odd nodes receive first.
RingSendsFirst(n) == n % 2 = 0

\* tpSize - 1 steps that add what they receive (reduce-scatter), then as many
\* that store it (all-gather); the chunks are numbered alike in both.
RingAllReduce(i, c, row) ==
    LET n == i - tpGroupStart(i)
        k == (c - 1) \div 2
        step == k % (tpSize - 1)
        sendToNode == tpGroupStart(i) + ((n + 1) % tpSize)
        recvFromNode == tpGroupStart(i) + ((n + tpSize - 1) % tpSize)
        sendChunkIndex == (n - step + tpSize) % tpSize
        recvChunkIndex == (n - step - 1 + tpSize) % tpSize
    IN  IF (c % 2 = 1) = RingSendsFirst(n)
          THEN Call("write", [j \in {sendToNode} |-> <<<<sendChunkIndex, row>>>>], FALSE)
          ELSE Call("read", [j \in {recvFromNode} |-> <<<<recvChunkIndex, row>>>>],
                    k < tpSize - 1)

\* Mutant of SliceOfSocket: the node's own slice is not skipped.
MutSliceOfSocket(i, k) == IF k > i THEN k + 1 ELSE k

SliceOfSocket(i, k) == IF k >= i THEN k + 1 ELSE k

\* With onlyFromWorkerToRoot a worker has one socket, the root's.
WritePiece(r, i, t, p) ==
    Call("write", [j \in IF OnlyToRoot(r) THEN {0} ELSE PeersOf(i, t) |-> <<<<i, p>>>>],
         FALSE)
ReadPiece(r, i, t, p) ==
    Call("read", [j \in PeersOf(i, t) |-> <<<<SliceOfSocket(i, PeerSocket(i, j)), p>>>>], FALSE)

\* Mutant of SyncNodeSlicesBatched: everything is written before anything is
\* read, as it once was.
MutWriteAllFirst(r, i, t, c) ==
    LET nPieces == setup.syncs[r].batchSize
    IN IF OnlyToRoot(r)
         THEN IF i = 0 THEN ReadPiece(r, i, t, c - 1) ELSE WritePiece(r, i, t, c - 1)
         ELSE IF c <= nPieces THEN WritePiece(r, i, t, c - 1) ELSE ReadPiece(r, i, t, c - 1 - nPieces)

\* A thread writes a piece of the node's own slice to its peers and reads
\* a piece of theirs, in turn.
SyncNodeSlicesBatched(r, i, t, c) ==
    IF OnlyToRoot(r)
      THEN IF i = 0 THEN ReadPiece(r, i, t, c - 1) ELSE WritePiece(r, i, t, c - 1)
      ELSE IF c % 2 = 1 THEN WritePiece(r, i, t, (c - 1) \div 2) ELSE ReadPiece(r, i, t, (c - 1) \div 2)

-----------------------------------------------------------------------------
(* SYNC_SP_KV.  A node is in an SP group of spSize TP groups.              *)

spGroupStart(i) == (i \div (setup.spSize * tpSize)) * setup.spSize * tpSize
spRank(i) == (i - spGroupStart(i)) \div tpSize
SpRanks == 0..(setup.spSize - 1)

Positions == 0..(setup.spSize * setup.localSeqLen - 1)
KvCells == {"k", "v"} \X Positions
maxPos(r) == setup.syncs[r].position + setup.syncs[r].batchSize - 1

\* Row b of the position pipe: setPosition writes batchSize rows and leaves the
\* others as they were; the pipe starts with zeros.
PositionAt(r, b) ==
    LET written == {k \in 1..r : setup.syncs[k].batchSize > b}
    IN  IF written = {} THEN 0
        ELSE LET k == CHOOSE k \in written : \A l \in written : l <= k
             IN  setup.syncs[k].position + b

\* An even split of n rows among the ranks, [first, count].
Block(n, q) ==
    LET base == n \div setup.spSize
        rem == n % setup.spSize
    IN  [first |-> q * base + (IF q < rem THEN q ELSE rem),
         count |-> base + (IF q < rem THEN 1 ELSE 0)]

\* The rows OP_SHIFT stores on node i: with --cp-split those of its block, all if
\* there are fewer rows than ranks; else those with a position of its rank.
ShiftRows(r, i) ==
    LET n == setup.syncs[r].batchSize
        q == spRank(i)
        block == Block(n, q)
        mine == q * setup.localSeqLen..((q + 1) * setup.localSeqLen - 1)
    IN  IF setup.cpSplit
          THEN IF n < setup.spSize THEN Rows(r) ELSE block.first..(block.first + block.count - 1)
          ELSE {b \in Rows(r) : PositionAt(r, b) \in mine}

Shift(r, i, cache) ==
    LET stored == {PositionAt(r, b) : b \in ShiftRows(r, i)}
    IN  IF SyncType(r) # "SP_KV" THEN cache
        ELSE [c \in KvCells |-> IF c[2] \in stored THEN r ELSE cache[c]]

\* Mutant of ActiveRange: up to, and not including, the last position.
MutActiveRange(r, q) ==
    LET n == setup.syncs[r].batchSize
        block == Block(n, q)
        cpOn == setup.cpSplit /\ n > 1
        hi == IF cpOn THEN PositionAt(r, block.first + block.count - 1) + 1
                      ELSE (q + 1) * setup.localSeqLen
    IN  [start |-> IF cpOn THEN PositionAt(r, block.first) ELSE q * setup.localSeqLen,
         end |-> IF maxPos(r) < hi THEN maxPos(r) ELSE hi]

\* The positions rank q sends, from start up to end: its share of the sequence, or
\* with --cp-split the block of rows it has computed.  An empty block begins behind
\* the batch, with whatever is in the position pipe, and ends with the batch.
ActiveRange(r, q) ==
    LET n == setup.syncs[r].batchSize
        block == Block(n, q)
        cpOn == setup.cpSplit /\ n > 1
        hi == IF cpOn THEN PositionAt(r, block.first + block.count - 1) + 1
                      ELSE (q + 1) * setup.localSeqLen
    IN  [start |-> IF cpOn THEN PositionAt(r, block.first) ELSE q * setup.localSeqLen,
         end |-> IF maxPos(r) + 1 < hi THEN maxPos(r) + 1 ELSE hi]

KvRows(x, range) == [k \in 1..(range.end - range.start) |-> <<x, range.start + k - 1>>]

\* The node of rank p that node i exchanges rows with.
SpPeer(i, p) == spGroupStart(i) + p * tpSize + (i - tpGroupStart(i))

SpKvSkipped(r) == setup.spPrefillOnly /\ setup.syncs[r].decode

\* Rank after rank, K and V to it and K and V from it; of two nodes the one with
\* the lower rank sends first.  Nothing is sent to oneself, or for an empty range.
SyncSpKv(r, i, c) ==
    LET q == spRank(i)
        p == (c - 1) \div 4
        quarter == (c - 1) % 4
        sends == (quarter < 2) = (q < p)
        range == ActiveRange(r, IF sends THEN q ELSE p)
        peers == IF p # q /\ range.start < range.end THEN {SpPeer(i, p)} ELSE {}
    IN  Call(IF sends THEN "write" ELSE "read",
             [j \in peers |-> KvRows(IF quarter % 2 = 0 THEN "k" ELSE "v", range)], FALSE)

-----------------------------------------------------------------------------
\* The threads that take part: the star, the ring and the exchange of the KV cache
\* are run by thread 0 alone, and so is a worker's end of what only the root sends
\* or receives.
TakesPart(r, i, t) ==
    \/ t = 0
    \/ SyncType(r) = "WITH_ROOT" /\ i = 0
    \/ UsesBatch(r) /\ (OnlyToRoot(r) => i = 0)

\* Calls for one row (or one piece).
CallsPerRow(r) ==
    IF SyncType(r) = "WITH_ROOT" \/ OnlyToRoot(r) THEN 1
    ELSE IF UsesRing(r) /\ ~UsesBatch(r) THEN 4 * (tpSize - 1) ELSE 2

ProgramLength(r, i, t) ==
    IF ~TakesPart(r, i, t) \/ Tp1Skipped(r) THEN 0
    ELSE IF SyncType(r) # "SP_KV" THEN CallsPerRow(r) * setup.syncs[r].batchSize
    ELSE IF SpKvSkipped(r) THEN 0 ELSE 4 * setup.spSize

\* Call c of thread t of node i in sync step r; the loop over the rows is
\* outermost.
Program(r, i, t, c) ==
    LET n == CallsPerRow(r)
        row == (c - 1) \div n
        k == ((c - 1) % n) + 1
    IN CASE SyncType(r) = "SP_KV" -> SyncSpKv(r, i, c)
         [] SyncType(r) = "WITH_ROOT" -> SyncWithRoot(i, t, row)
         [] UsesBatch(r) -> SyncNodeSlicesBatched(r, i, t, c)
         [] OTHER -> IF UsesRing(r) THEN RingAllReduce(i, k, row) ELSE StarAllReduce(i, k, row)

-----------------------------------------------------------------------------
Busy(i, t) == ip[<<i, t>>] <= ProgramLength(round[i], i, t)

\* Peers of call c of thread t in round r.
Peers(r, i, t, c) ==
    IF c <= ProgramLength(r, i, t) THEN DOMAIN Program(r, i, t, c).io ELSE {}

\* The first call from c on that has a socket to serve, or the end of the program.
NextCall(r, i, t, c) ==
    CHOOSE n \in c..(ProgramLength(r, i, t) + 1) :
        /\ n <= ProgramLength(r, i, t) => Peers(r, i, t, n) # {}
        /\ \A k \in c..(n - 1) : Peers(r, i, t, k) = {}

\* Where a thread begins a sync step.
FirstCall(r, p) == NextCall(r, p[1], p[2], 1)

\* What the matmul before the sync step leaves: a partial result in all cells.
Partial(i, r) == [c \in Slices \X Rows(r) |-> SetToBag({<<i, r>>})]

Init ==
    /\ setup \in Setups
    /\ chan = [l \in Nodes \X Nodes |-> <<>>]
    /\ round = [i \in Nodes |-> 1]
    /\ buf = [i \in Nodes |-> Partial(i, 1)]
    /\ kv = [i \in Nodes |-> Shift(1, i, [c \in KvCells |-> 0])]
    /\ ip = [p \in Procs |-> FirstCall(1, p)]
    /\ todo = [p \in Procs |-> Peers(1, p[1], p[2], ip[p])]

\* Peer j is served: go on with the rest, or with the next call.
Served(i, t, j) ==
    LET p == <<i, t>>
        rest == todo[p] \ {j}
    IN  IF rest # {}
          THEN todo' = [todo EXCEPT ![p] = rest] /\ UNCHANGED ip
          ELSE /\ ip' = [ip EXCEPT ![p] = NextCall(round[i], i, t, @ + 1)]
               /\ todo' = [todo EXCEPT ![p] = Peers(round[i], i, t, ip'[p])]

\* Blocking sockets are served in order, others as data moves.
MayServe(i, t, j) ==
    /\ j \in todo[<<i, t>>]
    /\ setup.netTurbo \/ \A k \in todo[<<i, t>>] : j <= k

\* One socket of a writeMany.
WriteSocket(i, t, j) ==
    /\ MayServe(i, t, j) /\ Len(chan[<<i, j>>]) < SocketCapacity
    /\ LET call == Program(round[i], i, t, ip[<<i, t>>])
           cells == call.io[j]
           source == IF SyncType(round[i]) = "SP_KV" THEN kv[i] ELSE buf[i]
           data == [k \in DOMAIN cells |-> source[cells[k]]]
       IN  /\ call.op = "write"
           /\ chan' = [chan EXCEPT ![<<i, j>>] = Append(@, data)]
    /\ Served(i, t, j)
    /\ UNCHANGED <<setup, round, buf, kv>>

\* One socket of a readMany, and where the bytes end up.  (The star's and the
\* batch's private buffers are merged when the call is over; nobody looks at
\* these cells before.)
ReadSocket(i, t, j) ==
    /\ MayServe(i, t, j) /\ chan[<<j, i>>] # <<>>
    /\ LET call == Program(round[i], i, t, ip[<<i, t>>])
           cells == call.io[j]
           data == Head(chan[<<j, i>>])
           new(old, k) == IF call.reduce THEN old (+) data[k] ELSE data[k]
           stored(old) == [c \in DOMAIN old |->
                             IF \E k \in DOMAIN cells : cells[k] = c
                               THEN new(old[c], CHOOSE k \in DOMAIN cells : cells[k] = c)
                               ELSE old[c]]
       IN  /\ call.op = "read"
           /\ IF SyncType(round[i]) = "SP_KV"
                THEN kv' = [kv EXCEPT ![i] = stored(@)] /\ UNCHANGED buf
                ELSE buf' = [buf EXCEPT ![i] = stored(@)] /\ UNCHANGED kv
    /\ chan' = [chan EXCEPT ![<<j, i>>] = Tail(@)]
    /\ Served(i, t, j)
    /\ UNCHANGED <<setup, round>>

\* All threads are through: the pool's barrier opens.
SyncDone(i) == \A t \in Threads : ~Busy(i, t)

\* The layer's other steps run, up to the next sync step.
NextRound(i) ==
    /\ SyncDone(i) /\ round[i] < MaxRounds
    /\ round' = [round EXCEPT ![i] = @ + 1]
    /\ buf' = [buf EXCEPT ![i] = Partial(i, round[i] + 1)]
    /\ kv' = [kv EXCEPT ![i] = Shift(round[i] + 1, i, @)]
    /\ ip' = [p \in Procs |-> IF p[1] = i THEN FirstCall(round[i] + 1, p) ELSE ip[p]]
    /\ todo' = [p \in Procs |->
                  IF p[1] = i THEN Peers(round[i] + 1, i, p[2], ip'[p]) ELSE todo[p]]
    /\ UNCHANGED <<setup, chan>>

Step(i, t) ==
    \E j \in Nodes : WriteSocket(i, t, j) \/ ReadSocket(i, t, j)

Next ==
    \/ \E i \in Nodes : NextRound(i)
    \/ \E i \in Nodes, t \in Threads : Step(i, t)

Spec == Init /\ [][Next]_vars

\* Some thread that can go on does.  No fairness between the nodes is needed:
\* every step moves a transfer on and none is ever undone.
FairSpec == Spec /\ WF_vars(Next)

-----------------------------------------------------------------------------
\* Every cell of node i is the sum of exactly one partial result of every node
\* of its group, all of this round.
Summed(i) ==
    \A c \in DOMAIN buf[i] : buf[i][c] = SetToBag({<<n, round[i]>> : n \in Group(i)})

\* Node i is through with a sync step that leaves its result on i.
Receives(i) ==
    /\ SyncDone(i) /\ SyncType(round[i]) \in {"NODE_SLICES", "NODE_SLICES_EXCEPT_ROOT"}
    /\ OnlyToRoot(round[i]) => i = tpGroupStart(i)

\* "Now all nodes have the fully reduced result": the star and the ring leave
\* the sum on every node, whatever was exchanged before or is sent already for
\* the next sync step.
RowReduced == \A i \in Nodes : Receives(i) /\ ~UsesBatch(round[i]) => Summed(i)

\* The star does: in every TP group, for every row of a batch, between other
\* sync steps that use the same sockets, without a byte on the wire that says
\* what it belongs to.
StarReduced ==
    \A i \in Nodes :
        Receives(i) /\ ~UsesBatch(round[i]) /\ ~UsesRing(round[i]) => Summed(i)

\* "all-reduce (sum) over full pipe buffer": any sync step does.
AllReduced == \A i \in Nodes : Receives(i) => Summed(i)

\* The batched exchange is an all-gather: slice n of every row is node n's, of
\* this round, although no byte on the wire says so.
SlicesGathered ==
    \A i \in Nodes : Receives(i) /\ UsesBatch(round[i]) =>
        \A c \in DOMAIN buf[i] : buf[i][c] = SetToBag({<<c[1], round[i]>>})

\* SYNC_WITH_ROOT leaves the root's rows, of this round, on every node, although
\* the root's threads write them at their own pace and a worker reads with one, in
\* SP groups as well.  Where it is skipped, a node is left with what it had.
RootRowsEverywhere ==
    \A i \in Nodes : SyncDone(i) /\ SyncType(round[i]) = "WITH_ROOT" =>
        LET owner == IF Tp1Skipped(round[i]) THEN i ELSE 0
        IN  \A c \in DOMAIN buf[i] : buf[i][c] = SetToBag({<<owner, round[i]>>})

\* "whole pipe to all nodes": SYNC_WITH_ROOT does so in any cluster it is used in.
WholePipeToAll ==
    \A i \in Nodes : SyncDone(i) /\ SyncType(round[i]) = "WITH_ROOT" =>
        \A c \in DOMAIN buf[i] : buf[i][c] = SetToBag({<<0, round[i]>>})

\* "KV buffer holds full seqLen after SYNC_SP_KV allgather": behind the sync step
\* a node's cache has the latest row of every position so far, K and V, whoever
\* computed it; also when a block is empty, when the split changes from rows to
\* positions, and when the sync steps of decoded tokens were skipped before.
KvGathered ==
    \A i \in Nodes :
        SyncDone(i) /\ SyncType(round[i]) = "SP_KV" /\ ~SpKvSkipped(round[i]) =>
        \A p \in 0..maxPos(round[i]), x \in {"k", "v"} :
            LET latest == kv[i][<<x, p>>]
                covers(r) == SyncType(r) = "SP_KV" /\ p \in setup.syncs[r].position..maxPos(r)
            IN  /\ latest \in 1..round[i] /\ covers(latest)
                /\ \A r \in (latest + 1)..round[i] : ~covers(r)

\* A sync step reads what it sends, all of it: nothing is left between two nodes
\* that are through with the same one, which the next would take for its own.
WiresDrained ==
    \A i, j \in Nodes :
        SyncDone(i) /\ SyncDone(j) /\ round[i] = round[j] => chan[<<i, j>>] = <<>>

\* No order of transfers, however small the socket buffers, blocks the group.
SyncsComplete == <>(\A i \in Nodes : SyncDone(i) /\ round[i] = MaxRounds)
=============================================================================
