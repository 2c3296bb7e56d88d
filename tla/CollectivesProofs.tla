------------------------- MODULE CollectivesProofs --------------------------
(***************************************************************************)
(* What the sync steps leave on the nodes, for every cluster, socket size   *)
(* and sequence of sync steps that SetupOK admits.                          *)
(*                                                                          *)
(* Nothing on the wire says what a transfer is, so the argument is about    *)
(* numbers.  A link is what one node sends another in one sync step:        *)
(* transfer m is made in call wb + st * m of one thread of the writer and   *)
(* taken in call rb + st * m of one thread of the reader.  The first part   *)
(* shows that the calls of the seven algorithms, and of a sync step that is *)
(* left out, are exactly those of their links (ProgramMatches).  The invariant, Story, then counts how many      *)
(* transfers of its present sync step a node has written (w) and read (d)   *)
(* on each link: the program counters agree with the counts, a socket holds *)
(* exactly the transfers between the two ends, each with the contents that  *)
(* its number calls for, and the pipes and caches hold what the counts say. *)
(* A node that is through has read whole links (DoneCounts), whence the     *)
(* theorems at the end.                                                     *)
(***************************************************************************)
EXTENDS Collectives, TLAPS, WellFoundedInduction

\* The sync steps.
Rounds == 1..MaxRounds

\* The seven algorithms, of SYNC_SP_KV, SYNC_WITH_ROOT and the slices, and none at
\* all where TP groups of one node leave the sync step out.
Kind(r) ==
    IF Tp1Skipped(r) THEN "idle" ELSE
    CASE SyncType(r) = "SP_KV" -> "kv"
      [] SyncType(r) = "WITH_ROOT" -> "root"
      [] SyncType(r) \notin {"SP_KV", "WITH_ROOT"} /\ UsesBatch(r) ->
            IF OnlyToRoot(r) THEN "gather" ELSE "batch"
      [] OTHER -> IF OnlyToRoot(r) THEN "reduce" ELSE IF UsesRing(r) THEN "ring" ELSE "star"

\* The next node in the ring of a TP group.
RingNext(i) == tpGroupStart(i) + ((i - tpGroupStart(i) + 1) % tpSize)

\* Does node i send anything to j in sync step r?
Linked(r, i, j) ==
    /\ i # j /\ Kind(r) # "idle"
    /\ Kind(r) = "root" => i = 0
    /\ Kind(r) = "gather" => j = 0
    /\ Kind(r) = "ring" => j = RingNext(i)
    /\ Kind(r) = "reduce" => j = tpGroupStart(i)
    /\ Kind(r) = "star" => j = tpGroupStart(i) \/ i = tpGroupStart(j)
    /\ Kind(r) = "kv" => /\ ~SpKvSkipped(r)
                         /\ j = SpPeer(i, spRank(j))
                         /\ ActiveRange(r, spRank(i)).start < ActiveRange(r, spRank(i)).end

\* How many transfers.
Count(r, i, j) ==
    IF ~Linked(r, i, j) THEN 0
    ELSE IF Kind(r) = "kv" THEN 2
    ELSE IF Kind(r) = "ring" THEN 2 * ((tpSize - 1) * setup.syncs[r].batchSize)
    ELSE setup.syncs[r].batchSize

\* Where reads and writes alternate, a link has every other call.
Stride(r) == IF Kind(r) \in {"batch", "ring", "star"} THEN 2 ELSE 1

\* The thread of the writer, and of the reader, that serves the link.
WThread(r, i, j) ==
    IF i # j /\ Kind(r) \in {"root", "batch"} THEN PeerSocket(i, j) % nThreads ELSE 0
RThread(r, i, j) ==
    IF i # j /\ Kind(r) \in {"gather", "batch"} THEN PeerSocket(j, i) % nThreads ELSE 0

\* The call before the first transfer, at the writer and at the reader.
WBase(r, i, j) ==
    CASE Kind(r) = "batch" -> -1
      [] Kind(r) = "ring" -> IF RingSendsFirst(i - tpGroupStart(i)) THEN -1 ELSE 0
      [] Kind(r) = "star" -> IF i = tpGroupStart(i) THEN 0 ELSE -1
      [] Kind(r) = "kv" -> 4 * spRank(j) + (IF spRank(i) < spRank(j) THEN 0 ELSE 2)
      [] OTHER -> 0
RBase(r, i, j) ==
    CASE Kind(r) = "batch" -> 0
      [] Kind(r) = "ring" -> IF RingSendsFirst(j - tpGroupStart(j)) THEN 0 ELSE -1
      [] Kind(r) = "star" -> IF i = tpGroupStart(i) THEN 0 ELSE -1
      [] Kind(r) = "kv" -> 4 * spRank(i) + (IF spRank(j) < spRank(i) THEN 2 ELSE 0)
      [] OTHER -> 0

\* All of it.
Link(r, i, j) ==
    [n |-> Count(r, i, j), st |-> Stride(r),
     wt |-> WThread(r, i, j), wb |-> WBase(r, i, j),
     rt |-> RThread(r, i, j), rb |-> RBase(r, i, j)]

\* Call c of thread t is the writer's, or the reader's, end of a transfer.
WAt(k, t, c) == t = k.wt /\ \E m \in 1..k.n : c = k.wb + k.st * m
RAt(k, t, c) == t = k.rt /\ \E m \in 1..k.n : c = k.rb + k.st * m

-----------------------------------------------------------------------------
(* Arithmetic.                                                             *)

\* A set of numbers has a least element.
LEMMA NatLeast ==
    ASSUME NEW S \in SUBSET Nat, S # {}
    PROVE  \E m \in S : \A k \in S : m <= k
<1>1. PICK m \in S : \A y \in S : ~(<<y, m>> \in OpToRel(<, Nat))
  BY NatLessThanWellFounded, WFMin, Zenon
<1>2. ASSUME NEW y \in S, ~(m <= y) PROVE FALSE
  <2>1. y \in Nat /\ m \in Nat /\ y < m
    BY <1>2, SMT
  <2>2. <<y, m>> \in OpToRel(<, Nat)
    BY <2>1 DEF OpToRel
  <2> QED
    BY <1>1, <2>2, Zenon
<1> QED
  BY <1>2, Zenon

\* A bounded one has a greatest element.
LEMMA NatGreatest ==
    ASSUME NEW b \in Nat, NEW S \in SUBSET (0..b), S # {}
    PROVE  \E m \in S : \A k \in S : k <= m
<1> DEFINE D == {x \in Nat : b - x \in S}
<1>1. D \in SUBSET Nat /\ D # {}
  <2>1. PICK k \in S : TRUE
    OBVIOUS
  <2>2. k \in Nat /\ b - k \in Nat /\ b - (b - k) = k
    BY <2>1, SMT
  <2>3. b - k \in D
    BY <2>1, <2>2, Zenon
  <2> QED
    BY <2>3, Zenon
<1>2. PICK x \in D : \A y \in D : x <= y
  <2> HIDE DEF D
  <2> QED
    BY <1>1, NatLeast, Zenon
<1>3. ASSUME NEW k \in S PROVE k <= b - x
  <2>1. k \in Nat /\ b - k \in Nat /\ b - (b - k) = k
    BY SMT
  <2>2. b - k \in D
    BY <2>1, Zenon
  <2>3. x <= b - k /\ x \in Nat
    BY <1>2, <2>2, Zenon
  <2> QED
    BY <2>1, <2>3, SMT
<1> QED
  BY <1>2, <1>3, Zenon

\* Quotient and remainder.
LEMMA DivMod ==
    ASSUME NEW a \in Nat, NEW n \in Nat \ {0}
    PROVE  \E q \in Nat, m \in 0..(n - 1) : a \div n = q /\ a % n = m /\ a = q * n + m
<1>1. PICK q \in Int : q = a \div n
  OBVIOUS
<1>2. PICK m \in Int : m = a % n
  OBVIOUS
<1>3. n * q + m = a
  BY <1>1, <1>2
<1>4. m \in 0..(n - 1)
  BY <1>2
<1>5. q \in Nat
  BY <1>1
<1>6. n * q = q * n
  OBVIOUS
<1>7. a = q * n + m
  BY <1>3, <1>6, SMT
<1> QED
  BY <1>1, <1>2, <1>4, <1>5, <1>7, Zenon

\* They are unique.
LEMMA DivIs ==
    ASSUME NEW n \in Nat \ {0}, NEW q \in Nat, NEW m \in 0..(n - 1)
    PROVE  (q * n + m) \div n = q /\ (q * n + m) % n = m
  BY SMT

\* The blocks of smaller numbers come before those of greater ones.
LEMMA MulMono ==
    ASSUME NEW a \in Nat, NEW b \in Nat, NEW n \in Nat, a < b
    PROVE  a * n + n <= b * n /\ a * n \in Nat /\ b * n \in Nat
  BY SMT

-----------------------------------------------------------------------------
(* Setups.                                                                 *)

\* What SetupOK says of the cluster.
LEMMA SetupFacts ==
    ASSUME setup \in Setups
    PROVE  /\ setup.nNodes \in Nat \ {0, 1} /\ nThreads \in Nat \ {0}
           /\ tpSize \in Nat \ {0} /\ setup.spSize \in Nat \ {0}
           /\ setup.nNodes % (tpSize * setup.spSize) = 0
           /\ setup.localSeqLen \in Nat \ {0} /\ setup.cpSplit \in BOOLEAN
           /\ setup.syncs \in Seq(SyncSteps) /\ MaxRounds \in Nat \ {0}
           /\ DOMAIN setup.syncs = Rounds
  BY CollectivesAssumption DEF SetupOK, nThreads, tpSize, MaxRounds, Rounds

\* What it says of a sync step.
LEMMA SyncFacts ==
    ASSUME setup \in Setups, NEW r \in Rounds
    PROVE  /\ setup.syncs[r].type \in SyncTypes /\ setup.syncs[r].batchSize \in Nat \ {0}
           /\ setup.syncs[r].position \in Nat /\ setup.syncs[r].decode \in BOOLEAN
           /\ setup.syncs[r].position + setup.syncs[r].batchSize <= setup.spSize * setup.localSeqLen
           /\ setup.syncs[r].decode => setup.syncs[r].batchSize = 1
           /\ setup.syncs[r].type = "SP_KV" =>
                /\ setup.spSize > 1
                /\ \A p \in 0..(setup.syncs[r].position - 1) : \E l \in 1..(r - 1) :
                     setup.syncs[l].type = "SP_KV" /\ p \in PositionsOf(setup.syncs[l])
           /\ tpSize > 1 /\ tpSize < setup.nNodes =>
                \/ setup.batchedSyncOff \/ setup.syncs[r].batchSize = 1
                \/ setup.syncs[r].type \in {"SP_KV", "WITH_ROOT"}
<1>1. setup.syncs \in Seq(SyncSteps) /\ r \in DOMAIN setup.syncs /\ SetupOK(setup)
  BY SetupFacts, CollectivesAssumption
<1>2. setup.syncs[r] \in SyncSteps
  BY <1>1
<1> QED
  BY <1>1, <1>2 DEF SetupOK, SyncSteps, tpSize

\* The cluster is cut into SP groups, and each of them into TP groups.
LEMMA ClusterShape ==
    ASSUME setup \in Setups
    PROVE  \E g \in Nat \ {0} : setup.nNodes = g * (setup.spSize * tpSize)
<1>1. PICK a, b, n : a = tpSize /\ b = setup.spSize /\ n = setup.nNodes
  OBVIOUS
<1>2. a \in Nat \ {0} /\ b \in Nat \ {0} /\ n \in Nat \ {0} /\ n % (a * b) = 0
  BY <1>1, SetupFacts
<1>3. a * b \in Nat \ {0} /\ a * b = b * a
  BY <1>2, SMT
<1>4. PICK q \in Nat, m \in 0..((a * b) - 1) : n \div (a * b) = q /\ n % (a * b) = m /\ n = q * (a * b) + m
  BY <1>2, <1>3, DivMod
<1>5. n = q * (b * a)
  BY <1>2, <1>3, <1>4, SMT
<1>6. q # 0
  BY <1>2, <1>3, <1>5, SMT
<1> QED
  BY <1>1, <1>5, <1>6

\* A node's number: its SP group, its rank in it, and its place in the TP group.
LEMMA NodeShape ==
    ASSUME setup \in Setups, NEW i \in Nodes
    PROVE  \E g \in Nat, q \in SpRanks, o \in Slices :
             /\ i = (g * setup.spSize + q) * tpSize + o
             /\ tpGroupStart(i) = (g * setup.spSize + q) * tpSize
             /\ spGroupStart(i) = g * (setup.spSize * tpSize)
             /\ spRank(i) = q
             /\ (g + 1) * (setup.spSize * tpSize) <= setup.nNodes
<1>1. PICK a, b, n : a = tpSize /\ b = setup.spSize /\ n = setup.nNodes
  OBVIOUS
<1>2. a \in Nat \ {0} /\ b \in Nat \ {0} /\ n \in Nat \ {0} /\ i \in 0..(n - 1)
  BY <1>1, SetupFacts DEF Nodes
<1>3. PICK z \in Nat, o \in 0..(a - 1) : i \div a = z /\ i % a = o /\ i = z * a + o
  BY <1>2, DivMod
<1>4. PICK g \in Nat, q \in 0..(b - 1) : z \div b = g /\ z % b = q /\ z = g * b + q
  BY <1>2, <1>3, DivMod
<1>5. b * a \in Nat \ {0} /\ q * a + o \in 0..(b * a - 1) /\ q * a \in Nat
  <2>1. b * a \in Nat \ {0}
    BY <1>2, SMT
  <2>2. q * a + a <= b * a /\ q * a \in Nat
    BY <1>2, <1>4, MulMono
  <2> QED
    BY <1>2, <1>3, <2>1, <2>2, SMT
<1>6. i = g * (b * a) + (q * a + o)
  <2>1. (g * b + q) * a = g * (b * a) + q * a
    BY <1>2, <1>4, SMT
  <2>2. g * (b * a) \in Nat
    BY <1>2, <1>4, SMT
  <2> QED
    BY <1>2, <1>3, <1>4, <1>5, <2>1, <2>2, SMT
<1>7. i \div (b * a) = g
  <2>1. PICK c \in Nat \ {0} : c = b * a
    BY <1>5
  <2>2. PICK e \in 0..(c - 1) : e = q * a + o
    BY <1>5, <2>1
  <2>3. i = g * c + e
    BY <1>6, <2>1, <2>2
  <2> QED
    BY <2>1, <2>3, DivIs
<1>8. (g * b) * a = g * (b * a) /\ g * (b * a) \in Nat
  BY <1>2, <1>4, SMT
<1>9. (g * b + q) * a = g * (b * a) + q * a
  BY <1>2, <1>4, SMT
<1>10. (i - g * (b * a)) \div a = q
  <2>1. i - g * (b * a) = q * a + o
    BY <1>2, <1>3, <1>5, <1>6, <1>8, SMT
  <2> QED
    BY <1>2, <1>3, <1>4, <2>1, DivIs
<1>11. tpGroupStart(i) = z * a
  BY <1>1, <1>3 DEF tpGroupStart
<1>12. spGroupStart(i) = g * (b * a)
  BY <1>1, <1>7, <1>8 DEF spGroupStart
<1>13. spRank(i) = q
  BY <1>1, <1>10, <1>12 DEF spRank
<1>14. (g + 1) * (b * a) <= n
  <2>1. PICK h \in Nat \ {0} : n = h * (b * a)
    BY <1>1, ClusterShape
  <2>2. PICK c \in Nat \ {0} : c = b * a
    BY <1>5
  <2>3. i >= g * c /\ i < h * c
    BY <1>2, <1>5, <1>6, <2>1, <2>2, SMT
  <2>4. g < h
    <3>1. ASSUME h < g PROVE h * c + c <= g * c /\ h * c \in Nat
      BY <3>1, MulMono
    <3> QED
      BY <1>2, <2>3, <3>1, SMT
  <2>5. (g + 1) * c <= h * c
    BY <2>4, SMT
  <2> QED
    BY <2>1, <2>2, <2>5
<1> QED
  BY <1>1, <1>3, <1>4, <1>11, <1>12, <1>13, <1>14 DEF SpRanks, Slices

\* The TP group of a node is part of the cluster, and its nodes agree on it.
LEMMA GroupFacts ==
    ASSUME setup \in Setups, NEW i \in Nodes
    PROVE  /\ tpGroupStart(i) \in Nodes /\ i \in Group(i) /\ Group(i) \subseteq Nodes
           /\ i \in Nat /\ tpGroupStart(i) \in Nat /\ tpGroupStart(i) <= i
           /\ i < tpGroupStart(i) + tpSize
           /\ \A j \in Group(i) : tpGroupStart(j) = tpGroupStart(i)
<1>1. PICK a, b, n : a = tpSize /\ b = setup.spSize /\ n = setup.nNodes
  OBVIOUS
<1>2. a \in Nat \ {0} /\ b \in Nat \ {0} /\ n \in Nat \ {0} /\ i \in 0..(n - 1)
  BY <1>1, SetupFacts DEF Nodes
<1>3. PICK g \in Nat, q \in 0..(b - 1), o \in 0..(a - 1) :
             /\ i = (g * b + q) * a + o
             /\ tpGroupStart(i) = (g * b + q) * a
             /\ (g + 1) * (b * a) <= n
  BY <1>1, NodeShape DEF SpRanks, Slices
<1>4. PICK z \in Nat : z = g * b + q
  BY <1>2, <1>3, SMT
<1>5. z * a \in Nat /\ z * a + a <= n
  <2>1. z + 1 <= (g + 1) * b /\ (g + 1) * b \in Nat
    BY <1>2, <1>3, <1>4, SMT
  <2>2. z * a + a <= ((g + 1) * b) * a /\ z * a \in Nat
    BY <1>2, <2>1, MulMono
  <2>3. ((g + 1) * b) * a = (g + 1) * (b * a)
    BY <1>2, SMT
  <2>4. (g + 1) * (b * a) \in Nat
    BY <1>2, SMT
  <2> QED
    BY <1>2, <1>3, <2>2, <2>3, <2>4, SMT
<1>6. ASSUME NEW j \in Group(i) PROVE j \in Nodes /\ tpGroupStart(j) = tpGroupStart(i)
  <2>1. j \in (z * a)..(z * a + a - 1)
    BY <1>1, <1>3, <1>4, <1>6 DEF Group
  <2>2. PICK m \in 0..(a - 1) : j = z * a + m
    BY <1>2, <1>5, <2>1
  <2>3. j \div a = z
    BY <1>2, <2>2, DivIs
  <2>4. j \in 0..(n - 1)
    BY <1>2, <1>5, <2>1, SMT
  <2>5. tpGroupStart(j) = z * a
    BY <1>1, <2>3 DEF tpGroupStart
  <2> QED
    BY <1>1, <1>3, <1>4, <2>4, <2>5 DEF Nodes
<1>7. i = z * a + o /\ tpGroupStart(i) = z * a
  BY <1>3, <1>4
<1>8. i \in Group(i)
  BY <1>1, <1>2, <1>5, <1>7 DEF Group
<1>9. tpGroupStart(i) \in Nodes
  BY <1>1, <1>2, <1>5, <1>7 DEF Nodes
<1> QED
  BY <1>1, <1>2, <1>5, <1>6, <1>7, <1>8, <1>9

\* The first node of a group.
LEMMA RootsRoot ==
    ASSUME setup \in Setups, NEW i \in Nodes
    PROVE  tpGroupStart(tpGroupStart(i)) = tpGroupStart(i)
<1>1. tpGroupStart(i) \in Group(i)
  BY GroupFacts, SetupFacts DEF Group
<1> QED
  BY <1>1, GroupFacts

\* The nodes that have i for their root.
LEMMA RootOf ==
    ASSUME setup \in Setups, NEW i \in Nodes
    PROVE  \A j : j \in Group(i) \ {i} /\ i = tpGroupStart(i) <=>
                    j \in Nodes /\ i = tpGroupStart(j) /\ i # j
<1>1. ASSUME NEW j \in Nodes, i = tpGroupStart(j), i # j
      PROVE  j \in Group(i) /\ i = tpGroupStart(i)
  <2>1. i = tpGroupStart(i)
    BY <1>1, RootsRoot
  <2>2. j \in Group(j)
    BY GroupFacts
  <2> QED
    BY <1>1, <2>1, <2>2 DEF Group
<1>2. ASSUME NEW j \in Group(i) \ {i}, i = tpGroupStart(i)
      PROVE  j \in Nodes /\ i = tpGroupStart(j)
  BY <1>2, GroupFacts
<1> QED
  BY <1>1, <1>2

\* One TP group: the cluster.
LEMMA WholeCluster ==
    ASSUME setup \in Setups, tpSize >= setup.nNodes, NEW i \in Nodes
    PROVE  tpGroupStart(i) = 0 /\ Group(i) = Nodes /\ tpSize = setup.nNodes
<1>1. PICK a, n, t : a = tpSize /\ n = setup.nNodes /\ t = tpGroupStart(i)
  OBVIOUS
<1>2. a \in Nat \ {0} /\ n \in Nat \ {0} /\ a >= n
  BY <1>1, SetupFacts
<1>3. t \in Nat /\ t..(t + a - 1) \subseteq 0..(n - 1)
  BY <1>1, GroupFacts DEF Nodes, Group
<1>4. t + a - 1 \in 0..(n - 1)
  BY <1>2, <1>3, SMT
<1>5. t = 0 /\ a = n
  BY <1>2, <1>3, <1>4, SMT
<1> QED
  BY <1>1, <1>5, <1>2 DEF Group, Nodes

-----------------------------------------------------------------------------
(* The programs match.                                                     *)

\* What each of them is for.
LEMMA KindFacts ==
    ASSUME setup \in Setups, NEW r \in Rounds
    PROVE  /\ Kind(r) \in {"idle", "kv", "root", "gather", "batch", "reduce", "ring", "star"}
           /\ Kind(r) = "idle" <=> Tp1Skipped(r)
           /\ Kind(r) = "idle" => tpSize = 1
           /\ Kind(r) = "kv" <=> SyncType(r) = "SP_KV"
           /\ Kind(r) = "root" => SyncType(r) = "WITH_ROOT"
           /\ SyncType(r) = "WITH_ROOT" => Kind(r) \in {"root", "idle"}
           /\ Kind(r) \in {"gather", "batch"} =>
                UsesBatch(r) /\ (OnlyToRoot(r) <=> Kind(r) = "gather")
           /\ UsesBatch(r) => tpSize > 1
           /\ Kind(r) \in {"gather", "batch"} => tpSize >= setup.nNodes
           /\ Kind(r) \in {"reduce", "ring", "star"} =>
                ~UsesBatch(r) /\ (OnlyToRoot(r) <=> Kind(r) = "reduce") /\ (UsesRing(r) <=> Kind(r) = "ring")
           /\ Kind(r) = "ring" => tpSize >= 8
           /\ Kind(r) \notin {"idle", "kv", "root"} =>
                SyncType(r) \in {"NODE_SLICES", "NODE_SLICES_EXCEPT_ROOT"}
<1>1. /\ SyncType(r) \in SyncTypes
      /\ tpSize > 1 /\ tpSize < setup.nNodes =>
                \/ setup.batchedSyncOff \/ setup.syncs[r].batchSize = 1
                \/ SyncType(r) \in {"SP_KV", "WITH_ROOT"}
      /\ tpSize \in Nat \ {0} /\ setup.nNodes \in Nat \ {0} /\ setup.syncs[r].batchSize \in Nat \ {0}
  BY SyncFacts, SetupFacts DEF SyncType
<1>2. OnlyToRoot(r) => ~UsesRing(r)
  BY DEF UsesRing
<1>3. UsesRing(r) => tpSize >= 8
  BY DEF UsesRing, ringTopologySupported
<1>4. UsesBatch(r) => tpSize > 1 /\ ~(tpSize < setup.nNodes)
  BY <1>1 DEF UsesBatch
<1>9. Tp1Skipped(r) => tpSize = 1 /\ SyncType(r) # "SP_KV"
  BY DEF Tp1Skipped
<1>10. CASE Tp1Skipped(r)
  BY <1>1, <1>4, <1>9, <1>10 DEF Kind
<1>5. CASE SyncType(r) = "SP_KV"
  BY <1>1, <1>4, <1>5, <1>9 DEF Kind
<1>6. CASE SyncType(r) = "WITH_ROOT" /\ ~Tp1Skipped(r)
  BY <1>1, <1>4, <1>6 DEF Kind
<1>7. CASE SyncType(r) \notin {"SP_KV", "WITH_ROOT"} /\ UsesBatch(r) /\ ~Tp1Skipped(r)
  BY <1>1, <1>4, <1>7 DEF Kind, SyncTypes
<1>8. CASE SyncType(r) \notin {"SP_KV", "WITH_ROOT"} /\ ~UsesBatch(r) /\ ~Tp1Skipped(r)
  BY <1>1, <1>2, <1>3, <1>8 DEF Kind, SyncTypes
<1> QED
  BY <1>5, <1>6, <1>7, <1>8, <1>10

\* A peer is served by one thread, that of its socket.
LEMMA PeersOfFacts ==
    ASSUME setup \in Setups, NEW i \in Nodes, NEW t \in Threads
    PROVE  /\ \A j : j \in PeersOf(i, t) <=> j \in Nodes /\ j # i /\ PeerSocket(i, j) % nThreads = t
           /\ \A j \in Nodes : j # i => /\ PeerSocket(i, j) % nThreads \in Threads
                                        /\ PeerSocket(i, j) \in 0..(setup.nNodes - 2)
<1>1. PICK n, h : n = setup.nNodes /\ h = nThreads
  OBVIOUS
<1>2. n \in Nat \ {0, 1} /\ h \in Nat \ {0} /\ i \in 0..(n - 1)
  BY <1>1, SetupFacts DEF Nodes
<1>3. ASSUME NEW j \in PeersOf(i, t)
      PROVE  j \in Nodes /\ j # i /\ PeerSocket(i, j) % nThreads = t
  <2>1. PICK k \in 0..(n - 2) : k % h = t /\ j = SocketPeer(i, k)
    BY <1>1, <1>3 DEF PeersOf, SocketsOf
  <2>2. j \in 0..(n - 1) /\ j # i /\ PeerSocket(i, j) = k
    BY <1>2, <2>1 DEF SocketPeer, PeerSocket
  <2> QED
    BY <1>1, <2>1, <2>2 DEF Nodes
<1>4. ASSUME NEW j \in Nodes, j # i
      PROVE  /\ PeerSocket(i, j) \in 0..(n - 2) /\ SocketPeer(i, PeerSocket(i, j)) = j
             /\ PeerSocket(i, j) % h \in 0..(h - 1)
  <2>1. j \in 0..(n - 1)
    BY <1>1 DEF Nodes
  <2>2. PeerSocket(i, j) \in 0..(n - 2) /\ SocketPeer(i, PeerSocket(i, j)) = j
    BY <1>2, <1>4, <2>1 DEF SocketPeer, PeerSocket
  <2>3. PeerSocket(i, j) \in Nat
    BY <1>2, <2>2
  <2>4. PeerSocket(i, j) % h \in 0..(h - 1)
    BY <1>2, <2>3, DivMod
  <2> QED
    BY <2>2, <2>4
<1>5. ASSUME NEW j \in Nodes, j # i, PeerSocket(i, j) % nThreads = t
      PROVE  j \in PeersOf(i, t)
  BY <1>1, <1>4, <1>5 DEF PeersOf, SocketsOf
<1> QED
  BY <1>1, <1>3, <1>4, <1>5 DEF Threads

\* The calls of thread t of node i are those of its links.
Matches(r, i, t, c) ==
    /\ \A j : j \in Peers(r, i, t, c) <=>
                /\ j \in Nodes
                /\ WAt(Link(r, i, j), t, c) \/ RAt(Link(r, j, i), t, c)
    /\ \A j \in Nodes : WAt(Link(r, i, j), t, c) => Program(r, i, t, c).op = "write"
    /\ \A j \in Nodes : RAt(Link(r, j, i), t, c) => Program(r, i, t, c).op = "read"

\* The calls of a link with stride one.
LEMMA Stride1 ==
    ASSUME NEW c \in Int, NEW b \in Int, NEW n \in Int
    PROVE  (\E m \in 1..n : c = b + 1 * m) <=> c - b \in 1..n
<1>1. ASSUME c - b \in 1..n PROVE \E m \in 1..n : c = b + 1 * m
  <2>1. c = b + 1 * (c - b)
    BY SMT
  <2> QED
    BY <1>1, <2>1
<1>2. ASSUME NEW m \in 1..n, c = b + 1 * m PROVE c - b \in 1..n
  BY <1>2, SMT
<1> QED
  BY <1>1, <1>2

\* The calls of a link with stride two.
LEMMA Stride2 ==
    ASSUME NEW c \in Int, NEW b \in {-1, 0}, NEW n \in Nat
    PROVE  (\E m \in 1..n : c = b + 2 * m) <=> c \in 1..(2 * n) /\ c % 2 = (IF b = 0 THEN 0 ELSE 1)
<1>1. ASSUME c \in 1..(2 * n), c % 2 = (IF b = 0 THEN 0 ELSE 1) PROVE \E m \in 1..n : c = b + 2 * m
  <2>0. PICK q \in Int : c = 2 * q + (c % 2)
    <3>1. c \div 2 \in Int /\ c = 2 * (c \div 2) + (c % 2)
      BY SMT
    <3> QED
      BY <3>1
  <2>1. PICK m \in Int : c = b + 2 * m
    <3>1. CASE b = 0
      BY <1>1, <2>0, <3>1, SMT
    <3>2. CASE b = -1
      <4>0. c % 2 = 1
        BY <1>1, <3>2
      <4>1. c = b + 2 * (q + 1) /\ q + 1 \in Int
        BY <4>0, <2>0, <3>2, SMT
      <4> QED
        BY <4>1
    <3> QED
      BY <3>1, <3>2
  <2>2. m \in 1..n
    BY <1>1, <2>1, SMT
  <2> QED
    BY <2>1, <2>2
<1>2. ASSUME NEW m \in 1..n, c = b + 2 * m PROVE c \in 1..(2 * n) /\ c % 2 = (IF b = 0 THEN 0 ELSE 1)
  BY <1>2, SMT
<1> QED
  BY <1>1, <1>2

\* The same for both ends of a link.
LEMMA AtStride1 ==
    ASSUME NEW k, NEW t, NEW c \in Int, k.st = 1, k.n \in Nat, k.wb \in Int, k.rb \in Int
    PROVE  /\ WAt(k, t, c) <=> t = k.wt /\ c - k.wb \in 1..k.n
           /\ RAt(k, t, c) <=> t = k.rt /\ c - k.rb \in 1..k.n
<1>1. PICK n \in Nat, a \in Int, b \in Int : n = k.n /\ a = k.wb /\ b = k.rb
  OBVIOUS
<1>2. (\E m \in 1..n : c = a + 1 * m) <=> c - a \in 1..n
  BY Stride1
<1>3. (\E m \in 1..n : c = b + 1 * m) <=> c - b \in 1..n
  BY Stride1
<1> QED
  BY <1>1, <1>2, <1>3, Zenon DEF WAt, RAt

\* The same for both ends of a link.
LEMMA AtStride2 ==
    ASSUME NEW k, NEW t, NEW c \in Int, k.st = 2, k.n \in Nat, k.wb \in {-1, 0}, k.rb \in {-1, 0}
    PROVE  /\ WAt(k, t, c) <=> t = k.wt /\ c \in 1..(2 * k.n) /\ c % 2 = (IF k.wb = 0 THEN 0 ELSE 1)
           /\ RAt(k, t, c) <=> t = k.rt /\ c \in 1..(2 * k.n) /\ c % 2 = (IF k.rb = 0 THEN 0 ELSE 1)
<1>1. PICK n \in Nat, a \in {-1, 0}, b \in {-1, 0} : n = k.n /\ a = k.wb /\ b = k.rb
  OBVIOUS
<1>2. (\E m \in 1..n : c = a + 2 * m) <=> c \in 1..(2 * n) /\ c % 2 = (IF a = 0 THEN 0 ELSE 1)
  BY Stride2
<1>3. (\E m \in 1..n : c = b + 2 * m) <=> c \in 1..(2 * n) /\ c % 2 = (IF b = 0 THEN 0 ELSE 1)
  BY Stride2
<1> QED
  BY <1>1, <1>2, <1>3, Zenon DEF WAt, RAt

\* SYNC_WITH_ROOT.
LEMMA RootMatches ==
    ASSUME setup \in Setups, NEW r \in Rounds, Kind(r) = "root",
           NEW i \in Nodes, NEW t \in Threads, NEW c \in Nat \ {0}
    PROVE  Matches(r, i, t, c)
<1>0. ~Tp1Skipped(r)
  BY KindFacts
<1>1. PICK B : B = setup.syncs[r].batchSize
  OBVIOUS
<1>2. B \in Nat \ {0} /\ SyncType(r) = "WITH_ROOT" /\ ~UsesBatch(r) /\ 0 \in Nodes /\ 0 \in Threads
  <2>1. B \in Nat \ {0}
    BY <1>1, SyncFacts
  <2>2. 0 \in Nodes /\ 0 \in Threads
    BY SetupFacts DEF Nodes, Threads
  <2>3. SyncType(r) = "WITH_ROOT"
    BY KindFacts
  <2> QED
    BY <2>1, <2>2, <2>3 DEF UsesBatch
<1>3. CallsPerRow(r) = 1
  BY <1>2 DEF CallsPerRow
<1>4. ProgramLength(r, i, t) = IF t = 0 \/ i = 0 THEN B ELSE 0
  BY <1>0, <1>1, <1>2, <1>3 DEF ProgramLength, TakesPart
<1>5. Program(r, i, t, c) = SyncWithRoot(i, t, c - 1)
  BY <1>2, <1>3 DEF Program
<1>6. ASSUME NEW j \in Nodes
      PROVE  WAt(Link(r, i, j), t, c) <=> i = 0 /\ j # 0 /\ t = PeerSocket(0, j) % nThreads /\ c <= B
  <2>1. /\ Link(r, i, j).n = (IF i # j /\ i = 0 THEN B ELSE 0) /\ Link(r, i, j).st = 1
        /\ Link(r, i, j).wb = 0 /\ Link(r, i, j).rb = 0
        /\ Link(r, i, j).wt = IF i # j THEN PeerSocket(i, j) % nThreads ELSE 0
    BY <1>1 DEF Link, Count, Linked, Stride, WBase, RBase, WThread
  <2>2. WAt(Link(r, i, j), t, c) <=> t = Link(r, i, j).wt /\ c - Link(r, i, j).wb \in 1..Link(r, i, j).n
    BY <1>2, <2>1, AtStride1
  <2> QED
    BY <1>2, <2>1, <2>2
<1>7. ASSUME NEW j \in Nodes
      PROVE  RAt(Link(r, j, i), t, c) <=> j = 0 /\ i # 0 /\ t = 0 /\ c <= B
  <2>1. /\ Link(r, j, i).n = (IF j # i /\ j = 0 THEN B ELSE 0) /\ Link(r, j, i).st = 1
        /\ Link(r, j, i).wb = 0 /\ Link(r, j, i).rb = 0
        /\ Link(r, j, i).rt = 0
    BY <1>1 DEF Link, Count, Linked, Stride, WBase, RBase, RThread
  <2>2. RAt(Link(r, j, i), t, c) <=> t = Link(r, j, i).rt /\ c - Link(r, j, i).rb \in 1..Link(r, j, i).n
    BY <1>2, <2>1, AtStride1
  <2> QED
    BY <1>2, <2>1, <2>2
<1>8. \A j : j \in PeersOf(0, t) <=> j \in Nodes /\ j # 0 /\ PeerSocket(0, j) % nThreads = t
  BY <1>2, PeersOfFacts
<1>9. CASE i = 0
  <2>1. Program(r, i, t, c).op = "write" /\ DOMAIN Program(r, i, t, c).io = PeersOf(0, t)
    BY <1>5, <1>9 DEF SyncWithRoot, Call
  <2>2. \A j : j \in Peers(r, i, t, c) <=> c <= B /\ j \in PeersOf(0, t)
    BY <1>4, <1>9, <2>1 DEF Peers
  <2> QED
    BY <1>6, <1>7, <1>8, <1>9, <2>1, <2>2 DEF Matches
<1>10. CASE i # 0
  <2>1. Program(r, i, t, c).op = "read" /\ DOMAIN Program(r, i, t, c).io = {0}
    BY <1>5, <1>10 DEF SyncWithRoot, Call
  <2>2. \A j : j \in Peers(r, i, t, c) <=> t = 0 /\ c <= B /\ j = 0
    BY <1>2, <1>4, <1>10, <2>1 DEF Peers
  <2> QED
    BY <1>2, <1>6, <1>7, <1>10, <2>1, <2>2 DEF Matches
<1> QED
  BY <1>9, <1>10

\* The batched SYNC_NODE_SLICES_EXCEPT_ROOT.
LEMMA GatherMatches ==
    ASSUME setup \in Setups, NEW r \in Rounds, Kind(r) = "gather",
           NEW i \in Nodes, NEW t \in Threads, NEW c \in Nat \ {0}
    PROVE  Matches(r, i, t, c)
<1>0. ~Tp1Skipped(r)
  BY KindFacts
<1>1. PICK B : B = setup.syncs[r].batchSize
  OBVIOUS
<1>2. /\ B \in Nat \ {0} /\ SyncType(r) \notin {"WITH_ROOT", "SP_KV"} /\ UsesBatch(r) /\ OnlyToRoot(r)
      /\ 0 \in Nodes /\ 0 \in Threads
  <2>1. B \in Nat \ {0}
    BY <1>1, SyncFacts
  <2>2. 0 \in Nodes /\ 0 \in Threads
    BY SetupFacts DEF Nodes, Threads
  <2>3. SyncType(r) \notin {"WITH_ROOT", "SP_KV"} /\ UsesBatch(r) /\ OnlyToRoot(r)
    BY KindFacts
  <2> QED
    BY <2>1, <2>2, <2>3
<1>3. CallsPerRow(r) = 1
  BY <1>2 DEF CallsPerRow
<1>4. ProgramLength(r, i, t) = IF t = 0 \/ i = 0 THEN B ELSE 0
  BY <1>0, <1>1, <1>2, <1>3 DEF ProgramLength, TakesPart
<1>5. Program(r, i, t, c) = SyncNodeSlicesBatched(r, i, t, c)
  BY <1>2, <1>3 DEF Program
<1>6. ASSUME NEW j \in Nodes
      PROVE  WAt(Link(r, i, j), t, c) <=> j = 0 /\ i # 0 /\ t = 0 /\ c <= B
  <2>1. /\ Link(r, i, j).n = (IF i # j /\ j = 0 THEN B ELSE 0) /\ Link(r, i, j).st = 1
        /\ Link(r, i, j).wb = 0 /\ Link(r, i, j).rb = 0 /\ Link(r, i, j).wt = 0
    BY <1>1 DEF Link, Count, Linked, Stride, WBase, RBase, WThread
  <2>2. WAt(Link(r, i, j), t, c) <=> t = Link(r, i, j).wt /\ c - Link(r, i, j).wb \in 1..Link(r, i, j).n
    BY <1>2, <2>1, AtStride1
  <2> QED
    BY <1>2, <2>1, <2>2
<1>7. ASSUME NEW j \in Nodes
      PROVE  RAt(Link(r, j, i), t, c) <=> i = 0 /\ j # 0 /\ t = PeerSocket(0, j) % nThreads /\ c <= B
  <2>1. /\ Link(r, j, i).n = (IF j # i /\ i = 0 THEN B ELSE 0) /\ Link(r, j, i).st = 1
        /\ Link(r, j, i).wb = 0 /\ Link(r, j, i).rb = 0
        /\ Link(r, j, i).rt = IF j # i THEN PeerSocket(i, j) % nThreads ELSE 0
    BY <1>1 DEF Link, Count, Linked, Stride, WBase, RBase, RThread
  <2>2. RAt(Link(r, j, i), t, c) <=> t = Link(r, j, i).rt /\ c - Link(r, j, i).rb \in 1..Link(r, j, i).n
    BY <1>2, <2>1, AtStride1
  <2> QED
    BY <1>2, <2>1, <2>2
<1>8. \A j : j \in PeersOf(0, t) <=> j \in Nodes /\ j # 0 /\ PeerSocket(0, j) % nThreads = t
  BY <1>2, PeersOfFacts
<1>9. CASE i = 0
  <2>1. Program(r, i, t, c).op = "read" /\ DOMAIN Program(r, i, t, c).io = PeersOf(0, t)
    BY <1>2, <1>5, <1>9 DEF SyncNodeSlicesBatched, ReadPiece, Call
  <2>2. \A j : j \in Peers(r, i, t, c) <=> c <= B /\ j \in PeersOf(0, t)
    BY <1>4, <1>9, <2>1 DEF Peers
  <2> QED
    BY <1>6, <1>7, <1>8, <1>9, <2>1, <2>2 DEF Matches
<1>10. CASE i # 0
  <2>1. Program(r, i, t, c).op = "write" /\ DOMAIN Program(r, i, t, c).io = {0}
    BY <1>2, <1>5, <1>10 DEF SyncNodeSlicesBatched, WritePiece, Call
  <2>2. \A j : j \in Peers(r, i, t, c) <=> t = 0 /\ c <= B /\ j = 0
    BY <1>2, <1>4, <1>10, <2>1 DEF Peers
  <2> QED
    BY <1>2, <1>6, <1>7, <1>10, <2>1, <2>2 DEF Matches
<1> QED
  BY <1>9, <1>10

\* The batched SYNC_NODE_SLICES.
LEMMA BatchMatches ==
    ASSUME setup \in Setups, NEW r \in Rounds, Kind(r) = "batch",
           NEW i \in Nodes, NEW t \in Threads, NEW c \in Nat \ {0}
    PROVE  Matches(r, i, t, c)
<1>0. ~Tp1Skipped(r)
  BY KindFacts
<1>1. PICK B : B = setup.syncs[r].batchSize
  OBVIOUS
<1>2. /\ B \in Nat \ {0} /\ SyncType(r) \notin {"WITH_ROOT", "SP_KV"} /\ UsesBatch(r) /\ ~OnlyToRoot(r)
  BY <1>1, SyncFacts, SetupFacts, KindFacts
<1>3. CallsPerRow(r) = 2
  BY <1>2 DEF CallsPerRow
<1>4. ProgramLength(r, i, t) = 2 * B
  BY <1>0, <1>1, <1>2, <1>3 DEF ProgramLength, TakesPart
<1>5. Program(r, i, t, c) = SyncNodeSlicesBatched(r, i, t, c)
  BY <1>2, <1>3 DEF Program
<1>6. ASSUME NEW j \in Nodes
      PROVE  WAt(Link(r, i, j), t, c) <=>
               j # i /\ t = PeerSocket(i, j) % nThreads /\ c <= 2 * B /\ c % 2 = 1
  <2>1. /\ Link(r, i, j).n = (IF i # j THEN B ELSE 0) /\ Link(r, i, j).st = 2
        /\ Link(r, i, j).wb = -1 /\ Link(r, i, j).rb = 0
        /\ Link(r, i, j).wt = IF i # j THEN PeerSocket(i, j) % nThreads ELSE 0
    BY <1>1 DEF Link, Count, Linked, Stride, WBase, RBase, WThread
  <2>2. WAt(Link(r, i, j), t, c) <=>
          t = Link(r, i, j).wt /\ c \in 1..(2 * Link(r, i, j).n) /\ c % 2 = 1
    BY <1>2, <2>1, AtStride2
  <2> QED
    BY <1>2, <2>1, <2>2
<1>7. ASSUME NEW j \in Nodes
      PROVE  RAt(Link(r, j, i), t, c) <=>
               j # i /\ t = PeerSocket(i, j) % nThreads /\ c <= 2 * B /\ c % 2 = 0
  <2>1. /\ Link(r, j, i).n = (IF i # j THEN B ELSE 0) /\ Link(r, j, i).st = 2
        /\ Link(r, j, i).wb = -1 /\ Link(r, j, i).rb = 0
        /\ Link(r, j, i).rt = IF i # j THEN PeerSocket(i, j) % nThreads ELSE 0
    BY <1>1 DEF Link, Count, Linked, Stride, WBase, RBase, RThread
  <2>2. RAt(Link(r, j, i), t, c) <=>
          t = Link(r, j, i).rt /\ c \in 1..(2 * Link(r, j, i).n) /\ c % 2 = 0
    BY <1>2, <2>1, AtStride2
  <2> QED
    BY <1>2, <2>1, <2>2
<1>8. \A j : j \in PeersOf(i, t) <=> j \in Nodes /\ j # i /\ PeerSocket(i, j) % nThreads = t
  BY PeersOfFacts
<1>9. \A j : j \in Peers(r, i, t, c) <=> c <= 2 * B /\ j \in PeersOf(i, t)
  <2>1. DOMAIN Program(r, i, t, c).io = PeersOf(i, t)
    BY <1>2, <1>5 DEF SyncNodeSlicesBatched, WritePiece, ReadPiece, Call
  <2> QED
    BY <1>4, <2>1 DEF Peers
<1>10. Program(r, i, t, c).op = IF c % 2 = 1 THEN "write" ELSE "read"
  BY <1>2, <1>5 DEF SyncNodeSlicesBatched, WritePiece, ReadPiece, Call
<1>11. c % 2 \in {0, 1}
  BY SMT
<1> QED
  BY <1>6, <1>7, <1>8, <1>9, <1>10, <1>11 DEF Matches

\* The star.
LEMMA ReduceMatches ==
    ASSUME setup \in Setups, NEW r \in Rounds, Kind(r) = "reduce",
           NEW i \in Nodes, NEW t \in Threads, NEW c \in Nat \ {0}
    PROVE  Matches(r, i, t, c)
<1>0. ~Tp1Skipped(r)
  BY KindFacts
<1>1. PICK B : B = setup.syncs[r].batchSize
  OBVIOUS
<1>2. /\ B \in Nat \ {0} /\ SyncType(r) \notin {"WITH_ROOT", "SP_KV"} /\ ~UsesBatch(r) /\ OnlyToRoot(r)
      /\ ~UsesRing(r) /\ 0 \in Threads
  BY <1>1, SyncFacts, SetupFacts, KindFacts DEF Threads
<1>3. CallsPerRow(r) = 1
  BY <1>2 DEF CallsPerRow
<1>4. ProgramLength(r, i, t) = IF t = 0 THEN B ELSE 0
  BY <1>0, <1>1, <1>2, <1>3 DEF ProgramLength, TakesPart
<1>5. Program(r, i, t, c) = StarAllReduce(i, 1, c - 1)
  <2>1. ((c - 1) % 1) + 1 = 1 /\ (c - 1) \div 1 = c - 1
    BY SMT
  <2> QED
    BY <1>2, <1>3, <2>1 DEF Program
<1>6. ASSUME NEW j \in Nodes
      PROVE  WAt(Link(r, i, j), t, c) <=> j = tpGroupStart(i) /\ i # j /\ t = 0 /\ c <= B
  <2>1. /\ Link(r, i, j).n = (IF i # j /\ j = tpGroupStart(i) THEN B ELSE 0) /\ Link(r, i, j).st = 1
        /\ Link(r, i, j).wb = 0 /\ Link(r, i, j).rb = 0 /\ Link(r, i, j).wt = 0
    BY <1>1 DEF Link, Count, Linked, Stride, WBase, RBase, WThread
  <2>2. WAt(Link(r, i, j), t, c) <=> t = Link(r, i, j).wt /\ c - Link(r, i, j).wb \in 1..Link(r, i, j).n
    BY <1>2, <2>1, AtStride1
  <2> QED
    BY <1>2, <2>1, <2>2
<1>7. ASSUME NEW j \in Nodes
      PROVE  RAt(Link(r, j, i), t, c) <=> i = tpGroupStart(j) /\ i # j /\ t = 0 /\ c <= B
  <2>1. /\ Link(r, j, i).n = (IF j # i /\ i = tpGroupStart(j) THEN B ELSE 0) /\ Link(r, j, i).st = 1
        /\ Link(r, j, i).wb = 0 /\ Link(r, j, i).rb = 0 /\ Link(r, j, i).rt = 0
    BY <1>1 DEF Link, Count, Linked, Stride, WBase, RBase, RThread
  <2>2. RAt(Link(r, j, i), t, c) <=> t = Link(r, j, i).rt /\ c - Link(r, j, i).rb \in 1..Link(r, j, i).n
    BY <1>2, <2>1, AtStride1
  <2> QED
    BY <1>2, <2>1, <2>2
<1>8. \A j : j \in Group(i) \ {i} /\ i = tpGroupStart(i) <=> j \in Nodes /\ i = tpGroupStart(j) /\ i # j
  BY RootOf
<1>9. \A j : j \in Peers(r, i, t, c) <=>
          t = 0 /\ c <= B /\ j \in (IF i = tpGroupStart(i) THEN Group(i) \ {i} ELSE {tpGroupStart(i)})
  <2>1. DOMAIN Program(r, i, t, c).io = IF i = tpGroupStart(i) THEN Group(i) \ {i} ELSE {tpGroupStart(i)}
    BY <1>5 DEF StarAllReduce, Call
  <2> QED
    BY <1>2, <1>4, <2>1 DEF Peers
<1>10. Program(r, i, t, c).op = IF i = tpGroupStart(i) THEN "read" ELSE "write"
  BY <1>5 DEF StarAllReduce, Call
<1>11. tpGroupStart(i) \in Nodes
  BY GroupFacts
<1> QED
  BY <1>6, <1>7, <1>8, <1>9, <1>10, <1>11, RootsRoot DEF Matches

\* The star with its two calls per row: the links to and from the root.
LEMMA StarMatches ==
    ASSUME setup \in Setups, NEW r \in Rounds, Kind(r) = "star",
           NEW i \in Nodes, NEW t \in Threads, NEW c \in Nat \ {0}
    PROVE  Matches(r, i, t, c)
<1>0. ~Tp1Skipped(r)
  BY KindFacts
<1>1. PICK B : B = setup.syncs[r].batchSize
  OBVIOUS
<1>2. /\ B \in Nat \ {0} /\ SyncType(r) \notin {"WITH_ROOT", "SP_KV"} /\ ~UsesBatch(r) /\ ~OnlyToRoot(r)
      /\ ~UsesRing(r) /\ 0 \in Threads
  <2>1. B \in Nat \ {0}
    BY <1>1, SyncFacts
  <2>2. 0 \in Threads
    BY SetupFacts DEF Threads
  <2>3. /\ SyncType(r) \notin {"WITH_ROOT", "SP_KV"} /\ ~UsesBatch(r) /\ ~OnlyToRoot(r)
        /\ ~UsesRing(r)
    BY KindFacts
  <2> QED
    BY <2>1, <2>2, <2>3
<1>3. CallsPerRow(r) = 2
  BY <1>2 DEF CallsPerRow
<1>4. ProgramLength(r, i, t) = IF t = 0 THEN 2 * B ELSE 0
  BY <1>0, <1>1, <1>2, <1>3 DEF ProgramLength, TakesPart
<1>5. Program(r, i, t, c) = StarAllReduce(i, ((c - 1) % 2) + 1, (c - 1) \div 2)
  BY <1>2, <1>3 DEF Program
<1>6. ASSUME NEW a \in Nodes, NEW b \in Nodes
      PROVE  /\ WAt(Link(r, a, b), t, c) <=>
                  /\ a # b /\ (b = tpGroupStart(a) \/ a = tpGroupStart(b)) /\ t = 0 /\ c <= 2 * B
                  /\ c % 2 = IF a = tpGroupStart(a) THEN 0 ELSE 1
             /\ RAt(Link(r, a, b), t, c) <=>
                  /\ a # b /\ (b = tpGroupStart(a) \/ a = tpGroupStart(b)) /\ t = 0 /\ c <= 2 * B
                  /\ c % 2 = IF a = tpGroupStart(a) THEN 0 ELSE 1
  <2>1. /\ Link(r, a, b).n = (IF a # b /\ (b = tpGroupStart(a) \/ a = tpGroupStart(b)) THEN B ELSE 0)
        /\ Link(r, a, b).st = 2
        /\ Link(r, a, b).wb = (IF a = tpGroupStart(a) THEN 0 ELSE -1)
        /\ Link(r, a, b).rb = (IF a = tpGroupStart(a) THEN 0 ELSE -1)
        /\ Link(r, a, b).wt = 0 /\ Link(r, a, b).rt = 0
    BY <1>1 DEF Link, Count, Linked, Stride, WBase, RBase, WThread, RThread
  <2>2. /\ WAt(Link(r, a, b), t, c) <=>
             /\ t = Link(r, a, b).wt /\ c \in 1..(2 * Link(r, a, b).n)
             /\ c % 2 = IF Link(r, a, b).wb = 0 THEN 0 ELSE 1
        /\ RAt(Link(r, a, b), t, c) <=>
             /\ t = Link(r, a, b).rt /\ c \in 1..(2 * Link(r, a, b).n)
             /\ c % 2 = IF Link(r, a, b).rb = 0 THEN 0 ELSE 1
    BY <1>2, <2>1, AtStride2
  <2> QED
    BY <1>2, <2>1, <2>2
<1>8. \A j : j \in Group(i) \ {i} /\ i = tpGroupStart(i) <=> j \in Nodes /\ i = tpGroupStart(j) /\ i # j
  BY RootOf
<1>9. \A j : j \in Peers(r, i, t, c) <=>
          t = 0 /\ c <= 2 * B /\ j \in (IF i = tpGroupStart(i) THEN Group(i) \ {i} ELSE {tpGroupStart(i)})
  <2>1. DOMAIN Program(r, i, t, c).io = IF i = tpGroupStart(i) THEN Group(i) \ {i} ELSE {tpGroupStart(i)}
    BY <1>5 DEF StarAllReduce, Call
  <2> QED
    BY <1>2, <1>4, <2>1 DEF Peers
<1>10. /\ c % 2 \in {0, 1}
       /\ Program(r, i, t, c).op = IF (i = tpGroupStart(i)) = (c % 2 = 1) THEN "read" ELSE "write"
  <2>1. c % 2 \in {0, 1} /\ (((c - 1) % 2) + 1 = 1 <=> c % 2 = 1)
    BY SMT
  <2> QED
    BY <1>5, <2>1 DEF StarAllReduce, Call
<1>11. tpGroupStart(i) \in Nodes
  BY GroupFacts
<1>12. CASE i = tpGroupStart(i)
  <2>1. \A j \in Nodes : WAt(Link(r, i, j), t, c) <=>
            i = tpGroupStart(j) /\ i # j /\ t = 0 /\ c <= 2 * B /\ c % 2 = 0
    BY <1>6, <1>12
  <2>2. \A j \in Nodes : RAt(Link(r, j, i), t, c) <=>
            i = tpGroupStart(j) /\ i # j /\ t = 0 /\ c <= 2 * B /\ c % 2 = 1
    BY <1>6, <1>12
  <2> QED
    BY <1>8, <1>9, <1>10, <1>12, <2>1, <2>2 DEF Matches
<1>13. CASE i # tpGroupStart(i)
  <2>0. \A j \in Nodes : i # tpGroupStart(j)
    BY <1>13, RootsRoot
  <2>1. \A j \in Nodes : WAt(Link(r, i, j), t, c) <=>
            j = tpGroupStart(i) /\ i # j /\ t = 0 /\ c <= 2 * B /\ c % 2 = 1
    BY <1>6, <1>13, <2>0
  <2>2. \A j \in Nodes : RAt(Link(r, j, i), t, c) <=>
            j = tpGroupStart(i) /\ i # j /\ t = 0 /\ c <= 2 * B /\ c % 2 = 0
    BY <1>6, <1>13, <2>0, RootsRoot
  <2> QED
    BY <1>9, <1>10, <1>11, <1>13, <2>1, <2>2 DEF Matches
<1> QED
  BY <1>12, <1>13

\* The ring: who a node sends to receives from it.
LEMMA RingFacts ==
    ASSUME setup \in Setups, NEW i \in Nodes, tpSize > 1
    PROVE  /\ RingNext(i) \in Group(i) /\ RingNext(i) # i
           /\ \A j \in Nodes : i = RingNext(j) <=>
                j = tpGroupStart(i) + (((i - tpGroupStart(i)) + tpSize - 1) % tpSize)
<1>1. PICK a, g : a = tpSize /\ g = tpGroupStart(i)
  OBVIOUS
<1>2. a \in Nat /\ a > 1 /\ g \in Nat /\ i \in g..(g + a - 1)
  BY <1>1, SetupFacts, GroupFacts
<1>3. \A x \in 0..(a - 1) : /\ (x + 1) % a = (IF x = a - 1 THEN 0 ELSE x + 1)
                            /\ (x + a - 1) % a = (IF x = 0 THEN a - 1 ELSE x - 1)
  <2> SUFFICES ASSUME NEW x \in 0..(a - 1)
               PROVE  /\ (x + 1) % a = (IF x = a - 1 THEN 0 ELSE x + 1)
                      /\ (x + a - 1) % a = (IF x = 0 THEN a - 1 ELSE x - 1)
    OBVIOUS
  <2>1. a % a = 0
    BY <1>2, SMT
  <2>2. \A y \in 0..(a - 1) : y % a = y
    BY <1>2, SMT
  <2>3. \A y \in 0..(a - 1) : (1 * a + y) % a = y
    BY <1>2, DivIs
  <2>4. x + 1 = (IF x = a - 1 THEN a ELSE x + 1)
    BY <1>2, SMT
  <2>5. x + a - 1 = IF x = 0 THEN a - 1 ELSE 1 * a + (x - 1)
    BY <1>2, SMT
  <2>6. x # a - 1 => x + 1 \in 0..(a - 1)
    BY <1>2, SMT
  <2>7. x # 0 => x - 1 \in 0..(a - 1)
    BY <1>2, SMT
  <2>8. a - 1 \in 0..(a - 1)
    BY <1>2, SMT
  <2> QED
    BY <2>1, <2>2, <2>3, <2>4, <2>5, <2>6, <2>7, <2>8, Zenon
<1>4. RingNext(i) = g + (IF i - g = a - 1 THEN 0 ELSE i - g + 1)
  <2>1. i - g \in 0..(a - 1)
    BY <1>2, SMT
  <2> QED
    BY <1>1, <1>3, <2>1 DEF RingNext
<1>5. RingNext(i) \in Group(i) /\ RingNext(i) # i
  BY <1>1, <1>2, <1>4 DEF Group
<1>6. PICK h : h = g + ((i - g + a - 1) % a)
  OBVIOUS
<1>7. h = g + (IF i - g = 0 THEN a - 1 ELSE i - g - 1)
  <2>1. i - g \in 0..(a - 1)
    BY <1>2, SMT
  <2> QED
    BY <1>3, <1>6, <2>1
<1>8. ASSUME NEW j \in Nodes PROVE i = RingNext(j) <=> j = h
  <2>1. PICK k : k = tpGroupStart(j)
    OBVIOUS
  <2>2. k \in Nat /\ j \in k..(k + a - 1)
    BY <1>1, <2>1, SetupFacts, GroupFacts
  <2>3. RingNext(j) = k + (IF j - k = a - 1 THEN 0 ELSE j - k + 1)
    <3>1. j - k \in 0..(a - 1)
      BY <1>2, <2>2, SMT
    <3> QED
      BY <1>1, <1>3, <2>1, <3>1 DEF RingNext
  <2>4. ASSUME i = RingNext(j) PROVE k = g
    <3>1. i \in k..(k + a - 1)
      BY <1>2, <2>2, <2>3, <2>4, SMT
    <3>2. i \in Group(j)
      BY <1>1, <2>1, <3>1 DEF Group
    <3> QED
      BY <1>1, <2>1, <3>2, GroupFacts
  <2>5. ASSUME j = h PROVE k = g
    <3>1. j \in g..(g + a - 1)
      BY <1>2, <1>7, <2>5, SMT
    <3>2. j \in Group(i)
      BY <1>1, <3>1 DEF Group
    <3> QED
      BY <1>1, <2>1, <3>2, GroupFacts
  <2>6. k = g => (i = RingNext(j) <=> j = h)
    BY <1>2, <1>7, <2>2, <2>3, SMT
  <2> QED
    BY <2>4, <2>5, <2>6
<1> QED
  BY <1>1, <1>5, <1>6, <1>8

\* The number of calls per row of the ring is even.
LEMMA EvenModulus ==
    ASSUME NEW c \in Nat \ {0}, NEW a \in Nat \ {0}
    PROVE  (((c - 1) % (4 * a)) + 1) % 2 = c % 2
<1>1. 4 * a \in Nat \ {0} /\ c - 1 \in Nat
  BY SMT
<1>2. PICK q \in Nat, m \in 0..((4 * a) - 1) :
         (c - 1) \div (4 * a) = q /\ (c - 1) % (4 * a) = m /\ c - 1 = q * (4 * a) + m
  BY <1>1, DivMod
<1>3. PICK z \in Nat : z = q * a
  BY <1>2, SMT
<1>4. q * (4 * a) = 4 * z
  BY <1>2, <1>3, SMT
<1>5. c = 4 * z + (m + 1) /\ m \in Nat
  BY <1>1, <1>2, <1>4, SMT
<1>6. (m + 1) % 2 = c % 2
  BY <1>5, SMT
<1> QED
  BY <1>2, <1>6

\* The ring: every other call is of the link to the next node.
LEMMA RingMatches ==
    ASSUME setup \in Setups, NEW r \in Rounds, Kind(r) = "ring",
           NEW i \in Nodes, NEW t \in Threads, NEW c \in Nat \ {0}
    PROVE  Matches(r, i, t, c)
<1>0. ~Tp1Skipped(r)
  BY KindFacts
<1>1. PICK B, a, n : B = setup.syncs[r].batchSize /\ a = tpSize - 1 /\ n = a * B
  OBVIOUS
<1>2. /\ B \in Nat \ {0} /\ SyncType(r) \notin {"WITH_ROOT", "SP_KV"} /\ ~UsesBatch(r) /\ ~OnlyToRoot(r)
      /\ UsesRing(r) /\ 0 \in Threads /\ tpSize \in Nat /\ tpSize > 1 /\ a \in Nat \ {0}
  <2>1. /\ SyncType(r) \notin {"WITH_ROOT", "SP_KV"} /\ ~UsesBatch(r) /\ ~OnlyToRoot(r) /\ UsesRing(r)
        /\ tpSize > 1
    BY KindFacts, SetupFacts
  <2>2. B \in Nat \ {0}
    BY <1>1, SyncFacts
  <2>3. 0 \in Threads /\ tpSize \in Nat
    BY SetupFacts DEF Threads
  <2>4. a \in Nat \ {0}
    BY <1>1, <2>1, <2>3, SMT
  <2> QED
    BY <2>1, <2>2, <2>3, <2>4
<1>3. CallsPerRow(r) = 4 * a
  BY <1>1, <1>2 DEF CallsPerRow
<1>4. n \in Nat /\ ProgramLength(r, i, t) = IF t = 0 THEN 4 * n ELSE 0
  <2>1. (4 * a) * B = 4 * (a * B) /\ a * B \in Nat
    BY <1>2, SMT
  <2> QED
    BY <1>0, <1>1, <1>2, <1>3, <2>1 DEF ProgramLength, TakesPart
<1>5. PICK k, row : k = ((c - 1) % (4 * a)) + 1 /\ row = (c - 1) \div (4 * a)
  OBVIOUS
<1>6. Program(r, i, t, c) = RingAllReduce(i, k, row)
  BY <1>2, <1>3, <1>5 DEF Program
<1>7. k % 2 = c % 2 /\ c % 2 \in {0, 1}
  <2>1. c % 2 \in {0, 1}
    BY SMT
  <2> QED
    BY <1>2, <1>5, <2>1, EvenModulus
<1>8. ASSUME NEW x \in Nodes, NEW y \in Nodes
      PROVE  /\ WAt(Link(r, x, y), t, c) <=>
                  /\ x # y /\ y = RingNext(x) /\ t = 0 /\ c <= 4 * n
                  /\ c % 2 = IF RingSendsFirst(x - tpGroupStart(x)) THEN 1 ELSE 0
             /\ RAt(Link(r, x, y), t, c) <=>
                  /\ x # y /\ y = RingNext(x) /\ t = 0 /\ c <= 4 * n
                  /\ c % 2 = IF RingSendsFirst(y - tpGroupStart(y)) THEN 0 ELSE 1
  <2>1. /\ Link(r, x, y).n = (IF x # y /\ y = RingNext(x) THEN 2 * n ELSE 0)
        /\ Link(r, x, y).st = 2
        /\ Link(r, x, y).wb = (IF RingSendsFirst(x - tpGroupStart(x)) THEN -1 ELSE 0)
        /\ Link(r, x, y).rb = (IF RingSendsFirst(y - tpGroupStart(y)) THEN 0 ELSE -1)
        /\ Link(r, x, y).wt = 0 /\ Link(r, x, y).rt = 0
    BY <1>1 DEF Link, Count, Linked, Stride, WBase, RBase, WThread, RThread
  <2>2. Link(r, x, y).n \in Nat /\ Link(r, x, y).wb \in {-1, 0} /\ Link(r, x, y).rb \in {-1, 0}
    BY <1>4, <2>1
  <2>3. /\ WAt(Link(r, x, y), t, c) <=>
             /\ t = Link(r, x, y).wt /\ c \in 1..(2 * Link(r, x, y).n)
             /\ c % 2 = IF Link(r, x, y).wb = 0 THEN 0 ELSE 1
        /\ RAt(Link(r, x, y), t, c) <=>
             /\ t = Link(r, x, y).rt /\ c \in 1..(2 * Link(r, x, y).n)
             /\ c % 2 = IF Link(r, x, y).rb = 0 THEN 0 ELSE 1
    BY <2>1, <2>2, AtStride2
  <2>4. c \in 1..(2 * Link(r, x, y).n) <=> x # y /\ y = RingNext(x) /\ c <= 4 * n
    BY <1>4, <2>1
  <2> QED
    BY <2>1, <2>3, <2>4
<1>9. PICK prev : prev = tpGroupStart(i) + (((i - tpGroupStart(i)) + tpSize - 1) % tpSize)
  OBVIOUS
<1>10. /\ DOMAIN Program(r, i, t, c).io =
            IF (c % 2 = 1) = RingSendsFirst(i - tpGroupStart(i)) THEN {RingNext(i)} ELSE {prev}
       /\ Program(r, i, t, c).op =
            IF (c % 2 = 1) = RingSendsFirst(i - tpGroupStart(i)) THEN "write" ELSE "read"
  BY <1>6, <1>7, <1>9 DEF RingAllReduce, RingNext, Call
<1>11. /\ RingNext(i) \in Nodes /\ RingNext(i) # i
       /\ \A j \in Nodes : i = RingNext(j) <=> j = prev
  BY <1>2, <1>9, RingFacts, GroupFacts
<1>12. prev \in Nodes /\ prev # i
  <2>1. PICK g, b : g = tpGroupStart(i) /\ b = tpSize
    OBVIOUS
  <2>2. b \in Nat \ {0} /\ g \in Nat /\ i - g + b - 1 \in Nat
    BY <1>2, <2>1, GroupFacts, SMT
  <2>3. (i - g + b - 1) % b \in 0..(b - 1)
    BY <2>2, DivMod
  <2>4. prev \in Group(i)
    BY <1>9, <2>1, <2>2, <2>3 DEF Group
  <2>5. prev \in Nodes
    BY <2>4, GroupFacts
  <2>6. i = RingNext(prev) /\ RingNext(prev) # prev
    BY <1>2, <1>11, <2>5, RingFacts
  <2> QED
    BY <2>5, <2>6
<1>13. \A j : j \in Peers(r, i, t, c) <=> t = 0 /\ c <= 4 * n /\ j \in DOMAIN Program(r, i, t, c).io
  BY <1>2, <1>4 DEF Peers
<1>14. RingSendsFirst(i - tpGroupStart(i)) \in BOOLEAN
  BY DEF RingSendsFirst
<1> QED
  BY <1>7, <1>8, <1>10, <1>11, <1>12, <1>13, <1>14 DEF Matches

\* The node of another rank: both name each other.
LEMMA SpPeerFacts ==
    ASSUME setup \in Setups, NEW i \in Nodes, NEW p \in SpRanks
    PROVE  /\ spRank(i) \in SpRanks /\ SpPeer(i, p) \in Nodes /\ spRank(SpPeer(i, p)) = p
           /\ SpPeer(SpPeer(i, p), spRank(i)) = i
           /\ p = spRank(i) => SpPeer(i, p) = i
<1>1. PICK a, b, n, j : a = tpSize /\ b = setup.spSize /\ n = setup.nNodes /\ j = SpPeer(i, p)
  OBVIOUS
<1>2. a \in Nat \ {0} /\ b \in Nat \ {0} /\ n \in Nat \ {0} /\ p \in 0..(b - 1)
  BY <1>1, SetupFacts DEF SpRanks
<1>3. PICK g \in Nat, q \in 0..(b - 1), o \in 0..(a - 1) :
             /\ i = (g * b + q) * a + o
             /\ tpGroupStart(i) = (g * b + q) * a
             /\ spGroupStart(i) = g * (b * a)
             /\ spRank(i) = q
             /\ (g + 1) * (b * a) <= n
  BY <1>1, NodeShape DEF SpRanks, Slices
<1>4. PICK z \in Nat : z = g * b + q
  BY <1>2, <1>3, SMT
<1>5. PICK y \in Nat : y = g * b + p
  BY <1>2, <1>3, SMT
<1>6. z * a \in Nat /\ y * a \in Nat /\ p * a \in Nat /\ q * a \in Nat /\ g * (b * a) \in Nat
  BY <1>2, <1>3, <1>4, <1>5, SMT
<1>7. z * a = g * (b * a) + q * a /\ y * a = g * (b * a) + p * a
  BY <1>2, <1>3, <1>4, <1>5, SMT
<1>8. i = z * a + o /\ tpGroupStart(i) = z * a
  BY <1>3, <1>4
<1>9. j = y * a + o
  <2>1. j = g * (b * a) + p * a + (i - z * a)
    BY <1>1, <1>3, <1>8 DEF SpPeer
  <2> QED
    BY <1>6, <1>7, <1>8, <2>1, SMT
<1>10. j \in Nodes
  <2>1. y + 1 <= (g + 1) * b /\ (g + 1) * b \in Nat
    BY <1>2, <1>3, <1>5, SMT
  <2>2. y * a + a <= ((g + 1) * b) * a
    BY <1>2, <2>1, MulMono
  <2>3. ((g + 1) * b) * a = (g + 1) * (b * a) /\ (g + 1) * (b * a) \in Nat
    BY <1>2, <1>3, SMT
  <2> QED
    BY <1>1, <1>2, <1>3, <1>6, <1>9, <2>2, <2>3 DEF Nodes
<1>11. PICK g2 \in Nat, q2 \in 0..(b - 1), o2 \in 0..(a - 1) :
             /\ j = (g2 * b + q2) * a + o2
             /\ tpGroupStart(j) = (g2 * b + q2) * a
             /\ spGroupStart(j) = g2 * (b * a)
             /\ spRank(j) = q2
  BY <1>1, <1>10, NodeShape DEF SpRanks, Slices
<1>12. PICK y2 \in Nat : y2 = g2 * b + q2
  BY <1>2, <1>11, SMT
<1>13. y2 = y /\ o2 = o
  <2>1. j \div a = y /\ j % a = o
    BY <1>2, <1>9, DivIs
  <2>2. j \div a = y2 /\ j % a = o2
    BY <1>2, <1>11, <1>12, DivIs
  <2> QED
    BY <2>1, <2>2
<1>14. g2 = g /\ q2 = p
  <2>1. y \div b = g /\ y % b = p
    BY <1>2, <1>5, DivIs
  <2>2. y \div b = g2 /\ y % b = q2
    BY <1>2, <1>12, <1>13, DivIs
  <2> QED
    BY <2>1, <2>2
<1>15. SpPeer(j, q) = i
  <2>1. SpPeer(j, q) = g * (b * a) + q * a + (j - y * a)
    BY <1>1, <1>11, <1>12, <1>13, <1>14 DEF SpPeer
  <2> QED
    BY <1>6, <1>7, <1>8, <1>9, <2>1, SMT
<1>16. p = q => j = i
  BY <1>4, <1>5, <1>8, <1>9
<1> QED
  BY <1>1, <1>3, <1>10, <1>11, <1>14, <1>15, <1>16 DEF SpRanks

\* SYNC_SP_KV.
LEMMA KvMatches ==
    ASSUME setup \in Setups, NEW r \in Rounds, Kind(r) = "kv",
           NEW i \in Nodes, NEW t \in Threads, NEW c \in Nat \ {0}
    PROVE  Matches(r, i, t, c)
<1> DEFINE Some(q) == ActiveRange(r, q).start < ActiveRange(r, q).end
<1>0. ~Tp1Skipped(r)
  BY KindFacts
<1>1. PICK b, q, p, h : b = setup.spSize /\ q = spRank(i) /\ p = (c - 1) \div 4 /\ h = (c - 1) % 4
  OBVIOUS
<1>2. b \in Nat \ {0} /\ p \in Nat /\ h \in 0..3 /\ c = 4 * p + h + 1
  BY <1>1, SetupFacts
<1>3. /\ SyncType(r) = "SP_KV" /\ 0 \in Threads /\ q \in 0..(b - 1)
      /\ \A j \in Nodes : spRank(j) \in 0..(b - 1)
  <2>1. \A j \in Nodes : spRank(j) \in SpRanks
    <3>1. 0 \in SpRanks
      BY SetupFacts DEF SpRanks
    <3> QED
      BY <3>1, SpPeerFacts
  <2> QED
    BY <1>1, <2>1, KindFacts, SetupFacts DEF SpRanks, Threads
<1>4. ProgramLength(r, i, t) = IF t = 0 /\ ~SpKvSkipped(r) THEN 4 * b ELSE 0
  BY <1>0, <1>1, <1>3 DEF ProgramLength, TakesPart, UsesBatch
<1>5. Program(r, i, t, c) = SyncSpKv(r, i, c)
  BY <1>3 DEF Program, UsesBatch
<1>6. PICK sends \in BOOLEAN : sends <=> ((h < 2) = (q < p))
  OBVIOUS
<1>7. /\ Program(r, i, t, c).op = IF sends THEN "write" ELSE "read"
      /\ DOMAIN Program(r, i, t, c).io =
            IF p # q /\ Some(IF sends THEN q ELSE p) THEN {SpPeer(i, p)} ELSE {}
  BY <1>1, <1>5, <1>6 DEF SyncSpKv, Call
<1>8. c <= 4 * b <=> p \in SpRanks
  BY <1>1, <1>2 DEF SpRanks
<1>9. \A j : j \in Peers(r, i, t, c) <=>
        /\ t = 0 /\ ~SpKvSkipped(r) /\ p \in SpRanks /\ p # q
        /\ Some(IF sends THEN q ELSE p) /\ j = SpPeer(i, p)
  <2>1. c <= ProgramLength(r, i, t) <=> t = 0 /\ ~SpKvSkipped(r) /\ p \in SpRanks
    BY <1>2, <1>3, <1>4, <1>8
  <2> HIDE DEF Some
  <2> QED
    BY <1>7, <2>1 DEF Peers
<1>10. ASSUME NEW j \in Nodes
       PROVE  WAt(Link(r, i, j), t, c) <=> t = 0 /\ Linked(r, i, j) /\ p = spRank(j) /\ sends
  <2>1. PICK x : x = spRank(j)
    OBVIOUS
  <2>2. x \in 0..(b - 1)
    BY <1>3, <2>1
  <2>3. /\ Link(r, i, j).n = (IF Linked(r, i, j) THEN 2 ELSE 0) /\ Link(r, i, j).st = 1
        /\ Link(r, i, j).wb = 4 * x + (IF q < x THEN 0 ELSE 2)
        /\ Link(r, i, j).rb = 4 * q + (IF x < q THEN 2 ELSE 0) /\ Link(r, i, j).wt = 0
    BY <1>1, <2>1 DEF Link, Count, Stride, WBase, RBase, WThread
  <2>4. Link(r, i, j).wb \in Int /\ Link(r, i, j).rb \in Int /\ Link(r, i, j).n \in Nat
    BY <1>2, <1>3, <2>2, <2>3
  <2>5. WAt(Link(r, i, j), t, c) <=> t = Link(r, i, j).wt /\ c - Link(r, i, j).wb \in 1..Link(r, i, j).n
    BY <2>3, <2>4, AtStride1
  <2>6. c - (4 * x + (IF q < x THEN 0 ELSE 2)) \in 1..2 <=> p = x /\ sends
    BY <1>2, <1>3, <1>6, <2>2, SMT
  <2> QED
    BY <2>1, <2>3, <2>5, <2>6
<1>11. ASSUME NEW j \in Nodes
       PROVE  RAt(Link(r, j, i), t, c) <=> t = 0 /\ Linked(r, j, i) /\ p = spRank(j) /\ ~sends
  <2>1. PICK x : x = spRank(j)
    OBVIOUS
  <2>2. x \in 0..(b - 1)
    BY <1>3, <2>1
  <2>3. /\ Link(r, j, i).n = (IF Linked(r, j, i) THEN 2 ELSE 0) /\ Link(r, j, i).st = 1
        /\ Link(r, j, i).wb = 4 * q + (IF x < q THEN 0 ELSE 2)
        /\ Link(r, j, i).rb = 4 * x + (IF q < x THEN 2 ELSE 0) /\ Link(r, j, i).rt = 0
    BY <1>1, <2>1 DEF Link, Count, Stride, WBase, RBase, RThread
  <2>4. Link(r, j, i).wb \in Int /\ Link(r, j, i).rb \in Int /\ Link(r, j, i).n \in Nat
    BY <1>2, <1>3, <2>2, <2>3
  <2>5. RAt(Link(r, j, i), t, c) <=> t = Link(r, j, i).rt /\ c - Link(r, j, i).rb \in 1..Link(r, j, i).n
    BY <2>3, <2>4, AtStride1
  <2>6. Linked(r, j, i) => x # q
    <3>1. Linked(r, j, i) => i # j /\ i = SpPeer(j, q)
      BY <1>1 DEF Linked
    <3> QED
      BY <1>1, <1>3, <2>1, <3>1, SpPeerFacts DEF SpRanks
  <2>7. x # q => (c - (4 * x + (IF q < x THEN 2 ELSE 0)) \in 1..2 <=> p = x /\ ~sends)
    BY <1>2, <1>3, <1>6, <2>2, SMT
  <2> QED
    BY <2>1, <2>3, <2>5, <2>6, <2>7
<1>12. ASSUME NEW j \in Nodes
       PROVE  /\ Linked(r, i, j) <=> i # j /\ ~SpKvSkipped(r) /\ j = SpPeer(i, spRank(j)) /\ Some(q)
              /\ Linked(r, j, i) <=> i # j /\ ~SpKvSkipped(r) /\ j = SpPeer(i, spRank(j)) /\ Some(spRank(j))
  <2>1. i = SpPeer(j, spRank(i)) <=> j = SpPeer(i, spRank(j))
    BY <1>1, <1>3, SpPeerFacts DEF SpRanks
  <2> QED
    BY <1>1, <2>1 DEF Linked
<1>13. p \in SpRanks => /\ SpPeer(i, p) \in Nodes /\ spRank(SpPeer(i, p)) = p
                        /\ (p # q <=> SpPeer(i, p) # i)
  BY <1>1, SpPeerFacts
<1>14. \A j \in Nodes : spRank(j) \in SpRanks
  BY <1>1, <1>3 DEF SpRanks
<1> HIDE DEF Some
<1>15. ASSUME NEW j
       PROVE  j \in Peers(r, i, t, c) <=>
                /\ j \in Nodes
                /\ WAt(Link(r, i, j), t, c) \/ RAt(Link(r, j, i), t, c)
  <2>1. CASE sends
    BY <1>9, <1>10, <1>11, <1>12, <1>13, <1>14, <2>1
  <2>2. CASE ~sends
    BY <1>9, <1>10, <1>11, <1>12, <1>13, <1>14, <2>2
  <2> QED
    BY <2>1, <2>2
<1> QED
  BY <1>7, <1>10, <1>11, <1>15 DEF Matches

\* A sync step that is left out.
LEMMA IdleMatches ==
    ASSUME setup \in Setups, NEW r \in Rounds, Kind(r) = "idle",
           NEW i \in Nodes, NEW t \in Threads, NEW c \in Nat \ {0}
    PROVE  Matches(r, i, t, c)
<1>1. ProgramLength(r, i, t) = 0
  BY KindFacts DEF ProgramLength
<1>2. Peers(r, i, t, c) = {}
  BY <1>1 DEF Peers
<1>3. ASSUME NEW a, NEW b PROVE Link(r, a, b).n = 0
  BY DEF Link, Count, Linked
<1>4. ASSUME NEW a, NEW b PROVE ~WAt(Link(r, a, b), t, c) /\ ~RAt(Link(r, a, b), t, c)
  BY <1>3 DEF WAt, RAt
<1> QED
  BY <1>2, <1>4 DEF Matches

\* All algorithms make the calls of their links and no others.
LEMMA ProgramMatches ==
    ASSUME setup \in Setups, NEW r \in Rounds,
           NEW i \in Nodes, NEW t \in Threads, NEW c \in Nat \ {0}
    PROVE  Matches(r, i, t, c)
<1>1. Kind(r) \in {"idle", "kv", "root", "gather", "batch", "reduce", "ring", "star"}
  BY KindFacts
<1> QED
  BY <1>1, IdleMatches, RootMatches, GatherMatches, BatchMatches, ReduceMatches, RingMatches, StarMatches, KvMatches

\* What kind of numbers describe a link.
LinkOK(k) ==
    /\ k.n \in Nat /\ k.wt \in Threads /\ k.rt \in Threads /\ k.st \in {1, 2}
    /\ k.wb \in Int /\ k.rb \in Int
    /\ k.st = 1 => k.wb >= 0 /\ k.rb >= 0
    /\ k.st = 2 => k.wb >= -1 /\ k.rb >= -1

\* Every link has them.
LEMMA LinkTypes ==
    ASSUME setup \in Setups, NEW r \in Rounds, NEW i \in Nodes, NEW j \in Nodes
    PROVE  LinkOK(Link(r, i, j))
<1>1. PICK k : k = Link(r, i, j)
  OBVIOUS
<1>2. /\ setup.syncs[r].batchSize \in Nat /\ tpSize \in Nat \ {0} /\ 0 \in Threads
      /\ Kind(r) \in {"idle", "kv", "root", "gather", "batch", "reduce", "ring", "star"}
  BY SyncFacts, SetupFacts, KindFacts DEF Threads
<1>3. k.n \in Nat
  <2>1. \A a \in Nat \ {0}, b \in Nat : 2 * ((a - 1) * b) \in Nat
    BY SMT
  <2> QED
    BY <1>1, <1>2, <2>1 DEF Link, Count
<1>4. k.wt \in Threads /\ k.rt \in Threads
  <2>1. i # j => PeerSocket(i, j) % nThreads \in Threads /\ PeerSocket(j, i) % nThreads \in Threads
    BY <1>2, PeersOfFacts
  <2> QED
    BY <1>1, <1>2, <2>1 DEF Link, WThread, RThread
<1>5. CASE Kind(r) = "kv"
  <2>1. PICK x, y : x = spRank(i) /\ y = spRank(j)
    OBVIOUS
  <2>2. x \in Nat /\ y \in Nat
    <3>1. 0 \in SpRanks /\ setup.spSize \in Nat
      BY SetupFacts DEF SpRanks
    <3> QED
      BY <2>1, <3>1, SpPeerFacts DEF SpRanks
  <2>3. /\ k.st = 1 /\ k.wb = 4 * y + (IF x < y THEN 0 ELSE 2)
        /\ k.rb = 4 * x + (IF y < x THEN 2 ELSE 0)
    BY <1>1, <1>5, <2>1 DEF Link, Stride, WBase, RBase
  <2>4. k.wb \in Int /\ k.rb \in Int /\ k.wb >= 0 /\ k.rb >= 0
    BY <2>2, <2>3
  <2> QED
    BY <1>1, <1>3, <1>4, <2>3, <2>4 DEF LinkOK
<1>6. CASE Kind(r) \in {"idle", "root", "gather", "reduce"}
  <2>1. k.st = 1 /\ k.wb = 0 /\ k.rb = 0
    BY <1>1, <1>6 DEF Link, Stride, WBase, RBase
  <2> QED
    BY <1>1, <1>3, <1>4, <2>1 DEF LinkOK
<1>7. CASE Kind(r) \in {"batch", "ring", "star"}
  <2>1. k.st = 2 /\ k.wb \in {-1, 0} /\ k.rb \in {-1, 0}
    BY <1>1, <1>7 DEF Link, Stride, WBase, RBase
  <2> QED
    BY <1>1, <1>3, <1>4, <2>1 DEF LinkOK
<1> QED
  BY <1>2, <1>5, <1>6, <1>7

\* Calls are counted from one.
LEMMA AtPositive ==
    ASSUME NEW k, LinkOK(k), NEW m \in 1..k.n
    PROVE  k.wb + k.st * m \in Nat \ {0} /\ k.rb + k.st * m \in Nat \ {0}
<1>1. k.n \in Nat /\ k.wb \in Int /\ k.rb \in Int /\ m \in Nat /\ m >= 1
  BY DEF LinkOK
<1>2. CASE k.st = 1
  BY <1>1, <1>2 DEF LinkOK
<1>3. CASE k.st = 2
  BY <1>1, <1>3 DEF LinkOK
<1> QED
  BY <1>2, <1>3 DEF LinkOK

\* So is the length of a program.
LEMMA LengthType ==
    ASSUME setup \in Setups, NEW r \in Rounds, NEW i, NEW t
    PROVE  ProgramLength(r, i, t) \in Nat
<1>1. /\ setup.syncs[r].batchSize \in Nat /\ tpSize \in Nat \ {0} /\ setup.spSize \in Nat
  BY SyncFacts, SetupFacts
<1>2. CallsPerRow(r) \in Nat
  BY <1>1 DEF CallsPerRow
<1>3. \A a \in Nat, b \in Nat : a * b \in Nat
  BY SMT
<1> QED
  BY <1>1, <1>2, <1>3 DEF ProgramLength

\* All transfers of a link are calls of its threads.
LEMMA AtInProgram ==
    ASSUME setup \in Setups, NEW r \in Rounds, NEW i \in Nodes, NEW j \in Nodes,
           NEW k, k = Link(r, i, j), NEW m \in 1..k.n
    PROVE  /\ k.wb + k.st * m <= ProgramLength(r, i, k.wt)
           /\ k.rb + k.st * m <= ProgramLength(r, j, k.rt)
<1>1. LinkOK(k)
  BY LinkTypes
<1>2. k.wb + k.st * m \in Nat \ {0} /\ k.rb + k.st * m \in Nat \ {0}
  BY <1>1, AtPositive
<1>3. k.wt \in Threads /\ k.rt \in Threads
  BY <1>1 DEF LinkOK
<1>4. WAt(k, k.wt, k.wb + k.st * m) /\ RAt(k, k.rt, k.rb + k.st * m)
  BY Zenon DEF WAt, RAt
<1>5. Matches(r, i, k.wt, k.wb + k.st * m) /\ Matches(r, j, k.rt, k.rb + k.st * m)
  BY <1>2, <1>3, ProgramMatches
<1>6. j \in Peers(r, i, k.wt, k.wb + k.st * m) /\ i \in Peers(r, j, k.rt, k.rb + k.st * m)
  BY <1>4, <1>5, Zenon DEF Matches
<1> QED
  BY <1>6 DEF Peers

\* The next call with a socket to serve, if any, and nothing is passed over.
LEMMA NextCallFacts ==
    ASSUME setup \in Setups, NEW r \in Rounds, NEW i \in Nodes, NEW t \in Threads,
           NEW c \in Nat \ {0}, c <= ProgramLength(r, i, t) + 1,
           NEW n, n = NextCall(r, i, t, c)
    PROVE  /\ n \in Nat \ {0} /\ n >= c /\ n <= ProgramLength(r, i, t) + 1
           /\ n <= ProgramLength(r, i, t) => Peers(r, i, t, n) # {}
           /\ \A k \in c..(n - 1) : Peers(r, i, t, k) = {}
<1> DEFINE L == ProgramLength(r, i, t)
           S == {x \in c..(L + 1) : x <= L => Peers(r, i, t, x) # {}}
<1>1. L \in Nat
  BY LengthType
<1> HIDE DEF L
<1>2. L + 1 \in S /\ S \in SUBSET Nat
  BY <1>1 DEF L
<1>3. PICK x \in S : \A y \in S : x <= y
  <2> HIDE DEF S
  <2> QED
    BY <1>2, NatLeast
<1>4. \A k \in c..(x - 1) : Peers(r, i, t, k) = {}
  <2> SUFFICES ASSUME NEW k \in c..(x - 1), Peers(r, i, t, k) # {} PROVE FALSE
    OBVIOUS
  <2>1. x \in Nat /\ x <= L + 1
    BY <1>1, <1>3
  <2>2. k \in c..(L + 1) /\ ~(x <= k)
    BY <1>1, <2>1
  <2>3. k \in S
    BY <2>2
  <2> QED
    BY <1>3, <2>2, <2>3
<1>5. /\ n \in c..(L + 1)
      /\ n <= L => Peers(r, i, t, n) # {}
      /\ \A k \in c..(n - 1) : Peers(r, i, t, k) = {}
  <2>1. \E y \in c..(L + 1) :
            /\ y <= L => Peers(r, i, t, y) # {}
            /\ \A k \in c..(y - 1) : Peers(r, i, t, k) = {}
    BY <1>3, <1>4
  <2>2. n = CHOOSE y \in c..(L + 1) :
            /\ y <= L => Peers(r, i, t, y) # {}
            /\ \A k \in c..(y - 1) : Peers(r, i, t, k) = {}
    BY DEF NextCall, L
  <2> QED
    BY <2>1, <2>2, Zenon
<1> QED
  BY <1>1, <1>5 DEF L

-----------------------------------------------------------------------------
(* The invariant.                                                          *)

\* What a link looks like from both ends: the calls of its transfers.
Ends(k) ==
    [n |-> k.n, wt |-> k.wt, rt |-> k.rt,
     w |-> [m \in 1..k.n |-> k.wb + k.st * m], r |-> [m \in 1..k.n |-> k.rb + k.st * m]]

\* All that follows from the setup and never changes.
Table ==
    [link |-> [q \in Rounds \X Nodes \X Nodes |-> Ends(Link(q[1], q[2], q[3]))],
     kind |-> [r \in Rounds |-> Kind(r)],
     root |-> [i \in Nodes |-> tpGroupStart(i)],
     rank |-> [i \in Nodes |-> spRank(i)],
     peer |-> [q \in Nodes \X SpRanks |-> SpPeer(q[1], q[2])],
     range |-> [q \in Rounds \X SpRanks |-> ActiveRange(q[1], q[2])],
     s |-> setup]

\* The peers of a call.
PeersT(T, r, i, t, c) ==
    {j \in 0..(T.s.nNodes - 1) :
        \/ t = T.link[<<r, i, j>>].wt /\ \E m \in 1..T.link[<<r, i, j>>].n : T.link[<<r, i, j>>].w[m] = c
        \/ t = T.link[<<r, j, i>>].rt /\ \E m \in 1..T.link[<<r, j, i>>].n : T.link[<<r, j, i>>].r[m] = c}

\* One end of a link: x of its n transfers, in the calls f[1], f[2] and so on, are
\* done by a thread in call c that has still to serve D, the other end being j.
EndOK(n, f, x, c, j, D) ==
    /\ x \in 0..n
    /\ \A m \in 1..n : (m <= x) <=> (f[m] < c \/ (f[m] = c /\ j \notin D))

\* The contribution of one node, and the sum of those of several.
One(n, r) == SetToBag({<<n, r>>})
SumOf(S, r) == SetToBag({<<n, r>> : n \in S})
\* The TP group of node i, by the table.
GroupT(T, i) == T.root[i]..(T.root[i] + T.s.tpSize - 1)

\* Sync step r computes the row of position p.
Covers(s, r, p) == s.syncs[r].type = "SP_KV" /\ p \in PositionsOf(s.syncs[r])

\* v is the last sync step up to r that had position p, or 0.
IsLatest(s, v, r, p) ==
    /\ v \in 0..r
    /\ v # 0 => Covers(s, v, p)
    /\ \A k \in (v + 1)..r : ~Covers(s, k, p)

\* Transfer m from i to j in sync step r.
Msg(T, r, i, j, m, data) ==
    /\ T.kind[r] = "root" => data = [k \in 1..T.s.tpSize |-> One(0, r)]
    /\ T.kind[r] \in {"gather", "batch"} => data = <<One(i, r)>>
    /\ T.kind[r] \in {"reduce", "star"} =>
         data = [k \in 1..T.s.tpSize |-> IF j = T.root[i] THEN One(i, r) ELSE SumOf(GroupT(T, i), r)]
    /\ T.kind[r] = "kv" =>
         LET range == T.range[<<r, T.rank[i]>>]
         IN  \A k \in 1..(range.end - range.start) : IsLatest(T.s, data[k], r, range.start + k - 1)

\* How many transfers come before those of a sync step.
StartOK(st, cnt, R) ==
    /\ st \in [1..(R + 1) -> Nat]
    /\ \A r \in 1..R : st[r + 1] = st[r] + cnt[r]
    /\ \A a, b \in 1..(R + 1) : a < b => st[a] + cnt[a] <= st[b]

\* A sequence, of whatever.
IsSeq(q) == \E S : q \in Seq(S)

\* On the wire is what the writer, w transfers into step ri, has written and the
\* reader, d transfers into step rj, has not read.
FlightOK(T, i, j, st, cnt, R, ri, w, rj, d, q) ==
    /\ Len(q) = (st[ri] + w) - (st[rj] + d)
    /\ \A k \in 1..Len(q), r \in 1..R : \A m \in 1..cnt[r] :
          st[r] + m = st[rj] + d + k => Msg(T, r, i, j, m, q[k])

\* The transfers of a link, sync step by sync step.
CountsT(T, l) == [r \in 1..Len(T.s.syncs) |-> T.link[<<r, l[1], l[2]>>].n]

\* The pipe of node i in step r.
BufOK(T, i, r, d, b) ==
    /\ b = [c \in (0..(T.s.tpSize - 1)) \X (0..(T.s.syncs[r].batchSize - 1)) |-> b[c]]
    /\ \A s \in 0..(T.s.tpSize - 1), y \in 0..(T.s.syncs[r].batchSize - 1) :
         /\ T.kind[r] = "idle" => b[<<s, y>>] = One(i, r)
         /\ T.kind[r] = "root" => (i = 0 \/ y < d[<<0, i>>] => b[<<s, y>>] = One(0, r))
         /\ T.kind[r] \in {"gather", "batch"} =>
              (s = i \/ y < d[<<s, i>>] => b[<<s, y>>] = One(s, r))
         /\ T.kind[r] \in {"reduce", "star"} =>
              b[<<s, y>>] =
                IF i = T.root[i] THEN SumOf({i} \cup {j \in GroupT(T, i) : y < d[<<j, i>>]}, r)
                ELSE IF y < d[<<T.root[i], i>>] THEN SumOf(GroupT(T, i), r) ELSE One(i, r)

\* Position p is in a range.
InRange(range, p) == range.start <= p /\ p < range.end
\* K is a rank's first transfer, V its second.
Half(x) == IF x = "k" THEN 1 ELSE 2
\* The row of position p has come from rank q, or is in the node's own range.
Got(T, i, r, d, x, p, q) ==
    InRange(T.range[<<r, q>>], p) /\ (q = T.rank[i] \/ d[<<T.peer[<<i, q>>], i>>] >= Half(x))

\* Rows of node i's cache that have to be the latest in step r.
Fresh(T, i, r, d, x, p) ==
    IF T.s.cpSplit
      THEN \/ ~Covers(T.s, r, p)
           \/ T.s.syncs[r].batchSize < T.s.spSize
           \/ \E q \in 0..(T.s.spSize - 1) : Got(T, i, r, d, x, p, q)
      ELSE \/ T.rank[i] * T.s.localSeqLen <= p /\ p < (T.rank[i] + 1) * T.s.localSeqLen
           \/ T.kind[r] = "kv" /\ \E q \in 0..(T.s.spSize - 1) : q # T.rank[i] /\ Got(T, i, r, d, x, p, q)

\* The positions, by the table.
PositionsT(T) == 0..(T.s.spSize * T.s.localSeqLen - 1)

\* The cache of node i in step r.
KvOK(T, i, r, d, cache) ==
    /\ cache = [c \in {"k", "v"} \X PositionsT(T) |-> cache[c]]
    /\ \A x \in {"k", "v"}, p \in PositionsT(T) :
         Fresh(T, i, r, d, x, p) => IsLatest(T.s, cache[<<x, p>>], r, p)

\* The types of the variables.
Types ==
    /\ setup \in Setups /\ round \in [Nodes -> Rounds]
    /\ ip \in [Procs -> Nat \ {0}] /\ todo \in [Procs -> SUBSET Nodes]
    /\ chan = [l \in Nodes \X Nodes |-> chan[l]] /\ \A l \in Nodes \X Nodes : IsSeq(chan[l])
    /\ buf = [i \in Nodes |-> buf[i]] /\ kv = [i \in Nodes |-> kv[i]]

\* A thread serves peers of the call it is in.
Threaded(T) ==
    \A i \in Nodes, t \in Threads :
        todo[<<i, t>>] \subseteq PeersT(T, round[i], i, t, ip[<<i, t>>])

\* The counts agree with the threads that write, and with those that read.
Writing(T, w) ==
    \A i, j \in Nodes :
        EndOK(T.link[<<round[i], i, j>>].n, T.link[<<round[i], i, j>>].w, w[<<i, j>>],
              ip[<<i, T.link[<<round[i], i, j>>].wt>>], j, todo[<<i, T.link[<<round[i], i, j>>].wt>>])

Reading(T, d) ==
    \A i, j \in Nodes :
        EndOK(T.link[<<round[j], i, j>>].n, T.link[<<round[j], i, j>>].r, d[<<i, j>>],
              ip[<<j, T.link[<<round[j], i, j>>].rt>>], i, todo[<<j, T.link[<<round[j], i, j>>].rt>>])

\* The sockets, the pipes and the caches.
Flying(T, S, w, d) ==
    \A i, j \in Nodes :
        FlightOK(T, i, j, S[<<i, j>>], CountsT(T, <<i, j>>), MaxRounds,
                 round[i], w[<<i, j>>], round[j], d[<<i, j>>], chan[<<i, j>>])

Buffers(T, d) == \A i \in Nodes : BufOK(T, i, round[i], d, buf[i])
Caches(T, d) == \A i \in Nodes : KvOK(T, i, round[i], d, kv[i])

\* The inductive invariant, with the counts it speaks of.
Story(T, S, w, d) ==
    /\ T = Table /\ Types
    /\ w \in [Nodes \X Nodes -> Nat] /\ d \in [Nodes \X Nodes -> Nat]
    /\ \A l \in Nodes \X Nodes : StartOK(S[l], CountsT(T, l), MaxRounds)
    /\ Threaded(T) /\ Writing(T, w) /\ Reading(T, d)
    /\ Flying(T, S, w, d) /\ Buffers(T, d) /\ Caches(T, d)

\* There are such counts.
Inv == \E T, S, w, d : Story(T, S, w, d)

-----------------------------------------------------------------------------
(* One link.                                                               *)

\* What appending and taking away do to a socket.
LEMMA AppendFacts ==
    ASSUME NEW q, IsSeq(q), NEW x
    PROVE  /\ IsSeq(Append(q, x)) /\ Len(q) \in Nat /\ Len(Append(q, x)) = Len(q) + 1
           /\ \A k \in 1..Len(q) : Append(q, x)[k] = q[k]
           /\ Append(q, x)[Len(q) + 1] = x
<1>1. PICK S : q \in Seq(S)
  BY DEF IsSeq
<1>2. q \in Seq(S \cup {x}) /\ x \in S \cup {x}
  BY <1>1
<1>3. Append(q, x) \in Seq(S \cup {x})
  BY <1>2
<1> QED
  BY <1>2, <1>3 DEF IsSeq

\* The rest of a socket.
LEMMA TailFacts ==
    ASSUME NEW q, IsSeq(q), q # <<>>
    PROVE  /\ IsSeq(Tail(q)) /\ Len(q) \in Nat \ {0} /\ Len(Tail(q)) = Len(q) - 1
           /\ \A k \in 1..Len(Tail(q)) : Tail(q)[k] = q[k + 1]
           /\ Head(q) = q[1]
<1>1. PICK S : q \in Seq(S)
  BY DEF IsSeq
<1>2. Tail(q) \in Seq(S)
  BY <1>1
<1> QED
  BY <1>1, <1>2 DEF IsSeq

\* The starts exist.
LEMMA StartExists ==
    ASSUME NEW R \in Nat, NEW cnt \in [1..R -> Nat]
    PROVE  \E st : StartOK(st, cnt, R) /\ st[1] = 0
<1> DEFINE P(K) == \E st : StartOK(st, cnt, K) /\ st[1] = 0
           Bad == {K \in 0..R : ~P(K)}
<1>1. P(0)
  <2> DEFINE st == [r \in 1..1 |-> 0]
  <2>1. StartOK(st, cnt, 0) /\ st[1] = 0
    BY DEF StartOK
  <2> QED
    BY <2>1
<1>2. ASSUME NEW K \in 0..(R - 1), P(K) PROVE P(K + 1)
  <2>1. PICK st : StartOK(st, cnt, K) /\ st[1] = 0
    BY <1>2
  <2> DEFINE next == [r \in 1..(K + 2) |-> IF r = K + 2 THEN st[K + 1] + cnt[K + 1] ELSE st[r]]
  <2>2. st \in [1..(K + 1) -> Nat] /\ cnt[K + 1] \in Nat /\ K \in Nat
    BY <2>1 DEF StartOK
  <2>3. next \in [1..((K + 1) + 1) -> Nat] /\ next[1] = 0
    BY <2>1, <2>2
  <2>4. \A r \in 1..(K + 1) : next[r + 1] = next[r] + cnt[r]
    <3> SUFFICES ASSUME NEW r \in 1..(K + 1) PROVE next[r + 1] = next[r] + cnt[r]
      OBVIOUS
    <3>1. CASE r = K + 1
      BY <2>2, <3>1
    <3>2. CASE r # K + 1
      <4>1. r \in 1..K /\ r + 1 \in 1..(K + 2) /\ r + 1 # K + 2 /\ r \in 1..(K + 2) /\ r # K + 2
        BY <2>2, <3>2
      <4>2. st[r + 1] = st[r] + cnt[r]
        BY <2>1, <4>1 DEF StartOK
      <4> QED
        BY <4>1, <4>2
    <3> QED
      BY <3>1, <3>2
  <2>5. \A a, b \in 1..(K + 2) : a < b => next[a] + cnt[a] <= next[b]
    <3> SUFFICES ASSUME NEW a \in 1..(K + 2), NEW b \in 1..(K + 2), a < b
                 PROVE  next[a] + cnt[a] <= next[b]
      OBVIOUS
    <3>0. a \in 1..(K + 1) /\ next[a] = st[a] /\ st[a] \in Nat /\ cnt[a] \in Nat
      BY <2>2
    <3>1. CASE b # K + 2
      <4>1. b \in 1..(K + 1) /\ next[b] = st[b]
        BY <2>2, <3>1
      <4> QED
        BY <2>1, <3>0, <4>1 DEF StartOK
    <3>2. CASE b = K + 2 /\ a = K + 1
      BY <2>2, <3>0, <3>2
    <3>3. CASE b = K + 2 /\ a # K + 1
      <4>1. a \in 1..(K + 1) /\ K + 1 \in 1..(K + 1) /\ a < K + 1
        BY <2>2, <3>3
      <4>2. st[a] + cnt[a] <= st[K + 1]
        BY <2>1, <4>1 DEF StartOK
      <4>3. next[b] = st[K + 1] + cnt[K + 1] /\ st[K + 1] \in Nat
        BY <2>2, <3>3, <4>1
      <4> QED
        BY <2>2, <3>0, <4>2, <4>3, SMT
    <3> QED
      BY <3>1, <3>2, <3>3
  <2>6. StartOK(next, cnt, K + 1)
    <3>1. (K + 1) + 1 = K + 2
      BY <2>2
    <3> HIDE DEF next
    <3> QED
      BY <2>3, <2>4, <2>5, <3>1 DEF StartOK
  <2> QED
    BY <2>3, <2>6
<1> HIDE DEF P
<1>3. ASSUME Bad # {} PROVE FALSE
  <2>1. PICK K \in Bad : \A y \in Bad : K <= y
    <3>1. Bad \in SUBSET Nat
      OBVIOUS
    <3> HIDE DEF Bad
    <3> QED
      BY <1>3, <3>1, NatLeast
  <2>2. K \in 0..R /\ ~P(K) /\ K # 0
    BY <1>1, <2>1
  <2>3. K - 1 \in 0..(R - 1) /\ K - 1 \in 0..R /\ ~(K <= K - 1) /\ (K - 1) + 1 = K
    BY <2>2
  <2>4. P(K - 1)
    BY <2>1, <2>3
  <2>5. P((K - 1) + 1)
    BY <1>2, <2>3, <2>4
  <2> QED
    BY <2>2, <2>3, <2>5
<1>4. P(R)
  BY <1>3
<1> QED
  BY <1>4 DEF P

\* The calls f[1], f[2] and so on of one end of a link, in order.
Rising(n, f) ==
    /\ n \in Nat /\ f \in [1..n -> Int]
    /\ \A a, b \in 1..n : a < b => f[a] < f[b]

\* A thread in call c serves j out of D and is then in call c2 with D2 to serve.
Moves(n, f, c, D, c2, D2, j, k) ==
    \/ c2 = c /\ D2 = D \ {j}
    \/ /\ D = {j} /\ c2 > c
       /\ \A a \in 1..n : ~(c < f[a] /\ f[a] < c2) /\ (f[a] = c2 => k \in D2)

\* The link that is served is one transfer further.
LEMMA EndServed ==
    ASSUME NEW n, NEW f, Rising(n, f), NEW c \in Int, NEW c2 \in Int, NEW D, NEW D2,
           NEW j \in D, NEW x, EndOK(n, f, x, c, j, D), NEW m \in 1..n, f[m] = c,
           Moves(n, f, c, D, c2, D2, j, j)
    PROVE  m = x + 1 /\ EndOK(n, f, x + 1, c2, j, D2)
<1>1. n \in Nat /\ f \in [1..n -> Int] /\ x \in 0..n /\ m \in Nat
  BY DEF Rising, EndOK
<1>2. ~(m <= x)
  BY <1>1 DEF EndOK
<1>3. \A a \in 1..n : a < m => a <= x
  <2> SUFFICES ASSUME NEW a \in 1..n, a < m PROVE a <= x
    OBVIOUS
  <2>1. f[a] < f[m]
    BY DEF Rising
  <2> QED
    BY <2>1 DEF EndOK
<1>4. m = x + 1
  <2>1. m - 1 \in 1..n => m - 1 <= x
    BY <1>1, <1>3
  <2> QED
    BY <1>1, <1>2, <2>1
<1>5. ASSUME NEW a \in 1..n
      PROVE  (a <= x + 1) <=> (f[a] < c2 \/ (f[a] = c2 /\ j \notin D2))
  <2>1. f[a] \in Int /\ a \in Nat /\ x \in Nat
    BY <1>1
  <2>2. CASE a < m
    <3>1. f[a] < c
      BY <2>2 DEF Rising
    <3>2. f[a] < c2
      BY <2>1, <3>1 DEF Moves
    <3> QED
      BY <1>1, <1>4, <2>1, <2>2, <3>2
  <2>3. CASE a = m
    BY <1>4, <2>1, <2>3 DEF Moves
  <2>4. CASE a > m
    <3>1. f[a] > c
      BY <2>4 DEF Rising
    <3>2. ~(f[a] < c2 \/ (f[a] = c2 /\ j \notin D2))
      BY <2>1, <3>1 DEF Moves
    <3> QED
      BY <1>1, <1>4, <2>1, <2>4, <3>2
  <2> QED
    BY <1>1, <2>1, <2>2, <2>3, <2>4
<1> QED
  BY <1>1, <1>4, <1>5 DEF EndOK

\* Another link of this thread stays where it is.
LEMMA EndOther ==
    ASSUME NEW n, NEW f, Rising(n, f), NEW c \in Int, NEW c2 \in Int, NEW D, NEW D2,
           NEW j, NEW k, NEW x, EndOK(n, f, x, c, k, D), k # j \/ \A a \in 1..n : f[a] # c,
           Moves(n, f, c, D, c2, D2, j, k)
    PROVE  EndOK(n, f, x, c2, k, D2)
<1>1. n \in Nat /\ f \in [1..n -> Int] /\ x \in 0..n
  BY DEF Rising, EndOK
<1>2. ASSUME NEW a \in 1..n
      PROVE  (f[a] < c \/ (f[a] = c /\ k \notin D)) <=> (f[a] < c2 \/ (f[a] = c2 /\ k \notin D2))
  <2>1. f[a] \in Int
    BY <1>1
  <2>2. CASE c2 = c /\ D2 = D \ {j}
    BY <2>2
  <2>3. CASE /\ D = {j} /\ c2 > c
             /\ \A b \in 1..n : ~(c < f[b] /\ f[b] < c2) /\ (f[b] = c2 => k \in D2)
    BY <2>1, <2>3
  <2> QED
    BY <2>2, <2>3 DEF Moves
<1> QED
  BY <1>1, <1>2 DEF EndOK

\* At the beginning of a sync step, and at its end.
LEMMA EndFirst ==
    ASSUME NEW n \in Nat, NEW f \in [1..n -> Int], NEW c \in Int, NEW j, NEW D,
           \A a \in 1..n : f[a] >= c /\ (f[a] = c => j \in D)
    PROVE  EndOK(n, f, 0, c, j, D)
  BY DEF EndOK

\* A thread that is past all calls of a link has made all its transfers.
LEMMA EndLast ==
    ASSUME NEW n \in Nat, NEW f \in [1..n -> Int], NEW c \in Int, NEW j, NEW D, NEW x,
           EndOK(n, f, x, c, j, D), \A a \in 1..n : f[a] < c
    PROVE  x = n
<1>1. x \in 0..n
  BY DEF EndOK
<1>2. n \in 1..n => n <= x
  BY DEF EndOK
<1> QED
  BY <1>1, <1>2

-----------------------------------------------------------------------------

\* Two transfers of a link are the same if as many come before them.
LEMMA SameTransfer ==
    ASSUME NEW R \in Nat, NEW cnt \in [1..R -> Nat], NEW st, StartOK(st, cnt, R),
           NEW a \in 1..R, NEW b \in 1..R, NEW m \in 1..cnt[a], NEW k \in 1..cnt[b],
           st[a] + m = st[b] + k
    PROVE  a = b /\ m = k
<1>1. st[a] \in Nat /\ st[b] \in Nat /\ cnt[a] \in Nat /\ cnt[b] \in Nat /\ a \in 1..(R + 1) /\ b \in 1..(R + 1)
  BY DEF StartOK
<1>2. a < b => st[a] + cnt[a] <= st[b]
  BY <1>1 DEF StartOK
<1>3. b < a => st[b] + cnt[b] <= st[a]
  BY <1>1 DEF StartOK
<1>4. ~(a < b) /\ ~(b < a)
  <2>1. PICK sa \in Nat, sb \in Nat, ca \in Nat, cb \in Nat :
            sa = st[a] /\ sb = st[b] /\ ca = cnt[a] /\ cb = cnt[b]
    BY <1>1, Zenon
  <2>2. m \in 1..ca /\ k \in 1..cb /\ sa + m = sb + k
    BY <2>1
  <2>3. (a < b => sa + ca <= sb) /\ (b < a => sb + cb <= sa)
    BY <1>2, <1>3, <2>1
  <2> QED
    BY <2>2, <2>3, SMT
<1>5. a = b
  BY <1>4
<1> QED
  BY <1>1, <1>5

\* The two sides of SameTransfer.
Meet(st, a, m, b, k) == st[a] + m = st[b] + k
IsSame(a, m, b, k) == a = b /\ m = k

\* Transfers that meet are the same.
LEMMA MeetSame ==
    ASSUME NEW R \in Nat, NEW cnt \in [1..R -> Nat], NEW st, StartOK(st, cnt, R),
           NEW a \in 1..R, NEW b \in 1..R, NEW m \in 1..cnt[a], NEW k \in 1..cnt[b], Meet(st, a, m, b, k)
    PROVE  IsSame(a, m, b, k)
<1>1. st[a] + m = st[b] + k
  BY Zenon DEF Meet
<1>2. a = b /\ m = k
  BY <1>1, SameTransfer, SMTT(30)
<1> QED
  BY <1>2, Zenon DEF IsSame

\* One more transfer is on its way.
LEMMA FlightSend ==
    ASSUME NEW T, NEW i, NEW j, NEW R \in Nat, NEW cnt \in [1..R -> Nat], NEW st, StartOK(st, cnt, R),
           NEW ri \in 1..R, NEW rj \in 1..R, NEW w \in Nat, NEW d \in Nat, NEW q, IsSeq(q),
           FlightOK(T, i, j, st, cnt, R, ri, w, rj, d, q),
           w < cnt[ri], NEW x, Msg(T, ri, i, j, w + 1, x)
    PROVE  FlightOK(T, i, j, st, cnt, R, ri, w + 1, rj, d, Append(q, x))
<1>1. /\ IsSeq(Append(q, x)) /\ Len(q) \in Nat /\ Len(Append(q, x)) = Len(q) + 1
      /\ \A k \in 1..Len(q) : Append(q, x)[k] = q[k]
      /\ Append(q, x)[Len(q) + 1] = x
  BY AppendFacts
<1>2. st[ri] \in Nat /\ st[rj] \in Nat /\ Len(q) = (st[ri] + w) - (st[rj] + d)
  BY DEF FlightOK, StartOK
<1>0. PICK si \in Nat, sj \in Nat, len \in Nat : si = st[ri] /\ sj = st[rj] /\ len = Len(q)
  BY <1>1, <1>2, Zenon
<1>3. Len(Append(q, x)) = (st[ri] + (w + 1)) - (st[rj] + d)
  <2>1. len = (si + w) - (sj + d)
    BY <1>0, <1>2
  <2>2. len + 1 = (si + (w + 1)) - (sj + d)
    BY <2>1, SMT
  <2> QED
    BY <1>0, <1>1, <2>2
<1>4. ASSUME NEW k \in 1..Len(Append(q, x)), NEW r \in 1..R, NEW m \in 1..cnt[r],
             st[r] + m = st[rj] + d + k
      PROVE  Msg(T, r, i, j, m, Append(q, x)[k])
  <2>1. CASE k \in 1..Len(q)
    <3>1. Msg(T, r, i, j, m, q[k])
      BY <1>4, <2>1 DEF FlightOK
    <3> QED
      BY <1>1, <2>1, <3>1
  <2>2. CASE k = Len(q) + 1
    <3>1. st[r] + m = st[ri] + (w + 1)
      <4>1. len = (si + w) - (sj + d) /\ st[r] + m = sj + d + (len + 1)
        BY <1>0, <1>2, <1>4, <2>2
      <4>2. sj + d + (len + 1) = si + (w + 1)
        BY <4>1, SMT
      <4> QED
        BY <1>0, <4>1, <4>2
    <3>2. w + 1 \in 1..cnt[ri]
      OBVIOUS
    <3>3. r = ri /\ m = w + 1
      <4>1. PICK e \in 1..cnt[ri] : e = w + 1
        BY <3>2
      <4>2. Meet(st, r, m, ri, e)
        BY <3>1, <4>1 DEF Meet
      <4>3. m \in 1..cnt[r] /\ e \in 1..cnt[ri]
        BY <1>4, <4>1
      <4>4. IsSame(r, m, ri, e)
        BY <4>2, <4>3, MeetSame, Zenon
      <4> QED
        BY <4>1, <4>4 DEF IsSame
    <3> QED
      BY <1>1, <2>2, <3>3
  <2>3. k \in 1..len \/ k = len + 1
    <3>1. k \in 1..(len + 1)
      BY <1>0, <1>1
    <3> QED
      BY <3>1, SMT
  <2> QED
    BY <1>0, <2>1, <2>2, <2>3
<1> QED
  BY <1>3, <1>4 DEF FlightOK

\* The first transfer on the wire is the reader's next one.
LEMMA FlightReceive ==
    ASSUME NEW T, NEW i, NEW j, NEW R \in Nat, NEW cnt \in [1..R -> Nat], NEW st, StartOK(st, cnt, R),
           NEW ri \in 1..R, NEW rj \in 1..R, NEW w \in Nat, NEW d \in Nat, NEW q, IsSeq(q), q # <<>>,
           FlightOK(T, i, j, st, cnt, R, ri, w, rj, d, q), d < cnt[rj]
    PROVE  /\ Msg(T, rj, i, j, d + 1, Head(q))
           /\ FlightOK(T, i, j, st, cnt, R, ri, w, rj, d + 1, Tail(q))
<1>1. /\ IsSeq(Tail(q)) /\ Len(q) \in Nat \ {0} /\ Len(Tail(q)) = Len(q) - 1
      /\ \A k \in 1..Len(Tail(q)) : Tail(q)[k] = q[k + 1]
      /\ Head(q) = q[1]
  BY TailFacts
<1>2. st[ri] \in Nat /\ st[rj] \in Nat /\ Len(q) = (st[ri] + w) - (st[rj] + d) /\ cnt[rj] \in Nat
  BY DEF FlightOK, StartOK
<1>0. PICK si \in Nat, sj \in Nat, cj \in Nat, len \in Nat \ {0} :
          si = st[ri] /\ sj = st[rj] /\ len = Len(q) /\ cj = cnt[rj]
  BY <1>1, <1>2, Zenon
<1>3. Msg(T, rj, i, j, d + 1, Head(q))
  <2>1. d + 1 \in 1..cnt[rj] /\ 1 \in 1..Len(q) /\ st[rj] + (d + 1) = st[rj] + d + 1
    <3>1. d < cj
      BY <1>0
    <3>2. d + 1 \in 1..cj /\ 1 \in 1..len /\ sj + (d + 1) = sj + d + 1
      BY <3>1, SMT
    <3> QED
      BY <1>0, <3>2
  <2>2. Msg(T, rj, i, j, d + 1, q[1])
    BY <2>1 DEF FlightOK
  <2> QED
    BY <1>1, <2>2
<1>4. Len(Tail(q)) = (st[ri] + w) - (st[rj] + (d + 1))
  <2>1. len = (si + w) - (sj + d) /\ Len(Tail(q)) = len - 1
    BY <1>0, <1>1, <1>2
  <2>2. len - 1 = (si + w) - (sj + (d + 1))
    BY <2>1, SMT
  <2> QED
    BY <1>0, <2>1, <2>2
<1>5. ASSUME NEW k \in 1..Len(Tail(q)), NEW r \in 1..R, NEW m \in 1..cnt[r],
             st[r] + m = st[rj] + (d + 1) + k
      PROVE  Msg(T, r, i, j, m, Tail(q)[k])
  <2>1. k + 1 \in 1..Len(q) /\ st[r] + m = st[rj] + d + (k + 1)
    <3>1. k \in 1..(len - 1) /\ st[r] + m = sj + (d + 1) + k
      BY <1>0, <1>1, <1>5
    <3>2. k + 1 \in 1..len /\ sj + (d + 1) + k = sj + d + (k + 1)
      BY <3>1, SMT
    <3> QED
      BY <1>0, <3>1, <3>2
  <2>2. Msg(T, r, i, j, m, q[k + 1])
    BY <2>1 DEF FlightOK
  <2> QED
    BY <1>1, <2>2
<1> QED
  BY <1>3, <1>4, <1>5 DEF FlightOK

\* When a link is done on one side the next one starts there.
LEMMA FlightNext ==
    ASSUME NEW T, NEW i, NEW j, NEW R \in Nat, NEW cnt \in [1..R -> Nat], NEW st, StartOK(st, cnt, R),
           NEW ri \in 1..R, NEW rj \in 1..R, NEW w \in Nat, NEW d \in Nat, NEW q,
           FlightOK(T, i, j, st, cnt, R, ri, w, rj, d, q)
    PROVE  /\ w = cnt[ri] => FlightOK(T, i, j, st, cnt, R, ri + 1, 0, rj, d, q)
           /\ d = cnt[rj] => FlightOK(T, i, j, st, cnt, R, ri, w, rj + 1, 0, q)
<1>1. /\ st[ri + 1] = st[ri] + cnt[ri] /\ st[rj + 1] = st[rj] + cnt[rj]
      /\ st[ri] \in Nat /\ st[rj] \in Nat /\ cnt[ri] \in Nat /\ cnt[rj] \in Nat
  BY DEF StartOK
<1>2. w = cnt[ri] => st[ri + 1] + 0 = st[ri] + w
  BY <1>1
<1>3. d = cnt[rj] => st[rj + 1] + 0 = st[rj] + d
  BY <1>1
<1>4. ASSUME w = cnt[ri] PROVE FlightOK(T, i, j, st, cnt, R, ri + 1, 0, rj, d, q)
  BY <1>2, <1>4 DEF FlightOK
<1>5. ASSUME d = cnt[rj] PROVE FlightOK(T, i, j, st, cnt, R, ri, w, rj + 1, 0, q)
  BY <1>3, <1>5 DEF FlightOK
<1> QED
  BY <1>4, <1>5

-----------------------------------------------------------------------------
(* The table follows from the setup, which no step changes.                *)

\* The cluster stays as it is.
LEMMA SameShape ==
    ASSUME setup' = setup
    PROVE  /\ tpSize' = tpSize /\ nThreads' = nThreads /\ Nodes' = Nodes /\ Threads' = Threads
           /\ SpRanks' = SpRanks /\ MaxRounds' = MaxRounds /\ Rounds' = Rounds
           /\ Procs' = Procs
           /\ \A i : tpGroupStart(i)' = tpGroupStart(i) /\ spGroupStart(i)' = spGroupStart(i)
           /\ \A i : spRank(i)' = spRank(i)
           /\ \A i, p : SpPeer(i, p)' = SpPeer(i, p)
           /\ \A i : RingNext(i)' = RingNext(i)
<1>1. /\ tpSize' = tpSize /\ nThreads' = nThreads /\ Nodes' = Nodes /\ Threads' = Threads
      /\ SpRanks' = SpRanks /\ MaxRounds' = MaxRounds /\ Rounds' = Rounds
  BY DEF tpSize, nThreads, Nodes, Threads, SpRanks, MaxRounds, Rounds
<1>2. Procs' = Procs
  BY <1>1 DEF Procs
<1>3. \A i : tpGroupStart(i)' = tpGroupStart(i) /\ spGroupStart(i)' = spGroupStart(i)
  BY <1>1 DEF tpGroupStart, spGroupStart
<1>4. \A i : spRank(i)' = spRank(i)
  BY <1>1, <1>3 DEF spRank
<1>5. \A i, p : SpPeer(i, p)' = SpPeer(i, p)
  BY <1>1, <1>3 DEF SpPeer
<1>6. \A i : RingNext(i)' = RingNext(i)
  BY <1>1, <1>3 DEF RingNext
<1> QED
  BY <1>1, <1>2, <1>3, <1>4, <1>5, <1>6

\* So do the algorithms.
LEMMA SameSteps ==
    ASSUME setup' = setup
    PROVE  \A r : /\ SyncType(r)' = SyncType(r) /\ OnlyToRoot(r)' = OnlyToRoot(r)
                  /\ UsesRing(r)' = UsesRing(r) /\ UsesBatch(r)' = UsesBatch(r)
                  /\ Kind(r)' = Kind(r) /\ SpKvSkipped(r)' = SpKvSkipped(r) /\ maxPos(r)' = maxPos(r)
  BY DEF SyncType, OnlyToRoot, UsesRing, UsesBatch, Tp1Skipped, Kind, ringTopologySupported, tpSize, SpKvSkipped, maxPos

\* So do the ranges.
LEMMA SameRanges ==
    ASSUME setup' = setup
    PROVE  \A r, q : ActiveRange(r, q)' = ActiveRange(r, q)
<1>1. \A n, q : Block(n, q)' = Block(n, q)
  BY DEF Block
<1>2. \A r, b : PositionAt(r, b)' = PositionAt(r, b)
  BY DEF PositionAt
<1>3. \A r : maxPos(r)' = maxPos(r)
  BY SameSteps
<1> QED
  BY <1>1, <1>2, <1>3 DEF ActiveRange

\* So do the links.
LEMMA SameLinks ==
    ASSUME setup' = setup
    PROVE  \A r, i, j : Link(r, i, j)' = Link(r, i, j)
<1>0. /\ tpSize' = tpSize /\ nThreads' = nThreads /\ \A i : tpGroupStart(i)' = tpGroupStart(i)
      /\ \A i : spRank(i)' = spRank(i)
      /\ \A i, p : SpPeer(i, p)' = SpPeer(i, p)
      /\ \A i : RingNext(i)' = RingNext(i)
      /\ \A r : Kind(r)' = Kind(r) /\ SpKvSkipped(r)' = SpKvSkipped(r)
      /\ \A r, q : ActiveRange(r, q)' = ActiveRange(r, q)
  BY SameShape, SameSteps, SameRanges
<1>1. \A r, i, j : Linked(r, i, j)' = Linked(r, i, j)
  BY <1>0 DEF Linked
<1>2. \A r, i, j : Count(r, i, j)' = Count(r, i, j)
  BY <1>0, <1>1 DEF Count
<1>3. \A r : Stride(r)' = Stride(r)
  BY <1>0 DEF Stride
<1>4. \A r, i, j : WThread(r, i, j)' = WThread(r, i, j)
  BY <1>0 DEF WThread, PeerSocket
<1>5. \A r, i, j : RThread(r, i, j)' = RThread(r, i, j)
  BY <1>0 DEF RThread, PeerSocket
<1>6. \A r, i, j : WBase(r, i, j)' = WBase(r, i, j)
  BY <1>0 DEF WBase, RingSendsFirst
<1>7. \A r, i, j : RBase(r, i, j)' = RBase(r, i, j)
  BY <1>0 DEF RBase, RingSendsFirst
<1> QED
  BY <1>2, <1>3, <1>4, <1>5, <1>6, <1>7 DEF Link

\* So does the table.
LEMMA SameTable ==
    ASSUME setup' = setup
    PROVE  Table' = Table
<1>1. \A r, i, j : Ends(Link(r, i, j))' = Ends(Link(r, i, j))
  <2> SUFFICES ASSUME NEW r, NEW i, NEW j PROVE Ends(Link(r, i, j))' = Ends(Link(r, i, j))
    OBVIOUS
  <2>1. Link(r, i, j)' = Link(r, i, j)
    BY SameLinks
  <2> QED
    BY <2>1, Zenon DEF Ends
<1>2. Rounds' = Rounds /\ Nodes' = Nodes /\ SpRanks' = SpRanks
  BY SameShape
<1>3. [q \in Rounds \X Nodes \X Nodes |-> Ends(Link(q[1], q[2], q[3]))]'
        = [q \in Rounds \X Nodes \X Nodes |-> Ends(Link(q[1], q[2], q[3]))]
  BY <1>1, <1>2
<1>4. [r \in Rounds |-> Kind(r)]' = [r \in Rounds |-> Kind(r)]
  BY <1>2, SameSteps
<1>5. [i \in Nodes |-> tpGroupStart(i)]' = [i \in Nodes |-> tpGroupStart(i)]
  BY <1>2, SameShape
<1>6. [i \in Nodes |-> spRank(i)]' = [i \in Nodes |-> spRank(i)]
  BY <1>2, SameShape
<1>7. [q \in Nodes \X SpRanks |-> SpPeer(q[1], q[2])]' = [q \in Nodes \X SpRanks |-> SpPeer(q[1], q[2])]
  BY <1>2, SameShape
<1>8. [q \in Rounds \X SpRanks |-> ActiveRange(q[1], q[2])]' = [q \in Rounds \X SpRanks |-> ActiveRange(q[1], q[2])]
  BY <1>2, SameRanges
<1> QED
  BY <1>3, <1>4, <1>5, <1>6, <1>7, <1>8, Zenon DEF Table

\* What is in the table.
LEMMA TableFacts ==
    ASSUME NEW T, T = Table
    PROVE  /\ T.s = setup
           /\ \A r \in Rounds, i, j \in Nodes : T.link[<<r, i, j>>] = Ends(Link(r, i, j))
           /\ \A r \in Rounds : T.kind[r] = Kind(r)
           /\ \A i \in Nodes : T.root[i] = tpGroupStart(i) /\ T.rank[i] = spRank(i)
           /\ \A i \in Nodes, p \in SpRanks : T.peer[<<i, p>>] = SpPeer(i, p)
           /\ \A r \in Rounds, p \in SpRanks : T.range[<<r, p>>] = ActiveRange(r, p)
<1>1. /\ T.s = setup
      /\ T.link = [q \in Rounds \X Nodes \X Nodes |-> Ends(Link(q[1], q[2], q[3]))]
      /\ T.kind = [r \in Rounds |-> Kind(r)]
      /\ T.root = [i \in Nodes |-> tpGroupStart(i)]
      /\ T.rank = [i \in Nodes |-> spRank(i)]
      /\ T.peer = [q \in Nodes \X SpRanks |-> SpPeer(q[1], q[2])]
      /\ T.range = [q \in Rounds \X SpRanks |-> ActiveRange(q[1], q[2])]
  BY DEF Table
<1> QED
  BY <1>1

\* Both ends of a link in the table.
LEMMA EndsFacts ==
    ASSUME setup \in Setups, NEW T, T = Table, NEW r \in Rounds, NEW i \in Nodes, NEW j \in Nodes,
           NEW k, k = T.link[<<r, i, j>>]
    PROVE  /\ k.n \in Nat /\ k.wt \in Threads /\ k.rt \in Threads
           /\ Rising(k.n, k.w) /\ Rising(k.n, k.r)
           /\ \A m \in 1..k.n : /\ k.w[m] \in Nat \ {0} /\ k.w[m] <= ProgramLength(r, i, k.wt)
                                /\ k.r[m] \in Nat \ {0} /\ k.r[m] <= ProgramLength(r, j, k.rt)
<1>1. PICK x : x = Link(r, i, j)
  OBVIOUS
<1>2. k = Ends(x)
  BY <1>1, TableFacts
<1>3. /\ k.n = x.n /\ k.wt = x.wt /\ k.rt = x.rt
      /\ k.w = [m \in 1..x.n |-> x.wb + x.st * m] /\ k.r = [m \in 1..x.n |-> x.rb + x.st * m]
  BY <1>2 DEF Ends
<1>4. LinkOK(x)
  BY <1>1, LinkTypes
<1>5. /\ x.n \in Nat /\ x.wt \in Threads /\ x.rt \in Threads /\ x.st \in {1, 2}
      /\ x.wb \in Int /\ x.rb \in Int
  BY <1>4 DEF LinkOK
<1>6. Rising(k.n, k.w) /\ Rising(k.n, k.r)
  <2>1. CASE x.st = 1
    BY <1>3, <1>5, <2>1 DEF Rising
  <2>2. CASE x.st = 2
    BY <1>3, <1>5, <2>2 DEF Rising
  <2> QED
    BY <1>5, <2>1, <2>2
<1>7. ASSUME NEW m \in 1..k.n
      PROVE  /\ k.w[m] \in Nat \ {0} /\ k.w[m] <= ProgramLength(r, i, k.wt)
             /\ k.r[m] \in Nat \ {0} /\ k.r[m] <= ProgramLength(r, j, k.rt)
  <2>1. m \in 1..x.n
    BY <1>3
  <2>2. x.wb + x.st * m \in Nat \ {0} /\ x.rb + x.st * m \in Nat \ {0}
    BY <1>4, <2>1, AtPositive
  <2>3. /\ x.wb + x.st * m <= ProgramLength(r, i, x.wt)
        /\ x.rb + x.st * m <= ProgramLength(r, j, x.rt)
    BY <1>1, <2>1, AtInProgram
  <2> QED
    BY <1>3, <2>1, <2>2, <2>3
<1> QED
  BY <1>3, <1>5, <1>6, <1>7

\* The peers of a call are the links that have a transfer in it, and a call either
\* writes or reads.
LEMMA PeersFacts ==
    ASSUME setup \in Setups, NEW T, T = Table, NEW r \in Rounds, NEW i \in Nodes, NEW t \in Threads,
           NEW c \in Nat \ {0}
    PROVE  /\ PeersT(T, r, i, t, c) = Peers(r, i, t, c)
           /\ \A j \in Nodes : \A m \in 1..T.link[<<r, i, j>>].n :
                T.link[<<r, i, j>>].wt = t /\ T.link[<<r, i, j>>].w[m] = c =>
                  j \in Peers(r, i, t, c) /\ Program(r, i, t, c).op = "write"
           /\ \A j \in Nodes : \A m \in 1..T.link[<<r, j, i>>].n :
                T.link[<<r, j, i>>].rt = t /\ T.link[<<r, j, i>>].r[m] = c =>
                  j \in Peers(r, i, t, c) /\ Program(r, i, t, c).op = "read"
<1>1. Matches(r, i, t, c)
  BY ProgramMatches
<1>2. T.s = setup /\ Nodes = 0..(T.s.nNodes - 1)
  BY TableFacts DEF Nodes
<1>3. ASSUME NEW j \in Nodes
      PROVE  /\ WAt(Link(r, i, j), t, c) <=> t = T.link[<<r, i, j>>].wt /\ \E m \in 1..T.link[<<r, i, j>>].n : T.link[<<r, i, j>>].w[m] = c
             /\ RAt(Link(r, j, i), t, c) <=> t = T.link[<<r, j, i>>].rt /\ \E m \in 1..T.link[<<r, j, i>>].n : T.link[<<r, j, i>>].r[m] = c
  <2>1. T.link[<<r, i, j>>] = Ends(Link(r, i, j)) /\ T.link[<<r, j, i>>] = Ends(Link(r, j, i))
    BY TableFacts
  <2>2. PICK x, y, a, b : x = Link(r, i, j) /\ y = Link(r, j, i) /\ a = Ends(x) /\ b = Ends(y)
    OBVIOUS
  <2>3. /\ WAt(x, t, c) <=> t = a.wt /\ \E m \in 1..a.n : a.w[m] = c
        /\ RAt(y, t, c) <=> t = b.rt /\ \E m \in 1..b.n : b.r[m] = c
    BY <2>2 DEF WAt, RAt, Ends
  <2> QED
    BY <2>1, <2>2, <2>3, Zenon
<1>4. ASSUME NEW j PROVE j \in PeersT(T, r, i, t, c) <=> j \in Peers(r, i, t, c)
  <2>1. j \in Peers(r, i, t, c) <=> j \in Nodes /\ (WAt(Link(r, i, j), t, c) \/ RAt(Link(r, j, i), t, c))
    BY <1>1, Zenon DEF Matches
  <2> QED
    BY <1>2, <1>3, <2>1, Zenon DEF PeersT
<1>5. PeersT(T, r, i, t, c) = Peers(r, i, t, c)
  BY <1>4, Zenon
<1> QED
  BY <1>1, <1>3, <1>5, Zenon DEF Matches

-----------------------------------------------------------------------------
(* A thread goes on.                                                       *)

\* Thread t of node i, having served j, is in call c with D to serve.
Advances(T, i, t, j, c, D) ==
    /\ ip' = [ip EXCEPT ![<<i, t>>] = c] /\ todo' = [todo EXCEPT ![<<i, t>>] = D]
    /\ c \in Nat \ {0} /\ D \subseteq PeersT(T, round[i], i, t, c) /\ D \subseteq Nodes
    /\ \A k \in Nodes :
         LET out == T.link[<<round[i], i, k>>]
             in == T.link[<<round[i], k, i>>]
         IN  /\ out.wt = t => Moves(out.n, out.w, ip[<<i, t>>], todo[<<i, t>>], c, D, j, k)
             /\ in.rt = t => Moves(in.n, in.r, ip[<<i, t>>], todo[<<i, t>>], c, D, j, k)

\* Serving a peer advances the thread.
LEMMA ServedFacts ==
    ASSUME Types, NEW T, T = Table, Threaded(T), NEW i \in Nodes, NEW t \in Threads,
           NEW j \in todo[<<i, t>>], Served(i, t, j)
    PROVE  \E c, D : Advances(T, i, t, j, c, D)
<1>0. PICK r, c, D : r = round[i] /\ c = ip[<<i, t>>] /\ D = todo[<<i, t>>]
  OBVIOUS
<1>1. setup \in Setups /\ r \in Rounds /\ <<i, t>> \in Procs /\ c \in Nat \ {0} /\ D \subseteq Nodes
  BY <1>0 DEF Types, Procs
<1>2. D \subseteq PeersT(T, r, i, t, c) /\ PeersT(T, r, i, t, c) = Peers(r, i, t, c)
  BY <1>0, <1>1, PeersFacts DEF Threaded
<1>3. j \in D /\ j \in Peers(r, i, t, c)
  BY <1>0, <1>2
<1>4. c <= ProgramLength(r, i, t)
  BY <1>3 DEF Peers
<1>5. CASE D \ {j} # {}
  <2>1. ip' = ip /\ todo' = [todo EXCEPT ![<<i, t>>] = D \ {j}]
    BY <1>0, <1>5 DEF Served
  <2>2. ip' = [ip EXCEPT ![<<i, t>>] = c]
    BY <1>0, <2>1 DEF Types
  <2>3. D \ {j} \subseteq PeersT(T, r, i, t, c) /\ D \ {j} \subseteq Nodes
    BY <1>1, <1>2
  <2>4. \A n, f, k : Moves(n, f, c, D, c, D \ {j}, j, k)
    BY Zenon DEF Moves
  <2>5. Advances(T, i, t, j, c, D \ {j})
    BY <1>0, <1>1, <2>1, <2>2, <2>3, <2>4, Zenon DEF Advances
  <2> QED
    BY <2>5, Zenon
<1>6. CASE D \ {j} = {}
  <2>0. PICK e : e = NextCall(r, i, t, c + 1)
    OBVIOUS
  <2>1. ip' = [ip EXCEPT ![<<i, t>>] = e]
    <3>1. ip' = [ip EXCEPT ![<<i, t>>] = NextCall(round[i], i, t, @ + 1)]
      BY <1>0, <1>6, Zenon DEF Served
    <3> QED
      BY <1>0, <2>0, <3>1
  <2>2. todo' = [todo EXCEPT ![<<i, t>>] = Peers(r, i, t, e)]
    <3>1. todo' = [todo EXCEPT ![<<i, t>>] = Peers(round[i], i, t, ip'[<<i, t>>])]
      BY <1>0, <1>6, Zenon DEF Served
    <3>2. ip'[<<i, t>>] = e
      BY <1>1, <2>1 DEF Types
    <3> QED
      BY <1>0, <3>1, <3>2
  <2>3. c + 1 \in Nat \ {0} /\ c + 1 <= ProgramLength(r, i, t) + 1
    BY <1>1, <1>4, LengthType
  <2>4. /\ e \in Nat \ {0} /\ e >= c + 1 /\ e <= ProgramLength(r, i, t) + 1
        /\ \A k \in (c + 1)..(e - 1) : Peers(r, i, t, k) = {}
    BY <1>1, <2>0, <2>3, NextCallFacts
  <2>5. Peers(r, i, t, e) = PeersT(T, r, i, t, e)
    BY <1>1, <2>4, PeersFacts
  <2>6. Peers(r, i, t, e) \subseteq Nodes
    BY <2>5, TableFacts DEF PeersT, Nodes
  <2>7. D = {j} /\ e > c
    BY <1>1, <1>3, <1>6, <2>4
  <2>8. ASSUME NEW k \in Nodes, NEW out, out = T.link[<<r, i, k>>], out.wt = t
        PROVE  Moves(out.n, out.w, c, D, e, Peers(r, i, t, e), j, k)
    <3>1. ASSUME NEW a \in 1..out.n
          PROVE  ~(c < out.w[a] /\ out.w[a] < e) /\ (out.w[a] = e => k \in Peers(r, i, t, e))
      <4>1. PICK x : x = out.w[a]
        OBVIOUS
      <4>2. x \in Nat \ {0}
        BY <1>1, <2>8, <4>1, EndsFacts
      <4>3. k \in Peers(r, i, t, x)
        BY <1>1, <2>8, <4>1, <4>2, PeersFacts
      <4>4. c < x /\ x < e => x \in (c + 1)..(e - 1)
        BY <1>1, <2>4, <4>2
      <4> QED
        BY <2>4, <4>1, <4>3, <4>4
    <3> QED
      BY <2>7, <3>1, Zenon DEF Moves
  <2>9. ASSUME NEW k \in Nodes, NEW in, in = T.link[<<r, k, i>>], in.rt = t
        PROVE  Moves(in.n, in.r, c, D, e, Peers(r, i, t, e), j, k)
    <3>1. ASSUME NEW a \in 1..in.n
          PROVE  ~(c < in.r[a] /\ in.r[a] < e) /\ (in.r[a] = e => k \in Peers(r, i, t, e))
      <4>1. PICK x : x = in.r[a]
        OBVIOUS
      <4>2. x \in Nat \ {0}
        BY <1>1, <2>9, <4>1, EndsFacts
      <4>3. k \in Peers(r, i, t, x)
        BY <1>1, <2>9, <4>1, <4>2, PeersFacts
      <4>4. c < x /\ x < e => x \in (c + 1)..(e - 1)
        BY <1>1, <2>4, <4>2
      <4> QED
        BY <2>4, <4>1, <4>3, <4>4
    <3> QED
      BY <2>7, <3>1, Zenon DEF Moves
  <2>10. Advances(T, i, t, j, e, Peers(r, i, t, e))
    BY <1>0, <2>1, <2>2, <2>4, <2>5, <2>6, <2>8, <2>9, Zenon DEF Advances
  <2> QED
    BY <2>10, Zenon
<1> QED
  BY <1>5, <1>6, Zenon

\* The threads stay in their programs.
LEMMA ThreadedAdvance ==
    ASSUME Types, NEW T, T = Table, Threaded(T), NEW i \in Nodes, NEW t \in Threads, NEW j, NEW c, NEW D,
           Advances(T, i, t, j, c, D), UNCHANGED <<setup, round>>
    PROVE  Threaded(T)'
<1>1. Nodes' = Nodes /\ Threads' = Threads
  BY SameShape
<1>2. ip' = [ip EXCEPT ![<<i, t>>] = c] /\ todo' = [todo EXCEPT ![<<i, t>>] = D] /\ D \subseteq PeersT(T, round[i], i, t, c)
  BY DEF Advances
<1>3. ASSUME NEW a \in Nodes, NEW b \in Threads
      PROVE  todo'[<<a, b>>] \subseteq PeersT(T, round'[a], a, b, ip'[<<a, b>>])
  <2>1. <<a, b>> \in Procs /\ <<i, t>> \in Procs
    BY DEF Procs
  <2>2. CASE a = i /\ b = t
    <3>1. todo'[<<a, b>>] = D /\ ip'[<<a, b>>] = c /\ round' = round
      BY <1>2, <2>1, <2>2 DEF Types
    <3> QED
      BY <1>2, <2>2, <3>1
  <2>3. CASE ~(a = i /\ b = t)
    <3>1. todo'[<<a, b>>] = todo[<<a, b>>] /\ ip'[<<a, b>>] = ip[<<a, b>>] /\ round' = round
      BY <1>2, <2>1, <2>3 DEF Types
    <3>2. todo[<<a, b>>] \subseteq PeersT(T, round[a], a, b, ip[<<a, b>>])
      BY DEF Threaded
    <3> QED
      BY <3>1, <3>2
  <2> QED
    BY <2>2, <2>3
<1> QED
  BY <1>1, <1>3, Zenon DEF Threaded

\* Call c of thread t does not write, or does not read.
NoWrite(T, r, i, t, c) ==
    \A e \in Nodes : LET k == T.link[<<r, i, e>>]
                     IN  k.wt = t => \A m \in 1..k.n : k.w[m] # c
NoRead(T, r, i, t, c) ==
    \A e \in Nodes : LET k == T.link[<<r, e, i>>]
                     IN  k.rt = t => \A m \in 1..k.n : k.r[m] # c

\* It is transfer m to, or from, j.
AtWrite(T, r, i, t, j, c, m) ==
    LET k == T.link[<<r, i, j>>] IN k.wt = t /\ m \in 1..k.n /\ k.w[m] = c
AtRead(T, r, i, t, j, c, m) ==
    LET k == T.link[<<r, j, i>>] IN k.rt = t /\ m \in 1..k.n /\ k.r[m] = c

\* Transfer m of link l comes next, and is counted.
IsNext(w, l, m) == m = w[l] + 1
IsBump(w2, w, l, m) == w2 = [w EXCEPT ![l] = m]

\* The writer of a link writes, or a thread reads.
LEMMA WritingServed ==
    ASSUME Types, NEW T, T = Table, NEW w \in [Nodes \X Nodes -> Nat], Writing(T, w),
           NEW i \in Nodes, NEW t \in Threads, NEW j \in Nodes, j \in todo[<<i, t>>], NEW c, NEW D,
           Advances(T, i, t, j, c, D), UNCHANGED <<setup, round>>,
           NEW m, AtWrite(T, round[i], i, t, j, ip[<<i, t>>], m),
           NEW w2, IsBump(w2, w, <<i, j>>, m)
    PROVE  IsNext(w, <<i, j>>, m) /\ Writing(T, w2)'
<1>0. PICK k : k = T.link[<<round[i], i, j>>] /\ k.wt = t /\ m \in 1..k.n /\ k.w[m] = ip[<<i, t>>]
  BY Zenon DEF AtWrite
<1>1. Nodes' = Nodes /\ Threads' = Threads /\ round' = round
  BY SameShape
<1>2. /\ ip' = [ip EXCEPT ![<<i, t>>] = c] /\ todo' = [todo EXCEPT ![<<i, t>>] = D] /\ c \in Nat \ {0}
  BY DEF Advances
<1>3. /\ setup \in Setups /\ round \in [Nodes -> Rounds] /\ <<i, t>> \in Procs /\ ip[<<i, t>>] \in Int /\ c \in Int
      /\ ip \in [Procs -> Nat \ {0}] /\ todo \in [Procs -> SUBSET Nodes]
  BY <1>2 DEF Types, Procs
<1>4. ip'[<<i, t>>] = c /\ todo'[<<i, t>>] = D
  BY <1>2, <1>3
<1>5. w2[<<i, j>>] = m /\ \A a, b \in Nodes : <<a, b>> # <<i, j>> => w2[<<a, b>>] = w[<<a, b>>]
  BY <1>0 DEF IsBump
<1>6. ASSUME NEW e \in Nodes, NEW x, x = T.link[<<round[i], i, e>>], x.wt = t
      PROVE  /\ e # j => EndOK(x.n, x.w, w[<<i, e>>], c, e, D)
             /\ e = j => m = w[<<i, e>>] + 1 /\ EndOK(x.n, x.w, w[<<i, e>>] + 1, c, e, D)
  <2>1. Rising(x.n, x.w)
    BY <1>3, <1>6, EndsFacts
  <2>2. EndOK(x.n, x.w, w[<<i, e>>], ip[<<i, t>>], e, todo[<<i, t>>])
    BY <1>6 DEF Writing
  <2>3. Moves(x.n, x.w, ip[<<i, t>>], todo[<<i, t>>], c, D, j, e)
    BY <1>6, Zenon DEF Advances
  <2>4. ASSUME e # j PROVE EndOK(x.n, x.w, w[<<i, e>>], c, e, D)
    BY <1>3, <2>1, <2>2, <2>3, <2>4, EndOther
  <2>5. ASSUME e = j PROVE m = w[<<i, e>>] + 1 /\ EndOK(x.n, x.w, w[<<i, e>>] + 1, c, e, D)
    <3>1. k = x
      BY <1>0, <1>6, <2>5
    <3> QED
      BY <1>0, <1>3, <2>1, <2>2, <2>3, <2>5, <3>1, EndServed
  <2> QED
    BY <2>4, <2>5
<1>7. m = w[<<i, j>>] + 1
  BY <1>0, <1>6
<1>8. ASSUME NEW a \in Nodes, NEW e \in Nodes, NEW x, x = T.link[<<round[a], a, e>>]
      PROVE  EndOK(x.n, x.w, w2[<<a, e>>], ip'[<<a, x.wt>>], e, todo'[<<a, x.wt>>])
  <2>1. x.wt \in Threads
    BY <1>3, <1>8, EndsFacts
  <2>2. CASE a = i /\ x.wt = t /\ e = j
    BY <1>4, <1>5, <1>6, <1>7, <1>8, <2>2
  <2>3. CASE a = i /\ x.wt = t /\ e # j
    <3>1. w2[<<a, e>>] = w[<<a, e>>]
      BY <1>5, <2>3
    <3> QED
      BY <1>4, <1>6, <1>8, <2>3, <3>1
  <2>4. CASE ~(a = i /\ x.wt = t)
    <3>1. <<a, e>> # <<i, j>>
      BY <1>0, <1>8, <2>4
    <3>2. <<a, x.wt>> \in Procs /\ <<a, x.wt>> # <<i, t>>
      BY <2>1, <2>4 DEF Procs
    <3>3. ip'[<<a, x.wt>>] = ip[<<a, x.wt>>] /\ todo'[<<a, x.wt>>] = todo[<<a, x.wt>>]
      BY <1>2, <1>3, <3>2
    <3>4. EndOK(x.n, x.w, w[<<a, e>>], ip[<<a, x.wt>>], e, todo[<<a, x.wt>>])
      BY <1>8 DEF Writing
    <3> QED
      BY <1>5, <3>1, <3>3, <3>4
  <2> QED
    BY <2>2, <2>3, <2>4
<1>9. Writing(T, w2)'
  BY <1>1, <1>8, Zenon DEF Writing
<1> QED
  BY <1>7, <1>9, Zenon DEF IsNext

\* A call that does not write leaves the writers' counts right.
LEMMA WritingPasses ==
    ASSUME Types, NEW T, T = Table, NEW w, Writing(T, w),
           NEW i \in Nodes, NEW t \in Threads, NEW j \in Nodes, NEW c, NEW D,
           Advances(T, i, t, j, c, D), UNCHANGED <<setup, round>>,
           NoWrite(T, round[i], i, t, ip[<<i, t>>])
    PROVE  Writing(T, w)'
<1>1. Nodes' = Nodes /\ Threads' = Threads /\ round' = round
  BY SameShape
<1>2. /\ ip' = [ip EXCEPT ![<<i, t>>] = c] /\ todo' = [todo EXCEPT ![<<i, t>>] = D] /\ c \in Nat \ {0}
  BY DEF Advances
<1>3. /\ setup \in Setups /\ round \in [Nodes -> Rounds] /\ <<i, t>> \in Procs /\ ip[<<i, t>>] \in Int /\ c \in Int
      /\ ip \in [Procs -> Nat \ {0}] /\ todo \in [Procs -> SUBSET Nodes]
  BY <1>2 DEF Types, Procs
<1>4. ip'[<<i, t>>] = c /\ todo'[<<i, t>>] = D
  BY <1>2, <1>3
<1>6. ASSUME NEW e \in Nodes, NEW x, x = T.link[<<round[i], i, e>>], x.wt = t
      PROVE  EndOK(x.n, x.w, w[<<i, e>>], c, e, D)
  <2>1. Rising(x.n, x.w)
    BY <1>3, <1>6, EndsFacts
  <2>2. EndOK(x.n, x.w, w[<<i, e>>], ip[<<i, t>>], e, todo[<<i, t>>])
    BY <1>6 DEF Writing
  <2>3. Moves(x.n, x.w, ip[<<i, t>>], todo[<<i, t>>], c, D, j, e)
    BY <1>6, Zenon DEF Advances
  <2>4. \A m \in 1..x.n : x.w[m] # ip[<<i, t>>]
    BY <1>6, Zenon DEF NoWrite
  <2> QED
    BY <1>3, <2>1, <2>2, <2>3, <2>4, EndOther
<1>8. ASSUME NEW a \in Nodes, NEW e \in Nodes, NEW x, x = T.link[<<round[a], a, e>>]
      PROVE  EndOK(x.n, x.w, w[<<a, e>>], ip'[<<a, x.wt>>], e, todo'[<<a, x.wt>>])
  <2>1. x.wt \in Threads
    BY <1>3, <1>8, EndsFacts
  <2>2. CASE a = i /\ x.wt = t
    BY <1>4, <1>6, <1>8, <2>2
  <2>4. CASE ~(a = i /\ x.wt = t)
    <3>2. <<a, x.wt>> \in Procs /\ <<a, x.wt>> # <<i, t>>
      BY <2>1, <2>4 DEF Procs
    <3>3. ip'[<<a, x.wt>>] = ip[<<a, x.wt>>] /\ todo'[<<a, x.wt>>] = todo[<<a, x.wt>>]
      BY <1>2, <1>3, <3>2
    <3>4. EndOK(x.n, x.w, w[<<a, e>>], ip[<<a, x.wt>>], e, todo[<<a, x.wt>>])
      BY <1>8 DEF Writing
    <3> QED
      BY <3>3, <3>4
  <2> QED
    BY <2>2, <2>4
<1> QED
  BY <1>1, <1>8, Zenon DEF Writing

\* The reader of a link reads, or a thread writes.
LEMMA ReadingServed ==
    ASSUME Types, NEW T, T = Table, NEW d \in [Nodes \X Nodes -> Nat], Reading(T, d),
           NEW i \in Nodes, NEW t \in Threads, NEW j \in Nodes, j \in todo[<<i, t>>], NEW c, NEW D,
           Advances(T, i, t, j, c, D), UNCHANGED <<setup, round>>,
           NEW m, AtRead(T, round[i], i, t, j, ip[<<i, t>>], m),
           NEW d2, IsBump(d2, d, <<j, i>>, m)
    PROVE  IsNext(d, <<j, i>>, m) /\ Reading(T, d2)'
<1>0. PICK k : k = T.link[<<round[i], j, i>>] /\ k.rt = t /\ m \in 1..k.n /\ k.r[m] = ip[<<i, t>>]
  BY Zenon DEF AtRead
<1>1. Nodes' = Nodes /\ Threads' = Threads /\ round' = round
  BY SameShape
<1>2. /\ ip' = [ip EXCEPT ![<<i, t>>] = c] /\ todo' = [todo EXCEPT ![<<i, t>>] = D] /\ c \in Nat \ {0}
  BY DEF Advances
<1>3. /\ setup \in Setups /\ round \in [Nodes -> Rounds] /\ <<i, t>> \in Procs /\ ip[<<i, t>>] \in Int /\ c \in Int
      /\ ip \in [Procs -> Nat \ {0}] /\ todo \in [Procs -> SUBSET Nodes]
  BY <1>2 DEF Types, Procs
<1>4. ip'[<<i, t>>] = c /\ todo'[<<i, t>>] = D
  BY <1>2, <1>3
<1>5. d2[<<j, i>>] = m /\ \A a, b \in Nodes : <<a, b>> # <<j, i>> => d2[<<a, b>>] = d[<<a, b>>]
  BY <1>0 DEF IsBump
<1>6. ASSUME NEW e \in Nodes, NEW x, x = T.link[<<round[i], e, i>>], x.rt = t
      PROVE  /\ e # j => EndOK(x.n, x.r, d[<<e, i>>], c, e, D)
             /\ e = j => m = d[<<e, i>>] + 1 /\ EndOK(x.n, x.r, d[<<e, i>>] + 1, c, e, D)
  <2>1. Rising(x.n, x.r)
    BY <1>3, <1>6, EndsFacts
  <2>2. EndOK(x.n, x.r, d[<<e, i>>], ip[<<i, t>>], e, todo[<<i, t>>])
    BY <1>6 DEF Reading
  <2>3. Moves(x.n, x.r, ip[<<i, t>>], todo[<<i, t>>], c, D, j, e)
    BY <1>6, Zenon DEF Advances
  <2>4. ASSUME e # j PROVE EndOK(x.n, x.r, d[<<e, i>>], c, e, D)
    BY <1>3, <2>1, <2>2, <2>3, <2>4, EndOther
  <2>5. ASSUME e = j PROVE m = d[<<e, i>>] + 1 /\ EndOK(x.n, x.r, d[<<e, i>>] + 1, c, e, D)
    <3>1. k = x
      BY <1>0, <1>6, <2>5
    <3> QED
      BY <1>0, <1>3, <2>1, <2>2, <2>3, <2>5, <3>1, EndServed
  <2> QED
    BY <2>4, <2>5
<1>7. m = d[<<j, i>>] + 1
  BY <1>0, <1>6
<1>8. ASSUME NEW a \in Nodes, NEW e \in Nodes, NEW x, x = T.link[<<round[a], e, a>>]
      PROVE  EndOK(x.n, x.r, d2[<<e, a>>], ip'[<<a, x.rt>>], e, todo'[<<a, x.rt>>])
  <2>1. x.rt \in Threads
    BY <1>3, <1>8, EndsFacts
  <2>2. CASE a = i /\ x.rt = t /\ e = j
    BY <1>4, <1>5, <1>6, <1>7, <1>8, <2>2
  <2>3. CASE a = i /\ x.rt = t /\ e # j
    <3>1. d2[<<e, a>>] = d[<<e, a>>]
      BY <1>5, <2>3
    <3> QED
      BY <1>4, <1>6, <1>8, <2>3, <3>1
  <2>4. CASE ~(a = i /\ x.rt = t)
    <3>1. <<e, a>> # <<j, i>>
      BY <1>0, <1>8, <2>4
    <3>2. <<a, x.rt>> \in Procs /\ <<a, x.rt>> # <<i, t>>
      BY <2>1, <2>4 DEF Procs
    <3>3. ip'[<<a, x.rt>>] = ip[<<a, x.rt>>] /\ todo'[<<a, x.rt>>] = todo[<<a, x.rt>>]
      BY <1>2, <1>3, <3>2
    <3>4. EndOK(x.n, x.r, d[<<e, a>>], ip[<<a, x.rt>>], e, todo[<<a, x.rt>>])
      BY <1>8 DEF Reading
    <3> QED
      BY <1>5, <3>1, <3>3, <3>4
  <2> QED
    BY <2>2, <2>3, <2>4
<1>9. Reading(T, d2)'
  BY <1>1, <1>8, Zenon DEF Reading
<1> QED
  BY <1>7, <1>9, Zenon DEF IsNext

\* A call that does not read leaves the readers' counts right.
LEMMA ReadingPasses ==
    ASSUME Types, NEW T, T = Table, NEW d, Reading(T, d),
           NEW i \in Nodes, NEW t \in Threads, NEW j \in Nodes, NEW c, NEW D,
           Advances(T, i, t, j, c, D), UNCHANGED <<setup, round>>,
           NoRead(T, round[i], i, t, ip[<<i, t>>])
    PROVE  Reading(T, d)'
<1>1. Nodes' = Nodes /\ Threads' = Threads /\ round' = round
  BY SameShape
<1>2. /\ ip' = [ip EXCEPT ![<<i, t>>] = c] /\ todo' = [todo EXCEPT ![<<i, t>>] = D] /\ c \in Nat \ {0}
  BY DEF Advances
<1>3. /\ setup \in Setups /\ round \in [Nodes -> Rounds] /\ <<i, t>> \in Procs /\ ip[<<i, t>>] \in Int /\ c \in Int
      /\ ip \in [Procs -> Nat \ {0}] /\ todo \in [Procs -> SUBSET Nodes]
  BY <1>2 DEF Types, Procs
<1>4. ip'[<<i, t>>] = c /\ todo'[<<i, t>>] = D
  BY <1>2, <1>3
<1>6. ASSUME NEW e \in Nodes, NEW x, x = T.link[<<round[i], e, i>>], x.rt = t
      PROVE  EndOK(x.n, x.r, d[<<e, i>>], c, e, D)
  <2>1. Rising(x.n, x.r)
    BY <1>3, <1>6, EndsFacts
  <2>2. EndOK(x.n, x.r, d[<<e, i>>], ip[<<i, t>>], e, todo[<<i, t>>])
    BY <1>6 DEF Reading
  <2>3. Moves(x.n, x.r, ip[<<i, t>>], todo[<<i, t>>], c, D, j, e)
    BY <1>6, Zenon DEF Advances
  <2>4. \A m \in 1..x.n : x.r[m] # ip[<<i, t>>]
    BY <1>6, Zenon DEF NoRead
  <2> QED
    BY <1>3, <2>1, <2>2, <2>3, <2>4, EndOther
<1>8. ASSUME NEW a \in Nodes, NEW e \in Nodes, NEW x, x = T.link[<<round[a], e, a>>]
      PROVE  EndOK(x.n, x.r, d[<<e, a>>], ip'[<<a, x.rt>>], e, todo'[<<a, x.rt>>])
  <2>1. x.rt \in Threads
    BY <1>3, <1>8, EndsFacts
  <2>2. CASE a = i /\ x.rt = t
    BY <1>4, <1>6, <1>8, <2>2
  <2>4. CASE ~(a = i /\ x.rt = t)
    <3>2. <<a, x.rt>> \in Procs /\ <<a, x.rt>> # <<i, t>>
      BY <2>1, <2>4 DEF Procs
    <3>3. ip'[<<a, x.rt>>] = ip[<<a, x.rt>>] /\ todo'[<<a, x.rt>>] = todo[<<a, x.rt>>]
      BY <1>2, <1>3, <3>2
    <3>4. EndOK(x.n, x.r, d[<<e, a>>], ip[<<a, x.rt>>], e, todo[<<a, x.rt>>])
      BY <1>8 DEF Reading
    <3> QED
      BY <3>3, <3>4
  <2> QED
    BY <2>2, <2>4
<1> QED
  BY <1>1, <1>8, Zenon DEF Reading

\* The counts of the table.
LEMMA CountsFacts ==
    ASSUME setup \in Setups, NEW T, T = Table, NEW i \in Nodes, NEW j \in Nodes
    PROVE  /\ MaxRounds \in Nat /\ Rounds = 1..MaxRounds
           /\ CountsT(T, <<i, j>>) \in [1..MaxRounds -> Nat]
           /\ \A r \in Rounds : CountsT(T, <<i, j>>)[r] = T.link[<<r, i, j>>].n
<1>1. T.s = setup /\ MaxRounds \in Nat /\ Rounds = 1..MaxRounds /\ MaxRounds = Len(T.s.syncs)
  BY SetupFacts, TableFacts DEF Rounds, MaxRounds
<1>2. CountsT(T, <<i, j>>) = [r \in 1..MaxRounds |-> T.link[<<r, i, j>>].n]
  BY <1>1, Zenon DEF CountsT
<1>3. \A r \in Rounds : T.link[<<r, i, j>>].n \in Nat
  BY EndsFacts
<1> QED
  BY <1>1, <1>2, <1>3

\* Where the links of every sync step start.
Starts(T, S) == \A l \in Nodes \X Nodes : StartOK(S[l], CountsT(T, l), MaxRounds)

\* What a write does to the sockets.
LEMMA FlyingSend ==
    ASSUME Types, NEW T, T = Table, NEW S, Starts(T, S),
           NEW w \in [Nodes \X Nodes -> Nat], NEW d \in [Nodes \X Nodes -> Nat], Flying(T, S, w, d),
           UNCHANGED <<setup, round>>, NEW i \in Nodes, NEW j \in Nodes, NEW x,
           chan' = [chan EXCEPT ![<<i, j>>] = Append(@, x)],
           w[<<i, j>>] + 1 <= T.link[<<round[i], i, j>>].n,
           Msg(T, round[i], i, j, w[<<i, j>>] + 1, x),
           NEW w2, IsBump(w2, w, <<i, j>>, w[<<i, j>>] + 1)
    PROVE  /\ Flying(T, S, w2, d)'
           /\ chan' = [l \in Nodes \X Nodes |-> chan'[l]] /\ \A l \in Nodes \X Nodes : IsSeq(chan'[l])
<1>1. Nodes' = Nodes /\ MaxRounds' = MaxRounds /\ round' = round
  BY SameShape
<1>2. /\ setup \in Setups /\ round \in [Nodes -> Rounds]
      /\ chan = [l \in Nodes \X Nodes |-> chan[l]] /\ \A l \in Nodes \X Nodes : IsSeq(chan[l])
  BY DEF Types
<1>3. /\ chan'[<<i, j>>] = Append(chan[<<i, j>>], x) /\ w2[<<i, j>>] = w[<<i, j>>] + 1
      /\ \A l \in Nodes \X Nodes : l # <<i, j>> => chan'[l] = chan[l] /\ w2[l] = w[l]
      /\ chan' = [l \in Nodes \X Nodes |-> chan'[l]]
  BY <1>2 DEF IsBump
<1>4. \A l \in Nodes \X Nodes : IsSeq(chan'[l])
  BY <1>2, <1>3, AppendFacts
<1>5. ASSUME NEW a \in Nodes, NEW b \in Nodes
      PROVE  FlightOK(T, a, b, S[<<a, b>>], CountsT(T, <<a, b>>), MaxRounds,
                      round[a], w2[<<a, b>>], round[b], d[<<a, b>>], chan'[<<a, b>>])
  <2>1. FlightOK(T, a, b, S[<<a, b>>], CountsT(T, <<a, b>>), MaxRounds,
                 round[a], w[<<a, b>>], round[b], d[<<a, b>>], chan[<<a, b>>])
    BY DEF Flying
  <2>2. CASE <<a, b>> # <<i, j>>
    BY <1>3, <2>1, <2>2
  <2>3. CASE <<a, b>> = <<i, j>>
    <3>0. a = i /\ b = j
      BY <2>3
    <3>1. StartOK(S[<<i, j>>], CountsT(T, <<i, j>>), MaxRounds) /\ IsSeq(chan[<<i, j>>])
      BY <1>2 DEF Starts
    <3>2. /\ MaxRounds \in Nat /\ round[i] \in 1..MaxRounds /\ round[j] \in 1..MaxRounds
          /\ CountsT(T, <<i, j>>) \in [1..MaxRounds -> Nat]
          /\ CountsT(T, <<i, j>>)[round[i]] = T.link[<<round[i], i, j>>].n
      <4>1. round[i] \in Rounds /\ round[j] \in Rounds
        BY <1>2
      <4>2. /\ MaxRounds \in Nat /\ Rounds = 1..MaxRounds
            /\ CountsT(T, <<i, j>>) \in [1..MaxRounds -> Nat]
            /\ \A r \in Rounds : CountsT(T, <<i, j>>)[r] = T.link[<<r, i, j>>].n
        <5>1. setup \in Setups
          BY <1>2, Zenon
        <5> QED
          BY <5>1, CountsFacts, ZenonT(30)
      <4> QED
        BY <4>1, <4>2
    <3>3. w[<<i, j>>] \in Nat /\ d[<<i, j>>] \in Nat
      OBVIOUS
    <3>4. w[<<i, j>>] < CountsT(T, <<i, j>>)[round[i]]
      <4>1. CountsT(T, <<i, j>>)[round[i]] \in Nat
        BY <3>2
      <4>2. \A g, h \in Nat : g + 1 <= h => g < h
        OBVIOUS
      <4> QED
        BY <3>2, <3>3, <4>1, <4>2, Zenon
    <3>5. PICK cnt, st, q, u, v, ri, rj, R :
             /\ cnt = CountsT(T, <<i, j>>) /\ st = S[<<i, j>>] /\ q = chan[<<i, j>>] /\ u = w[<<i, j>>]
             /\ v = d[<<i, j>>] /\ ri = round[i] /\ rj = round[j] /\ R = MaxRounds
      OBVIOUS
    <3>6. FlightOK(T, i, j, st, cnt, R, ri, u + 1, rj, v, Append(q, x))
      <4>1. /\ StartOK(st, cnt, R) /\ IsSeq(q) /\ R \in Nat /\ ri \in 1..R /\ rj \in 1..R
            /\ cnt \in [1..R -> Nat] /\ u \in Nat /\ v \in Nat /\ u < cnt[ri]
            /\ FlightOK(T, i, j, st, cnt, R, ri, u, rj, v, q) /\ Msg(T, ri, i, j, u + 1, x)
        BY <2>1, <3>0, <3>1, <3>2, <3>3, <3>4, <3>5
      <4> QED
        BY <4>1, FlightSend, Zenon
    <3> QED
      BY <1>3, <3>0, <3>5, <3>6
  <2> QED
    BY <2>2, <2>3
<1>6. Flying(T, S, w2, d)'
  BY <1>1, <1>5, Zenon DEF Flying
<1> QED
  BY <1>3, <1>4, <1>6

\* What a read does to the sockets, and what it gets.
LEMMA FlyingReceive ==
    ASSUME Types, NEW T, T = Table, NEW S, Starts(T, S),
           NEW w \in [Nodes \X Nodes -> Nat], NEW d \in [Nodes \X Nodes -> Nat], Flying(T, S, w, d),
           UNCHANGED <<setup, round>>, NEW i \in Nodes, NEW j \in Nodes,
           chan' = [chan EXCEPT ![<<j, i>>] = Tail(@)], chan[<<j, i>>] # <<>>,
           d[<<j, i>>] + 1 <= T.link[<<round[i], j, i>>].n,
           NEW d2, IsBump(d2, d, <<j, i>>, d[<<j, i>>] + 1)
    PROVE  /\ Flying(T, S, w, d2)'
           /\ chan' = [l \in Nodes \X Nodes |-> chan'[l]] /\ \A l \in Nodes \X Nodes : IsSeq(chan'[l])
           /\ Msg(T, round[i], j, i, d[<<j, i>>] + 1, Head(chan[<<j, i>>]))
<1>1. Nodes' = Nodes /\ MaxRounds' = MaxRounds /\ round' = round
  BY SameShape
<1>2. /\ setup \in Setups /\ round \in [Nodes -> Rounds]
      /\ chan = [l \in Nodes \X Nodes |-> chan[l]] /\ \A l \in Nodes \X Nodes : IsSeq(chan[l])
  BY DEF Types
<1>3. /\ chan'[<<j, i>>] = Tail(chan[<<j, i>>]) /\ d2[<<j, i>>] = d[<<j, i>>] + 1
      /\ \A l \in Nodes \X Nodes : l # <<j, i>> => chan'[l] = chan[l] /\ d2[l] = d[l]
      /\ chan' = [l \in Nodes \X Nodes |-> chan'[l]]
  BY <1>2 DEF IsBump
<1>4. \A l \in Nodes \X Nodes : IsSeq(chan'[l])
  BY <1>2, <1>3, TailFacts
<1>5. PICK cnt, st, q, u, v, ri, rj, R :
             /\ cnt = CountsT(T, <<j, i>>) /\ st = S[<<j, i>>] /\ q = chan[<<j, i>>] /\ u = w[<<j, i>>]
             /\ v = d[<<j, i>>] /\ ri = round[i] /\ rj = round[j] /\ R = MaxRounds
  OBVIOUS
<1>6. /\ Msg(T, ri, j, i, v + 1, Head(q))
      /\ FlightOK(T, j, i, st, cnt, R, rj, u, ri, v + 1, Tail(q))
  <2>1. FlightOK(T, j, i, st, cnt, R, rj, u, ri, v, q)
    BY <1>5 DEF Flying
  <2>2. StartOK(st, cnt, R) /\ IsSeq(q) /\ q # <<>> /\ u \in Nat /\ v \in Nat
    BY <1>2, <1>5 DEF Starts
  <2>3. R \in Nat /\ ri \in 1..R /\ rj \in 1..R /\ cnt \in [1..R -> Nat] /\ v < cnt[ri]
    <3>1. /\ MaxRounds \in Nat /\ round[i] \in 1..MaxRounds /\ round[j] \in 1..MaxRounds
          /\ CountsT(T, <<j, i>>) \in [1..MaxRounds -> Nat]
          /\ CountsT(T, <<j, i>>)[round[i]] = T.link[<<round[i], j, i>>].n
      <4>1. round[i] \in Rounds /\ round[j] \in Rounds
        BY <1>2
      <4>2. /\ MaxRounds \in Nat /\ Rounds = 1..MaxRounds
            /\ CountsT(T, <<j, i>>) \in [1..MaxRounds -> Nat]
            /\ \A r \in Rounds : CountsT(T, <<j, i>>)[r] = T.link[<<r, j, i>>].n
        <5>1. setup \in Setups
          BY <1>2, Zenon
        <5> QED
          BY <5>1, CountsFacts, ZenonT(30)
      <4> QED
        BY <4>1, <4>2
    <3>2. R \in Nat /\ ri \in 1..R /\ rj \in 1..R /\ cnt \in [1..R -> Nat] /\ cnt[ri] \in Nat /\ v + 1 <= cnt[ri]
      BY <1>5, <3>1
    <3>3. \A x, y \in Nat : x + 1 <= y => x < y
      OBVIOUS
    <3> QED
      BY <2>2, <3>2, <3>3
  <2> QED
    BY <2>1, <2>2, <2>3, FlightReceive, Zenon
<1>7. ASSUME NEW a \in Nodes, NEW b \in Nodes
      PROVE  FlightOK(T, a, b, S[<<a, b>>], CountsT(T, <<a, b>>), MaxRounds,
                      round[a], w[<<a, b>>], round[b], d2[<<a, b>>], chan'[<<a, b>>])
  <2>1. FlightOK(T, a, b, S[<<a, b>>], CountsT(T, <<a, b>>), MaxRounds,
                 round[a], w[<<a, b>>], round[b], d[<<a, b>>], chan[<<a, b>>])
    BY DEF Flying
  <2>2. CASE <<a, b>> # <<j, i>>
    BY <1>3, <2>1, <2>2
  <2>3. CASE <<a, b>> = <<j, i>>
    BY <1>3, <1>5, <1>6, <2>3
  <2> QED
    BY <2>2, <2>3
<1>8. Flying(T, S, w, d2)'
  BY <1>1, <1>7, Zenon DEF Flying
<1> QED
  BY <1>3, <1>4, <1>5, <1>6, <1>8

-----------------------------------------------------------------------------
(* What is in a transfer.                                                  *)

\* The calls of transfer m of a link, k being the link's ends.
CallOK(r, i, j, k, m) ==
    /\ Linked(r, i, j) /\ m \in Nat \ {0}
    /\ Kind(r) \in {"root", "gather", "reduce"} => k.w[m] = m /\ k.r[m] = m
    /\ Kind(r) = "batch" => k.w[m] = 2 * m - 1 /\ k.r[m] = 2 * m
    /\ Kind(r) = "star" => LET c == IF i = tpGroupStart(i) THEN 2 * m ELSE 2 * m - 1
                           IN  k.w[m] = c /\ k.r[m] = c
    /\ Kind(r) = "kv" =>
         /\ m \in {1, 2}
         /\ k.w[m] = 4 * spRank(j) + (IF spRank(i) < spRank(j) THEN 0 ELSE 2) + m
         /\ k.r[m] = 4 * spRank(i) + (IF spRank(j) < spRank(i) THEN 2 ELSE 0) + m
    /\ Kind(r) \notin {"kv", "ring"} => m <= setup.syncs[r].batchSize

\* Every transfer of the table has the calls that CallOK says.
LEMMA CallsOf ==
    ASSUME setup \in Setups, NEW T, T = Table, NEW r \in Rounds, NEW i \in Nodes, NEW j \in Nodes,
           NEW k, k = T.link[<<r, i, j>>], NEW m \in 1..k.n
    PROVE  CallOK(r, i, j, k, m)
<1>1. PICK x : x = Link(r, i, j)
  OBVIOUS
<1>2. k = Ends(x)
  BY <1>1, TableFacts
<1>3. /\ k.n = x.n /\ k.w = [a \in 1..x.n |-> x.wb + x.st * a] /\ k.r = [a \in 1..x.n |-> x.rb + x.st * a]
  BY <1>2 DEF Ends
<1>4. /\ k.w[m] = x.wb + x.st * m /\ k.r[m] = x.rb + x.st * m /\ m \in 1..x.n
  BY <1>3
<1>5. x.n \in Nat /\ x.wb \in Int /\ x.rb \in Int
  BY <1>1, LinkTypes DEF LinkOK
<1>6. m \in Nat \ {0} /\ x.n # 0
  BY <1>4, <1>5
<1>7. x.n = Count(r, i, j) /\ x.st = Stride(r) /\ x.wb = WBase(r, i, j) /\ x.rb = RBase(r, i, j)
  BY <1>1 DEF Link
<1>8. Linked(r, i, j)
  BY <1>6, <1>7 DEF Count
<1>14. Kind(r) # "idle"
  BY <1>8, Zenon DEF Linked
<1>9. CASE Kind(r) \in {"root", "gather", "reduce"}
  <2>1. x.st = 1 /\ x.wb = 0 /\ x.rb = 0 /\ x.n = setup.syncs[r].batchSize
    BY <1>7, <1>8, <1>9 DEF Count, Stride, WBase, RBase
  <2> QED
    BY <1>4, <1>6, <1>8, <1>9, <2>1, SyncFacts DEF CallOK
<1>10. CASE Kind(r) = "batch"
  <2>1. x.st = 2 /\ x.wb = -1 /\ x.rb = 0 /\ x.n = setup.syncs[r].batchSize
    BY <1>7, <1>8, <1>10 DEF Count, Stride, WBase, RBase
  <2> QED
    BY <1>4, <1>6, <1>8, <1>10, <2>1, SyncFacts DEF CallOK
<1>11. CASE Kind(r) = "star"
  <2>1. /\ x.st = 2 /\ x.wb = (IF i = tpGroupStart(i) THEN 0 ELSE -1) /\ x.rb = x.wb /\ x.n = setup.syncs[r].batchSize
    BY <1>7, <1>8, <1>11 DEF Count, Stride, WBase, RBase
  <2> QED
    BY <1>4, <1>6, <1>8, <1>11, <2>1, SyncFacts DEF CallOK
<1>12. CASE Kind(r) = "kv"
  <2>1. PICK a, b : a = spRank(i) /\ b = spRank(j)
    OBVIOUS
  <2>2. a \in Nat /\ b \in Nat
    <3>1. 0 \in SpRanks /\ setup.spSize \in Nat
      BY SetupFacts DEF SpRanks
    <3> QED
      BY <2>1, <3>1, SpPeerFacts DEF SpRanks
  <2>3. x.st = 1 /\ x.wb = 4 * b + (IF a < b THEN 0 ELSE 2) /\ x.rb = 4 * a + (IF b < a THEN 2 ELSE 0) /\ x.n = 2
    BY <1>7, <1>8, <1>12, <2>1 DEF Count, Stride, WBase, RBase
  <2>4. m \in {1, 2}
    BY <1>4, <2>3
  <2>5. /\ x.wb + x.st * m = 4 * b + (IF a < b THEN 0 ELSE 2) + m
        /\ x.rb + x.st * m = 4 * a + (IF b < a THEN 2 ELSE 0) + m
    BY <1>6, <2>2, <2>3, SMT
  <2> QED
    BY <1>4, <1>6, <1>8, <1>12, <2>1, <2>4, <2>5 DEF CallOK
<1>13. CASE Kind(r) = "ring"
  BY <1>6, <1>8, <1>13 DEF CallOK
<1> QED
  BY <1>9, <1>10, <1>11, <1>12, <1>13, <1>14, KindFacts

\* The cells that i sends in transfer m, which are those it is stored in.
CellsOf(r, i, m) ==
    IF Kind(r) \in {"gather", "batch"} THEN <<<<i, m - 1>>>>
    ELSE IF Kind(r) = "kv" THEN KvRows(IF m = 1 THEN "k" ELSE "v", ActiveRange(r, spRank(i)))
    ELSE RowCells(m - 1)

\* The root's and the workers' call for row m - 1.
LEMMA RootProgram ==
    ASSUME setup \in Setups, NEW r \in Rounds, Kind(r) = "root", NEW i, NEW t, NEW m \in Nat \ {0}
    PROVE  Program(r, i, t, m) = SyncWithRoot(i, t, m - 1)
<1>1. (m - 1) \div 1 = m - 1
  BY SMT
<1>2. SyncType(r) = "WITH_ROOT" /\ CallsPerRow(r) = 1 /\ ~UsesBatch(r)
  BY KindFacts DEF CallsPerRow, UsesBatch
<1> QED
  BY <1>1, <1>2 DEF Program

\* The reduction's only call for row m - 1.
LEMMA ReduceProgram ==
    ASSUME setup \in Setups, NEW r \in Rounds, Kind(r) = "reduce", NEW i, NEW t, NEW m \in Nat \ {0}
    PROVE  Program(r, i, t, m) = StarAllReduce(i, 1, m - 1)
<1>1. (m - 1) \div 1 = m - 1 /\ ((m - 1) % 1) + 1 = 1
  BY SMT
<1>2. SyncType(r) \notin {"SP_KV", "WITH_ROOT"} /\ ~UsesBatch(r) /\ ~UsesRing(r) /\ CallsPerRow(r) = 1
  BY KindFacts DEF CallsPerRow
<1> QED
  BY <1>1, <1>2 DEF Program

\* The star's two calls for row m - 1.
LEMMA StarProgram ==
    ASSUME setup \in Setups, NEW r \in Rounds, Kind(r) = "star", NEW i, NEW t, NEW m \in Nat \ {0}
    PROVE  /\ Program(r, i, t, 2 * m - 1) = StarAllReduce(i, 1, m - 1)
           /\ Program(r, i, t, 2 * m) = StarAllReduce(i, 2, m - 1)
<1>1. /\ ((2 * m - 1) - 1) \div 2 = m - 1 /\ (((2 * m - 1) - 1) % 2) + 1 = 1
      /\ ((2 * m) - 1) \div 2 = m - 1 /\ (((2 * m) - 1) % 2) + 1 = 2
  BY SMT
<1>2. SyncType(r) \notin {"SP_KV", "WITH_ROOT"} /\ ~UsesBatch(r) /\ ~UsesRing(r) /\ CallsPerRow(r) = 2
  BY KindFacts DEF CallsPerRow
<1>3. \A c : Program(r, i, t, c) = StarAllReduce(i, ((c - 1) % 2) + 1, (c - 1) \div 2)
  BY <1>2 DEF Program
<1>4. Program(r, i, t, 2 * m - 1) = StarAllReduce(i, 1, m - 1)
  BY <1>1, <1>3
<1>5. Program(r, i, t, 2 * m) = StarAllReduce(i, 2, m - 1)
  BY <1>1, <1>3
<1> QED
  BY <1>4, <1>5

\* The root's and the workers' call for piece m - 1 of the batch without an answer.
LEMMA GatherProgram ==
    ASSUME setup \in Setups, NEW r \in Rounds, Kind(r) = "gather", NEW i, NEW t, NEW m \in Nat \ {0}
    PROVE  Program(r, i, t, m) = IF i = 0 THEN ReadPiece(r, i, t, m - 1) ELSE WritePiece(r, i, t, m - 1)
<1>1. SyncType(r) \notin {"SP_KV", "WITH_ROOT"} /\ UsesBatch(r) /\ OnlyToRoot(r)
  BY KindFacts
<1> QED
  BY <1>1 DEF Program, SyncNodeSlicesBatched

\* The batch's two calls for piece m - 1.
LEMMA BatchProgram ==
    ASSUME setup \in Setups, NEW r \in Rounds, Kind(r) = "batch", NEW i, NEW t, NEW m \in Nat \ {0}
    PROVE  /\ Program(r, i, t, 2 * m - 1) = WritePiece(r, i, t, m - 1)
           /\ Program(r, i, t, 2 * m) = ReadPiece(r, i, t, m - 1)
<1>1. /\ ((2 * m - 1) - 1) \div 2 = m - 1 /\ (2 * m - 1) % 2 = 1
      /\ ((2 * m) - 1) \div 2 = m - 1 /\ (2 * m) % 2 = 0
  BY SMT
<1>2. SyncType(r) \notin {"SP_KV", "WITH_ROOT"} /\ UsesBatch(r) /\ ~OnlyToRoot(r)
  BY KindFacts
<1>3. \A c : Program(r, i, t, c) = SyncNodeSlicesBatched(r, i, t, c)
  BY <1>2 DEF Program
<1>4. \A c : SyncNodeSlicesBatched(r, i, t, c) =
         IF c % 2 = 1 THEN WritePiece(r, i, t, (c - 1) \div 2) ELSE ReadPiece(r, i, t, (c - 1) \div 2)
  BY <1>2 DEF SyncNodeSlicesBatched
<1>5. Program(r, i, t, 2 * m - 1) = WritePiece(r, i, t, m - 1)
  BY <1>1, <1>3, <1>4
<1>6. Program(r, i, t, 2 * m) = ReadPiece(r, i, t, m - 1)
  BY <1>1, <1>3, <1>4
<1> QED
  BY <1>5, <1>6

\* Transfer m is made of the cells that CellsOf says.
LEMMA CellsWritten ==
    ASSUME setup \in Setups, NEW T, T = Table, NEW r \in Rounds, NEW i \in Nodes, NEW j \in Nodes,
           NEW k, k = T.link[<<r, i, j>>], NEW m \in 1..k.n, Kind(r) # "ring"
    PROVE  Program(r, i, k.wt, k.w[m]).io[j] = CellsOf(r, i, m)
<1>1. PICK t, c : t = k.wt /\ c = k.w[m]
  OBVIOUS
<1>2. t \in Threads /\ c \in Nat \ {0}
  BY <1>1, EndsFacts
<1>3. j \in Peers(r, i, t, c)
  BY <1>1, <1>2, PeersFacts
<1>4. j \in DOMAIN Program(r, i, t, c).io
  BY <1>3 DEF Peers
<1>0. CallOK(r, i, j, k, m)
  BY CallsOf
<1>5. m \in Nat \ {0} /\ Linked(r, i, j)
  BY <1>0 DEF CallOK
<1>12. Kind(r) # "idle"
  BY <1>5, Zenon DEF Linked
<1>6. CASE Kind(r) = "root"
  <2>1. c = m /\ i = 0
    BY <1>0, <1>1, <1>5, <1>6 DEF CallOK, Linked
  <2>2. Program(r, i, t, c) = SyncWithRoot(i, t, m - 1)
    <3>1. Program(r, i, t, m) = SyncWithRoot(i, t, m - 1)
      BY <1>5, <1>6, RootProgram, Zenon
    <3> QED
      BY <2>1, <3>1, Zenon
  <2> QED
    BY <1>1, <1>4, <1>6, <2>1, <2>2 DEF SyncWithRoot, Call, CellsOf
<1>7. CASE Kind(r) = "reduce"
  <2>1. c = m
    BY <1>0, <1>1, <1>7 DEF CallOK
  <2>2. Program(r, i, t, c) = StarAllReduce(i, 1, m - 1)
    <3>1. Program(r, i, t, m) = StarAllReduce(i, 1, m - 1)
      BY <1>5, <1>7, ReduceProgram, Zenon
    <3> QED
      BY <2>1, <3>1, Zenon
  <2> QED
    BY <1>1, <1>4, <1>7, <2>2 DEF StarAllReduce, Call, CellsOf
<1>8. CASE Kind(r) = "star"
  <2>1. c = 2 * m \/ c = 2 * m - 1
    BY <1>0, <1>1, <1>8 DEF CallOK
  <2>2. PICK e : Program(r, i, t, c) = StarAllReduce(i, e, m - 1)
    <3>1. /\ Program(r, i, t, 2 * m - 1) = StarAllReduce(i, 1, m - 1)
          /\ Program(r, i, t, 2 * m) = StarAllReduce(i, 2, m - 1)
      BY <1>5, <1>8, StarProgram, Zenon
    <3> QED
      BY <2>1, <3>1, Zenon
  <2> QED
    BY <1>1, <1>4, <1>8, <2>2 DEF StarAllReduce, Call, CellsOf
<1>9. CASE Kind(r) = "gather"
  <2>1. c = m /\ i # 0
    BY <1>0, <1>1, <1>5, <1>9 DEF CallOK, Linked
  <2>2. Program(r, i, t, c) = WritePiece(r, i, t, m - 1)
    <3>1. Program(r, i, t, m) = IF i = 0 THEN ReadPiece(r, i, t, m - 1) ELSE WritePiece(r, i, t, m - 1)
      BY <1>5, <1>9, GatherProgram, Zenon
    <3> QED
      BY <2>1, <3>1, Zenon
  <2> QED
    BY <1>1, <1>4, <1>9, <2>2 DEF WritePiece, Call, CellsOf
<1>10. CASE Kind(r) = "batch"
  <2>1. c = 2 * m - 1
    BY <1>0, <1>1, <1>10 DEF CallOK
  <2>2. Program(r, i, t, c) = WritePiece(r, i, t, m - 1)
    <3>1. Program(r, i, t, 2 * m - 1) = WritePiece(r, i, t, m - 1)
      BY <1>5, <1>10, BatchProgram, Zenon
    <3> QED
      BY <2>1, <3>1, Zenon
  <2> QED
    BY <1>1, <1>4, <1>10, <2>2 DEF WritePiece, Call, CellsOf
<1>11. CASE Kind(r) = "kv"
  <2>1. PICK a, b : a = spRank(i) /\ b = spRank(j)
    OBVIOUS
  <2>2. a \in Nat /\ b \in Nat
    <3>1. 0 \in SpRanks /\ setup.spSize \in Nat
      BY SetupFacts DEF SpRanks
    <3> QED
      BY <2>1, <3>1, SpPeerFacts DEF SpRanks
  <2>3. m \in {1, 2} /\ c = 4 * b + (IF a < b THEN 0 ELSE 2) + m
    BY <1>0, <1>1, <1>11, <2>1 DEF CallOK
  <2>4. /\ (c - 1) \div 4 = b
        /\ (c - 1) % 4 = (IF a < b THEN 0 ELSE 2) + (m - 1)
    BY <2>2, <2>3, SMT
  <2>5. /\ (((c - 1) % 4 < 2) = (a < b)) /\ (((c - 1) % 4) % 2 = 0 <=> m = 1)
    BY <2>2, <2>3, <2>4, SMT
  <2>6. SyncType(r) = "SP_KV"
    BY <1>11, KindFacts
  <2>7. Program(r, i, t, c) = SyncSpKv(r, i, c)
    BY <2>6 DEF Program, UsesBatch
  <2>8. SyncSpKv(r, i, c).io[j] = KvRows(IF m = 1 THEN "k" ELSE "v", ActiveRange(r, a))
    BY <1>4, <2>1, <2>4, <2>5, <2>7 DEF SyncSpKv, Call
  <2> QED
    BY <1>1, <1>11, <2>1, <2>7, <2>8 DEF CellsOf
<1> QED
  BY <1>6, <1>7, <1>8, <1>9, <1>10, <1>11, <1>12, KindFacts

\* What the calls of the star read and write.
LEMMA StarCall ==
    ASSUME NEW i, NEW row
    PROVE  /\ StarAllReduce(i, 1, row).reduce = (i = tpGroupStart(i))
           /\ StarAllReduce(i, 2, row).reduce = FALSE
           /\ \A e : \A j \in DOMAIN StarAllReduce(i, e, row).io : StarAllReduce(i, e, row).io[j] = RowCells(row)
<1>1. \A e : StarAllReduce(i, e, row).reduce = (i = tpGroupStart(i) /\ e = 1)
  BY Zenon DEF StarAllReduce, Call
<1>2. (i = tpGroupStart(i) /\ 1 = 1) = (i = tpGroupStart(i))
  BY Zenon
<1>3. (i = tpGroupStart(i) /\ 2 = 1) = FALSE
  BY SMT
<1>4. \A e : \A j \in DOMAIN StarAllReduce(i, e, row).io : StarAllReduce(i, e, row).io[j] = RowCells(row)
  BY DEF StarAllReduce, Call
<1> QED
  BY <1>1, <1>2, <1>3, <1>4, Zenon

\* Transfer m is stored in the same cells, and added by a root only.
LEMMA CellsRead ==
    ASSUME setup \in Setups, NEW T, T = Table, NEW r \in Rounds, NEW i \in Nodes, NEW j \in Nodes,
           NEW k, k = T.link[<<r, j, i>>], NEW m \in 1..k.n, Kind(r) # "ring"
    PROVE  /\ Program(r, i, k.rt, k.r[m]).io[j] = CellsOf(r, j, m)
           /\ Program(r, i, k.rt, k.r[m]).reduce <=> Kind(r) \in {"reduce", "star"} /\ i = tpGroupStart(i)
<1>1. PICK t, c : t = k.rt /\ c = k.r[m]
  OBVIOUS
<1>2. t \in Threads /\ c \in Nat \ {0}
  BY <1>1, EndsFacts
<1>3. j \in Peers(r, i, t, c)
  BY <1>1, <1>2, PeersFacts
<1>4. j \in DOMAIN Program(r, i, t, c).io
  BY <1>3 DEF Peers
<1>0. CallOK(r, j, i, k, m)
  BY CallsOf
<1>5. m \in Nat \ {0} /\ Linked(r, j, i)
  BY <1>0 DEF CallOK
<1>13. Kind(r) # "idle"
  BY <1>5, Zenon DEF Linked
<1>6. CASE Kind(r) = "root"
  <2>1. c = m /\ i # 0
    BY <1>0, <1>1, <1>5, <1>6 DEF CallOK, Linked
  <2>2. Program(r, i, t, c) = SyncWithRoot(i, t, m - 1)
    <3>1. Program(r, i, t, m) = SyncWithRoot(i, t, m - 1)
      BY <1>5, <1>6, RootProgram, Zenon
    <3> QED
      BY <2>1, <3>1, Zenon
  <2> QED
    BY <1>1, <1>4, <1>6, <2>1, <2>2 DEF SyncWithRoot, Call, CellsOf
<1>7. CASE Kind(r) = "reduce"
  <2>1. c = m /\ i = tpGroupStart(j)
    BY <1>0, <1>1, <1>5, <1>7 DEF CallOK, Linked
  <2>2. Program(r, i, t, c) = StarAllReduce(i, 1, m - 1)
    <3>1. Program(r, i, t, m) = StarAllReduce(i, 1, m - 1)
      BY <1>5, <1>7, ReduceProgram, Zenon
    <3> QED
      BY <2>1, <3>1, Zenon
  <2>3. CellsOf(r, j, m) = RowCells(m - 1)
    BY <1>7 DEF CellsOf
  <2>4. Program(r, i, t, c).io[j] = CellsOf(r, j, m)
    BY <1>4, <2>2, <2>3 DEF StarAllReduce, Call
  <2>5. Program(r, i, t, c).reduce <=> i = tpGroupStart(i)
    BY <2>2, StarCall
  <2> QED
    BY <1>1, <1>7, <2>4, <2>5
<1>8. CASE Kind(r) = "star"
  <2>0. CellsOf(r, j, m) = RowCells(m - 1)
    BY <1>8 DEF CellsOf
  <2>1. c = IF j = tpGroupStart(j) THEN 2 * m ELSE 2 * m - 1
    BY <1>0, <1>1, <1>8 DEF CallOK
  <2>2. j # i /\ (i = tpGroupStart(j) \/ j = tpGroupStart(i))
    BY <1>5, <1>8 DEF Linked
  <2>3. CASE j = tpGroupStart(j)
    <3>1. Program(r, i, t, c) = StarAllReduce(i, 2, m - 1)
      <4>1. /\ Program(r, i, t, 2 * m - 1) = StarAllReduce(i, 1, m - 1)
            /\ Program(r, i, t, 2 * m) = StarAllReduce(i, 2, m - 1)
        BY <1>5, <1>8, StarProgram, Zenon
      <4> QED
        BY <2>1, <2>3, <4>1, Zenon
    <3>2. i # tpGroupStart(i)
      BY <2>2, <2>3
    <3>4. Program(r, i, t, c).io[j] = CellsOf(r, j, m)
      BY <1>4, <2>0, <3>1 DEF StarAllReduce, Call
    <3>5. Program(r, i, t, c).reduce <=> i = tpGroupStart(i)
      BY <3>1, <3>2, StarCall
    <3> QED
      BY <1>1, <1>8, <3>4, <3>5
  <2>4. CASE j # tpGroupStart(j)
    <3>1. Program(r, i, t, c) = StarAllReduce(i, 1, m - 1)
      <4>1. /\ Program(r, i, t, 2 * m - 1) = StarAllReduce(i, 1, m - 1)
            /\ Program(r, i, t, 2 * m) = StarAllReduce(i, 2, m - 1)
        BY <1>5, <1>8, StarProgram, Zenon
      <4> QED
        BY <2>1, <2>4, <4>1, Zenon
    <3>2. i = tpGroupStart(i)
      BY <2>2, <2>4, RootsRoot
    <3>4. Program(r, i, t, c).io[j] = CellsOf(r, j, m)
      BY <1>4, <2>0, <3>1 DEF StarAllReduce, Call
    <3>5. Program(r, i, t, c).reduce <=> i = tpGroupStart(i)
      BY <3>1, <3>2, StarCall
    <3> QED
      BY <1>1, <1>8, <3>4, <3>5
  <2> QED
    BY <2>3, <2>4
<1>12. CASE Kind(r) \in {"gather", "batch"}
  <2>1. Program(r, i, t, c) = ReadPiece(r, i, t, m - 1)
    <3>1. CASE Kind(r) = "gather"
      <4>1. c = m /\ i = 0
        BY <1>0, <1>1, <1>5, <3>1 DEF CallOK, Linked
      <4> QED
        <5>1. Program(r, i, t, m) = IF i = 0 THEN ReadPiece(r, i, t, m - 1) ELSE WritePiece(r, i, t, m - 1)
          BY <1>5, <3>1, GatherProgram, Zenon
        <5> QED
          BY <4>1, <5>1, Zenon
    <3>2. CASE Kind(r) = "batch"
      <4>1. c = 2 * m
        BY <1>0, <1>1, <3>2 DEF CallOK
      <4> QED
        <5>1. /\ Program(r, i, t, 2 * m - 1) = WritePiece(r, i, t, m - 1)
              /\ Program(r, i, t, 2 * m) = ReadPiece(r, i, t, m - 1)
          BY <1>5, <3>2, BatchProgram, Zenon
        <5> QED
          BY <4>1, <5>1, Zenon
    <3> QED
      BY <1>12, <3>1, <3>2
  <2>2. SliceOfSocket(i, PeerSocket(i, j)) = j
    <3>1. i \in Nat /\ j \in Nat /\ i # j
      BY <1>5, GroupFacts DEF Linked
    <3> QED
      BY <3>1 DEF SliceOfSocket, PeerSocket
  <2> QED
    BY <1>1, <1>4, <1>12, <2>1, <2>2 DEF ReadPiece, Call, CellsOf
<1>11. CASE Kind(r) = "kv"
  <2>1. PICK a, b : a = spRank(i) /\ b = spRank(j)
    OBVIOUS
  <2>2. a \in Nat /\ b \in Nat
    <3>1. 0 \in SpRanks /\ setup.spSize \in Nat
      BY SetupFacts DEF SpRanks
    <3> QED
      BY <2>1, <3>1, SpPeerFacts DEF SpRanks
  <2>3. m \in {1, 2} /\ c = 4 * b + (IF a < b THEN 2 ELSE 0) + m
    BY <1>0, <1>1, <1>11, <2>1 DEF CallOK
  <2>0. a # b
    <3>1. i # j /\ i = SpPeer(j, a) /\ a \in SpRanks
      <4>1. 0 \in SpRanks
        BY SetupFacts DEF SpRanks
      <4> QED
        BY <1>5, <1>11, <2>1, <4>1, SpPeerFacts DEF Linked
    <3> QED
      BY <2>1, <3>1, SpPeerFacts
  <2>4. /\ (c - 1) \div 4 = b
        /\ (c - 1) % 4 = (IF a < b THEN 2 ELSE 0) + (m - 1)
    BY <2>2, <2>3, SMT
  <2>5. /\ ~(((c - 1) % 4 < 2) = (a < b)) /\ (((c - 1) % 4) % 2 = 0 <=> m = 1)
    BY <2>0, <2>2, <2>3, <2>4, SMT
  <2>6. SyncType(r) = "SP_KV"
    BY <1>11, KindFacts
  <2>7. Program(r, i, t, c) = SyncSpKv(r, i, c)
    BY <2>6 DEF Program, UsesBatch
  <2>8. SyncSpKv(r, i, c).io[j] = KvRows(IF m = 1 THEN "k" ELSE "v", ActiveRange(r, b))
    BY <1>4, <2>1, <2>4, <2>5, <2>7 DEF SyncSpKv, Call
  <2>9. SyncSpKv(r, i, c).reduce = FALSE
    BY DEF SyncSpKv, Call
  <2> QED
    BY <1>1, <1>11, <2>1, <2>7, <2>8, <2>9 DEF CellsOf
<1> QED
  BY <1>6, <1>7, <1>8, <1>11, <1>12, <1>13, KindFacts

-----------------------------------------------------------------------------
(* Positions and blocks.                                                   *)

\* The position pipe holds the positions of the batch, and older ones behind it.
LEMMA PositionFacts ==
    ASSUME setup \in Setups, NEW r \in Rounds, NEW b \in Int
    PROVE  /\ PositionAt(r, b) \in Int
           /\ b \in Nat => PositionAt(r, b) \in Nat
           /\ b < setup.syncs[r].batchSize => PositionAt(r, b) = setup.syncs[r].position + b
<1> DEFINE written == {k \in 1..r : setup.syncs[k].batchSize > b}
<1>1. r \in Nat /\ r \in 1..r /\ 1..r \subseteq Rounds
  BY SetupFacts DEF Rounds
<1>2. \A k \in 1..r : setup.syncs[k].batchSize \in Nat /\ setup.syncs[k].position \in Nat
  BY <1>1, SyncFacts
<1>3. CASE written = {}
  <2>1. PositionAt(r, b) = 0
    BY <1>3 DEF PositionAt
  <2>2. ~(b < setup.syncs[r].batchSize)
    BY <1>1, <1>2, <1>3
  <2> QED
    BY <2>1, <2>2
<1>4. CASE written # {}
  <2>0. PICK k : k = CHOOSE e \in written : \A l \in written : l <= e
    OBVIOUS
  <2>1. k \in written /\ \A l \in written : l <= k
    <3>1. written \in SUBSET (0..r)
      BY <1>1
    <3> HIDE DEF written
    <3>2. \E x \in written : \A l \in written : l <= x
      BY <1>1, <1>4, <3>1, NatGreatest
    <3> QED
      BY <2>0, <3>2, Zenon
  <2>2. PositionAt(r, b) = setup.syncs[k].position + b
    BY <1>4, <2>0, Zenon DEF PositionAt
  <2>3. k \in 1..r /\ setup.syncs[k].position \in Nat
    BY <1>2, <2>1
  <2>4. b < setup.syncs[r].batchSize => k = r
    <3> SUFFICES ASSUME b < setup.syncs[r].batchSize PROVE k = r
      OBVIOUS
    <3>1. r \in written
      BY <1>1, <1>2
    <3> QED
      BY <1>1, <2>1, <2>3, <3>1
  <2> QED
    BY <2>2, <2>3, <2>4
<1> QED
  BY <1>3, <1>4

\* The blocks of the ranks are one behind the other and make up the rows.
LEMMA BlockFacts ==
    ASSUME setup \in Setups, NEW n \in Nat \ {0}
    PROVE  /\ \A q \in SpRanks : /\ Block(n, q).first \in Nat /\ Block(n, q).count \in Nat
                                 /\ Block(n, q).first + Block(n, q).count <= n
                                 /\ n >= setup.spSize => Block(n, q).count >= 1
           /\ \A y \in 0..(n - 1) : \E q \in SpRanks :
                Block(n, q).first <= y /\ y < Block(n, q).first + Block(n, q).count
<1>1. PICK z : z = setup.spSize
  OBVIOUS
<1>2. z \in Nat \ {0} /\ SpRanks = 0..(z - 1)
  BY <1>1, SetupFacts DEF SpRanks
<1>3. PICK base \in Nat, rem \in 0..(z - 1) : n \div z = base /\ n % z = rem /\ n = base * z + rem
  BY <1>2, DivMod
<1> DEFINE F(q) == q * base + (IF q < rem THEN q ELSE rem)
<1>4. ASSUME NEW q \in 0..(z - 1)
      PROVE  /\ Block(n, q).first = F(q) /\ Block(n, q).count = base + (IF q < rem THEN 1 ELSE 0)
             /\ F(q) \in Nat /\ Block(n, q).count \in Nat /\ F(q) + Block(n, q).count = F(q + 1)
             /\ F(q + 1) \in Nat
  <2>1. Block(n, q).first = F(q) /\ Block(n, q).count = base + (IF q < rem THEN 1 ELSE 0)
    BY <1>1, <1>3 DEF Block
  <2>2. PICK x \in Nat : x = q * base
    BY <1>3, SMT
  <2>3. (q + 1) * base = x + base
    BY <1>3, <2>2, SMT
  <2> QED
    BY <1>2, <1>3, <2>1, <2>2, <2>3
<1>5. F(0) = 0 /\ F(z) = n
  <2>1. 0 * base = 0 /\ z * base = base * z /\ base * z \in Nat
    BY <1>2, <1>3, SMT
  <2> QED
    BY <1>2, <1>3, <2>1
<1>6. ASSUME NEW q \in 0..(z - 1) PROVE F(q + 1) <= n
  <2>1. PICK x \in Nat, y \in Nat : x = (q + 1) * base /\ y = z * base
    BY <1>2, <1>3, SMT
  <2>2. x <= y
    <3>1. CASE q + 1 = z
      BY <2>1, <3>1
    <3>2. CASE q + 1 < z
      <4>1. (q + 1) * base + base <= z * base
        BY <1>2, <1>3, <3>2, MulMono
      <4> QED
        BY <1>3, <2>1, <4>1
    <3> QED
      BY <1>2, <3>1, <3>2
  <2>3. base * z = y
    BY <1>2, <1>3, <2>1, SMT
  <2> QED
    BY <1>2, <1>3, <2>1, <2>2, <2>3
<1>7. n >= z => base >= 1
  <2> SUFFICES ASSUME base = 0 PROVE n < z
    BY <1>2, <1>3
  <2>1. base * z = 0
    BY <1>2
  <2> QED
    BY <1>2, <1>3, <2>1
<1>8. ASSUME NEW y \in 0..(n - 1) PROVE \E q \in 0..(z - 1) : F(q) <= y /\ y < F(q + 1)
  <2> HIDE DEF F
  <2> DEFINE D == {q \in 0..(z - 1) : F(q) <= y}
  <2>1. 0 \in D /\ D \in SUBSET (0..(z - 1)) /\ z - 1 \in Nat
    BY <1>2, <1>5
  <2>2. PICK q \in D : \A e \in D : e <= q
    <3> HIDE DEF D
    <3> QED
      BY <2>1, NatGreatest
  <2>3. q \in 0..(z - 1) /\ F(q) <= y
    BY <2>2
  <2>4. y < F(q + 1)
    <3>1. CASE q = z - 1
      <4>1. q + 1 = z
        BY <1>2, <3>1
      <4> QED
        BY <1>5, <4>1
    <3>2. CASE q # z - 1
      <4>1. q + 1 \in 0..(z - 1) /\ ~(q + 1 <= q)
        BY <1>2, <2>3, <3>2
      <4>2. ~(F(q + 1) <= y)
        BY <2>2, <4>1
      <4>3. F(q + 1) \in Nat
        BY <1>4, <2>3
      <4> QED
        BY <4>2, <4>3
    <3> QED
      BY <3>1, <3>2
  <2> QED
    BY <2>3, <2>4
<1> HIDE DEF F
<1>9. ASSUME NEW q \in SpRanks
      PROVE  /\ Block(n, q).first \in Nat /\ Block(n, q).count \in Nat
             /\ Block(n, q).first + Block(n, q).count <= n
             /\ n >= setup.spSize => Block(n, q).count >= 1
  <2>1. q \in 0..(z - 1)
    BY <1>2
  <2>2. n >= setup.spSize => Block(n, q).count >= 1
    BY <1>1, <1>3, <1>4, <1>7, <2>1
  <2> QED
    BY <1>4, <1>6, <2>1, <2>2
<1>10. ASSUME NEW y \in 0..(n - 1)
       PROVE  \E q \in SpRanks : Block(n, q).first <= y /\ y < Block(n, q).first + Block(n, q).count
  <2>1. PICK q \in 0..(z - 1) : F(q) <= y /\ y < F(q + 1)
    BY <1>8
  <2>2. q \in SpRanks
    BY <1>2
  <2>3. Block(n, q).first <= y /\ y < Block(n, q).first + Block(n, q).count
    BY <1>4, <2>1
  <2> QED
    BY <2>2, <2>3, Zenon
<1> QED
  BY <1>9, <1>10

\* What a rank sends.
LEMMA RangeFacts ==
    ASSUME setup \in Setups, NEW r \in Rounds, Kind(r) = "kv", NEW q \in SpRanks,
           NEW range, range = ActiveRange(r, q)
    PROVE  /\ range.start \in Nat /\ range.end \in Int
           /\ range.end <= setup.spSize * setup.localSeqLen
           /\ ~setup.cpSplit => /\ range.start = q * setup.localSeqLen
                                /\ range.end = IF maxPos(r) + 1 < (q + 1) * setup.localSeqLen
                                                 THEN maxPos(r) + 1 ELSE (q + 1) * setup.localSeqLen
           /\ setup.cpSplit /\ setup.syncs[r].batchSize >= setup.spSize =>
                LET block == Block(setup.syncs[r].batchSize, q)
                IN  /\ range.start = setup.syncs[r].position + block.first
                    /\ range.end = setup.syncs[r].position + block.first + block.count
<1>1. PICK n, z, a, o, h : /\ n = setup.syncs[r].batchSize /\ z = setup.spSize /\ a = setup.localSeqLen
                           /\ o = setup.syncs[r].position /\ h = Block(n, q)
  OBVIOUS
<1>2. /\ n \in Nat \ {0} /\ z \in Nat \ {0, 1} /\ a \in Nat \ {0} /\ o \in Nat /\ o + n <= z * a
      /\ q \in 0..(z - 1)
  <2>1. SyncType(r) = "SP_KV"
    BY KindFacts
  <2> QED
    BY <1>1, <2>1, SyncFacts, SetupFacts DEF SyncType, SpRanks
<1>3. maxPos(r) = o + n - 1
  BY <1>1 DEF maxPos
<1>4. q * a \in Nat /\ (q + 1) * a \in Nat /\ z * a \in Nat
  BY <1>2, SMT
<1>5. h.first \in Nat /\ h.count \in Nat /\ h.first + h.count <= n /\ (n >= z => h.count >= 1)
  BY <1>1, <1>2, BlockFacts
<1>6. CASE ~setup.cpSplit
  <2>1. /\ range.start = q * a
        /\ range.end = IF maxPos(r) + 1 < (q + 1) * a THEN maxPos(r) + 1 ELSE (q + 1) * a
    BY <1>1, <1>6 DEF ActiveRange
  <2>2. range.end \in Int /\ range.end <= z * a
    BY <1>2, <1>3, <1>4, <2>1, SMT
  <2> QED
    BY <1>1, <1>4, <1>6, <2>1, <2>2
<1>7. CASE setup.cpSplit /\ n = 1
  <2>1. /\ range.start = q * a
        /\ range.end = IF maxPos(r) + 1 < (q + 1) * a THEN maxPos(r) + 1 ELSE (q + 1) * a
    BY <1>1, <1>7 DEF ActiveRange
  <2>2. range.end \in Int /\ range.end <= z * a
    BY <1>2, <1>3, <1>4, <2>1, SMT
  <2>3. ~(n >= z)
    BY <1>2, <1>7
  <2> QED
    BY <1>1, <1>4, <1>7, <2>1, <2>2, <2>3
<1>8. CASE setup.cpSplit /\ n > 1
  <2>0. PICK u, v : u = PositionAt(r, h.first) /\ v = PositionAt(r, h.first + h.count - 1)
    OBVIOUS
  <2>1. /\ range.start = u
        /\ range.end = IF maxPos(r) + 1 < v + 1 THEN maxPos(r) + 1 ELSE v + 1
    BY <1>1, <1>8, <2>0 DEF ActiveRange
  <2>2. u \in Nat /\ v \in Int
    BY <1>5, <2>0, PositionFacts
  <2>3. range.end \in Int /\ range.end <= z * a
    BY <1>2, <1>3, <1>4, <2>1, <2>2, SMT
  <2>4. ASSUME n >= z PROVE range.start = o + h.first /\ range.end = o + h.first + h.count
    <3>1. h.first < n /\ h.first + h.count - 1 < n /\ h.first \in Int /\ h.first + h.count - 1 \in Int
      BY <1>2, <1>5, <2>4
    <3>2. u = o + h.first /\ v = o + (h.first + h.count - 1)
      BY <1>1, <2>0, <3>1, PositionFacts
    <3> QED
      BY <1>2, <1>3, <1>5, <2>1, <3>2, SMT
  <2> QED
    BY <1>1, <1>8, <2>1, <2>2, <2>3, <2>4
<1> QED
  BY <1>2, <1>6, <1>7, <1>8

-----------------------------------------------------------------------------
(* What is written.                                                        *)

\* The bytes of a transfer, and where they are taken from.
DataOf(cells, source) == [k \in DOMAIN cells |-> source[cells[k]]]
SourceOf(i, r) == IF SyncType(r) = "SP_KV" THEN kv[i] ELSE buf[i]

\* A whole row.
LEMMA RowCellsFacts ==
    ASSUME setup \in Setups, NEW row, NEW source
    PROVE  DataOf(RowCells(row), source) = [k \in 1..tpSize |-> source[<<k - 1, row>>]]
  BY DEF RowCells, DataOf

\* What the star has come to for row y.
StarValue(i, r, y, d) ==
    IF i = tpGroupStart(i) THEN SumOf({i} \cup {j \in Group(i) : y < d[<<j, i>>]}, r)
    ELSE IF y < d[<<tpGroupStart(i), i>>] THEN SumOf(Group(i), r) ELSE One(i, r)

\* Cell <<s, y>> of the pipe of node i in step r.
CellOK(i, r, d, b, s, y) ==
    /\ Kind(r) = "idle" => b[<<s, y>>] = One(i, r)
    /\ Kind(r) = "root" => (i = 0 \/ y < d[<<0, i>>] => b[<<s, y>>] = One(0, r))
    /\ Kind(r) \in {"gather", "batch"} => (s = i \/ y < d[<<s, i>>] => b[<<s, y>>] = One(s, r))
    /\ Kind(r) \in {"reduce", "star"} => b[<<s, y>>] = StarValue(i, r, y, d)

\* Every cell of the pipe of a node is what it should be in its running step.
LEMMA BufIs ==
    ASSUME Types, NEW T, T = Table, NEW d, Buffers(T, d), NEW i \in Nodes, NEW r, r = round[i],
           NEW s \in Slices, NEW y \in Rows(r)
    PROVE  CellOK(i, r, d, buf[i], s, y)
<1>1. r \in Rounds
  BY DEF Types
<1>2. T.s = setup /\ T.kind[r] = Kind(r) /\ T.root[i] = tpGroupStart(i)
  BY <1>1, TableFacts
<1>3. GroupT(T, i) = Group(i) /\ s \in 0..(T.s.tpSize - 1) /\ y \in 0..(T.s.syncs[r].batchSize - 1)
  BY <1>2 DEF GroupT, Group, Slices, Rows, tpSize
<1>4. BufOK(T, i, r, d, buf[i])
  BY DEF Buffers
<1>5. /\ T.kind[r] = "idle" => buf[i][<<s, y>>] = One(i, r)
      /\ T.kind[r] = "root" => (i = 0 \/ y < d[<<0, i>>] => buf[i][<<s, y>>] = One(0, r))
      /\ T.kind[r] \in {"gather", "batch"} =>
           (s = i \/ y < d[<<s, i>>] => buf[i][<<s, y>>] = One(s, r))
      /\ T.kind[r] \in {"reduce", "star"} =>
           buf[i][<<s, y>>] =
             IF i = T.root[i] THEN SumOf({i} \cup {j \in GroupT(T, i) : y < d[<<j, i>>]}, r)
             ELSE IF y < d[<<T.root[i], i>>] THEN SumOf(GroupT(T, i), r) ELSE One(i, r)
  BY <1>3, <1>4, Zenon DEF BufOK
<1> QED
  BY <1>2, <1>3, <1>5, Zenon DEF StarValue, CellOK

\* Of a link of the star, how much is read when the reader is at transfer m of the
\* other direction: nothing of it yet at a worker, all of it at the root.
LEMMA StarOrder ==
    ASSUME Types, NEW T, T = Table, NEW d, Reading(T, d), NEW i \in Nodes, NEW r, r = round[i],
           Kind(r) \in {"reduce", "star"}, NEW m \in 1..setup.syncs[r].batchSize,
           ip[<<i, 0>>] = IF Kind(r) = "reduce" THEN m ELSE IF i = tpGroupStart(i) THEN 2 * m ELSE 2 * m - 1
    PROVE  /\ i # tpGroupStart(i) => ~(m <= d[<<tpGroupStart(i), i>>]) /\ d[<<tpGroupStart(i), i>>] \in Nat
           /\ i = tpGroupStart(i) /\ Kind(r) = "star" =>
                \A j \in Group(i) \ {i} : m <= d[<<j, i>>] /\ d[<<j, i>>] \in Nat
<1>0. /\ setup \in Setups /\ r \in Rounds /\ <<i, 0>> \in Procs /\ m \in Nat \ {0}
  BY SetupFacts DEF Types, Procs, Threads
<1>1. ASSUME NEW j \in Nodes, NEW k, k = T.link[<<r, j, i>>]
      PROVE  /\ k.rt = 0 /\ k.n = (IF Linked(r, j, i) THEN setup.syncs[r].batchSize ELSE 0)
             /\ EndOK(k.n, k.r, d[<<j, i>>], ip[<<i, 0>>], j, todo[<<i, 0>>])
             /\ d[<<j, i>>] \in 0..k.n /\ k.n \in Nat
  <2>1. k.rt = 0 /\ k.n = (IF Linked(r, j, i) THEN setup.syncs[r].batchSize ELSE 0)
    <3>1. k = Ends(Link(r, j, i))
      BY <1>0, <1>1, TableFacts
    <3> QED
      BY <3>1 DEF Ends, Link, RThread, Count
  <2>2. EndOK(k.n, k.r, d[<<j, i>>], ip[<<i, 0>>], j, todo[<<i, 0>>])
    BY <1>1, <2>1 DEF Reading
  <2>3. k.n \in Nat
    BY <1>0, <1>1, EndsFacts
  <2> QED
    BY <2>1, <2>2, <2>3 DEF EndOK
<1>2. ASSUME i # tpGroupStart(i)
      PROVE  ~(m <= d[<<tpGroupStart(i), i>>]) /\ d[<<tpGroupStart(i), i>>] \in Nat
  <2>0. PICK j, k, x : j = tpGroupStart(i) /\ k = T.link[<<r, j, i>>] /\ x = d[<<j, i>>]
    OBVIOUS
  <2>1. j \in Nodes /\ tpGroupStart(j) = j
    BY <1>0, <2>0, GroupFacts, RootsRoot
  <2>2. /\ k.n = (IF Linked(r, j, i) THEN setup.syncs[r].batchSize ELSE 0)
        /\ EndOK(k.n, k.r, x, ip[<<i, 0>>], j, todo[<<i, 0>>]) /\ x \in 0..k.n /\ k.n \in Nat
    BY <1>1, <2>0, <2>1
  <2>3. CASE Kind(r) = "reduce"
    <3>1. ~Linked(r, j, i)
      BY <1>2, <2>0, <2>1, <2>3 DEF Linked
    <3> QED
      BY <1>0, <2>0, <2>2, <3>1
  <2>4. CASE Kind(r) = "star"
    <3>1. ASSUME m <= x PROVE FALSE
      <4>1. m \in 1..k.n
        BY <1>0, <2>2, <3>1
      <4>2. k.r[m] = 2 * m
        <5>1. CallOK(r, j, i, k, m)
          BY <1>0, <2>0, <2>1, <4>1, CallsOf
        <5> QED
          BY <2>1, <2>4, <5>1 DEF CallOK
      <4>3. k.r[m] < ip[<<i, 0>>] \/ k.r[m] = ip[<<i, 0>>]
        BY <2>2, <3>1, <4>1 DEF EndOK
      <4>4. ip[<<i, 0>>] = 2 * m - 1
        BY <1>2, <2>4
      <4> QED
        BY <1>0, <4>2, <4>3, <4>4
    <3> QED
      BY <2>0, <2>2, <3>1
  <2> QED
    BY <2>3, <2>4
<1>3. ASSUME i = tpGroupStart(i), Kind(r) = "star", NEW j \in Group(i) \ {i}
      PROVE  m <= d[<<j, i>>] /\ d[<<j, i>>] \in Nat
  <2>0. PICK k, x : k = T.link[<<r, j, i>>] /\ x = d[<<j, i>>]
    OBVIOUS
  <2>1. j \in Nodes /\ tpGroupStart(j) = i /\ j # i
    BY <1>0, <1>3, GroupFacts
  <2>2. /\ k.n = (IF Linked(r, j, i) THEN setup.syncs[r].batchSize ELSE 0)
        /\ EndOK(k.n, k.r, x, ip[<<i, 0>>], j, todo[<<i, 0>>]) /\ x \in 0..k.n /\ k.n \in Nat
    BY <1>1, <2>0, <2>1
  <2>3. Linked(r, j, i)
    BY <1>3, <2>1 DEF Linked
  <2>4. m \in 1..k.n
    BY <2>2, <2>3
  <2>5. k.r[m] = 2 * m - 1
    <3>1. CallOK(r, j, i, k, m)
      BY <1>0, <2>0, <2>1, <2>4, CallsOf
    <3> QED
      BY <1>3, <2>1, <3>1 DEF CallOK
  <2>6. ip[<<i, 0>>] = 2 * m
    BY <1>3
  <2>7. k.r[m] < ip[<<i, 0>>]
    BY <1>0, <2>5, <2>6
  <2>8. m <= x
    BY <2>2, <2>4, <2>7 DEF EndOK
  <2> QED
    BY <2>0, <2>2, <2>8
<1> QED
  BY <1>2, <1>3

\* A rank's own rows are up to date in its cache.
LEMMA OwnRows ==
    ASSUME Types, NEW T, T = Table, NEW d, Caches(T, d), NEW i \in Nodes, NEW r, r = round[i], Kind(r) = "kv",
           NEW range, range = ActiveRange(r, spRank(i)), NEW p \in Int, InRange(range, p), NEW x \in {"k", "v"}
    PROVE  IsLatest(setup, kv[i][<<x, p>>], r, p)
<1>0. setup \in Setups /\ r \in Rounds /\ spRank(i) \in SpRanks
  <2>1. setup \in Setups /\ r \in Rounds
    BY DEF Types
  <2>2. 0 \in SpRanks
    BY <2>1, SetupFacts DEF SpRanks
  <2> QED
    BY <2>1, <2>2, SpPeerFacts
<1>1. T.s = setup /\ T.rank[i] = spRank(i) /\ T.range[<<r, T.rank[i]>>] = range /\ T.kind[r] = "kv"
  BY <1>0, TableFacts
<1>2. PICK q, z, a : q = spRank(i) /\ z = setup.spSize /\ a = setup.localSeqLen
  OBVIOUS
<1>3. q \in 0..(z - 1) /\ z \in Nat \ {0} /\ a \in Nat \ {0}
  BY <1>0, <1>2, SetupFacts DEF SpRanks
<1>4. /\ range.start \in Nat /\ range.end \in Int /\ range.end <= z * a
      /\ ~setup.cpSplit => range.start = q * a /\ range.end <= (q + 1) * a
  <2>1. (q + 1) * a \in Int /\ maxPos(r) + 1 \in Int
    <3>1. setup.syncs[r].position \in Nat /\ setup.syncs[r].batchSize \in Nat
      BY <1>0, SyncFacts
    <3> QED
      BY <1>3, <3>1, SMT DEF maxPos
  <2>2. /\ range.start \in Nat /\ range.end \in Int /\ range.end <= z * a
        /\ ~setup.cpSplit => range.start = q * a /\ range.end = IF maxPos(r) + 1 < (q + 1) * a THEN maxPos(r) + 1 ELSE (q + 1) * a
    BY <1>0, <1>2, RangeFacts
  <2> QED
    BY <2>1, <2>2
<1>5. range.start <= p /\ p < range.end
  BY DEF InRange
<1>6. p \in 0..(z * a - 1)
  <2>1. z * a \in Nat
    BY <1>3, SMT
  <2> QED
    BY <1>4, <1>5, <2>1
<1>7. p \in PositionsT(T)
  BY <1>1, <1>2, <1>6 DEF PositionsT
<1>8. Fresh(T, i, r, d, x, p)
  <2>1. CASE setup.cpSplit
    <3>1. Got(T, i, r, d, x, p, q)
      BY <1>1, <1>2 DEF Got
    <3> QED
      BY <1>1, <1>2, <1>3, <2>1, <3>1 DEF Fresh
  <2>2. CASE ~setup.cpSplit
    <3>1. q * a <= p /\ p < (q + 1) * a
      <4>1. (q + 1) * a \in Int /\ q * a \in Int
        BY <1>3, SMT
      <4> QED
        BY <1>4, <1>5, <2>2, <4>1
    <3> QED
      BY <1>1, <1>2, <2>2, <3>1 DEF Fresh
  <2> QED
    BY <2>1, <2>2
<1> QED
  BY <1>1, <1>7, <1>8, Zenon DEF Caches, KvOK

\* The slices, counted from 1.
LEMMA SliceIndex ==
    ASSUME setup \in Setups
    PROVE  \A x \in 1..tpSize : x - 1 \in Slices
<1>1. tpSize \in Nat
  BY SetupFacts
<1> QED
  BY <1>1 DEF Slices

\* The rows of a range, counted from 1.
LEMMA RangeIndex ==
    ASSUME NEW range, range.start \in Nat, range.end \in Int, NEW e \in 1..(range.end - range.start)
    PROVE  range.start + e - 1 \in Int /\ InRange(range, range.start + e - 1)
  BY DEF InRange

\* Row m - 1 is there once m rows are.
LEMMA PredLess ==
    ASSUME NEW m \in Nat \ {0}, NEW x \in Nat
    PROVE  m <= x <=> m - 1 < x
  OBVIOUS

\* The call that writes transfer m, and its cells.
WriteOK(r, i, j, k, m) ==
    /\ CallOK(r, i, j, k, m)
    /\ Kind(r) # "ring" => Program(r, i, k.wt, k.w[m]).io[j] = CellsOf(r, i, m)
    /\ Kind(r) \in {"reduce", "star"} => k.wt = 0
    /\ Kind(r) \notin {"kv", "ring"} => m \in 1..setup.syncs[r].batchSize /\ m - 1 \in Rows(r)

\* Every transfer of the table is written so.
LEMMA WriteFacts ==
    ASSUME setup \in Setups, NEW T, T = Table, NEW r \in Rounds, NEW i \in Nodes, NEW j \in Nodes,
           NEW k, k = T.link[<<r, i, j>>], NEW m \in 1..k.n
    PROVE  WriteOK(r, i, j, k, m)
<1>1. CallOK(r, i, j, k, m)
  BY CallsOf
<1>2. CASE Kind(r) = "ring"
  BY <1>1, <1>2 DEF WriteOK
<1>3. CASE Kind(r) # "ring"
  <2>1. Program(r, i, k.wt, k.w[m]).io[j] = CellsOf(r, i, m)
    BY <1>3, CellsWritten
  <2>2. k = Ends(Link(r, i, j))
    BY TableFacts
  <2>3. Kind(r) \in {"reduce", "star"} => k.wt = 0
    BY <2>2 DEF Ends, Link, WThread
  <2>4. ASSUME Kind(r) # "kv" PROVE m \in 1..setup.syncs[r].batchSize /\ m - 1 \in Rows(r)
    <3>1. PICK b \in Nat : b = setup.syncs[r].batchSize
      BY SyncFacts
    <3>2. m \in Nat \ {0} /\ m <= b
      BY <1>1, <1>3, <2>4, <3>1 DEF CallOK
    <3>3. m \in 1..b /\ m - 1 \in 0..(b - 1)
      BY <3>2
    <3> QED
      BY <3>1, <3>3, Zenon DEF Rows
  <2> QED
    BY <1>1, <2>1, <2>3, <2>4, Zenon DEF WriteOK
<1> QED
  BY <1>2, <1>3

\* Whatever is written is what the transfer should be.
LEMMA WriteMsg ==
    ASSUME Types, NEW T, T = Table, NEW d, Reading(T, d), Buffers(T, d), Caches(T, d),
           NEW i \in Nodes, NEW j \in Nodes, NEW r, r = round[i],
           NEW k, k = T.link[<<r, i, j>>], NEW m \in 1..k.n, ip[<<i, k.wt>>] = k.w[m],
           NEW cells, cells = Program(r, i, k.wt, k.w[m]).io[j],
           NEW data, data = DataOf(cells, SourceOf(i, r))
    PROVE  Msg(T, r, i, j, m, data)
<1>0. setup \in Setups /\ r \in Rounds /\ tpSize \in Nat \ {0}
  BY SetupFacts DEF Types
<1>1. T.s = setup /\ T.kind[r] = Kind(r) /\ T.root[i] = tpGroupStart(i) /\ T.rank[i] = spRank(i) /\ T.s.tpSize = tpSize
  BY <1>0, TableFacts DEF tpSize
<1>2. GroupT(T, i) = Group(i)
  BY <1>1 DEF GroupT, Group
<1>14. WriteOK(r, i, j, k, m)
  BY <1>0, WriteFacts
<1>13. CallOK(r, i, j, k, m)
  BY <1>14, Zenon DEF WriteOK
<1>3. Linked(r, i, j) /\ m \in Nat \ {0} /\ (Kind(r) \notin {"kv", "ring"} => m <= setup.syncs[r].batchSize)
  BY <1>13 DEF CallOK
<1>15. Kind(r) # "idle"
  BY <1>3, Zenon DEF Linked
<1>4. Kind(r) # "ring" => cells = CellsOf(r, i, m)
  BY <1>14, Zenon DEF WriteOK
<1>5. Kind(r) \notin {"kv", "ring"} => m - 1 \in Rows(r) /\ SourceOf(i, r) = buf[i]
  <2>2. Kind(r) \notin {"kv", "ring"} => m - 1 \in Rows(r)
    BY <1>14, Zenon DEF WriteOK
  <2>3. Kind(r) # "kv" => SyncType(r) # "SP_KV"
    BY <1>0, KindFacts
  <2>4. Kind(r) # "kv" => SourceOf(i, r) = buf[i]
    BY <2>3 DEF SourceOf
  <2> QED
    BY <2>2, <2>4
<1>6. Kind(r) \in {"root", "reduce", "star"} => data = [x \in 1..tpSize |-> buf[i][<<x - 1, m - 1>>]]
  <2> SUFFICES ASSUME Kind(r) \in {"root", "reduce", "star"} PROVE data = [x \in 1..tpSize |-> buf[i][<<x - 1, m - 1>>]]
    OBVIOUS
  <2>1. cells = RowCells(m - 1) /\ SourceOf(i, r) = buf[i]
    BY <1>4, <1>5 DEF CellsOf
  <2> QED
    <3>1. data = DataOf(RowCells(m - 1), buf[i])
      BY <2>1, Zenon
    <3>2. DataOf(RowCells(m - 1), buf[i]) = [x \in 1..tpSize |-> buf[i][<<x - 1, m - 1>>]]
      BY <1>0, <2>1 DEF RowCells, DataOf
    <3> QED
      BY <3>1, <3>2, Zenon
<1>7. \A x \in 1..tpSize : x - 1 \in Slices
  BY <1>0, SliceIndex, Zenon
<1>8. CASE Kind(r) = "root"
  <2>1. i = 0
    BY <1>3, <1>8 DEF Linked
  <2>2. \A x \in 1..tpSize : buf[i][<<x - 1, m - 1>>] = One(0, r)
    <3> SUFFICES ASSUME NEW x \in 1..tpSize PROVE buf[i][<<x - 1, m - 1>>] = One(0, r)
      OBVIOUS
    <3>1. PICK s \in Slices : s = x - 1
      BY <1>7
    <3>2. PICK y \in Rows(r) : y = m - 1
      BY <1>5, <1>8
    <3>3. buf[i][<<s, y>>] = One(0, r)
      <4>1. CellOK(i, r, d, buf[i], s, y)
        BY BufIs, Zenon
      <4> QED
        BY <1>8, <2>1, <4>1, Zenon DEF CellOK
    <3> QED
      BY <3>1, <3>2, <3>3
  <2>3. data = [x \in 1..tpSize |-> One(0, r)]
    BY <1>6, <1>8, <2>2
  <2> QED
    BY <1>1, <1>8, <2>3 DEF Msg
<1>9. CASE Kind(r) \in {"gather", "batch"}
  <2>1. i \in Slices
    BY <1>0, <1>9, KindFacts, SetupFacts DEF Nodes, Slices
  <2>2. buf[i][<<i, m - 1>>] = One(i, r)
    <3>1. m - 1 \in Rows(r)
      BY <1>5, <1>9
    <3>2. CellOK(i, r, d, buf[i], i, m - 1)
      BY <2>1, <3>1, BufIs, Zenon
    <3> QED
      BY <1>9, <3>2, Zenon DEF CellOK
  <2>3. cells = <<<<i, m - 1>>>> /\ SourceOf(i, r) = buf[i]
    BY <1>4, <1>5, <1>9 DEF CellsOf
  <2>4. data = <<One(i, r)>>
    BY <2>2, <2>3 DEF DataOf
  <2> QED
    BY <1>1, <1>9, <2>4 DEF Msg
<1>10. CASE Kind(r) \in {"reduce", "star"}
  <2>0. k.wt = 0
    BY <1>10, <1>14, Zenon DEF WriteOK
  <2>1. ip[<<i, 0>>] = IF Kind(r) = "reduce" THEN m ELSE IF i = tpGroupStart(i) THEN 2 * m ELSE 2 * m - 1
    BY <1>10, <1>13, <2>0 DEF CallOK
  <2>2. m \in 1..setup.syncs[r].batchSize
    <3>1. Kind(r) \notin {"kv", "ring"}
      BY <1>10
    <3> QED
      BY <1>14, <3>1, Zenon DEF WriteOK
  <2>3. CASE j = tpGroupStart(i)
    <3>1. i # tpGroupStart(i)
      BY <1>3, <2>3 DEF Linked
    <3>2. ~(m <= d[<<j, i>>]) /\ d[<<j, i>>] \in Nat
      BY <1>10, <2>1, <2>2, <2>3, <3>1, StarOrder
    <3>3. ~(m - 1 < d[<<j, i>>])
      BY <1>3, <3>2, PredLess, Zenon
    <3>4. \A x \in 1..tpSize : buf[i][<<x - 1, m - 1>>] = One(i, r)
      <4> SUFFICES ASSUME NEW x \in 1..tpSize PROVE buf[i][<<x - 1, m - 1>>] = One(i, r)
        OBVIOUS
      <4>1. PICK s \in Slices : s = x - 1
        BY <1>7
      <4>2. PICK y \in Rows(r) : y = m - 1
        BY <1>5, <1>10
      <4>3. buf[i][<<s, y>>] = One(i, r)
        <5>1. buf[i][<<s, y>>] = StarValue(i, r, y, d)
          <6>1. CellOK(i, r, d, buf[i], s, y)
            BY BufIs, Zenon
          <6> QED
            BY <1>10, <6>1, Zenon DEF CellOK
        <5> QED
          BY <5>1, <2>3, <3>1, <3>3, <4>2 DEF StarValue
      <4> QED
        BY <4>1, <4>2, <4>3
    <3>5. data = [x \in 1..tpSize |-> One(i, r)]
      BY <1>6, <1>10, <3>4
    <3> QED
      BY <1>1, <1>10, <2>3, <3>5 DEF Msg
  <2>4. CASE j # tpGroupStart(i)
    <3>1. Kind(r) = "star" /\ i = tpGroupStart(i)
      <4>1. Kind(r) = "star" /\ i = tpGroupStart(j)
        BY <1>3, <1>10, <2>4 DEF Linked
      <4> QED
        BY <1>0, <4>1, RootsRoot
    <3>2. \A b \in Group(i) \ {i} : m - 1 < d[<<b, i>>]
      <4> SUFFICES ASSUME NEW b \in Group(i) \ {i} PROVE m - 1 < d[<<b, i>>]
        OBVIOUS
      <4>1. m <= d[<<b, i>>] /\ d[<<b, i>>] \in Nat
        BY <1>10, <2>1, <2>2, <3>1, StarOrder
      <4> QED
        BY <1>3, <4>1, PredLess, Zenon
    <3>3. {i} \cup {b \in Group(i) : m - 1 < d[<<b, i>>]} = Group(i)
      BY <1>0, <3>2, GroupFacts
    <3>4. \A x \in 1..tpSize : buf[i][<<x - 1, m - 1>>] = SumOf(Group(i), r)
      <4> SUFFICES ASSUME NEW x \in 1..tpSize PROVE buf[i][<<x - 1, m - 1>>] = SumOf(Group(i), r)
        OBVIOUS
      <4>1. PICK s \in Slices : s = x - 1
        BY <1>7
      <4>2. PICK y \in Rows(r) : y = m - 1
        BY <1>5, <1>10
      <4>3. buf[i][<<s, y>>] = SumOf(Group(i), r)
        <5>1. buf[i][<<s, y>>] = StarValue(i, r, y, d)
          <6>1. CellOK(i, r, d, buf[i], s, y)
            BY BufIs, Zenon
          <6> QED
            BY <1>10, <6>1, Zenon DEF CellOK
        <5> QED
          BY <5>1, <3>1, <3>3, <4>2 DEF StarValue
      <4> QED
        BY <4>1, <4>2, <4>3
    <3>5. data = [x \in 1..tpSize |-> SumOf(Group(i), r)]
      BY <1>6, <1>10, <3>4
    <3> QED
      BY <1>1, <1>2, <1>10, <2>4, <3>5 DEF Msg
  <2> QED
    BY <2>3, <2>4
<1>11. CASE Kind(r) = "kv"
  <2>0. PICK range, x : range = ActiveRange(r, spRank(i)) /\ x = IF m = 1 THEN "k" ELSE "v"
    OBVIOUS
  <2>1. spRank(i) \in SpRanks
    <3>1. 0 \in SpRanks
      BY <1>0, SetupFacts DEF SpRanks
    <3> QED
      BY <1>0, <3>1, SpPeerFacts
  <2>2. T.range[<<r, T.rank[i]>>] = range
    <3>1. \A a \in Rounds, b \in SpRanks : T.range[<<a, b>>] = ActiveRange(a, b)
      BY TableFacts, Zenon
    <3> QED
      BY <1>0, <1>1, <2>0, <2>1, <3>1, Zenon
  <2>3. range.start \in Nat /\ range.end \in Int
    BY <1>0, <1>11, <2>0, <2>1, RangeFacts
  <2>4. cells = KvRows(x, range) /\ SourceOf(i, r) = kv[i]
    BY <1>0, <1>4, <1>11, <2>0, KindFacts DEF CellsOf, SourceOf
  <2>5. ASSUME NEW e \in 1..(range.end - range.start)
        PROVE  IsLatest(T.s, data[e], r, range.start + e - 1)
    <3>1. data[e] = kv[i][<<x, range.start + e - 1>>]
      BY <2>4 DEF KvRows, DataOf
    <3>2. range.start + e - 1 \in Int /\ InRange(range, range.start + e - 1)
      BY <2>3, RangeIndex, Zenon
    <3>3. x \in {"k", "v"}
      BY <2>0
    <3>4. IsLatest(setup, kv[i][<<x, range.start + e - 1>>], r, range.start + e - 1)
      BY <1>11, <2>0, <3>2, <3>3, OwnRows
    <3> QED
      BY <1>1, <3>1, <3>4
  <2> QED
    BY <1>1, <1>11, <2>2, <2>5 DEF Msg
<1>12. CASE Kind(r) = "ring"
  BY <1>1, <1>12 DEF Msg
<1> QED
  BY <1>0, <1>8, <1>9, <1>10, <1>11, <1>12, <1>15, KindFacts

-----------------------------------------------------------------------------
(* The steps.                                                              *)

\* Types after a socket has been served.
LEMMA TypesAdvance ==
    ASSUME Types, NEW T, NEW i \in Nodes, NEW t \in Threads, NEW j, NEW c, NEW D,
           Advances(T, i, t, j, c, D), UNCHANGED <<setup, round>>,
           chan' = [l \in Nodes \X Nodes |-> chan'[l]], \A l \in Nodes \X Nodes : IsSeq(chan'[l]),
           buf' = [b \in Nodes |-> buf'[b]], kv' = [b \in Nodes |-> kv'[b]]
    PROVE  Types'
<1>1. Nodes' = Nodes /\ Rounds' = Rounds /\ Procs' = Procs
  BY SameShape
<1>2. /\ ip' = [ip EXCEPT ![<<i, t>>] = c] /\ todo' = [todo EXCEPT ![<<i, t>>] = D] /\ c \in Nat \ {0} /\ D \subseteq Nodes
  BY DEF Advances
<1>3. ip' \in [Procs -> Nat \ {0}] /\ todo' \in [Procs -> SUBSET Nodes]
  BY <1>2 DEF Types
<1>4. setup' \in Setups /\ round' \in [Nodes -> Rounds]
  BY DEF Types
<1> QED
  BY <1>1, <1>3, <1>4, Zenon DEF Types

\* Where links start does not change.
LEMMA StartsStay ==
    ASSUME NEW T, NEW S, Starts(T, S), setup' = setup
    PROVE  Starts(T, S)'
<1>1. Nodes' = Nodes /\ MaxRounds' = MaxRounds
  BY SameShape
<1> QED
  BY <1>1, Zenon DEF Starts

\* A write keeps the invariant.
LEMMA WriteStep ==
    ASSUME NEW T, NEW S, NEW w, NEW d, Story(T, S, w, d),
           NEW i \in Nodes, NEW t \in Threads, NEW j \in Nodes, WriteSocket(i, t, j)
    PROVE  \E w2 : Story(T, S, w2, d)'
<1>0. PICK r, c, p : r = round[i] /\ c = ip[<<i, t>>] /\ p = Program(r, i, t, c)
  OBVIOUS
<1>1. /\ T = Table /\ Types /\ w \in [Nodes \X Nodes -> Nat] /\ d \in [Nodes \X Nodes -> Nat]
      /\ Starts(T, S) /\ Threaded(T) /\ Writing(T, w) /\ Reading(T, d)
      /\ Flying(T, S, w, d) /\ Buffers(T, d) /\ Caches(T, d)
  BY Zenon DEF Story, Starts
<1>2. setup \in Setups /\ r \in Rounds /\ c \in Nat \ {0}
  BY <1>0, <1>1 DEF Types, Procs
<1>3. /\ j \in todo[<<i, t>>] /\ p.op = "write" /\ Served(i, t, j) /\ UNCHANGED <<setup, round, buf, kv>>
      /\ chan' = [chan EXCEPT ![<<i, j>>] = Append(@, DataOf(p.io[j], SourceOf(i, r)))]
  BY <1>0, Zenon DEF WriteSocket, MayServe, DataOf, SourceOf
<1>4. /\ \A b \in Nodes : \A m \in 1..T.link[<<r, b, i>>].n :
            T.link[<<r, b, i>>].rt = t /\ T.link[<<r, b, i>>].r[m] = c => p.op = "read"
  BY <1>0, <1>1, <1>2, PeersFacts
<1>5. NoRead(T, r, i, t, c)
  <2>1. "read" # "write"
    OBVIOUS
  <2> QED
    BY <1>3, <1>4, <2>1, Zenon DEF NoRead
<1>6. PICK k : k = T.link[<<r, i, j>>]
  OBVIOUS
<1>7. PICK m \in 1..k.n : k.wt = t /\ k.w[m] = c
  <2>1. j \in PeersT(T, r, i, t, c)
    BY <1>0, <1>1, <1>3, Zenon DEF Threaded
  <2>2. \/ t = T.link[<<r, i, j>>].wt /\ \E m \in 1..T.link[<<r, i, j>>].n : T.link[<<r, i, j>>].w[m] = c
        \/ t = T.link[<<r, j, i>>].rt /\ \E m \in 1..T.link[<<r, j, i>>].n : T.link[<<r, j, i>>].r[m] = c
    BY <2>1, Zenon DEF PeersT
  <2> QED
    BY <1>5, <1>6, <2>2, Zenon DEF NoRead
<1>8. PICK e, D : Advances(T, i, t, j, e, D)
  BY <1>1, <1>3, ServedFacts, Zenon
<1>9. UNCHANGED <<setup, round>> /\ Nodes' = Nodes
  BY <1>3, SameShape
<1>20. PICK w2 : IsBump(w2, w, <<i, j>>, m)
  BY DEF IsBump
<1>10. m = w[<<i, j>>] + 1 /\ Writing(T, w2)'
  <2>1. AtWrite(T, round[i], i, t, j, ip[<<i, t>>], m)
    BY <1>0, <1>6, <1>7, Zenon DEF AtWrite
  <2>2. UNCHANGED <<setup, round>>
    BY <1>9
  <2>3. IsNext(w, <<i, j>>, m) /\ Writing(T, w2)'
    BY <1>1, <1>3, <1>8, <2>1, <2>2, <1>20, WritingServed, Zenon
  <2> QED
    BY <2>3, Zenon DEF IsNext
<1>11. Reading(T, d)'
  <2>1. NoRead(T, round[i], i, t, ip[<<i, t>>])
    BY <1>0, <1>5, Zenon
  <2> QED
    BY <1>1, <1>8, <1>9, <2>1, ReadingPasses, Zenon
<1>12. Threaded(T)'
  BY <1>1, <1>8, <1>9, ThreadedAdvance, Zenon
<1>13. Msg(T, r, i, j, m, DataOf(p.io[j], SourceOf(i, r)))
  BY <1>0, <1>1, <1>6, <1>7, WriteMsg, Zenon
<1>14. /\ Flying(T, S, w2, d)'
       /\ chan' = [l \in Nodes \X Nodes |-> chan'[l]] /\ \A l \in Nodes \X Nodes : IsSeq(chan'[l])
  <2>1. IsBump(w2, w, <<i, j>>, w[<<i, j>>] + 1)
    BY <1>10, <1>20, Zenon
  <2>2. w[<<i, j>>] + 1 <= T.link[<<round[i], i, j>>].n
    <3>1. k.n \in Nat
      BY <1>1, <1>2, <1>6, EndsFacts
    <3>2. m <= k.n
      BY <1>7, <3>1
    <3> QED
      BY <1>0, <1>6, <1>10, <3>2
  <2>3. Msg(T, round[i], i, j, w[<<i, j>>] + 1, DataOf(p.io[j], SourceOf(i, r)))
    BY <1>0, <1>10, <1>13, Zenon
  <2> QED
    BY <1>1, <1>3, <1>9, <2>1, <2>2, <2>3, FlyingSend, Zenon
<1>15. Types'
  <2>1. buf' = [b \in Nodes |-> buf'[b]] /\ kv' = [b \in Nodes |-> kv'[b]]
    BY <1>1, <1>3 DEF Types
  <2> QED
    BY <1>1, <1>8, <1>9, <1>14, <2>1, TypesAdvance, Zenon
<1>16. Buffers(T, d)' /\ Caches(T, d)'
  <2>1. \A b \in Nodes : BufOK(T, b, round'[b], d, buf'[b]) /\ KvOK(T, b, round'[b], d, kv'[b])
    BY <1>1, <1>3 DEF Buffers, Caches
  <2> QED
    BY <1>9, <2>1, Zenon DEF Buffers, Caches
<1>17. T = Table' /\ Starts(T, S)'
  BY <1>1, <1>9, SameTable, StartsStay, Zenon
<1>18. w2 \in [Nodes' \X Nodes' -> Nat] /\ d \in [Nodes' \X Nodes' -> Nat]
  <2>1. m \in Nat
    BY <1>1, <1>10
  <2> QED
    BY <1>1, <1>9, <1>20, <2>1 DEF IsBump
<1>19. Story(T, S, w2, d)'
  BY <1>10, <1>11, <1>12, <1>14, <1>15, <1>16, <1>17, <1>18, Zenon DEF Story, Starts
<1> QED
  BY <1>19, Zenon

-----------------------------------------------------------------------------
(* What is read.                                                           *)

\* Adding the contribution of one more node.
LEMMA BagAdd ==
    ASSUME NEW A, NEW j, j \notin A, NEW r
    PROVE  SumOf(A, r) (+) One(j, r) = SumOf(A \cup {j}, r)
<1> DEFINE X == {<<n, r>> : n \in A}
           Y == {<<j, r>>}
<1>1. {<<n, r>> : n \in A \cup {j}} = X \cup Y /\ X \cap Y = {}
  OBVIOUS
<1>2. SetToBag(X) (+) SetToBag(Y) = SetToBag(X \cup Y)
  <2> HIDE DEF X, Y
  <2> QED
    BY <1>1 DEF SetToBag, (+)
<1> QED
  BY <1>1, <1>2, Zenon DEF SumOf, One

\* The pipe or the cache with what has been read.
StoredIn(old, cells, data, reduce) ==
    [c \in DOMAIN old |->
        IF \E k \in DOMAIN cells : cells[k] = c
          THEN IF reduce THEN old[c] (+) data[CHOOSE k \in DOMAIN cells : cells[k] = c]
                         ELSE data[CHOOSE k \in DOMAIN cells : cells[k] = c]
          ELSE old[c]]

\* The cells of the transfer are new, the others are as they were.
Stores(new, old, cells, data, reduce) ==
    /\ new = [c \in DOMAIN old |-> new[c]]
    /\ \A c \in DOMAIN old : (\A k \in DOMAIN cells : cells[k] # c) => new[c] = old[c]
    /\ \A c \in DOMAIN old : \A k \in DOMAIN cells :
         cells[k] = c /\ (\A l \in DOMAIN cells : cells[l] = c => l = k) =>
           new[c] = IF reduce THEN old[c] (+) data[k] ELSE data[k]

\* StoredIn does that.
LEMMA StoredFacts ==
    ASSUME NEW old, NEW cells, NEW data, NEW reduce \in BOOLEAN, NEW new, new = StoredIn(old, cells, data, reduce)
    PROVE  Stores(new, old, cells, data, reduce)
<1>1. new = [c \in DOMAIN old |-> new[c]]
  BY Zenon DEF StoredIn
<1>2. \A c \in DOMAIN old :
        new[c] = IF \E k \in DOMAIN cells : cells[k] = c
                   THEN IF reduce THEN old[c] (+) data[CHOOSE k \in DOMAIN cells : cells[k] = c]
                                  ELSE data[CHOOSE k \in DOMAIN cells : cells[k] = c]
                   ELSE old[c]
  BY Zenon DEF StoredIn
<1>3. ASSUME NEW c \in DOMAIN old, NEW k \in DOMAIN cells, cells[k] = c,
             \A l \in DOMAIN cells : cells[l] = c => l = k
      PROVE  new[c] = IF reduce THEN old[c] (+) data[k] ELSE data[k]
  <2>1. (CHOOSE l \in DOMAIN cells : cells[l] = c) = k
    BY <1>3, Zenon
  <2> QED
    BY <1>2, <1>3, <2>1, Zenon
<1>4. ASSUME NEW c \in DOMAIN old, \A k \in DOMAIN cells : cells[k] # c PROVE new[c] = old[c]
  BY <1>2, <1>4, Zenon
<1> QED
  BY <1>1, <1>3, <1>4, Zenon DEF Stores

\* A row, a piece and the rows of a rank.
RowStored(r, new, old, row, data, reduce) ==
    /\ new = [c \in Slices \X Rows(r) |-> new[c]]
    /\ \A s \in Slices, y \in Rows(r) : y # row => new[<<s, y>>] = old[<<s, y>>]
    /\ \A s \in Slices : new[<<s, row>>] = IF reduce THEN old[<<s, row>>] (+) data[s + 1] ELSE data[s + 1]
PieceStored(new, old, cell, data) ==
    /\ new = [c \in DOMAIN old |-> new[c]]
    /\ new[cell] = data[1] /\ \A c \in DOMAIN old : c # cell => new[c] = old[c]
KvStored(new, old, x, range, data) ==
    /\ new = [c \in DOMAIN old |-> new[c]]
    /\ \A y, p : <<y, p>> \in DOMAIN old /\ p \in Int =>
         new[<<y, p>>] = IF y = x /\ InRange(range, p) THEN data[p - range.start + 1] ELSE old[<<y, p>>]

\* A row is stored or added.
LEMMA StoredRow ==
    ASSUME setup \in Setups, NEW r \in Rounds, NEW old, old = [c \in Slices \X Rows(r) |-> old[c]],
           NEW data, NEW reduce \in BOOLEAN, NEW row \in Rows(r),
           NEW new, new = StoredIn(old, RowCells(row), data, reduce)
    PROVE  RowStored(r, new, old, row, data, reduce)
<1>1. DOMAIN old = Slices \X Rows(r)
  OBVIOUS
<1>2. PICK cells : cells = RowCells(row)
  OBVIOUS
<1>3. tpSize \in Nat \ {0} /\ DOMAIN cells = 1..tpSize /\ \A k \in 1..tpSize : cells[k] = <<k - 1, row>>
  BY <1>2, SetupFacts DEF RowCells
<1>4. /\ new = [c \in DOMAIN old |-> new[c]]
      /\ \A c \in DOMAIN old : (\A k \in DOMAIN cells : cells[k] # c) => new[c] = old[c]
      /\ \A c \in DOMAIN old : \A k \in DOMAIN cells :
           cells[k] = c /\ (\A l \in DOMAIN cells : cells[l] = c => l = k) =>
             new[c] = IF reduce THEN old[c] (+) data[k] ELSE data[k]
  <2>1. reduce \in BOOLEAN
    OBVIOUS
  <2>2. Stores(new, old, cells, data, reduce)
    BY <1>2, <2>1, StoredFacts, Zenon
  <2> QED
    BY <2>2, Zenon DEF Stores
<1>5. ASSUME NEW s \in Slices, NEW y \in Rows(r), y # row PROVE new[<<s, y>>] = old[<<s, y>>]
  <2>1. \A k \in DOMAIN cells : cells[k] # <<s, y>>
    BY <1>3, <1>5
  <2> QED
    BY <1>1, <1>4, <2>1, Zenon
<1>6. ASSUME NEW s \in Slices
      PROVE  new[<<s, row>>] = IF reduce THEN old[<<s, row>>] (+) data[s + 1] ELSE data[s + 1]
  <2>1. s + 1 \in DOMAIN cells /\ cells[s + 1] = <<s, row>> /\ \A l \in DOMAIN cells : cells[l] = <<s, row>> => l = s + 1
    BY <1>3 DEF Slices
  <2>2. <<s, row>> \in DOMAIN old
    BY <1>1
  <2> QED
    BY <1>4, <2>1, <2>2, Zenon
<1> QED
  BY <1>1, <1>4, <1>5, <1>6, Zenon DEF RowStored

\* A piece is stored.
LEMMA StoredPiece ==
    ASSUME NEW old, NEW data, NEW cell, cell \in DOMAIN old, NEW seq, seq = <<cell>>, NEW red, red = FALSE,
           NEW new, new = StoredIn(old, seq, data, red)
    PROVE  PieceStored(new, old, cell, data)
<1>1. PICK cells : cells = <<cell>>
  OBVIOUS
<1>2. DOMAIN cells = {1} /\ cells[1] = cell
  BY <1>1
<1>4. /\ new = [c \in DOMAIN old |-> new[c]]
      /\ \A c \in DOMAIN old : (\A k \in DOMAIN cells : cells[k] # c) => new[c] = old[c]
      /\ \A c \in DOMAIN old : \A k \in DOMAIN cells :
           cells[k] = c /\ (\A l \in DOMAIN cells : cells[l] = c => l = k) =>
             new[c] = IF FALSE THEN old[c] (+) data[k] ELSE data[k]
  <2>1. FALSE \in BOOLEAN
    OBVIOUS
  <2>2. Stores(new, old, cells, data, FALSE)
    BY <1>1, <2>1, StoredFacts, Zenon
  <2> QED
    BY <2>2, Zenon DEF Stores
<1>5. 1 \in DOMAIN cells /\ \A l \in DOMAIN cells : cells[l] = cell => l = 1
  BY <1>2
<1>6. new[cell] = data[1]
  BY <1>2, <1>4, <1>5, Zenon
<1>7. ASSUME NEW c \in DOMAIN old, c # cell PROVE new[c] = old[c]
  BY <1>2, <1>4, <1>7
<1> QED
  BY <1>4, <1>6, <1>7, Zenon DEF PieceStored

\* The rows of a rank are stored.
LEMMA StoredKv ==
    ASSUME NEW old, NEW data, NEW x, NEW range, range.start \in Int, range.end \in Int, NEW red, red = FALSE,
           NEW new, new = StoredIn(old, KvRows(x, range), data, red)
    PROVE  KvStored(new, old, x, range, data)
<1>1. PICK cells : cells = KvRows(x, range)
  OBVIOUS
<1>2. PICK a \in Int, b \in Int : a = range.start /\ b = range.end
  OBVIOUS
<1>3. DOMAIN cells = 1..(b - a) /\ \A k \in 1..(b - a) : cells[k] = <<x, a + k - 1>>
  BY <1>1, <1>2 DEF KvRows
<1>4. /\ new = [c \in DOMAIN old |-> new[c]]
      /\ \A c \in DOMAIN old : (\A k \in DOMAIN cells : cells[k] # c) => new[c] = old[c]
      /\ \A c \in DOMAIN old : \A k \in DOMAIN cells :
           cells[k] = c /\ (\A l \in DOMAIN cells : cells[l] = c => l = k) =>
             new[c] = IF FALSE THEN old[c] (+) data[k] ELSE data[k]
  <2>1. FALSE \in BOOLEAN
    OBVIOUS
  <2>2. Stores(new, old, cells, data, FALSE)
    BY <1>1, <2>1, StoredFacts, Zenon
  <2> QED
    BY <2>2, Zenon DEF Stores
<1>5. ASSUME NEW y, NEW p \in Int, <<y, p>> \in DOMAIN old
      PROVE  new[<<y, p>>] = IF y = x /\ InRange(range, p) THEN data[p - range.start + 1] ELSE old[<<y, p>>]
  <2>1. CASE y = x /\ InRange(range, p)
    <3>1. p - a + 1 \in 1..(b - a) /\ a + (p - a + 1) - 1 = p
      BY <1>2, <2>1 DEF InRange
    <3>2. PICK k \in 1..(b - a) : k = p - a + 1
      BY <3>1
    <3>3. k \in DOMAIN cells /\ cells[k] = <<y, p>> /\ \A l \in DOMAIN cells : cells[l] = <<y, p>> => l = k
      BY <1>3, <2>1, <3>1, <3>2
    <3>4. new[<<y, p>>] = data[k]
      BY <1>4, <1>5, <3>3, Zenon
    <3> QED
      BY <1>2, <2>1, <3>2, <3>4
  <2>2. CASE ~(y = x /\ InRange(range, p))
    <3>1. \A k \in DOMAIN cells : cells[k] # <<y, p>>
      BY <1>2, <1>3, <2>2 DEF InRange
    <3> QED
      BY <1>4, <1>5, <2>2, <3>1
  <2> QED
    BY <2>1, <2>2
<1> QED
  BY <1>4, <1>5, Zenon DEF KvStored

\* All cells.
PipeOK(i, r, d, b) ==
    /\ b = [c \in Slices \X Rows(r) |-> b[c]]
    /\ \A s \in Slices, y \in Rows(r) : CellOK(i, r, d, b, s, y)

\* BufOK in the words of the model.
LEMMA BufView ==
    ASSUME setup \in Setups, NEW T, T = Table, NEW i \in Nodes, NEW r \in Rounds, NEW d, NEW b
    PROVE  BufOK(T, i, r, d, b) <=> PipeOK(i, r, d, b)
<1>1. T.s = setup /\ T.kind[r] = Kind(r) /\ T.root[i] = tpGroupStart(i)
  BY TableFacts
<1>2. GroupT(T, i) = Group(i) /\ Slices = 0..(T.s.tpSize - 1) /\ Rows(r) = 0..(T.s.syncs[r].batchSize - 1)
  BY <1>1 DEF GroupT, Group, Slices, Rows, tpSize
<1>3. (b = [c \in (0..(T.s.tpSize - 1)) \X (0..(T.s.syncs[r].batchSize - 1)) |-> b[c]])
        <=> (b = [c \in Slices \X Rows(r) |-> b[c]])
  BY <1>2, Zenon
<1>4. ASSUME NEW s \in Slices, NEW y \in Rows(r)
      PROVE  CellOK(i, r, d, b, s, y) <=>
               /\ T.kind[r] = "idle" => b[<<s, y>>] = One(i, r)
               /\ T.kind[r] = "root" => (i = 0 \/ y < d[<<0, i>>] => b[<<s, y>>] = One(0, r))
               /\ T.kind[r] \in {"gather", "batch"} =>
                    (s = i \/ y < d[<<s, i>>] => b[<<s, y>>] = One(s, r))
               /\ T.kind[r] \in {"reduce", "star"} =>
                    b[<<s, y>>] =
                      IF i = T.root[i] THEN SumOf({i} \cup {j \in GroupT(T, i) : y < d[<<j, i>>]}, r)
                      ELSE IF y < d[<<T.root[i], i>>] THEN SumOf(GroupT(T, i), r) ELSE One(i, r)
  BY <1>1, <1>2, Zenon DEF CellOK, StarValue
<1>5. PipeOK(i, r, d, b) => BufOK(T, i, r, d, b)
  <2> SUFFICES ASSUME PipeOK(i, r, d, b) PROVE BufOK(T, i, r, d, b)
    OBVIOUS
  <2>1. /\ b = [c \in Slices \X Rows(r) |-> b[c]]
        /\ \A s \in Slices, y \in Rows(r) : CellOK(i, r, d, b, s, y)
    BY Zenon DEF PipeOK
  <2> QED
    BY <1>2, <1>3, <1>4, <2>1, Zenon DEF BufOK
<1>6. BufOK(T, i, r, d, b) => PipeOK(i, r, d, b)
  <2> SUFFICES ASSUME BufOK(T, i, r, d, b) PROVE PipeOK(i, r, d, b)
    OBVIOUS
  <2>1. b = [c \in Slices \X Rows(r) |-> b[c]]
    BY <1>3, Zenon DEF BufOK
  <2>2. ASSUME NEW s \in Slices, NEW y \in Rows(r) PROVE CellOK(i, r, d, b, s, y)
    BY <1>2, <1>4, Zenon DEF BufOK
  <2> QED
    BY <2>1, <2>2, Zenon DEF PipeOK
<1> QED
  BY <1>5, <1>6, Zenon

\* How far the links of a node are behind a transfer.
Bumped(d, d2, i, j, m) ==
    /\ m \in Nat \ {0} /\ d[<<j, i>>] = m - 1 /\ d2[<<j, i>>] = m
    /\ d2 \in [Nodes \X Nodes -> Nat]
    /\ \A a, b \in Nodes : a # j \/ b # i => d2[<<a, b>>] = d[<<a, b>>]

\* One link has one more transfer, the others are as they were.
LEMMA BumpFacts ==
    ASSUME NEW d \in [Nodes \X Nodes -> Nat], NEW i \in Nodes, NEW j \in Nodes, NEW m, NEW d2,
           IsNext(d, <<j, i>>, m), IsBump(d2, d, <<j, i>>, m)
    PROVE  Bumped(d, d2, i, j, m)
  BY DEF IsNext, IsBump, Bumped

\* Transfer m from j arrives at node i and is stored in its pipe.
Reads(T, r, i, j, m, d, d2, old, data, new) ==
    /\ T = Table /\ Linked(r, j, i) /\ m - 1 \in Rows(r) /\ d \in [Nodes \X Nodes -> Nat]
    /\ IsNext(d, <<j, i>>, m) /\ IsBump(d2, d, <<j, i>>, m)
    /\ BufOK(T, i, r, d, old) /\ Msg(T, r, j, i, m, data)
    /\ \E red \in BOOLEAN : /\ red <=> (Kind(r) \in {"reduce", "star"} /\ i = tpGroupStart(i))
                            /\ new = StoredIn(old, CellsOf(r, j, m), data, red)

\* What is known when it has been stored.
ReadView(T, r, i, j, m, d, d2, old, new) ==
    /\ m \in Nat \ {0} /\ d[<<j, i>>] = m - 1 /\ d2[<<j, i>>] = m /\ m - 1 \in Rows(r)
    /\ \A a, b \in Nodes : a # j \/ b # i => d2[<<a, b>>] = d[<<a, b>>]
    /\ old = [c \in Slices \X Rows(r) |-> old[c]]
    /\ \A s \in Slices, y \in Rows(r) : CellOK(i, r, d, old, s, y)
    /\ (/\ new = [c \in Slices \X Rows(r) |-> new[c]]
        /\ \A s \in Slices, y \in Rows(r) : CellOK(i, r, d2, new, s, y)) => BufOK(T, i, r, d2, new)
    /\ T.kind[r] = Kind(r) /\ T.s.tpSize = tpSize /\ tpSize \in Nat \ {0}
    /\ T.root[j] = tpGroupStart(j) /\ GroupT(T, j) = Group(j)

\* All of that follows.
LEMMA ReadsFacts ==
    ASSUME setup \in Setups, NEW T, NEW r \in Rounds, NEW i \in Nodes, NEW j \in Nodes, NEW m, NEW d, NEW d2,
           NEW old, NEW data, NEW new, Reads(T, r, i, j, m, d, d2, old, data, new)
    PROVE  ReadView(T, r, i, j, m, d, d2, old, new)
<1>1. /\ T = Table /\ Linked(r, j, i) /\ m - 1 \in Rows(r) /\ d \in [Nodes \X Nodes -> Nat]
      /\ IsNext(d, <<j, i>>, m) /\ IsBump(d2, d, <<j, i>>, m) /\ BufOK(T, i, r, d, old)
  BY Zenon DEF Reads
<1>2. /\ m \in Nat \ {0} /\ d[<<j, i>>] = m - 1 /\ d2[<<j, i>>] = m
      /\ \A a, b \in Nodes : a # j \/ b # i => d2[<<a, b>>] = d[<<a, b>>]
  <2>1. Bumped(d, d2, i, j, m)
    BY <1>1, BumpFacts, Zenon
  <2> QED
    BY <2>1, Zenon DEF Bumped
<1>3. /\ old = [c \in Slices \X Rows(r) |-> old[c]]
      /\ \A s \in Slices, y \in Rows(r) : CellOK(i, r, d, old, s, y)
  <2>1. PipeOK(i, r, d, old)
    BY <1>1, BufView, Zenon
  <2> QED
    BY <2>1, Zenon DEF PipeOK
<1>4. (/\ new = [c \in Slices \X Rows(r) |-> new[c]]
       /\ \A s \in Slices, y \in Rows(r) : CellOK(i, r, d2, new, s, y)) => BufOK(T, i, r, d2, new)
  <2>1. PipeOK(i, r, d2, new) => BufOK(T, i, r, d2, new)
    BY <1>1, BufView, Zenon
  <2> QED
    BY <2>1, Zenon DEF PipeOK
<1>5. /\ T.kind[r] = Kind(r) /\ T.s = setup /\ T.root[j] = tpGroupStart(j)
  BY <1>1, TableFacts, Zenon
<1>6. tpSize \in Nat \ {0} /\ T.s.tpSize = tpSize
  BY <1>5, SetupFacts DEF tpSize
<1>7. GroupT(T, j) = Group(j)
  BY <1>5, <1>6 DEF GroupT, Group
<1> QED
  BY <1>1, <1>2, <1>3, <1>4, <1>5, <1>6, <1>7, Zenon DEF ReadView

\* A row is read.
LEMMA ReadsRow ==
    ASSUME setup \in Setups, NEW T, NEW r \in Rounds, NEW i \in Nodes, NEW j \in Nodes, NEW m, NEW d, NEW d2,
           NEW old, NEW data, NEW new, Reads(T, r, i, j, m, d, d2, old, data, new),
           Kind(r) \in {"root", "reduce", "star"}
    PROVE  \E red \in BOOLEAN : /\ red <=> (Kind(r) \in {"reduce", "star"} /\ i = tpGroupStart(i))
                                /\ RowStored(r, new, old, m - 1, data, red)
<1>1. PICK red \in BOOLEAN : /\ red <=> (Kind(r) \in {"reduce", "star"} /\ i = tpGroupStart(i))
                             /\ new = StoredIn(old, CellsOf(r, j, m), data, red)
  BY Zenon DEF Reads
<1>2. CellsOf(r, j, m) = RowCells(m - 1)
  BY DEF CellsOf
<1>3. ReadView(T, r, i, j, m, d, d2, old, new)
  BY ReadsFacts, Zenon
<1>4. m - 1 \in Rows(r) /\ old = [c \in Slices \X Rows(r) |-> old[c]]
  BY <1>3, Zenon DEF ReadView
<1>5. new = StoredIn(old, RowCells(m - 1), data, red)
  BY <1>1, <1>2, Zenon
<1>6. RowStored(r, new, old, m - 1, data, red)
  BY <1>4, <1>5, StoredRow, Zenon
<1> QED
  BY <1>1, <1>6, Zenon

\* A row of the root is read.
LEMMA ReadRootRow ==
    ASSUME setup \in Setups, NEW T, NEW r \in Rounds, NEW i \in Nodes, NEW j \in Nodes, NEW m, NEW d, NEW d2,
           NEW old, NEW data, NEW new, Reads(T, r, i, j, m, d, d2, old, data, new), Kind(r) = "root"
    PROVE  BufOK(T, i, r, d2, new)
<1>0. ReadView(T, r, i, j, m, d, d2, old, new)
  BY ReadsFacts, Zenon
<1>1. PICK row \in Rows(r) : row = m - 1
  BY <1>0, Zenon DEF ReadView
<1>2. \A s \in Slices, y \in Rows(r) : CellOK(i, r, d, old, s, y)
  BY <1>0, Zenon DEF ReadView
<1>3. /\ new = [c \in Slices \X Rows(r) |-> new[c]]
      /\ \A s \in Slices, y \in Rows(r) : y # m - 1 => new[<<s, y>>] = old[<<s, y>>]
      /\ \A s \in Slices : new[<<s, m - 1>>] = data[s + 1]
  <2>1. Kind(r) \in {"root", "reduce", "star"} /\ Kind(r) \notin {"reduce", "star"}
    OBVIOUS
  <2>2. PICK red \in BOOLEAN : /\ red <=> (Kind(r) \in {"reduce", "star"} /\ i = tpGroupStart(i))
                               /\ RowStored(r, new, old, m - 1, data, red)
    BY <2>1, ReadsRow, Zenon
  <2> QED
    BY <2>1, <2>2, Zenon DEF RowStored
<1>4. /\ m \in Nat \ {0} /\ d[<<j, i>>] = m - 1 /\ d2[<<j, i>>] = m
  BY <1>0, Zenon DEF ReadView
<1>5. j = 0 /\ i # 0
  BY DEF Linked, Reads
<1>6. \A s \in Slices : data[s + 1] = One(0, r)
  <2>1. T.kind[r] = "root" /\ T.s.tpSize = tpSize /\ tpSize \in Nat \ {0}
    BY <1>0, Zenon DEF ReadView
  <2>2. data = [k \in 1..tpSize |-> One(0, r)]
    BY <2>1, Zenon DEF Msg, Reads
  <2> QED
    BY <2>1, <2>2 DEF Slices
<1>7. ASSUME NEW s \in Slices, NEW y \in Rows(r) PROVE CellOK(i, r, d2, new, s, y)
  <2>1. CASE y = row
    <3>1. new[<<s, y>>] = One(0, r)
      BY <1>1, <1>3, <1>6, <2>1
    <3> QED
      BY <3>1 DEF CellOK
  <2>2. CASE y # row
    <3>1. new[<<s, y>>] = old[<<s, y>>] /\ CellOK(i, r, d, old, s, y)
      BY <1>1, <1>2, <1>3, <2>2
    <3>2. y < d2[<<0, i>>] => y < d[<<0, i>>]
      BY <1>1, <1>4, <1>5, <2>2 DEF Rows
    <3> QED
      BY <1>5, <3>1, <3>2 DEF CellOK
  <2> QED
    BY <2>1, <2>2
<1> QED
  BY <1>0, <1>3, <1>7, Zenon DEF ReadView

\* A piece of a slice is read.
LEMMA ReadSlicePiece ==
    ASSUME setup \in Setups, NEW T, NEW r \in Rounds, NEW i \in Nodes, NEW j \in Nodes, NEW m, NEW d, NEW d2,
           NEW old, NEW data, NEW new, Reads(T, r, i, j, m, d, d2, old, data, new), Kind(r) \in {"gather", "batch"}
    PROVE  BufOK(T, i, r, d2, new)
<1>0. ReadView(T, r, i, j, m, d, d2, old, new)
  BY ReadsFacts, Zenon
<1>1. PICK row \in Rows(r) : row = m - 1
  BY <1>0, Zenon DEF ReadView
<1>2. /\ old = [c \in Slices \X Rows(r) |-> old[c]]
      /\ \A s \in Slices, y \in Rows(r) : CellOK(i, r, d, old, s, y)
  BY <1>0, Zenon DEF ReadView
<1>3. Slices = Nodes
  <2>1. tpSize >= setup.nNodes
    BY KindFacts
  <2>2. tpSize = setup.nNodes
    BY <2>1, WholeCluster
  <2> QED
    BY <2>2 DEF Slices, Nodes
<1>4. PICK cell, seq, red : cell = <<j, row>> /\ seq = <<cell>> /\ red = FALSE
  OBVIOUS
<1>5. /\ new = [c \in Slices \X Rows(r) |-> new[c]]
      /\ new[<<j, row>>] = data[1] /\ \A s \in Slices, y \in Rows(r) : <<s, y>> # <<j, row>> => new[<<s, y>>] = old[<<s, y>>]
  <2>1. DOMAIN old = Slices \X Rows(r) /\ cell \in DOMAIN old
    BY <1>2, <1>3, <1>4
  <2>2. new = StoredIn(old, seq, data, red)
    <3>1. PICK b \in BOOLEAN : /\ b <=> (Kind(r) \in {"reduce", "star"} /\ i = tpGroupStart(i))
                               /\ new = StoredIn(old, CellsOf(r, j, m), data, b)
      BY Zenon DEF Reads
    <3>2. b = FALSE
      BY <3>1
    <3>3. CellsOf(r, j, m) = seq
      BY <1>1, <1>4 DEF CellsOf
    <3> QED
      BY <1>4, <3>1, <3>2, <3>3, Zenon
  <2>3. PieceStored(new, old, cell, data)
    BY <1>4, <2>1, <2>2, StoredPiece, Zenon
  <2>4. /\ new = [c \in DOMAIN old |-> new[c]]
        /\ new[cell] = data[1] /\ \A c \in DOMAIN old : c # cell => new[c] = old[c]
    BY <2>3, Zenon DEF PieceStored
  <2> QED
    BY <1>4, <2>1, <2>4
<1>6. /\ m \in Nat \ {0} /\ d[<<j, i>>] = m - 1 /\ d2[<<j, i>>] = m
      /\ \A a, b \in Nodes : a # j \/ b # i => d2[<<a, b>>] = d[<<a, b>>]
  BY <1>0, Zenon DEF ReadView
<1>7. data[1] = One(j, r)
  <2>1. T.kind[r] = Kind(r)
    BY <1>0, Zenon DEF ReadView
  <2>2. data = <<One(j, r)>>
    BY <2>1, Zenon DEF Msg, Reads
  <2> QED
    BY <2>2
<1>8. ASSUME NEW s \in Slices, NEW y \in Rows(r) PROVE CellOK(i, r, d2, new, s, y)
  <2>1. CASE <<s, y>> = <<j, row>>
    <3>1. new[<<s, y>>] = One(s, r)
      BY <1>5, <1>7, <2>1
    <3> QED
      BY <3>1 DEF CellOK
  <2>2. CASE <<s, y>> # <<j, row>>
    <3>1. new[<<s, y>>] = old[<<s, y>>] /\ CellOK(i, r, d, old, s, y)
      BY <1>2, <1>5, <2>2
    <3>2. y < d2[<<s, i>>] => y < d[<<s, i>>]
      BY <1>1, <1>3, <1>6, <2>2 DEF Rows
    <3> QED
      BY <3>1, <3>2 DEF CellOK
  <2> QED
    BY <2>1, <2>2
<1> QED
  BY <1>0, <1>5, <1>8, Zenon DEF ReadView

\* A row is read by the first node of the group, which adds it, or by another, for
\* which it is the sum.
LEMMA ReadStarRow ==
    ASSUME setup \in Setups, NEW T, NEW r \in Rounds, NEW i \in Nodes, NEW j \in Nodes, NEW m, NEW d, NEW d2,
           NEW old, NEW data, NEW new, Reads(T, r, i, j, m, d, d2, old, data, new), Kind(r) \in {"reduce", "star"}
    PROVE  BufOK(T, i, r, d2, new)
<1>0. ReadView(T, r, i, j, m, d, d2, old, new)
  BY ReadsFacts, Zenon
<1>1. PICK row \in Rows(r) : row = m - 1
  BY <1>0, Zenon DEF ReadView
<1>2. \A s \in Slices, y \in Rows(r) : CellOK(i, r, d, old, s, y)
  BY <1>0, Zenon DEF ReadView
<1>3. PICK red \in BOOLEAN : (red <=> i = tpGroupStart(i)) /\ RowStored(r, new, old, m - 1, data, red)
  <2>1. Kind(r) \in {"root", "reduce", "star"}
    OBVIOUS
  <2>2. PICK red \in BOOLEAN : /\ red <=> (Kind(r) \in {"reduce", "star"} /\ i = tpGroupStart(i))
                               /\ RowStored(r, new, old, m - 1, data, red)
    BY <2>1, ReadsRow, Zenon
  <2> QED
    BY <2>2, Zenon
<1>4. /\ new = [c \in Slices \X Rows(r) |-> new[c]]
      /\ \A s \in Slices, y \in Rows(r) : y # row => new[<<s, y>>] = old[<<s, y>>]
      /\ \A s \in Slices : new[<<s, row>>] = IF red THEN old[<<s, row>>] (+) data[s + 1] ELSE data[s + 1]
  BY <1>1, <1>3, Zenon DEF RowStored
<1>5. /\ m \in Nat \ {0} /\ d[<<j, i>>] = m - 1 /\ d2[<<j, i>>] = m
      /\ \A a, b \in Nodes : a # j \/ b # i => d2[<<a, b>>] = d[<<a, b>>]
  BY <1>0, Zenon DEF ReadView
<1>6. Linked(r, j, i) /\ j # i
  BY DEF Reads, Linked
<1>7. Group(i) \subseteq Nodes /\ tpGroupStart(i) \in Nodes
  BY GroupFacts
<1>8. \A s \in Slices : data[s + 1] = IF i = tpGroupStart(j) THEN One(j, r) ELSE SumOf(Group(j), r)
  <2>1. T.kind[r] = Kind(r) /\ T.s.tpSize = tpSize /\ tpSize \in Nat \ {0} /\ T.root[j] = tpGroupStart(j) /\ GroupT(T, j) = Group(j)
    BY <1>0, Zenon DEF ReadView
  <2>2. PICK v : v = IF i = tpGroupStart(j) THEN One(j, r) ELSE SumOf(Group(j), r)
    OBVIOUS
  <2>3. data = [k \in 1..tpSize |-> v]
    <3>1. data = [k \in 1..T.s.tpSize |-> IF i = T.root[j] THEN One(j, r) ELSE SumOf(GroupT(T, j), r)]
      BY <2>1, Zenon DEF Msg, Reads
    <3> QED
      BY <2>1, <2>2, <3>1, Zenon
  <2>4. \A s \in Slices : data[s + 1] = v
    BY <2>1, <2>3 DEF Slices
  <2> QED
    BY <2>2, <2>4, Zenon
<1>9. CASE i = tpGroupStart(i)
  <2>1. i = tpGroupStart(j) /\ j \in Group(i)
    <3>1. i = tpGroupStart(j)
      <4>1. i = tpGroupStart(j) \/ j = tpGroupStart(i)
        BY <1>6 DEF Linked
      <4> QED
        BY <1>6, <1>9, <4>1
    <3> QED
      BY <1>6, <3>1, RootOf
  <2>2. ASSUME NEW s \in Slices, NEW y \in Rows(r) PROVE new[<<s, y>>] = StarValue(i, r, y, d2)
    <3> DEFINE A(e) == {i} \cup {a \in Group(i) : y < e[<<a, i>>]}
    <3>1. old[<<s, y>>] = SumOf(A(d), r) /\ StarValue(i, r, y, d2) = SumOf(A(d2), r)
      BY <1>2, <1>9, Zenon DEF CellOK, StarValue
    <3>2. CASE y = row
      <4>1. j \notin A(d) /\ A(d2) = A(d) \cup {j}
        <5>1. ~(y < d[<<j, i>>]) /\ y < d2[<<j, i>>]
          BY <1>1, <1>5, <3>2
        <5>2. \A a \in Group(i) : a # j => d2[<<a, i>>] = d[<<a, i>>]
          BY <1>5, <1>7
        <5> QED
          BY <1>6, <2>1, <5>1, <5>2
      <4>2. new[<<s, y>>] = old[<<s, y>>] (+) One(j, r)
        BY <1>3, <1>4, <1>8, <1>9, <2>1, <3>2, Zenon
      <4>3. SumOf(A(d), r) (+) One(j, r) = SumOf(A(d) \cup {j}, r)
        <5>1. PICK B : B = A(d)
          OBVIOUS
        <5>3. j \notin B
          BY <4>1, <5>1, Zenon
        <5>2. SumOf(B, r) (+) One(j, r) = SumOf(B \cup {j}, r)
          BY <5>3, BagAdd, Zenon
        <5> QED
          BY <5>1, <5>2
      <4> HIDE DEF A
      <4> QED
        BY <3>1, <4>1, <4>2, <4>3
    <3>3. CASE y # row
      <4>1. y < d2[<<j, i>>] <=> y < d[<<j, i>>]
        BY <1>1, <1>5, <3>3 DEF Rows
      <4>2. \A a \in Group(i) : a # j => d2[<<a, i>>] = d[<<a, i>>]
        BY <1>5, <1>7
      <4>3. A(d2) = A(d)
        BY <4>1, <4>2
      <4> HIDE DEF A
      <4>4. new[<<s, y>>] = old[<<s, y>>]
        BY <1>4, <3>3
      <4> QED
        BY <3>1, <4>3, <4>4
    <3> QED
      BY <3>2, <3>3
  <2>3. \A s \in Slices, y \in Rows(r) : CellOK(i, r, d2, new, s, y)
    BY <2>2 DEF CellOK
  <2> QED
    BY <1>0, <1>4, <2>3, Zenon DEF ReadView
<1>10. CASE i # tpGroupStart(i)
  <2>1. j = tpGroupStart(i) /\ i # tpGroupStart(j) /\ Group(j) = Group(i)
    <3>1. i # tpGroupStart(j)
      BY <1>10, RootsRoot
    <3>2. j = tpGroupStart(i)
      BY <1>6, <3>1 DEF Linked
    <3>3. tpGroupStart(j) = tpGroupStart(i)
      BY <3>2, RootsRoot
    <3> QED
      BY <3>1, <3>2, <3>3 DEF Group
  <2>2. ASSUME NEW s \in Slices, NEW y \in Rows(r) PROVE new[<<s, y>>] = StarValue(i, r, y, d2)
    <3>1. CASE y = row
      <4>1. new[<<s, y>>] = SumOf(Group(i), r)
        BY <1>3, <1>4, <1>8, <1>10, <2>1, <3>1, Zenon
      <4>2. y < d2[<<tpGroupStart(i), i>>]
        BY <1>1, <1>5, <2>1, <3>1
      <4> QED
        BY <1>10, <4>1, <4>2 DEF StarValue
    <3>2. CASE y # row
      <4>1. y < d2[<<j, i>>] <=> y < d[<<j, i>>]
        BY <1>1, <1>5, <3>2 DEF Rows
      <4>2. new[<<s, y>>] = old[<<s, y>>]
        BY <1>4, <3>2
      <4>3. old[<<s, y>>] = StarValue(i, r, y, d)
        BY <1>2, Zenon DEF CellOK
      <4> QED
        BY <1>10, <2>1, <4>1, <4>2, <4>3 DEF StarValue
    <3> QED
      BY <3>1, <3>2
  <2>3. \A s \in Slices, y \in Rows(r) : CellOK(i, r, d2, new, s, y)
    BY <2>2 DEF CellOK
  <2> QED
    BY <1>0, <1>4, <2>3, Zenon DEF ReadView
<1> QED
  BY <1>9, <1>10

\* Nothing is claimed of the ring.
SameDomain(new, old) == new = [c \in DOMAIN old |-> new[c]]
RingStored(T, r, i, d, old, new) ==
    T = Table /\ Kind(r) = "ring" /\ BufOK(T, i, r, d, old) /\ SameDomain(new, old)

\* A transfer of the ring keeps the shape of the pipe.
LEMMA RingBuf ==
    ASSUME setup \in Setups, NEW T, NEW r \in Rounds, NEW i \in Nodes, NEW d, NEW old, NEW d2, NEW new,
           RingStored(T, r, i, d, old, new)
    PROVE  BufOK(T, i, r, d2, new)
<1>0. T = Table /\ Kind(r) = "ring" /\ BufOK(T, i, r, d, old) /\ SameDomain(new, old)
  BY Zenon DEF RingStored
<1>1. old = [c \in Slices \X Rows(r) |-> old[c]]
  <2>1. PipeOK(i, r, d, old)
    BY <1>0, BufView, Zenon
  <2> QED
    BY <2>1, Zenon DEF PipeOK
<1>2. DOMAIN old = Slices \X Rows(r)
  BY <1>1
<1>3. new = [c \in Slices \X Rows(r) |-> new[c]]
  BY <1>0, <1>2, Zenon DEF SameDomain
<1>4. \A s \in Slices, y \in Rows(r) : CellOK(i, r, d2, new, s, y)
  BY <1>0 DEF CellOK
<1>5. PipeOK(i, r, d2, new)
  BY <1>3, <1>4, Zenon DEF PipeOK
<1> QED
  BY <1>0, <1>5, BufView, Zenon

\* The pipe after a transfer has been read.
IsRead(T, r, i, j, k, m, d, d2, old, data, new) ==
    /\ T = Table /\ k = T.link[<<r, j, i>>] /\ m \in 1..k.n
    /\ d \in [Nodes \X Nodes -> Nat] /\ IsNext(d, <<j, i>>, m) /\ IsBump(d2, d, <<j, i>>, m)
    /\ Msg(T, r, j, i, m, data)
    /\ new = StoredIn(old, Program(r, i, k.rt, k.r[m]).io[j], data, Program(r, i, k.rt, k.r[m]).reduce)

\* A read keeps the pipe right, whatever the algorithm.
LEMMA ReadBuf ==
    ASSUME setup \in Setups, NEW T, NEW r \in Rounds, NEW i \in Nodes, NEW j \in Nodes, NEW k, NEW m, NEW d, NEW d2,
           NEW old, NEW data, NEW new, IsRead(T, r, i, j, k, m, d, d2, old, data, new),
           BufOK(T, i, r, d, old), Kind(r) # "kv"
    PROVE  BufOK(T, i, r, d2, new)
<1>0. /\ T = Table /\ k = T.link[<<r, j, i>>] /\ m \in 1..k.n
      /\ d \in [Nodes \X Nodes -> Nat] /\ IsNext(d, <<j, i>>, m) /\ IsBump(d2, d, <<j, i>>, m)
      /\ Msg(T, r, j, i, m, data)
      /\ new = StoredIn(old, Program(r, i, k.rt, k.r[m]).io[j], data, Program(r, i, k.rt, k.r[m]).reduce)
  BY Zenon DEF IsRead
<1>1. PICK p : p = Program(r, i, k.rt, k.r[m])
  OBVIOUS
<1>2. CASE Kind(r) = "ring"
  <2>1. SameDomain(new, old)
    BY <1>0, Zenon DEF StoredIn, SameDomain
  <2>2. RingStored(T, r, i, d, old, new)
    BY <1>0, <1>2, <2>1, Zenon DEF RingStored
  <2> QED
    BY <2>2, RingBuf, Zenon
<1>3. CASE Kind(r) # "ring"
  <2>1. Linked(r, j, i) /\ m \in Nat \ {0} /\ m <= setup.syncs[r].batchSize
    <3>1. CallOK(r, j, i, k, m)
      BY <1>0, CallsOf
    <3>2. Kind(r) # "kv"
      BY <1>0, KindFacts
    <3> QED
      BY <1>3, <3>1, <3>2 DEF CallOK
  <2>2. m - 1 \in Rows(r)
    <3>1. setup.syncs[r].batchSize \in Nat
      BY SyncFacts
    <3> QED
      BY <2>1, <3>1 DEF Rows
  <2>3. /\ p.io[j] = CellsOf(r, j, m)
        /\ p.reduce <=> Kind(r) \in {"reduce", "star"} /\ i = tpGroupStart(i)
    <3>1. /\ Program(r, i, k.rt, k.r[m]).io[j] = CellsOf(r, j, m)
          /\ Program(r, i, k.rt, k.r[m]).reduce <=> Kind(r) \in {"reduce", "star"} /\ i = tpGroupStart(i)
      <4>1. T = Table /\ k = T.link[<<r, j, i>>] /\ m \in 1..k.n
        BY <1>0
      <4> QED
        BY <1>3, <4>1, CellsRead
    <3> QED
      BY <1>1, <3>1, Zenon
  <2>4. \E red \in BOOLEAN : /\ red <=> (Kind(r) \in {"reduce", "star"} /\ i = tpGroupStart(i))
                             /\ new = StoredIn(old, CellsOf(r, j, m), data, red)
    <3>1. new = StoredIn(old, CellsOf(r, j, m), data, p.reduce)
      BY <1>0, <1>1, <2>3, Zenon
    <3>2. TRUE \in BOOLEAN /\ FALSE \in BOOLEAN
      OBVIOUS
    <3>3. CASE p.reduce
      <4>1. new = StoredIn(old, CellsOf(r, j, m), data, TRUE)
        BY <3>1, <3>3, Zenon DEF StoredIn
      <4> QED
        BY <2>3, <3>2, <3>3, <4>1, Zenon
    <3>4. CASE ~p.reduce
      <4>1. new = StoredIn(old, CellsOf(r, j, m), data, FALSE)
        BY <3>1, <3>4, Zenon DEF StoredIn
      <4> QED
        BY <2>3, <3>2, <3>4, <4>1, Zenon
    <3> QED
      BY <3>3, <3>4
  <2>5. Reads(T, r, i, j, m, d, d2, old, data, new)
    BY <1>0, <2>1, <2>2, <2>4, Zenon DEF Reads
  <2>6. Kind(r) \in {"root", "gather", "batch", "reduce", "star"}
    <3>1. Kind(r) # "idle"
      BY <2>1, Zenon DEF Linked
    <3> QED
      BY <1>3, <3>1, KindFacts
  <2>7. CASE Kind(r) = "root"
    BY <2>5, <2>7, ReadRootRow, Zenon
  <2>8. CASE Kind(r) \in {"gather", "batch"}
    BY <2>5, <2>8, ReadSlicePiece, Zenon
  <2>9. CASE Kind(r) \in {"reduce", "star"}
    BY <2>5, <2>9, ReadStarRow, Zenon
  <2> QED
    BY <2>6, <2>7, <2>8, <2>9
<1> QED
  BY <1>2, <1>3

\* Nodes that nothing is read by.
SameReads(d2, d, b) == \A e \in Nodes : d2[<<e, b>>] = d[<<e, b>>]

\* The peers of a node in its SP group.
LEMMA PeerNodes ==
    ASSUME setup \in Setups, NEW T, T = Table, NEW b \in Nodes
    PROVE  \A q \in 0..(T.s.spSize - 1) : /\ q \in SpRanks /\ T.peer[<<b, q>>] \in Nodes
                                          /\ T.peer[<<b, q>>] = SpPeer(b, q) /\ spRank(T.peer[<<b, q>>]) = q
<1>1. 0..(T.s.spSize - 1) = SpRanks
  BY TableFacts DEF SpRanks
<1>2. ASSUME NEW q \in SpRanks
      PROVE  /\ T.peer[<<b, q>>] \in Nodes
             /\ T.peer[<<b, q>>] = SpPeer(b, q) /\ spRank(T.peer[<<b, q>>]) = q
  <2>1. T.peer[<<b, q>>] = SpPeer(b, q)
    BY TableFacts
  <2>2. SpPeer(b, q) \in Nodes /\ spRank(SpPeer(b, q)) = q
    BY SpPeerFacts
  <2> QED
    BY <2>1, <2>2
<1> QED
  BY <1>1, <1>2, Zenon

\* A node that reads nothing keeps its cache right.
LEMMA KvSame ==
    ASSUME setup \in Setups, NEW T, T = Table, NEW r \in Rounds, NEW b \in Nodes, NEW d, NEW d2, NEW cache,
           KvOK(T, b, r, d, cache), SameReads(d2, d, b) \/ Kind(r) # "kv"
    PROVE  KvOK(T, b, r, d2, cache)
<1>1. \A q \in 0..(T.s.spSize - 1) : T.peer[<<b, q>>] \in Nodes
  BY PeerNodes, Zenon
<1>2. T.s = setup /\ T.kind[r] = Kind(r)
  BY TableFacts
<1>3. Kind(r) # "kv" => \A p : ~Covers(T.s, r, p)
  BY <1>2, KindFacts DEF Covers, SyncType
<1>4. ASSUME NEW x, NEW p, Fresh(T, b, r, d2, x, p) PROVE Fresh(T, b, r, d, x, p)
  <2>1. CASE SameReads(d2, d, b)
    <3>1. \A q \in 0..(T.s.spSize - 1) : Got(T, b, r, d2, x, p, q) => Got(T, b, r, d, x, p, q)
      BY <1>1, <2>1, Zenon DEF Got, SameReads
    <3> QED
      BY <1>4, <3>1, Zenon DEF Fresh
  <2>2. CASE Kind(r) # "kv"
    BY <1>2, <1>3, <1>4, <2>2, Zenon DEF Fresh
  <2> QED
    BY <2>1, <2>2
<1> QED
  BY <1>4, Zenon DEF KvOK

\* A node that reads nothing keeps its pipe right.
LEMMA BufSame ==
    ASSUME setup \in Setups, NEW T, T = Table, NEW r \in Rounds, NEW b \in Nodes, NEW d, NEW d2, NEW pipe,
           BufOK(T, b, r, d, pipe), SameReads(d2, d, b) \/ Kind(r) = "kv"
    PROVE  BufOK(T, b, r, d2, pipe)
<1>1. PipeOK(b, r, d, pipe)
  BY BufView, Zenon
<1>2. /\ 0 \in Nodes /\ tpGroupStart(b) \in Nodes /\ Group(b) \subseteq Nodes
  <2>1. 0 \in Nodes
    BY SetupFacts DEF Nodes
  <2> QED
    BY <2>1, GroupFacts
<1>3. Kind(r) \in {"gather", "batch"} => Slices = Nodes
  <2> SUFFICES ASSUME Kind(r) \in {"gather", "batch"} PROVE Slices = Nodes
    OBVIOUS
  <2>1. tpSize >= setup.nNodes
    BY KindFacts
  <2>2. tpSize = setup.nNodes
    BY <2>1, WholeCluster
  <2> QED
    BY <2>2 DEF Slices, Nodes
<1>4. ASSUME NEW s \in Slices, NEW y \in Rows(r), CellOK(b, r, d, pipe, s, y) PROVE CellOK(b, r, d2, pipe, s, y)
  <2>1. CASE SameReads(d2, d, b)
    <3>1. d2[<<0, b>>] = d[<<0, b>>] /\ d2[<<tpGroupStart(b), b>>] = d[<<tpGroupStart(b), b>>]
      BY <1>2, <2>1 DEF SameReads
    <3>2. Kind(r) \in {"gather", "batch"} => d2[<<s, b>>] = d[<<s, b>>]
      BY <1>3, <2>1 DEF SameReads
    <3>3. {j \in Group(b) : y < d2[<<j, b>>]} = {j \in Group(b) : y < d[<<j, b>>]}
      BY <1>2, <2>1 DEF SameReads
    <3>4. StarValue(b, r, y, d2) = StarValue(b, r, y, d)
      BY <3>1, <3>3, Zenon DEF StarValue
    <3> QED
      BY <1>4, <3>1, <3>2, <3>4 DEF CellOK
  <2>2. CASE Kind(r) = "kv"
    BY <2>2 DEF CellOK
  <2> QED
    BY <2>1, <2>2
<1>5. PipeOK(b, r, d2, pipe)
  BY <1>1, <1>4, Zenon DEF PipeOK
<1> QED
  BY <1>5, BufView, Zenon

\* The rows of a rank are read.
LEMMA ReadKv ==
    ASSUME setup \in Setups, NEW T, NEW r \in Rounds, NEW i \in Nodes, NEW j \in Nodes, NEW k, NEW m, NEW d, NEW d2,
           NEW old, NEW data, NEW new, IsRead(T, r, i, j, k, m, d, d2, old, data, new),
           KvOK(T, i, r, d, old), Kind(r) = "kv"
    PROVE  KvOK(T, i, r, d2, new)
<1>0. /\ T = Table /\ k = T.link[<<r, j, i>>] /\ m \in 1..k.n
      /\ d \in [Nodes \X Nodes -> Nat] /\ IsNext(d, <<j, i>>, m) /\ IsBump(d2, d, <<j, i>>, m)
      /\ Msg(T, r, j, i, m, data)
      /\ new = StoredIn(old, Program(r, i, k.rt, k.r[m]).io[j], data, Program(r, i, k.rt, k.r[m]).reduce)
  BY Zenon DEF IsRead
<1>1. PICK range, h, q : range = ActiveRange(r, q) /\ h = (IF m = 1 THEN "k" ELSE "v") /\ q = spRank(j)
  OBVIOUS
<1>2. q \in SpRanks /\ T.rank[j] = q /\ T.range[<<r, q>>] = range /\ T.kind[r] = "kv" /\ T.s = setup
  <2>1. 0 \in SpRanks
    BY SetupFacts DEF SpRanks
  <2>2. q \in SpRanks
    BY <1>1, <2>1, SpPeerFacts
  <2> QED
    BY <1>0, <1>1, <2>2, TableFacts
<1>3. range.start \in Nat /\ range.end \in Int
  BY <1>1, <1>2, RangeFacts
<1>4. m \in {1, 2}
  <2>1. T = Table /\ k = T.link[<<r, j, i>>] /\ m \in 1..k.n
    BY <1>0
  <2> QED
    <3>1. CallOK(r, j, i, k, m)
      BY <1>0, <2>1, CallsOf
    <3> QED
      BY <1>0, <1>2, <3>1 DEF CallOK
<1>5. Bumped(d, d2, i, j, m)
  BY <1>0, BumpFacts, Zenon
<1>6. d[<<j, i>>] = m - 1 /\ d2[<<j, i>>] = m /\ \A a \in Nodes : a # j => d2[<<a, i>>] = d[<<a, i>>]
  BY <1>5 DEF Bumped
<1>7. \A e \in 1..(range.end - range.start) : IsLatest(T.s, data[e], r, range.start + e - 1)
  BY <1>0, <1>2, Zenon DEF Msg
<1>8. /\ old = [c \in {"k", "v"} \X PositionsT(T) |-> old[c]]
      /\ \A x \in {"k", "v"}, p \in PositionsT(T) : Fresh(T, i, r, d, x, p) => IsLatest(T.s, old[<<x, p>>], r, p)
  BY Zenon DEF KvOK
<1>9. DOMAIN old = {"k", "v"} \X PositionsT(T) /\ PositionsT(T) \subseteq Int
  BY <1>8 DEF PositionsT
<1>10. KvStored(new, old, h, range, data)
  <2>1. /\ Program(r, i, k.rt, k.r[m]).io[j] = CellsOf(r, j, m)
        /\ Program(r, i, k.rt, k.r[m]).reduce <=> Kind(r) \in {"reduce", "star"} /\ i = tpGroupStart(i)
    <3>1. T = Table /\ k = T.link[<<r, j, i>>] /\ m \in 1..k.n /\ Kind(r) # "ring"
      BY <1>0
    <3> QED
      BY <3>1, CellsRead
  <2>2. ~Program(r, i, k.rt, k.r[m]).reduce
    BY <2>1
  <2>3. CellsOf(r, j, m) = KvRows(h, range)
    BY <1>1 DEF CellsOf
  <2>4. PICK red : red = FALSE
    OBVIOUS
  <2>5. new = StoredIn(old, KvRows(h, range), data, red)
    <3>1. PICK b : b = Program(r, i, k.rt, k.r[m]).reduce
      OBVIOUS
    <3>2. new = StoredIn(old, KvRows(h, range), data, b) /\ ~b /\ ~red
      BY <1>0, <2>1, <2>2, <2>3, <2>4, <3>1, Zenon
    <3>3. StoredIn(old, KvRows(h, range), data, b) = StoredIn(old, KvRows(h, range), data, red)
      BY <3>2, Zenon DEF StoredIn
    <3> QED
      BY <3>2, <3>3, Zenon
  <2>6. range.start \in Int /\ range.end \in Int
    BY <1>3
  <2> QED
    BY <2>4, <2>5, <2>6, StoredKv, Zenon
<1>11. /\ new = [c \in DOMAIN old |-> new[c]]
       /\ \A y, p : <<y, p>> \in DOMAIN old /\ p \in Int =>
            new[<<y, p>>] = IF y = h /\ InRange(range, p) THEN data[p - range.start + 1] ELSE old[<<y, p>>]
  BY <1>10, Zenon DEF KvStored
<1>12. ASSUME NEW y \in {"k", "v"}, NEW p \in PositionsT(T), Fresh(T, i, r, d2, y, p)
       PROVE  IsLatest(T.s, new[<<y, p>>], r, p)
  <2>0. <<y, p>> \in DOMAIN old /\ p \in Int
    BY <1>9
  <2>1. CASE y = h /\ InRange(range, p)
    <3>1. PICK e : e = p - range.start + 1
      OBVIOUS
    <3>2. e \in 1..(range.end - range.start) /\ range.start + e - 1 = p
      BY <1>3, <2>0, <2>1, <3>1 DEF InRange
    <3>3. new[<<y, p>>] = data[e]
      BY <1>11, <2>0, <2>1, <3>1
    <3>4. IsLatest(T.s, data[e], r, range.start + e - 1)
      BY <1>7, <3>2
    <3> QED
      BY <3>2, <3>3, <3>4
  <2>2. CASE ~(y = h /\ InRange(range, p))
    <3>1. new[<<y, p>>] = old[<<y, p>>]
      BY <1>11, <2>0, <2>2
    <3>2. ASSUME NEW z \in 0..(T.s.spSize - 1), Got(T, i, r, d2, y, p, z) PROVE Got(T, i, r, d, y, p, z)
      <4>1. T.peer[<<i, z>>] \in Nodes /\ spRank(T.peer[<<i, z>>]) = z
        BY <1>0, PeerNodes, Zenon
      <4>2. CASE T.peer[<<i, z>>] # j
        <5>1. d2[<<T.peer[<<i, z>>], i>>] = d[<<T.peer[<<i, z>>], i>>]
          BY <1>6, <4>1, <4>2
        <5> QED
          BY <3>2, <5>1, Zenon DEF Got
      <4>3. CASE T.peer[<<i, z>>] = j
        <5>1. z = q
          BY <1>1, <4>1, <4>3
        <5>2. InRange(range, p)
          BY <1>2, <3>2, <5>1 DEF Got
        <5>3. y # h
          BY <2>2, <5>2
        <5>4. d2[<<j, i>>] >= Half(y) => d[<<j, i>>] >= Half(y)
          <6>1. CASE m = 1
            <7>1. y = "v"
              BY <1>1, <5>3, <6>1
            <7> QED
              BY <1>6, <6>1, <7>1 DEF Half
          <6>2. CASE m = 2
            <7>1. y = "k"
              BY <1>1, <5>3, <6>2
            <7> QED
              BY <1>6, <6>2, <7>1 DEF Half
          <6> QED
            BY <1>4, <6>1, <6>2
        <5> QED
          BY <3>2, <4>3, <5>4, Zenon DEF Got
      <4> QED
        BY <4>2, <4>3
    <3>3. Fresh(T, i, r, d, y, p)
      BY <1>12, <3>2, Zenon DEF Fresh
    <3> QED
      BY <1>8, <3>1, <3>3
  <2> QED
    BY <2>1, <2>2
<1>13. new = [c \in {"k", "v"} \X PositionsT(T) |-> new[c]]
  BY <1>9, <1>11, Zenon
<1> QED
  BY <1>12, <1>13, Zenon DEF KvOK

\* A read keeps the invariant.
LEMMA ReadStep ==
    ASSUME NEW T, NEW S, NEW w, NEW d, Story(T, S, w, d),
           NEW i \in Nodes, NEW t \in Threads, NEW j \in Nodes, ReadSocket(i, t, j)
    PROVE  \E d2 : Story(T, S, w, d2)'
<1>0. PICK r, c, p, data : r = round[i] /\ c = ip[<<i, t>>] /\ p = Program(r, i, t, c) /\ data = Head(chan[<<j, i>>])
  OBVIOUS
<1>1. /\ T = Table /\ Types /\ w \in [Nodes \X Nodes -> Nat] /\ d \in [Nodes \X Nodes -> Nat]
      /\ Starts(T, S) /\ Threaded(T) /\ Writing(T, w) /\ Reading(T, d)
      /\ Flying(T, S, w, d) /\ Buffers(T, d) /\ Caches(T, d)
  BY Zenon DEF Story, Starts
<1>2. setup \in Setups /\ r \in Rounds /\ c \in Nat \ {0}
  BY <1>0, <1>1 DEF Types, Procs
<1>3. /\ j \in todo[<<i, t>>] /\ p.op = "read" /\ Served(i, t, j) /\ UNCHANGED <<setup, round>>
      /\ chan[<<j, i>>] # <<>> /\ chan' = [chan EXCEPT ![<<j, i>>] = Tail(@)]
  BY <1>0, Zenon DEF ReadSocket, MayServe
<1>4. IF SyncType(r) = "SP_KV"
        THEN kv' = [kv EXCEPT ![i] = StoredIn(kv[i], p.io[j], data, p.reduce)] /\ buf' = buf
        ELSE buf' = [buf EXCEPT ![i] = StoredIn(buf[i], p.io[j], data, p.reduce)] /\ kv' = kv
  BY <1>0, Zenon DEF ReadSocket, StoredIn
<1>5. NoWrite(T, r, i, t, c)
  <2>1. "read" # "write"
    OBVIOUS
  <2>2. \A b \in Nodes : \A m \in 1..T.link[<<r, i, b>>].n :
            T.link[<<r, i, b>>].wt = t /\ T.link[<<r, i, b>>].w[m] = c => p.op = "write"
    BY <1>0, <1>1, <1>2, PeersFacts
  <2> QED
    BY <1>3, <2>1, <2>2, Zenon DEF NoWrite
<1>6. PICK k : k = T.link[<<r, j, i>>]
  OBVIOUS
<1>7. PICK m \in 1..k.n : k.rt = t /\ k.r[m] = c
  <2>1. j \in PeersT(T, r, i, t, c)
    BY <1>0, <1>1, <1>3, Zenon DEF Threaded
  <2>2. \/ t = T.link[<<r, i, j>>].wt /\ \E m \in 1..T.link[<<r, i, j>>].n : T.link[<<r, i, j>>].w[m] = c
        \/ t = T.link[<<r, j, i>>].rt /\ \E m \in 1..T.link[<<r, j, i>>].n : T.link[<<r, j, i>>].r[m] = c
    BY <2>1, Zenon DEF PeersT
  <2> QED
    BY <1>5, <1>6, <2>2, Zenon DEF NoWrite
<1>8. PICK e, D : Advances(T, i, t, j, e, D)
  BY <1>1, <1>3, ServedFacts, Zenon
<1>9. UNCHANGED <<setup, round>> /\ Nodes' = Nodes
  BY <1>3, SameShape
<1>10. PICK d2 : IsBump(d2, d, <<j, i>>, m)
  BY DEF IsBump
<1>11. IsNext(d, <<j, i>>, m) /\ Reading(T, d2)'
  <2>1. AtRead(T, round[i], i, t, j, ip[<<i, t>>], m)
    BY <1>0, <1>6, <1>7, Zenon DEF AtRead
  <2> QED
    BY <1>1, <1>3, <1>8, <1>9, <1>10, <2>1, ReadingServed, Zenon
<1>12. m = d[<<j, i>>] + 1
  BY <1>11, Zenon DEF IsNext
<1>13. Writing(T, w)'
  <2>1. NoWrite(T, round[i], i, t, ip[<<i, t>>])
    BY <1>0, <1>5, Zenon
  <2> QED
    BY <1>1, <1>8, <1>9, <2>1, WritingPasses, Zenon
<1>14. Threaded(T)'
  BY <1>1, <1>8, <1>9, ThreadedAdvance, Zenon
<1>15. /\ Flying(T, S, w, d2)' /\ Msg(T, r, j, i, m, data)
       /\ chan' = [l \in Nodes \X Nodes |-> chan'[l]] /\ \A l \in Nodes \X Nodes : IsSeq(chan'[l])
  <2>1. IsBump(d2, d, <<j, i>>, d[<<j, i>>] + 1)
    BY <1>10, <1>12, Zenon
  <2>2. d[<<j, i>>] + 1 <= T.link[<<round[i], j, i>>].n
    <3>1. k.n \in Nat
      BY <1>1, <1>2, <1>6, EndsFacts
    <3>2. m <= k.n
      BY <1>7, <3>1
    <3> QED
      BY <1>0, <1>6, <1>12, <3>2
  <2>3. /\ Flying(T, S, w, d2)'
        /\ chan' = [l \in Nodes \X Nodes |-> chan'[l]] /\ \A l \in Nodes \X Nodes : IsSeq(chan'[l])
        /\ Msg(T, round[i], j, i, d[<<j, i>>] + 1, Head(chan[<<j, i>>]))
    BY <1>1, <1>3, <1>9, <2>1, <2>2, FlyingReceive, Zenon
  <2> QED
    BY <1>0, <1>12, <2>3, Zenon
<1>16. Bumped(d, d2, i, j, m)
  BY <1>1, <1>10, <1>11, BumpFacts, Zenon
<1>17. buf = [b \in Nodes |-> buf[b]] /\ kv = [b \in Nodes |-> kv[b]]
  BY <1>1 DEF Types
<1>18. /\ buf' = [b \in Nodes |-> buf'[b]] /\ kv' = [b \in Nodes |-> kv'[b]]
       /\ \A b \in Nodes : b # i => buf'[b] = buf[b] /\ kv'[b] = kv[b]
       /\ Kind(r) = "kv" => kv'[i] = StoredIn(kv[i], p.io[j], data, p.reduce) /\ buf'[i] = buf[i]
       /\ Kind(r) # "kv" => buf'[i] = StoredIn(buf[i], p.io[j], data, p.reduce) /\ kv'[i] = kv[i]
  <2>1. Kind(r) = "kv" <=> SyncType(r) = "SP_KV"
    BY <1>2, KindFacts
  <2>2. PICK x, y : x = StoredIn(kv[i], p.io[j], data, p.reduce) /\ y = StoredIn(buf[i], p.io[j], data, p.reduce)
    OBVIOUS
  <2>3. IF SyncType(r) = "SP_KV" THEN kv' = [kv EXCEPT ![i] = x] /\ buf' = buf
                                 ELSE buf' = [buf EXCEPT ![i] = y] /\ kv' = kv
    BY <1>4, <2>2, Zenon
  <2>4. CASE SyncType(r) = "SP_KV"
    <3>1. kv' = [kv EXCEPT ![i] = x] /\ buf' = buf
      BY <2>3, <2>4
    <3> QED
      BY <1>17, <2>1, <2>2, <2>4, <3>1
  <2>5. CASE SyncType(r) # "SP_KV"
    <3>1. buf' = [buf EXCEPT ![i] = y] /\ kv' = kv
      BY <2>3, <2>5
    <3> QED
      BY <1>17, <2>1, <2>2, <2>5, <3>1
  <2> QED
    BY <2>4, <2>5
<1>19. ASSUME NEW b \in Nodes PROVE BufOK(T, b, round[b], d2, buf'[b]) /\ KvOK(T, b, round[b], d2, kv'[b])
  <2>1. BufOK(T, b, round[b], d, buf[b]) /\ KvOK(T, b, round[b], d, kv[b]) /\ round[b] \in Rounds
    BY <1>1 DEF Buffers, Caches, Types
  <2>2. CASE b # i
    <3>1. SameReads(d2, d, b)
      BY <1>16, <2>2, Zenon DEF Bumped, SameReads
    <3>2. BufOK(T, b, round[b], d2, buf[b]) /\ KvOK(T, b, round[b], d2, kv[b])
      BY <1>1, <1>2, <2>1, <3>1, BufSame, KvSame, Zenon
    <3> QED
      BY <1>18, <2>2, <3>2
  <2>3. CASE b = i /\ Kind(r) = "kv"
    <3>1. BufOK(T, i, r, d, buf[i]) /\ KvOK(T, i, r, d, kv[i])
      BY <1>0, <2>1, <2>3
    <3>2. BufOK(T, i, r, d2, buf[i])
      BY <1>1, <1>2, <2>3, <3>1, BufSame, Zenon
    <3>3. IsRead(T, r, i, j, k, m, d, d2, kv[i], data, kv'[i])
      <4>1. kv'[i] = StoredIn(kv[i], Program(r, i, k.rt, k.r[m]).io[j], data, Program(r, i, k.rt, k.r[m]).reduce)
        BY <1>0, <1>7, <1>18, <2>3, Zenon
      <4> QED
        BY <1>1, <1>6, <1>7, <1>10, <1>11, <1>15, <4>1, Zenon DEF IsRead
    <3>4. KvOK(T, i, r, d2, kv'[i])
      BY <1>2, <2>3, <3>1, <3>3, ReadKv, Zenon
    <3> QED
      BY <1>0, <1>18, <2>3, <3>2, <3>4
  <2>4. CASE b = i /\ Kind(r) # "kv"
    <3>1. BufOK(T, i, r, d, buf[i]) /\ KvOK(T, i, r, d, kv[i])
      BY <1>0, <2>1, <2>4
    <3>2. KvOK(T, i, r, d2, kv[i])
      BY <1>1, <1>2, <2>4, <3>1, KvSame, Zenon
    <3>3. IsRead(T, r, i, j, k, m, d, d2, buf[i], data, buf'[i])
      <4>1. buf'[i] = StoredIn(buf[i], Program(r, i, k.rt, k.r[m]).io[j], data, Program(r, i, k.rt, k.r[m]).reduce)
        BY <1>0, <1>7, <1>18, <2>4, Zenon
      <4> QED
        BY <1>1, <1>6, <1>7, <1>10, <1>11, <1>15, <4>1, Zenon DEF IsRead
    <3>4. BufOK(T, i, r, d2, buf'[i])
      BY <1>2, <2>4, <3>1, <3>3, ReadBuf, Zenon
    <3> QED
      BY <1>0, <1>18, <2>4, <3>2, <3>4
  <2> QED
    BY <2>2, <2>3, <2>4
<1>20. Buffers(T, d2)' /\ Caches(T, d2)'
  <2>1. \A b \in Nodes : BufOK(T, b, round'[b], d2, buf'[b]) /\ KvOK(T, b, round'[b], d2, kv'[b])
    BY <1>9, <1>19, Zenon
  <2> QED
    BY <1>9, <2>1, Zenon DEF Buffers, Caches
<1>21. Types'
  BY <1>1, <1>8, <1>9, <1>15, <1>18, TypesAdvance, Zenon
<1>22. T = Table' /\ Starts(T, S)'
  BY <1>1, <1>9, SameTable, StartsStay, Zenon
<1>23. w \in [Nodes' \X Nodes' -> Nat] /\ d2 \in [Nodes' \X Nodes' -> Nat]
  BY <1>1, <1>9, <1>16 DEF Bumped
<1>24. Story(T, S, w, d2)'
  BY <1>11, <1>13, <1>14, <1>15, <1>20, <1>21, <1>22, <1>23, Zenon DEF Story, Starts
<1> QED
  BY <1>24, Zenon

-----------------------------------------------------------------------------
(* From one sync step to the next.                                         *)

\* Thread t of node i is where it begins sync step r.
Begun(T, r, i, t, c, D) ==
    /\ c \in Nat \ {0} /\ D \subseteq Nodes /\ D \subseteq PeersT(T, r, i, t, c)
    /\ \A j \in Nodes :
         LET out == T.link[<<r, i, j>>]
             in == T.link[<<r, j, i>>]
         IN  /\ out.wt = t => EndOK(out.n, out.w, 0, c, j, D)
             /\ in.rt = t => EndOK(in.n, in.r, 0, c, j, D)

\* A thread begins a sync step with all its links untouched.
LEMMA Begins ==
    ASSUME setup \in Setups, NEW T, T = Table, NEW r \in Rounds, NEW i \in Nodes, NEW t \in Threads,
           NEW c, c = NextCall(r, i, t, 1), NEW D, D = Peers(r, i, t, c)
    PROVE  Begun(T, r, i, t, c, D)
<1>1. /\ c \in Nat \ {0} /\ \A k \in 1..(c - 1) : Peers(r, i, t, k) = {}
  <2>1. 1 \in Nat \ {0} /\ 1 <= ProgramLength(r, i, t) + 1
    BY LengthType
  <2> QED
    BY <2>1, NextCallFacts
<1>2. PeersT(T, r, i, t, c) = D
  BY <1>1, PeersFacts
<1>3. D \subseteq Nodes
  BY <1>2, TableFacts DEF PeersT, Nodes
<1>4. ASSUME NEW j \in Nodes, NEW k, k = T.link[<<r, i, j>>], k.wt = t PROVE EndOK(k.n, k.w, 0, c, j, D)
  <2>1. /\ k.n \in Nat /\ Rising(k.n, k.w) /\ \A m \in 1..k.n : k.w[m] \in Nat \ {0}
    BY <1>4, EndsFacts
  <2>2. \A m \in 1..k.n : j \in Peers(r, i, t, k.w[m])
    <3> SUFFICES ASSUME NEW m \in 1..k.n PROVE j \in Peers(r, i, t, k.w[m])
      OBVIOUS
    <3>1. PICK y : y = k.w[m]
      OBVIOUS
    <3>2. y \in Nat \ {0}
      BY <2>1, <3>1
    <3>3. j \in Peers(r, i, t, y)
      BY <1>4, <3>1, <3>2, PeersFacts
    <3> QED
      BY <3>1, <3>3
  <2>3. ASSUME NEW m \in 1..k.n PROVE k.w[m] >= c /\ (k.w[m] = c => j \in D)
    <3>1. ~(k.w[m] \in 1..(c - 1))
      BY <1>1, <2>2
    <3>2. k.w[m] >= c
      BY <1>1, <2>1, <3>1
    <3> QED
      BY <2>2, <3>2
  <2>4. k.w \in [1..k.n -> Int] /\ c \in Int
    BY <1>1, <2>1 DEF Rising
  <2> QED
    BY <2>1, <2>3, <2>4, EndFirst
<1>5. ASSUME NEW j \in Nodes, NEW k, k = T.link[<<r, j, i>>], k.rt = t PROVE EndOK(k.n, k.r, 0, c, j, D)
  <2>1. /\ k.n \in Nat /\ Rising(k.n, k.r) /\ \A m \in 1..k.n : k.r[m] \in Nat \ {0}
    BY <1>5, EndsFacts
  <2>2. \A m \in 1..k.n : j \in Peers(r, i, t, k.r[m])
    <3> SUFFICES ASSUME NEW m \in 1..k.n PROVE j \in Peers(r, i, t, k.r[m])
      OBVIOUS
    <3>1. PICK y : y = k.r[m]
      OBVIOUS
    <3>2. y \in Nat \ {0}
      BY <2>1, <3>1
    <3>3. j \in Peers(r, i, t, y)
      BY <1>5, <3>1, <3>2, PeersFacts
    <3> QED
      BY <3>1, <3>3
  <2>3. ASSUME NEW m \in 1..k.n PROVE k.r[m] >= c /\ (k.r[m] = c => j \in D)
    <3>1. ~(k.r[m] \in 1..(c - 1))
      BY <1>1, <2>2
    <3>2. k.r[m] >= c
      BY <1>1, <2>1, <3>1
    <3> QED
      BY <2>2, <3>2
  <2>4. k.r \in [1..k.n -> Int] /\ c \in Int
    BY <1>1, <2>1 DEF Rising
  <2> QED
    BY <2>1, <2>3, <2>4, EndFirst
<1>6. D \subseteq PeersT(T, r, i, t, c)
  BY <1>2
<1> QED
  BY <1>1, <1>3, <1>4, <1>5, <1>6, Zenon DEF Begun

\* A node that is through has moved all its transfers.
LEMMA DoneCounts ==
    ASSUME Types, NEW T, T = Table, NEW w, NEW d, Writing(T, w), Reading(T, d), NEW i \in Nodes, SyncDone(i),
           NEW j \in Nodes
    PROVE  w[<<i, j>>] = T.link[<<round[i], i, j>>].n /\ d[<<j, i>>] = T.link[<<round[i], j, i>>].n
<1>0. PICK r, k, h : r = round[i] /\ k = T.link[<<r, i, j>>] /\ h = T.link[<<r, j, i>>]
  OBVIOUS
<1>1. setup \in Setups /\ r \in Rounds /\ \A t \in Threads : ip[<<i, t>>] \in Nat
  BY <1>0 DEF Types, Procs
<1>2. \A t \in Threads : ip[<<i, t>>] > ProgramLength(r, i, t) /\ ProgramLength(r, i, t) \in Nat
  BY <1>0, <1>1, LengthType DEF SyncDone, Busy
<1>3. w[<<i, j>>] = k.n
  <2>1. /\ k.n \in Nat /\ k.wt \in Threads /\ Rising(k.n, k.w)
        /\ \A m \in 1..k.n : k.w[m] \in Nat \ {0} /\ k.w[m] <= ProgramLength(r, i, k.wt)
    BY <1>0, <1>1, EndsFacts
  <2>2. PICK c, D : c = ip[<<i, k.wt>>] /\ D = todo[<<i, k.wt>>]
    OBVIOUS
  <2>3. EndOK(k.n, k.w, w[<<i, j>>], c, j, D)
    BY <1>0, <2>2, Zenon DEF Writing
  <2>4. \A m \in 1..k.n : k.w[m] < c
    BY <1>1, <1>2, <2>1, <2>2
  <2>5. k.w \in [1..k.n -> Int] /\ c \in Int
    BY <1>1, <2>1, <2>2 DEF Rising
  <2> QED
    BY <2>1, <2>3, <2>4, <2>5, EndLast
<1>4. d[<<j, i>>] = h.n
  <2>1. /\ h.n \in Nat /\ h.rt \in Threads /\ Rising(h.n, h.r)
        /\ \A m \in 1..h.n : h.r[m] \in Nat \ {0} /\ h.r[m] <= ProgramLength(r, i, h.rt)
    BY <1>0, <1>1, EndsFacts
  <2>2. PICK c, D : c = ip[<<i, h.rt>>] /\ D = todo[<<i, h.rt>>]
    OBVIOUS
  <2>3. EndOK(h.n, h.r, d[<<j, i>>], c, j, D)
    BY <1>0, <2>2, Zenon DEF Reading
  <2>4. \A m \in 1..h.n : h.r[m] < c
    BY <1>1, <1>2, <2>1, <2>2
  <2>5. h.r \in [1..h.n -> Int] /\ c \in Int
    BY <1>1, <2>1, <2>2 DEF Rising
  <2> QED
    BY <2>1, <2>3, <2>4, <2>5, EndLast
<1> QED
  BY <1>0, <1>3, <1>4

\* Nothing of step r has been read by node i.
NoneRead(d, i) == \A e \in Nodes : d[<<e, i>>] = 0

\* A pipe of partial results is right while nothing has been read.
LEMMA PartialOK ==
    ASSUME setup \in Setups, NEW T, T = Table, NEW r \in Rounds, NEW i \in Nodes, NEW d, NoneRead(d, i),
           NEW pipe, pipe = Partial(i, r)
    PROVE  BufOK(T, i, r, d, pipe)
<1>1. pipe = [c \in Slices \X Rows(r) |-> One(i, r)]
  BY Zenon DEF Partial, One
<1>2. pipe = [c \in Slices \X Rows(r) |-> pipe[c]]
  BY <1>1
<1>3. ASSUME NEW s \in Slices, NEW y \in Rows(r) PROVE CellOK(i, r, d, pipe, s, y)
  <2>1. pipe[<<s, y>>] = One(i, r)
    BY <1>1
  <2>2. y \in Nat
    BY SyncFacts DEF Rows
  <2>3. 0 \in Nodes /\ tpGroupStart(i) \in Nodes /\ Group(i) \subseteq Nodes
    <3>1. 0 \in Nodes
      BY SetupFacts DEF Nodes
    <3> QED
      BY <3>1, GroupFacts
  <2>4. \A e \in Nodes : ~(y < d[<<e, i>>])
    BY <2>2 DEF NoneRead
  <2>5. Kind(r) \in {"gather", "batch"} => s \in Nodes
    <3> SUFFICES ASSUME Kind(r) \in {"gather", "batch"} PROVE s \in Nodes
      OBVIOUS
    <3>1. tpSize >= setup.nNodes
      BY KindFacts
    <3>2. tpSize = setup.nNodes
      BY <3>1, WholeCluster
    <3> QED
      BY <3>2 DEF Slices, Nodes
  <2>6. StarValue(i, r, y, d) = One(i, r)
    <3>1. {j \in Group(i) : y < d[<<j, i>>]} = {}
      BY <2>3, <2>4
    <3>2. {i} \cup {j \in Group(i) : y < d[<<j, i>>]} = {i}
      BY <3>1
    <3>3. SumOf({i}, r) = One(i, r)
      <4>1. {<<n, r>> : n \in {i}} = {<<i, r>>}
        OBVIOUS
      <4> QED
        BY <4>1, Zenon DEF SumOf, One
    <3> QED
      BY <2>3, <2>4, <3>2, <3>3, Zenon DEF StarValue
  <2> QED
    BY <2>1, <2>3, <2>4, <2>5, <2>6 DEF CellOK
<1>4. PipeOK(i, r, d, pipe)
  BY <1>2, <1>3, Zenon DEF PipeOK
<1> QED
  BY <1>4, BufView, Zenon

\* The rows of a node's own share of the sequence.
Mine(i, p) == spRank(i) * setup.localSeqLen <= p /\ p < (spRank(i) + 1) * setup.localSeqLen

\* The cache of node i after step r: with --cp-split all rows are the latest, else
\* those of its own share.
Settled(i, r, cache) ==
    /\ cache = [c \in KvCells |-> cache[c]]
    /\ \A x \in {"k", "v"}, p \in Positions :
         setup.cpSplit \/ Mine(i, p) => IsLatest(setup, cache[<<x, p>>], r, p)

\* A sync step without position p leaves its latest row.
LEMMA LatestStays ==
    ASSUME NEW s, NEW r \in Nat, NEW v, NEW p, IsLatest(s, v, r - 1, p), ~Covers(s, r, p)
    PROVE  IsLatest(s, v, r, p)
  BY DEF IsLatest

\* A sync step with position p is the latest.
LEMMA LatestNow ==
    ASSUME NEW s, NEW r \in Nat, NEW p, Covers(s, r, p)
    PROVE  IsLatest(s, r, r, p)
  BY DEF IsLatest

\* The rows that OP_SHIFT stores are rows of the batch.
LEMMA ShiftFacts ==
    ASSUME setup \in Setups, NEW r \in Rounds, NEW i \in Nodes, Kind(r) = "kv", NEW p \in Positions
    PROVE  /\ (\E b \in ShiftRows(r, i) : PositionAt(r, b) = p) => Covers(setup, r, p)
           /\ Covers(setup, r, p) /\ (setup.cpSplit => setup.syncs[r].batchSize < setup.spSize)
                /\ (~setup.cpSplit => Mine(i, p)) => \E b \in ShiftRows(r, i) : PositionAt(r, b) = p
           /\ setup.cpSplit /\ setup.syncs[r].batchSize >= setup.spSize /\ InRange(ActiveRange(r, spRank(i)), p) =>
                \E b \in ShiftRows(r, i) : PositionAt(r, b) = p
<1>1. PICK n, o, q : n = setup.syncs[r].batchSize /\ o = setup.syncs[r].position /\ q = spRank(i)
  OBVIOUS
<1>2. n \in Nat \ {0} /\ o \in Nat /\ setup.syncs[r].type = "SP_KV"
  <2>1. SyncType(r) = "SP_KV"
    BY KindFacts
  <2> QED
    BY <1>1, <2>1, SyncFacts DEF SyncType
<1>3. q \in SpRanks
  <2>1. 0 \in SpRanks
    BY SetupFacts DEF SpRanks
  <2> QED
    BY <1>1, <2>1, SpPeerFacts
<1>4. Rows(r) = 0..(n - 1) /\ (Covers(setup, r, p) <=> o <= p /\ p <= o + n - 1) /\ p \in Nat
  <2>1. p \in Nat
    BY DEF Positions
  <2> QED
    BY <1>1, <1>2, <2>1 DEF Rows, Covers, PositionsOf
<1>5. \A b \in Rows(r) : PositionAt(r, b) = o + b
  BY <1>1, <1>2, <1>4, PositionFacts
<1>6. PICK h : h = Block(n, q)
  OBVIOUS
<1>7. h.first \in Nat /\ h.count \in Nat /\ h.first + h.count <= n
  BY <1>2, <1>3, <1>6, BlockFacts
<1>8. ShiftRows(r, i) = IF setup.cpSplit
                          THEN IF n < setup.spSize THEN Rows(r) ELSE h.first..(h.first + h.count - 1)
                          ELSE {b \in Rows(r) : PositionAt(r, b) \in q * setup.localSeqLen..((q + 1) * setup.localSeqLen - 1)}
  BY <1>1, <1>6, Zenon DEF ShiftRows
<1>9. ShiftRows(r, i) \subseteq Rows(r)
  <2>1. h.first..(h.first + h.count - 1) \subseteq 0..(n - 1)
    BY <1>2, <1>7
  <2> QED
    BY <1>4, <1>8, <2>1
<1>10. (\E b \in ShiftRows(r, i) : PositionAt(r, b) = p) => Covers(setup, r, p)
  BY <1>2, <1>4, <1>5, <1>9
<1>11. ASSUME Covers(setup, r, p) PROVE p - o \in Rows(r) /\ PositionAt(r, p - o) = p
  BY <1>2, <1>4, <1>5, <1>11
<1>12. ASSUME Covers(setup, r, p), setup.cpSplit => n < setup.spSize, ~setup.cpSplit => Mine(i, p)
       PROVE  \E b \in ShiftRows(r, i) : PositionAt(r, b) = p
  <2>1. p - o \in Rows(r) /\ PositionAt(r, p - o) = p
    BY <1>11, <1>12
  <2>2. ~setup.cpSplit => p \in q * setup.localSeqLen..((q + 1) * setup.localSeqLen - 1)
    <3>1. q * setup.localSeqLen \in Int /\ (q + 1) * setup.localSeqLen \in Int
      <4>1. q \in Int /\ setup.localSeqLen \in Int
        BY <1>3, SetupFacts DEF SpRanks
      <4> QED
        BY <4>1
    <3> QED
      BY <1>1, <1>4, <1>12, <3>1 DEF Mine
  <2>3. p - o \in ShiftRows(r, i)
    BY <1>8, <1>12, <2>1, <2>2
  <2> QED
    BY <2>1, <2>3
<1>13. ASSUME setup.cpSplit, n >= setup.spSize, InRange(ActiveRange(r, q), p)
       PROVE  \E b \in ShiftRows(r, i) : PositionAt(r, b) = p
  <2>1. PICK range : range = ActiveRange(r, q)
    OBVIOUS
  <2>2. range.start = o + h.first /\ range.end = o + h.first + h.count
    BY <1>1, <1>3, <1>6, <1>13, <2>1, RangeFacts
  <2>3. o + h.first <= p /\ p < o + h.first + h.count
    BY <1>13, <2>1, <2>2 DEF InRange
  <2>4. p - o \in h.first..(h.first + h.count - 1) /\ o + (p - o) = p
    <3>1. PICK f \in Nat, g \in Nat : f = h.first /\ g = h.count
      BY <1>7
    <3>2. o + f <= p /\ p < o + f + g
      BY <2>3, <3>1
    <3>3. o \in Nat /\ p \in Int
      BY <1>2, <1>4
    <3>4. p - o \in f..(f + g - 1) /\ o + (p - o) = p
      BY <3>2, <3>3
    <3> QED
      BY <3>1, <3>4
  <2>5. ~(n < setup.spSize)
    BY <1>2, <1>13, SetupFacts
  <2>6. p - o \in ShiftRows(r, i)
    BY <1>8, <1>13, <2>4, <2>5
  <2> QED
    BY <1>5, <1>9, <2>4, <2>6
<1> QED
  BY <1>1, <1>10, <1>12, <1>13

\* The rows that a node has not computed itself are not asked for before they are read.
LEMMA NothingGot ==
    ASSUME setup \in Setups, NEW T, T = Table, NEW r, NEW i \in Nodes, NEW d, NoneRead(d, i),
           NEW x, NEW p, NEW q \in 0..(T.s.spSize - 1), Got(T, i, r, d, x, p, q)
    PROVE  q = T.rank[i] /\ InRange(T.range[<<r, q>>], p)
<1>1. T.peer[<<i, q>>] \in Nodes
  BY PeerNodes, Zenon
<1>2. d[<<T.peer[<<i, q>>], i>>] = 0
  BY <1>1, Zenon DEF NoneRead
<1>3. ~(0 >= Half(x))
  BY DEF Half
<1> QED
  BY <1>2, <1>3, Zenon DEF Got

\* What OP_SHIFT leaves.
IsShift(i, r, old, new) == new = Shift(r, i, old)

\* The matmul before the sync step stores this node's rows.
LEMMA ShiftOK ==
    ASSUME setup \in Setups, NEW T, T = Table, NEW r \in Rounds, NEW i \in Nodes, NEW d, NoneRead(d, i),
           NEW old, Settled(i, r - 1, old), NEW new, IsShift(i, r, old, new)
    PROVE  KvOK(T, i, r, d, new)
<1>0. /\ old = [c \in KvCells |-> old[c]]
      /\ \A x \in {"k", "v"}, p \in Positions :
           setup.cpSplit \/ Mine(i, p) => IsLatest(setup, old[<<x, p>>], r - 1, p)
  BY Zenon DEF Settled
<1>1. /\ T.s = setup /\ T.kind[r] = Kind(r) /\ T.rank[i] = spRank(i) /\ PositionsT(T) = Positions /\ r \in Nat
      /\ KvCells = {"k", "v"} \X PositionsT(T)
  <2>1. /\ T.s = setup /\ T.kind[r] = Kind(r) /\ T.rank[i] = spRank(i)
    BY TableFacts
  <2>2. r \in Nat
    BY SetupFacts DEF Rounds
  <2> QED
    BY <2>1, <2>2 DEF PositionsT, Positions, KvCells
<1>2. spRank(i) \in SpRanks
  <2>1. 0 \in SpRanks
    BY SetupFacts DEF SpRanks
  <2> QED
    BY <2>1, SpPeerFacts
<1>3. T.range[<<r, spRank(i)>>] = ActiveRange(r, spRank(i))
  BY <1>2, TableFacts
<1>4. ASSUME NEW x \in {"k", "v"}, NEW p \in Positions, Fresh(T, i, r, d, x, p)
      PROVE  /\ setup.cpSplit => ~Covers(setup, r, p) \/ setup.syncs[r].batchSize < setup.spSize
                                   \/ InRange(ActiveRange(r, spRank(i)), p)
             /\ ~setup.cpSplit => Mine(i, p)
  <2>1. \A q \in 0..(T.s.spSize - 1) : Got(T, i, r, d, x, p, q) => q = T.rank[i] /\ InRange(T.range[<<r, q>>], p)
    BY NothingGot, Zenon
  <2>2. ASSUME setup.cpSplit
        PROVE  ~Covers(setup, r, p) \/ setup.syncs[r].batchSize < setup.spSize \/ InRange(ActiveRange(r, spRank(i)), p)
    BY <1>1, <1>3, <1>4, <2>1, <2>2, Zenon DEF Fresh
  <2>3. ASSUME ~setup.cpSplit PROVE Mine(i, p)
    BY <1>1, <1>4, <2>1, <2>3, Zenon DEF Fresh, Mine
  <2> QED
    BY <2>2, <2>3
<1>5. CASE Kind(r) # "kv"
  <2>1. new = old
    <3>1. SyncType(r) # "SP_KV"
      BY <1>5, KindFacts
    <3> QED
      BY <3>1, Zenon DEF IsShift, Shift
  <2>2. \A p : ~Covers(setup, r, p)
    BY <1>5, KindFacts DEF Covers, SyncType
  <2>3. ASSUME NEW x \in {"k", "v"}, NEW p \in Positions, Fresh(T, i, r, d, x, p)
        PROVE  IsLatest(setup, new[<<x, p>>], r, p)
    <3>1. setup.cpSplit \/ Mine(i, p)
      BY <1>4, <2>3
    <3>2. IsLatest(setup, old[<<x, p>>], r - 1, p)
      BY <1>0, <3>1
    <3> QED
      BY <1>1, <2>1, <2>2, <3>2, LatestStays
  <2> QED
    BY <1>0, <1>1, <2>1, <2>3, Zenon DEF KvOK
<1>6. CASE Kind(r) = "kv"
  <2>0. PICK stored : stored = {PositionAt(r, b) : b \in ShiftRows(r, i)}
    OBVIOUS
  <2>1. new = [c \in KvCells |-> IF c[2] \in stored THEN r ELSE old[c]]
    <3>1. SyncType(r) = "SP_KV"
      BY <1>6, KindFacts
    <3> QED
      BY <2>0, <3>1, Zenon DEF IsShift, Shift
  <2>2. new = [c \in KvCells |-> new[c]]
    BY <2>1
  <2>3. \A x \in {"k", "v"}, p \in Positions : new[<<x, p>>] = IF p \in stored THEN r ELSE old[<<x, p>>]
    BY <2>1 DEF KvCells
  <2>4. ASSUME NEW x \in {"k", "v"}, NEW p \in Positions, Fresh(T, i, r, d, x, p)
        PROVE  IsLatest(setup, new[<<x, p>>], r, p)
    <3>0. p \in stored <=> \E b \in ShiftRows(r, i) : PositionAt(r, b) = p
      BY <2>0, Zenon
    <3>1. CASE p \in stored
      <4>1. Covers(setup, r, p)
        BY <1>6, <3>0, <3>1, ShiftFacts
      <4> QED
        BY <1>1, <2>3, <3>1, <4>1, LatestNow
    <3>2. CASE p \notin stored
      <4>1. setup.cpSplit \/ Mine(i, p)
        BY <1>4, <2>4
      <4>2. IsLatest(setup, old[<<x, p>>], r - 1, p)
        BY <1>0, <4>1
      <4>3. ~Covers(setup, r, p)
        <5>1. CASE ~setup.cpSplit
          BY <1>4, <1>6, <2>4, <3>0, <3>2, <5>1, ShiftFacts
        <5>2. CASE setup.cpSplit /\ setup.syncs[r].batchSize < setup.spSize
          BY <1>6, <3>0, <3>2, <5>2, ShiftFacts
        <5>3. CASE setup.cpSplit /\ ~(setup.syncs[r].batchSize < setup.spSize)
          <6>1. setup.syncs[r].batchSize >= setup.spSize
            BY <5>3, SyncFacts, SetupFacts
          <6>2. ~Covers(setup, r, p) \/ InRange(ActiveRange(r, spRank(i)), p)
            BY <1>4, <2>4, <5>3
          <6> QED
            BY <1>6, <3>0, <3>2, <5>3, <6>1, <6>2, ShiftFacts
        <5> QED
          BY <5>1, <5>2, <5>3
      <4>4. new[<<x, p>>] = old[<<x, p>>]
        BY <2>3, <3>2
      <4> QED
        BY <1>1, <4>2, <4>3, <4>4, LatestStays
    <3> QED
      BY <3>1, <3>2
  <2> QED
    BY <1>1, <2>2, <2>4, Zenon DEF KvOK
<1> QED
  BY <1>5, <1>6

\* Everything of step r has been read by node i.
AllRead(T, d, i, r) == \A e \in Nodes : d[<<e, i>>] = T.link[<<r, e, i>>].n

\* Then it has got the rows of every rank.
LEMMA AllGot ==
    ASSUME setup \in Setups, NEW T, T = Table, NEW r \in Rounds, NEW i \in Nodes, NEW d, AllRead(T, d, i, r),
           Kind(r) = "kv", ~SpKvSkipped(r), NEW q \in SpRanks, NEW p \in Int, InRange(ActiveRange(r, q), p),
           NEW x \in {"k", "v"}
    PROVE  Got(T, i, r, d, x, p, q)
<1>0. PICK range : range = ActiveRange(r, q)
  OBVIOUS
<1>1. T.range[<<r, q>>] = range /\ T.rank[i] = spRank(i) /\ T.peer[<<i, q>>] = SpPeer(i, q)
  BY <1>0, TableFacts
<1>2. CASE q = spRank(i)
  BY <1>0, <1>1, <1>2 DEF Got
<1>3. CASE q # spRank(i)
  <2>0. PICK j : j = SpPeer(i, q)
    OBVIOUS
  <2>1. j \in Nodes /\ spRank(j) = q /\ SpPeer(j, spRank(i)) = i
    BY <2>0, SpPeerFacts
  <2>2. range.start \in Int /\ range.end \in Int /\ range.start < range.end
    <3>1. range.start \in Int /\ range.end \in Int
      BY <1>0, RangeFacts
    <3> QED
      BY <1>0, <3>1 DEF InRange
  <2>3. Linked(r, j, i)
    <3>1. j # i
      BY <1>3, <2>1
    <3> QED
      BY <1>0, <2>1, <2>2, <3>1 DEF Linked
  <2>4. T.link[<<r, j, i>>].n = 2
    <3>1. T.link[<<r, j, i>>] = Ends(Link(r, j, i))
      BY <2>1, TableFacts
    <3>2. Link(r, j, i).n = 2
      BY <2>3 DEF Link, Count
    <3> QED
      BY <3>1, <3>2 DEF Ends
  <2>5. d[<<j, i>>] = 2
    BY <2>1, <2>4 DEF AllRead
  <2>6. d[<<j, i>>] >= Half(x)
    BY <2>5 DEF Half
  <2> QED
    BY <1>0, <1>1, <2>0, <2>6 DEF Got
<1> QED
  BY <1>2, <1>3

\* The step is over.
LEMMA EndSettled ==
    ASSUME setup \in Setups, NEW T, T = Table, NEW r \in Rounds, NEW i \in Nodes, NEW d, AllRead(T, d, i, r),
           NEW cache, KvOK(T, i, r, d, cache)
    PROVE  Settled(i, r, cache)
<1>0. /\ cache = [c \in {"k", "v"} \X PositionsT(T) |-> cache[c]]
      /\ \A x \in {"k", "v"}, p \in PositionsT(T) :
           Fresh(T, i, r, d, x, p) => IsLatest(T.s, cache[<<x, p>>], r, p)
  BY Zenon DEF KvOK
<1>1. /\ T.s = setup /\ T.rank[i] = spRank(i) /\ PositionsT(T) = Positions
      /\ KvCells = {"k", "v"} \X PositionsT(T)
  <2>1. /\ T.s = setup /\ T.rank[i] = spRank(i)
    BY TableFacts
  <2> QED
    BY <2>1 DEF PositionsT, Positions, KvCells
<1>2. ASSUME NEW x \in {"k", "v"}, NEW p \in Positions, setup.cpSplit \/ Mine(i, p) PROVE Fresh(T, i, r, d, x, p)
  <2>1. CASE ~setup.cpSplit
    BY <1>1, <1>2, <2>1, Zenon DEF Fresh, Mine
  <2>2. CASE setup.cpSplit /\ (~Covers(setup, r, p) \/ setup.syncs[r].batchSize < setup.spSize)
    BY <1>1, <2>2, Zenon DEF Fresh
  <2>3. CASE setup.cpSplit /\ Covers(setup, r, p) /\ ~(setup.syncs[r].batchSize < setup.spSize)
    <3>0. PICK n, o : n = setup.syncs[r].batchSize /\ o = setup.syncs[r].position
      OBVIOUS
    <3>1. n \in Nat \ {0} /\ o \in Nat /\ n >= setup.spSize /\ p \in Nat
      BY <2>3, <3>0, SyncFacts, SetupFacts DEF Positions
    <3>2. setup.syncs[r].type = "SP_KV" /\ o <= p /\ p <= o + n - 1
      BY <2>3, <3>0, <3>1 DEF Covers, PositionsOf
    <3>3. Kind(r) = "kv"
      BY <3>2, KindFacts DEF SyncType
    <3>4. ~SpKvSkipped(r)
      <4>1. setup.spSize > 1 /\ (setup.syncs[r].decode => n = 1)
        BY <3>0, <3>2, SyncFacts
      <4>2. n # 1
        BY <3>1, <4>1, SetupFacts
      <4> QED
        BY <4>1, <4>2 DEF SpKvSkipped
    <3>5. p - o \in 0..(n - 1)
      BY <3>1, <3>2
    <3>6. PICK q \in SpRanks : Block(n, q).first <= p - o /\ p - o < Block(n, q).first + Block(n, q).count
      BY <3>1, <3>5, BlockFacts
    <3>7. Block(n, q).first \in Nat /\ Block(n, q).count \in Nat
      BY <3>1, BlockFacts
    <3>8. PICK range : range = ActiveRange(r, q)
      OBVIOUS
    <3>9. range.start = o + Block(n, q).first /\ range.end = o + Block(n, q).first + Block(n, q).count
      BY <2>3, <3>0, <3>1, <3>3, <3>8, RangeFacts
    <3>10. InRange(range, p)
      <4>1. PICK a \in Nat, b \in Nat : a = Block(n, q).first /\ b = Block(n, q).count
        BY <3>7
      <4>2. a <= p - o /\ p - o < a + b /\ range.start = o + a /\ range.end = o + a + b
        BY <3>6, <3>9, <4>1
      <4> QED
        BY <3>1, <4>2 DEF InRange
    <3>11. Got(T, i, r, d, x, p, q)
      <4>1. p \in Int /\ InRange(ActiveRange(r, q), p)
        BY <3>1, <3>8, <3>10
      <4> QED
        BY <3>3, <3>4, <4>1, AllGot, Zenon
    <3>12. q \in 0..(T.s.spSize - 1)
      BY <1>1 DEF SpRanks
    <3> QED
      BY <1>1, <2>3, <3>11, <3>12, Zenon DEF Fresh
  <2> QED
    BY <2>1, <2>2, <2>3
<1> QED
  BY <1>0, <1>1, <1>2, Zenon DEF Settled

\* And all rows up to the last position are the latest.
LEMMA EndGathered ==
    ASSUME setup \in Setups, NEW T, T = Table, NEW r \in Rounds, NEW i \in Nodes, NEW d, AllRead(T, d, i, r),
           NEW cache, KvOK(T, i, r, d, cache), Kind(r) = "kv", ~SpKvSkipped(r),
           NEW x \in {"k", "v"}, NEW p \in 0..maxPos(r)
    PROVE  IsLatest(setup, cache[<<x, p>>], r, p) /\ \E k \in 1..r : Covers(setup, k, p)
<1>0. PICK n, o, z, a : n = setup.syncs[r].batchSize /\ o = setup.syncs[r].position /\ z = setup.spSize /\ a = setup.localSeqLen
  OBVIOUS
<1>1. /\ n \in Nat \ {0} /\ o \in Nat /\ z \in Nat \ {0} /\ a \in Nat \ {0} /\ o + n <= z * a
      /\ setup.syncs[r].type = "SP_KV" /\ z * a \in Nat
  <2>1. SyncType(r) = "SP_KV"
    BY KindFacts
  <2>2. /\ n \in Nat \ {0} /\ o \in Nat /\ z \in Nat \ {0} /\ a \in Nat \ {0} /\ o + n <= z * a
    BY <1>0, SyncFacts, SetupFacts
  <2>3. z * a \in Nat
    BY <2>2, SMT
  <2> QED
    BY <2>1, <2>2, <2>3 DEF SyncType
<1>2. maxPos(r) = o + n - 1 /\ p \in Nat /\ p <= o + n - 1
  <2>1. maxPos(r) = o + n - 1
    BY <1>0 DEF maxPos
  <2> QED
    BY <1>1, <2>1
<1>3. p \in Positions
  BY <1>0, <1>1, <1>2 DEF Positions
<1>4. /\ T.s = setup /\ T.rank[i] = spRank(i) /\ PositionsT(T) = Positions /\ T.kind[r] = "kv"
  <2>1. /\ T.s = setup /\ T.rank[i] = spRank(i) /\ T.kind[r] = "kv"
    BY TableFacts
  <2> QED
    BY <2>1 DEF PositionsT, Positions
<1>5. \E k \in 1..r : Covers(setup, k, p)
  <2>1. r \in Nat /\ r \in 1..r
    BY SetupFacts DEF Rounds
  <2>2. CASE o <= p
    <3>1. Covers(setup, r, p)
      BY <1>0, <1>1, <1>2, <2>2 DEF Covers, PositionsOf
    <3> QED
      BY <2>1, <3>1
  <2>3. CASE ~(o <= p)
    <3>1. p \in 0..(o - 1)
      BY <1>1, <1>2, <2>3
    <3>2. PICK l \in 1..(r - 1) : setup.syncs[l].type = "SP_KV" /\ p \in PositionsOf(setup.syncs[l])
      BY <1>0, <1>1, <3>1, SyncFacts
    <3>3. l \in 1..r
      BY <2>1
    <3> QED
      BY <3>2, <3>3 DEF Covers
  <2> QED
    BY <2>2, <2>3
<1>6. CASE setup.cpSplit
  <2>1. Settled(i, r, cache)
    BY EndSettled, Zenon
  <2> QED
    BY <1>3, <1>5, <1>6, <2>1, Zenon DEF Settled
<1>7. CASE ~setup.cpSplit
  <2>1. PICK q \in Nat, m \in 0..(a - 1) : p \div a = q /\ p % a = m /\ p = q * a + m
    BY <1>1, <1>2, DivMod
  <2>2. q * a <= p /\ p < (q + 1) * a /\ q \in 0..(z - 1)
    <3>1. q * a <= p /\ p < (q + 1) * a
      BY <1>1, <2>1, SMT
    <3>2. p < z * a
      BY <1>1, <1>2
    <3>3. ~(q >= z)
      <4> SUFFICES ASSUME q >= z PROVE FALSE
        OBVIOUS
      <4>1. z * a <= q * a
        BY <1>1, <2>1, SMT
      <4>2. q * a \in Nat
        BY <1>1, <2>1, SMT
      <4> QED
        BY <1>1, <1>2, <3>1, <3>2, <4>1, <4>2
    <3> QED
      BY <1>1, <2>1, <3>1, <3>3
  <2>3. q \in SpRanks
    BY <1>0, <2>2 DEF SpRanks
  <2>4. PICK range : range = ActiveRange(r, q)
    OBVIOUS
  <2>5. InRange(range, p)
    <3>1. /\ range.start = q * a
          /\ range.end = IF maxPos(r) + 1 < (q + 1) * a THEN maxPos(r) + 1 ELSE (q + 1) * a
      BY <1>0, <1>7, <2>3, <2>4, RangeFacts
    <3>2. p < maxPos(r) + 1
      BY <1>1, <1>2
    <3> QED
      BY <2>2, <3>1, <3>2 DEF InRange
  <2>6. Fresh(T, i, r, d, x, p)
    <3>1. CASE q = spRank(i)
      BY <1>0, <1>4, <1>7, <2>2, <3>1, Zenon DEF Fresh
    <3>2. CASE q # spRank(i)
      <4>1. Got(T, i, r, d, x, p, q)
        <5>1. p \in Int /\ InRange(ActiveRange(r, q), p)
          BY <1>2, <2>4, <2>5
        <5> QED
          BY <2>3, <5>1, AllGot, Zenon
      <4> QED
        BY <1>0, <1>4, <1>7, <2>2, <3>2, <4>1, Zenon DEF Fresh
    <3> QED
      BY <3>1, <3>2
  <2> QED
    BY <1>3, <1>4, <1>5, <2>6, Zenon DEF KvOK
<1> QED
  BY <1>6, <1>7

\* The counts of node i start anew.
WReset(w2, w, i) ==
    w2 \in [Nodes \X Nodes -> Nat] /\ \A a, b \in Nodes : w2[<<a, b>>] = IF a = i THEN 0 ELSE w[<<a, b>>]
DReset(d2, d, i) ==
    d2 \in [Nodes \X Nodes -> Nat] /\ \A a, b \in Nodes : d2[<<a, b>>] = IF b = i THEN 0 ELSE d[<<a, b>>]

\* Node i goes on with sync step r.
Enters(T, i, r) ==
    /\ setup' = setup /\ chan' = chan /\ r = round[i] + 1 /\ r \in Rounds
    /\ round' \in [Nodes -> Rounds] /\ round'[i] = r /\ \A a \in Nodes : a # i => round'[a] = round[a]
    /\ ip' \in [Procs -> Nat \ {0}] /\ todo' \in [Procs -> SUBSET Nodes]
    /\ \A a \in Nodes, t \in Threads : a # i => ip'[<<a, t>>] = ip[<<a, t>>] /\ todo'[<<a, t>>] = todo[<<a, t>>]
    /\ \A t \in Threads : Begun(T, r, i, t, ip'[<<i, t>>], todo'[<<i, t>>])

\* NextRound puts every thread where it begins.
LEMMA RoundEnters ==
    ASSUME Types, NEW T, T = Table, NEW i \in Nodes, NextRound(i)
    PROVE  Enters(T, i, round[i] + 1)
<1>0. PICK r : r = round[i] + 1
  OBVIOUS
<1>1. /\ setup \in Setups /\ round \in [Nodes -> Rounds] /\ ip \in [Procs -> Nat \ {0}] /\ todo \in [Procs -> SUBSET Nodes]
  BY DEF Types
<1>2. r \in Rounds /\ round' \in [Nodes -> Rounds] /\ round'[i] = r /\ \A a \in Nodes : a # i => round'[a] = round[a]
  <2>1. round' = [round EXCEPT ![i] = r] /\ round[i] < MaxRounds
    BY <1>0 DEF NextRound
  <2>2. r \in Rounds
    BY <1>0, <1>1, <2>1, SetupFacts DEF Rounds
  <2> QED
    BY <1>1, <2>1, <2>2
<1>3. setup' = setup /\ chan' = chan
  BY DEF NextRound
<1>4. /\ ip' = [p \in Procs |-> IF p[1] = i THEN FirstCall(r, p) ELSE ip[p]]
      /\ todo' = [p \in Procs |-> IF p[1] = i THEN Peers(r, i, p[2], ip'[p]) ELSE todo[p]]
  BY <1>0, Zenon DEF NextRound
<1>5. ASSUME NEW t \in Threads
      PROVE  ip'[<<i, t>>] = NextCall(r, i, t, 1) /\ todo'[<<i, t>>] = Peers(r, i, t, ip'[<<i, t>>])
  <2>1. <<i, t>> \in Procs
    BY DEF Procs
  <2>2. ip'[<<i, t>>] = FirstCall(r, <<i, t>>) /\ todo'[<<i, t>>] = Peers(r, i, t, ip'[<<i, t>>])
    BY <1>4, <2>1
  <2> QED
    BY <2>2 DEF FirstCall
<1>6. ASSUME NEW t \in Threads PROVE Begun(T, r, i, t, ip'[<<i, t>>], todo'[<<i, t>>])
  <2>1. PICK c, D : c = ip'[<<i, t>>] /\ D = todo'[<<i, t>>]
    OBVIOUS
  <2>2. c = NextCall(r, i, t, 1) /\ D = Peers(r, i, t, c)
    BY <1>5, <2>1
  <2>3. Begun(T, r, i, t, c, D)
    BY <1>1, <1>2, <2>2, Begins
  <2> QED
    BY <2>1, <2>3
<1>7. \A a \in Nodes, t \in Threads : a # i => ip'[<<a, t>>] = ip[<<a, t>>] /\ todo'[<<a, t>>] = todo[<<a, t>>]
  BY <1>4 DEF Procs
<1>8. \A a \in Nodes, t \in Threads : ip'[<<a, t>>] \in Nat \ {0} /\ todo'[<<a, t>>] \in SUBSET Nodes
  <2> SUFFICES ASSUME NEW a \in Nodes, NEW t \in Threads
               PROVE  ip'[<<a, t>>] \in Nat \ {0} /\ todo'[<<a, t>>] \in SUBSET Nodes
    OBVIOUS
  <2>1. CASE a = i
    BY <1>6, <2>1 DEF Begun
  <2>2. CASE a # i
    BY <1>1, <1>7, <2>2 DEF Procs
  <2> QED
    BY <2>1, <2>2
<1>9. ip' \in [Procs -> Nat \ {0}] /\ todo' \in [Procs -> SUBSET Nodes]
  <2>1. \A p \in Procs : ip'[p] \in Nat \ {0} /\ todo'[p] \in SUBSET Nodes
    BY <1>8 DEF Procs
  <2>2. DOMAIN ip' = Procs /\ DOMAIN todo' = Procs /\ ip' = [p \in Procs |-> ip'[p]] /\ todo' = [p \in Procs |-> todo'[p]]
    BY <1>4
  <2> QED
    BY <2>1, <2>2
<1> QED
  BY <1>0, <1>2, <1>3, <1>6, <1>7, <1>9, Zenon DEF Enters

\* The threads' peers are those of their calls.
LEMMA ThreadedNext ==
    ASSUME Types, NEW T, T = Table, Threaded(T), NEW i \in Nodes, NEW r, Enters(T, i, r)
    PROVE  Threaded(T)'
<1>1. setup' = setup
  BY DEF Enters
<1>2. Nodes' = Nodes /\ Threads' = Threads
  BY <1>1, SameShape
<1>3. ASSUME NEW a \in Nodes, NEW b \in Threads
      PROVE  todo'[<<a, b>>] \subseteq PeersT(T, round'[a], a, b, ip'[<<a, b>>])
  <2>1. CASE a = i
    BY <2>1, Zenon DEF Enters, Begun
  <2>2. CASE a # i
    BY <2>2, Zenon DEF Enters, Threaded
  <2> QED
    BY <2>1, <2>2
<1> QED
  BY <1>2, <1>3, Zenon DEF Threaded

\* The counts of the writers agree with the threads.
LEMMA WritingNext ==
    ASSUME Types, NEW T, T = Table, NEW w, Writing(T, w), NEW i \in Nodes, NEW r, Enters(T, i, r),
           NEW w2, WReset(w2, w, i)
    PROVE  Writing(T, w2)'
<1>1. setup' = setup /\ setup \in Setups /\ round' \in [Nodes -> Rounds]
  BY DEF Enters, Types
<1>2. Nodes' = Nodes
  BY <1>1, SameShape
<1>3. ASSUME NEW a \in Nodes, NEW b \in Nodes
      PROVE  EndOK(T.link[<<round'[a], a, b>>].n, T.link[<<round'[a], a, b>>].w, w2[<<a, b>>],
                   ip'[<<a, T.link[<<round'[a], a, b>>].wt>>], b, todo'[<<a, T.link[<<round'[a], a, b>>].wt>>])
  <2>0. PICK k : k = T.link[<<round'[a], a, b>>]
    OBVIOUS
  <2>1. k.wt \in Threads
    BY <1>1, <2>0, EndsFacts
  <2>2. CASE a = i
    <3>1. round'[a] = r /\ Begun(T, r, a, k.wt, ip'[<<a, k.wt>>], todo'[<<a, k.wt>>]) /\ w2[<<a, b>>] = 0
      BY <2>1, <2>2 DEF Enters, WReset
    <3>2. EndOK(k.n, k.w, 0, ip'[<<a, k.wt>>], b, todo'[<<a, k.wt>>])
      BY <2>0, <3>1, Zenon DEF Begun
    <3> QED
      BY <2>0, <3>1, <3>2
  <2>3. CASE a # i
    <3>1. /\ round'[a] = round[a] /\ w2[<<a, b>>] = w[<<a, b>>]
          /\ ip'[<<a, k.wt>>] = ip[<<a, k.wt>>] /\ todo'[<<a, k.wt>>] = todo[<<a, k.wt>>]
      BY <2>1, <2>3 DEF Enters, WReset
    <3>2. EndOK(k.n, k.w, w[<<a, b>>], ip[<<a, k.wt>>], b, todo[<<a, k.wt>>])
      BY <2>0, <3>1, Zenon DEF Writing
    <3> QED
      BY <2>0, <3>1, <3>2
  <2> QED
    BY <2>2, <2>3
<1> QED
  BY <1>2, <1>3, Zenon DEF Writing

\* The counts of the readers agree with the threads.
LEMMA ReadingNext ==
    ASSUME Types, NEW T, T = Table, NEW d, Reading(T, d), NEW i \in Nodes, NEW r, Enters(T, i, r),
           NEW d2, DReset(d2, d, i)
    PROVE  Reading(T, d2)'
<1>1. setup' = setup /\ setup \in Setups /\ round' \in [Nodes -> Rounds]
  BY DEF Enters, Types
<1>2. Nodes' = Nodes
  BY <1>1, SameShape
<1>3. ASSUME NEW a \in Nodes, NEW b \in Nodes
      PROVE  EndOK(T.link[<<round'[b], a, b>>].n, T.link[<<round'[b], a, b>>].r, d2[<<a, b>>],
                   ip'[<<b, T.link[<<round'[b], a, b>>].rt>>], a, todo'[<<b, T.link[<<round'[b], a, b>>].rt>>])
  <2>0. PICK k : k = T.link[<<round'[b], a, b>>]
    OBVIOUS
  <2>1. k.rt \in Threads
    BY <1>1, <2>0, EndsFacts
  <2>2. CASE b = i
    <3>1. round'[b] = r /\ Begun(T, r, b, k.rt, ip'[<<b, k.rt>>], todo'[<<b, k.rt>>]) /\ d2[<<a, b>>] = 0
      BY <2>1, <2>2 DEF Enters, DReset
    <3>2. EndOK(k.n, k.r, 0, ip'[<<b, k.rt>>], a, todo'[<<b, k.rt>>])
      BY <2>0, <3>1, Zenon DEF Begun
    <3> QED
      BY <2>0, <3>1, <3>2
  <2>3. CASE b # i
    <3>1. /\ round'[b] = round[b] /\ d2[<<a, b>>] = d[<<a, b>>]
          /\ ip'[<<b, k.rt>>] = ip[<<b, k.rt>>] /\ todo'[<<b, k.rt>>] = todo[<<b, k.rt>>]
      BY <2>1, <2>3 DEF Enters, DReset
    <3>2. EndOK(k.n, k.r, d[<<a, b>>], ip[<<b, k.rt>>], a, todo[<<b, k.rt>>])
      BY <2>0, <3>1, Zenon DEF Reading
    <3> QED
      BY <2>0, <3>1, <3>2
  <2> QED
    BY <2>2, <2>3
<1> QED
  BY <1>2, <1>3, Zenon DEF Reading

\* The sockets hold what is between the ends.
LEMMA FlyingNext ==
    ASSUME Types, NEW T, T = Table, NEW S, Starts(T, S),
           NEW w \in [Nodes \X Nodes -> Nat], NEW d \in [Nodes \X Nodes -> Nat], Flying(T, S, w, d),
           NEW i \in Nodes, NEW r, Enters(T, i, r),
           \A j \in Nodes : w[<<i, j>>] = T.link[<<round[i], i, j>>].n /\ d[<<j, i>>] = T.link[<<round[i], j, i>>].n,
           NEW w2, WReset(w2, w, i), NEW d2, DReset(d2, d, i)
    PROVE  Flying(T, S, w2, d2)'
<1>1. /\ setup' = setup /\ chan' = chan /\ setup \in Setups /\ round \in [Nodes -> Rounds] /\ r = round[i] + 1 /\ r \in Rounds
      /\ round'[i] = r /\ \A a \in Nodes : a # i => round'[a] = round[a]
  BY DEF Enters, Types
<1>2. Nodes' = Nodes /\ MaxRounds' = MaxRounds
  BY <1>1, SameShape
<1>3. ASSUME NEW a \in Nodes, NEW b \in Nodes
      PROVE  FlightOK(T, a, b, S[<<a, b>>], CountsT(T, <<a, b>>), MaxRounds,
                      round'[a], w2[<<a, b>>], round'[b], d2[<<a, b>>], chan[<<a, b>>])
  <2>0. PICK cnt, st, q, u, v, ra, rb, R :
             /\ cnt = CountsT(T, <<a, b>>) /\ st = S[<<a, b>>] /\ q = chan[<<a, b>>] /\ u = w[<<a, b>>]
             /\ v = d[<<a, b>>] /\ ra = round[a] /\ rb = round[b] /\ R = MaxRounds
    OBVIOUS
  <2>1. FlightOK(T, a, b, st, cnt, R, ra, u, rb, v, q)
    BY <2>0, Zenon DEF Flying
  <2>2. StartOK(st, cnt, R) /\ u \in Nat /\ v \in Nat
    <3>1. <<a, b>> \in Nodes \X Nodes
      OBVIOUS
    <3> QED
      BY <2>0, <3>1 DEF Starts
  <2>3. /\ R \in Nat /\ ra \in 1..R /\ rb \in 1..R /\ cnt \in [1..R -> Nat] /\ r \in 1..R
        /\ cnt[ra] = T.link[<<ra, a, b>>].n /\ cnt[rb] = T.link[<<rb, a, b>>].n
    <3>1. ra \in Rounds /\ rb \in Rounds
      BY <1>1, <2>0
    <3>2. /\ MaxRounds \in Nat /\ Rounds = 1..MaxRounds
          /\ CountsT(T, <<a, b>>) \in [1..MaxRounds -> Nat]
          /\ \A x \in Rounds : CountsT(T, <<a, b>>)[x] = T.link[<<x, a, b>>].n
      <4>1. setup \in Setups
        BY <1>1
      <4> QED
        BY <4>1, CountsFacts
    <3> QED
      BY <1>1, <2>0, <3>1, <3>2
  <2>4. PICK r1, u1 : r1 = round'[a] /\ u1 = w2[<<a, b>>]
    OBVIOUS
  <2>5. FlightOK(T, a, b, st, cnt, R, r1, u1, rb, v, q) /\ r1 \in 1..R /\ u1 \in Nat
    <3>1. CASE a = i
      <4>1. u = cnt[ra] /\ r1 = ra + 1 /\ u1 = 0 /\ r1 = r
        BY <1>1, <2>0, <2>3, <2>4, <3>1 DEF WReset
      <4>2. FlightOK(T, a, b, st, cnt, R, ra + 1, 0, rb, v, q)
        BY <2>1, <2>2, <2>3, <4>1, FlightNext, Zenon
      <4> QED
        BY <2>3, <4>1, <4>2
    <3>2. CASE a # i
      <4>1. r1 = ra /\ u1 = u
        BY <1>1, <2>0, <2>4, <3>2 DEF WReset
      <4> QED
        BY <2>1, <2>2, <2>3, <4>1
    <3> QED
      BY <3>1, <3>2
  <2>6. PICK r2, v1 : r2 = round'[b] /\ v1 = d2[<<a, b>>]
    OBVIOUS
  <2>7. FlightOK(T, a, b, st, cnt, R, r1, u1, r2, v1, q)
    <3>1. CASE b = i
      <4>1. v = cnt[rb] /\ r2 = rb + 1 /\ v1 = 0
        BY <1>1, <2>0, <2>3, <2>6, <3>1 DEF DReset
      <4>2. FlightOK(T, a, b, st, cnt, R, r1, u1, rb + 1, 0, q)
        BY <2>2, <2>3, <2>5, <4>1, FlightNext, Zenon
      <4> QED
        BY <4>1, <4>2
    <3>2. CASE b # i
      <4>1. r2 = rb /\ v1 = v
        BY <1>1, <2>0, <2>6, <3>2 DEF DReset
      <4> QED
        BY <2>5, <4>1
    <3> QED
      BY <3>1, <3>2
  <2> QED
    BY <2>0, <2>4, <2>6, <2>7, Zenon
<1> QED
  BY <1>1, <1>2, <1>3, Zenon DEF Flying

\* Going on to the next sync step keeps the invariant.
LEMMA RoundStep ==
    ASSUME NEW T, NEW S, NEW w, NEW d, Story(T, S, w, d), NEW i \in Nodes, NextRound(i)
    PROVE  \E w2, d2 : Story(T, S, w2, d2)'
<1>0. PICK r : r = round[i] + 1
  OBVIOUS
<1>1. /\ T = Table /\ Types /\ w \in [Nodes \X Nodes -> Nat] /\ d \in [Nodes \X Nodes -> Nat]
      /\ Starts(T, S) /\ Threaded(T) /\ Writing(T, w) /\ Reading(T, d)
      /\ Flying(T, S, w, d) /\ Buffers(T, d) /\ Caches(T, d)
  BY Zenon DEF Story, Starts
<1>2. Enters(T, i, r)
  BY <1>0, <1>1, RoundEnters, Zenon
<1>3. /\ setup' = setup /\ chan' = chan /\ setup \in Setups /\ round[i] \in Rounds /\ r \in Rounds
      /\ round' \in [Nodes -> Rounds] /\ round'[i] = r /\ (\A a \in Nodes : a # i => round'[a] = round[a])
      /\ ip' \in [Procs -> Nat \ {0}] /\ todo' \in [Procs -> SUBSET Nodes]
  BY <1>1, <1>2 DEF Enters, Types
<1>4. Nodes' = Nodes /\ Rounds' = Rounds /\ Procs' = Procs
  BY <1>3, SameShape
<1>5. SyncDone(i)
  BY DEF NextRound
<1>6. \A j \in Nodes : w[<<i, j>>] = T.link[<<round[i], i, j>>].n /\ d[<<j, i>>] = T.link[<<round[i], j, i>>].n
  BY <1>1, <1>5, DoneCounts
<1>7. PICK w2 : WReset(w2, w, i)
  <2>1. WReset([l \in Nodes \X Nodes |-> IF l[1] = i THEN 0 ELSE w[l]], w, i)
    BY <1>1 DEF WReset
  <2> QED
    BY <2>1, Zenon
<1>8. PICK d2 : DReset(d2, d, i)
  <2>1. DReset([l \in Nodes \X Nodes |-> IF l[2] = i THEN 0 ELSE d[l]], d, i)
    BY <1>1 DEF DReset
  <2> QED
    BY <2>1, Zenon
<1>9. Threaded(T)'
  BY <1>1, <1>2, ThreadedNext, Zenon
<1>10. Writing(T, w2)'
  BY <1>1, <1>2, <1>7, WritingNext, Zenon
<1>11. Reading(T, d2)'
  BY <1>1, <1>2, <1>8, ReadingNext, Zenon
<1>12. Flying(T, S, w2, d2)'
  BY <1>1, <1>2, <1>6, <1>7, <1>8, FlyingNext, Zenon
<1>13. buf = [b \in Nodes |-> buf[b]] /\ kv = [b \in Nodes |-> kv[b]]
  BY <1>1 DEF Types
<1>14. /\ buf' = [b \in Nodes |-> buf'[b]] /\ kv' = [b \in Nodes |-> kv'[b]]
       /\ \A b \in Nodes : b # i => buf'[b] = buf[b] /\ kv'[b] = kv[b]
       /\ buf'[i] = Partial(i, r) /\ kv'[i] = Shift(r, i, kv[i])
  <2>1. PICK x, y : x = Partial(i, r) /\ y = Shift(r, i, kv[i])
    OBVIOUS
  <2>2. buf' = [buf EXCEPT ![i] = x] /\ kv' = [kv EXCEPT ![i] = y]
    BY <1>0, <2>1, Zenon DEF NextRound
  <2> QED
    BY <1>13, <2>1, <2>2
<1>15. ASSUME NEW b \in Nodes PROVE BufOK(T, b, round'[b], d2, buf'[b]) /\ KvOK(T, b, round'[b], d2, kv'[b])
  <2>1. BufOK(T, b, round[b], d, buf[b]) /\ KvOK(T, b, round[b], d, kv[b]) /\ round[b] \in Rounds
    BY <1>1 DEF Buffers, Caches, Types
  <2>2. CASE b # i
    <3>1. SameReads(d2, d, b)
      BY <1>8, <2>2 DEF DReset, SameReads
    <3>2. BufOK(T, b, round[b], d2, buf[b]) /\ KvOK(T, b, round[b], d2, kv[b])
      BY <1>1, <1>3, <2>1, <3>1, BufSame, KvSame, Zenon
    <3> QED
      BY <1>3, <1>14, <2>2, <3>2
  <2>3. CASE b = i
    <3>1. NoneRead(d2, i)
      BY <1>8 DEF DReset, NoneRead
    <3>2. BufOK(T, i, r, d2, buf'[i])
      BY <1>1, <1>3, <1>14, <3>1, PartialOK, Zenon
    <3>3. AllRead(T, d, i, round[i])
      BY <1>6, Zenon DEF AllRead
    <3>4. KvOK(T, i, round[i], d, kv[i])
      BY <2>1, <2>3
    <3>5. Settled(i, round[i], kv[i])
      BY <1>1, <1>3, <3>3, <3>4, EndSettled, Zenon
    <3>6. round[i] = r - 1
      <4>1. round[i] \in Int
        BY <1>3, SetupFacts DEF Rounds
      <4> QED
        BY <1>0, <4>1
    <3>7. Settled(i, r - 1, kv[i]) /\ IsShift(i, r, kv[i], kv'[i])
      BY <1>14, <3>5, <3>6, Zenon DEF IsShift
    <3>8. KvOK(T, i, r, d2, kv'[i])
      BY <1>1, <1>3, <3>1, <3>7, ShiftOK, Zenon
    <3> QED
      BY <1>3, <2>3, <3>2, <3>8
  <2> QED
    BY <2>2, <2>3
<1>16. Buffers(T, d2)' /\ Caches(T, d2)'
  BY <1>4, <1>15, Zenon DEF Buffers, Caches
<1>17. Types'
  <2>1. /\ chan' = [l \in Nodes \X Nodes |-> chan'[l]] /\ \A l \in Nodes \X Nodes : IsSeq(chan'[l])
    BY <1>1, <1>3 DEF Types
  <2>2. setup' \in Setups
    BY <1>3
  <2> QED
    BY <1>3, <1>4, <1>14, <2>1, <2>2, Zenon DEF Types
<1>18. T = Table' /\ Starts(T, S)'
  BY <1>1, <1>3, SameTable, StartsStay, Zenon
<1>19. w2 \in [Nodes' \X Nodes' -> Nat] /\ d2 \in [Nodes' \X Nodes' -> Nat]
  BY <1>4, <1>7, <1>8, Zenon DEF WReset, DReset
<1>20. Story(T, S, w2, d2)'
  BY <1>9, <1>10, <1>11, <1>12, <1>16, <1>17, <1>18, <1>19, Zenon DEF Story, Starts
<1> QED
  BY <1>20, Zenon

-----------------------------------------------------------------------------
(* At the beginning.                                                       *)

\* Nothing has been sent or read, and every thread is in its first call.
LEMMA StartsExist ==
    ASSUME setup \in Setups, NEW T, T = Table
    PROVE  \E S : Starts(T, S)
<1> DEFINE S == [l \in Nodes \X Nodes |-> CHOOSE st : StartOK(st, CountsT(T, l), MaxRounds)]
<1>1. ASSUME NEW i \in Nodes, NEW j \in Nodes PROVE StartOK(S[<<i, j>>], CountsT(T, <<i, j>>), MaxRounds)
  <2>1. MaxRounds \in Nat /\ CountsT(T, <<i, j>>) \in [1..MaxRounds -> Nat]
    BY CountsFacts
  <2>2. \E st : StartOK(st, CountsT(T, <<i, j>>), MaxRounds)
    BY <2>1, StartExists
  <2>3. S[<<i, j>>] = CHOOSE st : StartOK(st, CountsT(T, <<i, j>>), MaxRounds)
    OBVIOUS
  <2> HIDE DEF S
  <2> QED
    BY <2>2, <2>3, Zenon
<1> HIDE DEF S
<1>2. \A l \in Nodes \X Nodes : StartOK(S[l], CountsT(T, l), MaxRounds)
  BY <1>1
<1>3. Starts(T, S)
  BY <1>2, Zenon DEF Starts
<1> QED
  BY <1>3, Zenon

\* Nothing is counted.
IsZero(w) == w \in [Nodes \X Nodes -> Nat] /\ \A i, j \in Nodes : w[<<i, j>>] = 0

\* Every thread begins the first sync step.
LEMMA InitThreads ==
    ASSUME Init, NEW T, T = Table, NEW i \in Nodes, NEW t \in Threads
    PROVE  Begun(T, round[i], i, t, ip[<<i, t>>], todo[<<i, t>>]) /\ round[i] = 1 /\ 1 \in Rounds
<1>1. setup \in Setups /\ round[i] = 1 /\ 1 \in Rounds
  <2>1. setup \in Setups /\ round = [a \in Nodes |-> 1]
    BY DEF Init
  <2> QED
    BY <2>1, SetupFacts DEF Rounds
<1>2. <<i, t>> \in Procs
  BY DEF Procs
<1>3. ip = [p \in Procs |-> FirstCall(1, p)] /\ todo = [p \in Procs |-> Peers(1, p[1], p[2], ip[p])]
  BY Zenon DEF Init
<1>4. PICK c, D : c = ip[<<i, t>>] /\ D = todo[<<i, t>>]
  OBVIOUS
<1>5. c = NextCall(1, i, t, 1) /\ D = Peers(1, i, t, c)
  <2>1. ip[<<i, t>>] = FirstCall(1, <<i, t>>) /\ todo[<<i, t>>] = Peers(1, i, t, ip[<<i, t>>])
    BY <1>2, <1>3
  <2> QED
    BY <1>4, <2>1 DEF FirstCall
<1>6. Begun(T, 1, i, t, c, D)
  BY <1>1, <1>5, Begins
<1> QED
  BY <1>1, <1>4, <1>6

\* The first state has the types.
LEMMA InitTypes ==
    ASSUME Init
    PROVE  Types
<1>1. setup \in Setups /\ round = [a \in Nodes |-> 1] /\ chan = [l \in Nodes \X Nodes |-> <<>>]
  BY DEF Init
<1>2. round \in [Nodes -> Rounds]
  BY <1>1, SetupFacts DEF Rounds
<1>3. chan = [l \in Nodes \X Nodes |-> chan[l]] /\ \A l \in Nodes \X Nodes : IsSeq(chan[l])
  <2>1. IsSeq(<<>>)
    <3>1. <<>> \in Seq({})
      OBVIOUS
    <3> QED
      BY <3>1, Zenon DEF IsSeq
  <2> QED
    BY <1>1, <2>1
<1>4. buf = [i \in Nodes |-> buf[i]] /\ kv = [i \in Nodes |-> kv[i]]
  <2>1. PICK x, y : x = [i \in Nodes |-> Partial(i, 1)] /\ y = [i \in Nodes |-> Shift(1, i, [c \in KvCells |-> 0])]
    OBVIOUS
  <2>2. x = [i \in Nodes |-> x[i]] /\ y = [i \in Nodes |-> y[i]]
    BY <2>1, Zenon
  <2>3. buf = x /\ kv = y
    BY <2>1, Zenon DEF Init
  <2> QED
    BY <2>2, <2>3, Zenon
<1>5. PICK T : T = Table
  OBVIOUS
<1>6. \A i \in Nodes, t \in Threads : ip[<<i, t>>] \in Nat \ {0} /\ todo[<<i, t>>] \in SUBSET Nodes
  <2> SUFFICES ASSUME NEW i \in Nodes, NEW t \in Threads
               PROVE  ip[<<i, t>>] \in Nat \ {0} /\ todo[<<i, t>>] \in SUBSET Nodes
    OBVIOUS
  <2>1. Begun(T, round[i], i, t, ip[<<i, t>>], todo[<<i, t>>])
    BY <1>5, InitThreads
  <2> QED
    BY <2>1 DEF Begun
<1>7. ip \in [Procs -> Nat \ {0}] /\ todo \in [Procs -> SUBSET Nodes]
  <2>1. \A p \in Procs : ip[p] \in Nat \ {0} /\ todo[p] \in SUBSET Nodes
    BY <1>6 DEF Procs
  <2>2. ip = [p \in Procs |-> FirstCall(1, p)] /\ todo = [p \in Procs |-> Peers(1, p[1], p[2], ip[p])]
    BY Zenon DEF Init
  <2>3. DOMAIN ip = Procs /\ DOMAIN todo = Procs /\ ip = [p \in Procs |-> ip[p]] /\ todo = [p \in Procs |-> todo[p]]
    BY <2>2
  <2> QED
    BY <2>1, <2>3
<1> QED
  BY <1>1, <1>2, <1>3, <1>4, <1>7, Zenon DEF Types

\* The invariant holds at the beginning.
LEMMA InitStory ==
    ASSUME Init
    PROVE  Inv
<1>1. PICK T : T = Table
  OBVIOUS
<1>2. Types /\ setup \in Setups
  BY InitTypes DEF Types
<1>3. PICK S : Starts(T, S)
  BY <1>1, <1>2, StartsExist
<1>4. PICK w : IsZero(w)
  <2>1. IsZero([l \in Nodes \X Nodes |-> 0])
    BY DEF IsZero
  <2> QED
    BY <2>1, Zenon
<1>5. 0 \in Threads
  BY <1>2, SetupFacts DEF Threads
<1>6. \A i \in Nodes : round[i] = 1
  BY <1>1, <1>5, InitThreads
<1>7. 1 \in Rounds
  BY <1>2, SetupFacts DEF Rounds
<1>8. \A i \in Nodes, t \in Threads : Begun(T, round[i], i, t, ip[<<i, t>>], todo[<<i, t>>])
  BY <1>1, InitThreads
<1>9. Threaded(T)
  BY <1>8, Zenon DEF Threaded, Begun
<1>10. Writing(T, w)
  <2>1. ASSUME NEW i \in Nodes, NEW j \in Nodes
        PROVE  EndOK(T.link[<<round[i], i, j>>].n, T.link[<<round[i], i, j>>].w, w[<<i, j>>],
                     ip[<<i, T.link[<<round[i], i, j>>].wt>>], j, todo[<<i, T.link[<<round[i], i, j>>].wt>>])
    <3>1. PICK k : k = T.link[<<round[i], i, j>>]
      OBVIOUS
    <3>2. k.wt \in Threads
      BY <1>1, <1>2, <1>6, <1>7, <3>1, EndsFacts
    <3>3. EndOK(k.n, k.w, 0, ip[<<i, k.wt>>], j, todo[<<i, k.wt>>])
      BY <1>8, <3>1, <3>2, Zenon DEF Begun
    <3>4. w[<<i, j>>] = 0
      BY <1>4 DEF IsZero
    <3> QED
      BY <3>1, <3>3, <3>4
  <2> QED
    BY <2>1, Zenon DEF Writing
<1>11. Reading(T, w)
  <2>1. ASSUME NEW i \in Nodes, NEW j \in Nodes
        PROVE  EndOK(T.link[<<round[j], i, j>>].n, T.link[<<round[j], i, j>>].r, w[<<i, j>>],
                     ip[<<j, T.link[<<round[j], i, j>>].rt>>], i, todo[<<j, T.link[<<round[j], i, j>>].rt>>])
    <3>1. PICK k : k = T.link[<<round[j], i, j>>]
      OBVIOUS
    <3>2. k.rt \in Threads
      BY <1>1, <1>2, <1>6, <1>7, <3>1, EndsFacts
    <3>3. EndOK(k.n, k.r, 0, ip[<<j, k.rt>>], i, todo[<<j, k.rt>>])
      BY <1>8, <3>1, <3>2, Zenon DEF Begun
    <3>4. w[<<i, j>>] = 0
      BY <1>4 DEF IsZero
    <3> QED
      BY <3>1, <3>3, <3>4
  <2> QED
    BY <2>1, Zenon DEF Reading
<1>12. Flying(T, S, w, w)
  <2>1. ASSUME NEW i \in Nodes, NEW j \in Nodes
        PROVE  FlightOK(T, i, j, S[<<i, j>>], CountsT(T, <<i, j>>), MaxRounds,
                        round[i], w[<<i, j>>], round[j], w[<<i, j>>], chan[<<i, j>>])
    <3>1. PICK st, cnt : st = S[<<i, j>>] /\ cnt = CountsT(T, <<i, j>>)
      OBVIOUS
    <3>2. st[1] \in Nat
      <4>1. StartOK(st, cnt, MaxRounds)
        BY <1>3, <3>1 DEF Starts
      <4>2. 1 \in 1..(MaxRounds + 1)
        BY <1>2, SetupFacts
      <4> QED
        BY <4>1, <4>2 DEF StartOK
    <3>3. chan[<<i, j>>] = <<>> /\ w[<<i, j>>] = 0 /\ round[i] = 1 /\ round[j] = 1
      <4>1. chan = [l \in Nodes \X Nodes |-> <<>>]
        BY DEF Init
      <4> QED
        BY <1>4, <1>6, <4>1 DEF IsZero
    <3>4. Len(<<>>) = 0 /\ (st[1] + 0) - (st[1] + 0) = 0 /\ 1..0 = {}
      BY <3>2
    <3>5. FlightOK(T, i, j, st, cnt, MaxRounds, 1, 0, 1, 0, <<>>)
      BY <3>4 DEF FlightOK
    <3> QED
      BY <3>1, <3>3, <3>5
  <2> QED
    BY <2>1, Zenon DEF Flying
<1>13. ASSUME NEW i \in Nodes PROVE BufOK(T, i, round[i], w, buf[i]) /\ KvOK(T, i, round[i], w, kv[i])
  <2>1. NoneRead(w, i)
    BY <1>4 DEF IsZero, NoneRead
  <2>2. PICK zero : zero = [c \in KvCells |-> 0]
    OBVIOUS
  <2>3. buf[i] = Partial(i, 1) /\ kv[i] = Shift(1, i, zero)
    <3>1. buf = [a \in Nodes |-> Partial(a, 1)] /\ kv = [a \in Nodes |-> Shift(1, a, zero)]
      BY <2>2, Zenon DEF Init
    <3> QED
      BY <3>1, Zenon
  <2>4. BufOK(T, i, 1, w, buf[i])
    BY <1>1, <1>2, <1>7, <2>1, <2>3, PartialOK, Zenon
  <2>5. Settled(i, 0, zero)
    <3>1. \A p : IsLatest(setup, 0, 0, p)
      BY DEF IsLatest
    <3>2. \A x \in {"k", "v"}, p \in Positions : zero[<<x, p>>] = 0
      BY <2>2 DEF KvCells
    <3>3. zero = [c \in KvCells |-> zero[c]]
      BY <2>2
    <3> QED
      BY <3>1, <3>2, <3>3, Zenon DEF Settled
  <2>6. 1 - 1 = 0
    OBVIOUS
  <2>7. Settled(i, 1 - 1, zero) /\ IsShift(i, 1, zero, kv[i])
    BY <2>3, <2>5, <2>6, Zenon DEF IsShift
  <2>8. KvOK(T, i, 1, w, kv[i])
    BY <1>1, <1>2, <1>7, <2>1, <2>7, ShiftOK, Zenon
  <2> QED
    BY <1>6, <2>4, <2>8
<1>14. Buffers(T, w) /\ Caches(T, w)
  BY <1>13, Zenon DEF Buffers, Caches
<1>15. w \in [Nodes \X Nodes -> Nat]
  BY <1>4, Zenon DEF IsZero
<1>16. Story(T, S, w, w)
  BY <1>1, <1>2, <1>3, <1>9, <1>10, <1>11, <1>12, <1>14, <1>15, Zenon DEF Story, Starts
<1> QED
  BY <1>16, Zenon DEF Inv

-----------------------------------------------------------------------------
(* The invariant holds.                                                    *)

\* A step that changes nothing.
LEMMA StutterStep ==
    ASSUME NEW T, NEW S, NEW w, NEW d, Story(T, S, w, d), UNCHANGED vars
    PROVE  Story(T, S, w, d)'
<1>1. /\ T = Table /\ Types /\ w \in [Nodes \X Nodes -> Nat] /\ d \in [Nodes \X Nodes -> Nat]
      /\ Starts(T, S) /\ Threaded(T) /\ Writing(T, w) /\ Reading(T, d)
      /\ Flying(T, S, w, d) /\ Buffers(T, d) /\ Caches(T, d)
  BY Zenon DEF Story, Starts
<1>2. setup' = setup /\ chan' = chan /\ round' = round /\ buf' = buf /\ kv' = kv /\ ip' = ip /\ todo' = todo
  BY DEF vars
<1>3. Nodes' = Nodes /\ Rounds' = Rounds /\ Procs' = Procs /\ Threads' = Threads /\ MaxRounds' = MaxRounds
  BY <1>2, SameShape
<1>4. T = Table' /\ Starts(T, S)'
  BY <1>1, <1>2, SameTable, StartsStay, Zenon
<1>5. Types'
  BY <1>1, <1>2, <1>3, Zenon DEF Types
<1>6. Threaded(T)' /\ Writing(T, w)' /\ Reading(T, d)'
  BY <1>1, <1>2, <1>3, Zenon DEF Threaded, Writing, Reading
<1>7. Flying(T, S, w, d)'
  BY <1>1, <1>2, <1>3, Zenon DEF Flying
<1>8. Buffers(T, d)' /\ Caches(T, d)'
  BY <1>1, <1>2, <1>3, Zenon DEF Buffers, Caches
<1>9. w \in [Nodes' \X Nodes' -> Nat] /\ d \in [Nodes' \X Nodes' -> Nat]
  BY <1>1, <1>3
<1> QED
  BY <1>4, <1>5, <1>6, <1>7, <1>8, <1>9, Zenon DEF Story, Starts

\* Every step, of whatever thread of whatever node.
LEMMA InvStep ==
    ASSUME Inv, [Next]_vars
    PROVE  Inv'
<1>1. PICK T, S, w, d : Story(T, S, w, d)
  BY Zenon DEF Inv
<1>2. CASE UNCHANGED vars
  <2>1. Story(T, S, w, d)'
    BY <1>1, <1>2, StutterStep, Zenon
  <2> QED
    BY <2>1, Zenon DEF Inv
<1>3. ASSUME NEW i \in Nodes, NextRound(i) PROVE Inv'
  <2>1. \E w2, d2 : Story(T, S, w2, d2)'
    BY <1>1, <1>3, RoundStep, Zenon
  <2> QED
    BY <2>1, Zenon DEF Inv
<1>4. ASSUME NEW i \in Nodes, NEW t \in Threads, NEW j \in Nodes, WriteSocket(i, t, j) PROVE Inv'
  <2>1. \E w2 : Story(T, S, w2, d)'
    BY <1>1, <1>4, WriteStep, Zenon
  <2> QED
    BY <2>1, Zenon DEF Inv
<1>5. ASSUME NEW i \in Nodes, NEW t \in Threads, NEW j \in Nodes, ReadSocket(i, t, j) PROVE Inv'
  <2>1. \E d2 : Story(T, S, w, d2)'
    BY <1>1, <1>5, ReadStep, Zenon
  <2> QED
    BY <2>1, Zenon DEF Inv
<1> QED
  BY <1>2, <1>3, <1>4, <1>5, Zenon DEF Next, Step

\* What the nodes have written and not yet read is on the wire, in the order in
\* which it is read; every transfer, pipe and cache holds what its place in the
\* programs of sync says.
THEOREM CollectivesInvariance == Spec => []Inv
<1>1. Init => Inv
  BY InitStory
<1>2. Inv /\ [Next]_vars => Inv'
  BY InvStep
<1> QED
  BY <1>1, <1>2, PTL DEF Spec

-----------------------------------------------------------------------------
(* What a sync step leaves.                                                *)

\* Node i is through with step r: it has read all that is sent to it in this step.
Ended(T, d, i, r) ==
    /\ T = Table /\ AllRead(T, d, i, r)
    /\ PipeOK(i, r, d, buf[i]) /\ KvOK(T, i, r, d, kv[i])

\* A node whose threads are through has ended its sync step.
LEMMA AtEnd ==
    ASSUME Inv, NEW i \in Nodes, SyncDone(i)
    PROVE  setup \in Setups /\ round[i] \in Rounds /\ \E T, d : Ended(T, d, i, round[i])
<1>1. PICK T, S, w, d : Story(T, S, w, d)
  BY Zenon DEF Inv
<1>2. /\ T = Table /\ Types /\ Writing(T, w) /\ Reading(T, d) /\ Buffers(T, d) /\ Caches(T, d)
  BY <1>1, Zenon DEF Story
<1>3. setup \in Setups /\ round[i] \in Rounds
  BY <1>2 DEF Types
<1>4. \A j \in Nodes : w[<<i, j>>] = T.link[<<round[i], i, j>>].n /\ d[<<j, i>>] = T.link[<<round[i], j, i>>].n
  BY <1>2, DoneCounts
<1>5. AllRead(T, d, i, round[i])
  BY <1>4, Zenon DEF AllRead
<1>6. BufOK(T, i, round[i], d, buf[i]) /\ KvOK(T, i, round[i], d, kv[i])
  BY <1>2, Zenon DEF Buffers, Caches
<1>7. PipeOK(i, round[i], d, buf[i])
  BY <1>2, <1>3, <1>6, BufView, Zenon
<1> QED
  BY <1>2, <1>3, <1>5, <1>6, <1>7, Zenon DEF Ended

\* One transfer per row has come over every link.
LEMMA RowsCame ==
    ASSUME setup \in Setups, NEW T, T = Table, NEW r \in Rounds, NEW i \in Nodes, NEW d, AllRead(T, d, i, r),
           Kind(r) \notin {"kv", "ring"}, NEW e \in Nodes, Linked(r, e, i), NEW y \in Rows(r)
    PROVE  y < d[<<e, i>>]
<1>1. d[<<e, i>>] = T.link[<<r, e, i>>].n
  BY DEF AllRead
<1>2. T.link[<<r, e, i>>] = Ends(Link(r, e, i))
  BY TableFacts
<1>3. d[<<e, i>>] = setup.syncs[r].batchSize
  BY <1>1, <1>2 DEF Ends, Link, Count
<1>4. setup.syncs[r].batchSize \in Nat
  BY SyncFacts
<1> QED
  BY <1>3, <1>4 DEF Rows

\* The cells of a pipe.
LEMMA PipeCells ==
    ASSUME NEW i, NEW r, NEW d, NEW b, PipeOK(i, r, d, b), NEW c \in DOMAIN b
    PROVE  \E s \in Slices, y \in Rows(r) : c = <<s, y>> /\ CellOK(i, r, d, b, s, y)
<1>1. b = [a \in Slices \X Rows(r) |-> b[a]] /\ \A s \in Slices, y \in Rows(r) : CellOK(i, r, d, b, s, y)
  BY Zenon DEF PipeOK
<1>2. DOMAIN b = Slices \X Rows(r)
  BY <1>1
<1>3. PICK s \in Slices, y \in Rows(r) : c = <<s, y>>
  BY <1>2
<1> QED
  BY <1>1, <1>3, Zenon

\* The star's sum is complete.
LEMMA StarComplete ==
    ASSUME setup \in Setups, NEW T, NEW r \in Rounds, NEW i \in Nodes, NEW d, Ended(T, d, i, r),
           Kind(r) \in {"reduce", "star"}, OnlyToRoot(r) => i = tpGroupStart(i), NEW y \in Rows(r)
    PROVE  StarValue(i, r, y, d) = SumOf(Group(i), r)
<1>1. T = Table /\ AllRead(T, d, i, r) /\ Kind(r) \notin {"kv", "ring"}
  BY DEF Ended
<1>2. CASE i = tpGroupStart(i)
  <2>1. ASSUME NEW j \in Group(i), j # i PROVE y < d[<<j, i>>]
    <3>1. j \in Nodes /\ tpGroupStart(j) = i
      BY <1>2, <2>1, GroupFacts
    <3>2. Linked(r, j, i)
      BY <2>1, <3>1 DEF Linked
    <3> QED
      BY <1>1, <3>1, <3>2, RowsCame
  <2>2. i \in Group(i)
    BY GroupFacts
  <2>3. {i} \cup {j \in Group(i) : y < d[<<j, i>>]} = Group(i)
    BY <2>1, <2>2
  <2> QED
    BY <1>2, <2>3, Zenon DEF StarValue
<1>3. CASE i # tpGroupStart(i)
  <2>1. Kind(r) = "star"
    BY <1>3, KindFacts
  <2>2. PICK e : e = tpGroupStart(i)
    OBVIOUS
  <2>3. e \in Nodes /\ tpGroupStart(e) = e
    BY <2>2, GroupFacts, RootsRoot
  <2>4. Linked(r, e, i)
    BY <1>3, <2>1, <2>2, <2>3 DEF Linked
  <2>5. y < d[<<e, i>>]
    BY <1>1, <2>3, <2>4, RowsCame
  <2> QED
    BY <1>3, <2>2, <2>5, Zenon DEF StarValue
<1> QED
  BY <1>2, <1>3

\* The invariant implies StarReduced.
LEMMA InvStar ==
    ASSUME Inv
    PROVE  StarReduced
<1> SUFFICES ASSUME NEW i \in Nodes, Receives(i), ~UsesBatch(round[i]), ~UsesRing(round[i]), NEW c \in DOMAIN buf[i]
             PROVE  buf[i][c] = SetToBag({<<n, round[i]>> : n \in Group(i)})
  BY Zenon DEF StarReduced, Summed
<1>0. PICK r : r = round[i]
  OBVIOUS
<1>1. /\ SyncDone(i) /\ SyncType(r) \in {"NODE_SLICES", "NODE_SLICES_EXCEPT_ROOT"}
      /\ OnlyToRoot(r) => i = tpGroupStart(i)
  BY <1>0 DEF Receives
<1>2. PICK T, d : setup \in Setups /\ r \in Rounds /\ Ended(T, d, i, r)
  BY <1>0, <1>1, AtEnd, Zenon
<1>3. Kind(r) \in {"idle", "reduce", "star"}
  BY <1>0, <1>1, <1>2, KindFacts
<1>4. PICK s \in Slices, y \in Rows(r) : c = <<s, y>> /\ CellOK(i, r, d, buf[i], s, y)
  BY <1>0, <1>2, PipeCells, Zenon DEF Ended
<1>5. CASE Kind(r) = "idle"
  <2>1. Group(i) = {i}
    <3>1. tpSize = 1 /\ i \in Nat
      BY <1>2, <1>5, KindFacts, SetupFacts DEF Nodes
    <3> QED
      BY <3>1 DEF Group, tpGroupStart
  <2>2. buf[i][c] = One(i, r)
    BY <1>4, <1>5, Zenon DEF CellOK
  <2>3. {<<n, r>> : n \in Group(i)} = {<<i, r>>}
    BY <2>1
  <2> QED
    BY <1>0, <2>2, <2>3, Zenon DEF One
<1>6. CASE Kind(r) \in {"reduce", "star"}
  <2>1. buf[i][c] = StarValue(i, r, y, d)
    BY <1>4, <1>6, Zenon DEF CellOK
  <2>2. StarValue(i, r, y, d) = SumOf(Group(i), r)
    BY <1>1, <1>2, <1>6, StarComplete, Zenon
  <2> QED
    BY <1>0, <2>1, <2>2, Zenon DEF SumOf
<1> QED
  BY <1>3, <1>5, <1>6

\* The invariant implies SlicesGathered.
LEMMA InvSlices ==
    ASSUME Inv
    PROVE  SlicesGathered
<1> SUFFICES ASSUME NEW i \in Nodes, Receives(i), UsesBatch(round[i]), NEW c \in DOMAIN buf[i]
             PROVE  buf[i][c] = SetToBag({<<c[1], round[i]>>})
  BY Zenon DEF SlicesGathered
<1>0. PICK r : r = round[i]
  OBVIOUS
<1>1. /\ SyncDone(i) /\ SyncType(r) \in {"NODE_SLICES", "NODE_SLICES_EXCEPT_ROOT"}
      /\ OnlyToRoot(r) => i = tpGroupStart(i)
  BY <1>0 DEF Receives
<1>2. PICK T, d : setup \in Setups /\ r \in Rounds /\ Ended(T, d, i, r)
  BY <1>0, <1>1, AtEnd, Zenon
<1>3. Kind(r) \in {"gather", "batch"} /\ tpSize >= setup.nNodes /\ (OnlyToRoot(r) <=> Kind(r) = "gather")
  BY <1>0, <1>1, <1>2, KindFacts
<1>4. PICK s \in Slices, y \in Rows(r) : c = <<s, y>> /\ CellOK(i, r, d, buf[i], s, y)
  BY <1>0, <1>2, PipeCells, Zenon DEF Ended
<1>5. s \in Nodes /\ (Kind(r) = "gather" => i = 0)
  <2>1. tpGroupStart(i) = 0 /\ tpSize = setup.nNodes
    BY <1>2, <1>3, WholeCluster
  <2> QED
    BY <1>1, <1>3, <1>4, <2>1 DEF Slices, Nodes
<1>6. s = i \/ y < d[<<s, i>>]
  <2>1. ASSUME s # i PROVE y < d[<<s, i>>]
    <3>1. Linked(r, s, i) /\ Kind(r) \notin {"kv", "ring"}
      BY <1>3, <1>5, <2>1 DEF Linked
    <3>2. T = Table /\ AllRead(T, d, i, r)
      BY <1>2 DEF Ended
    <3> QED
      BY <1>2, <1>4, <1>5, <3>1, <3>2, RowsCame
  <2> QED
    BY <2>1
<1>7. buf[i][c] = One(s, r) /\ c[1] = s
  BY <1>3, <1>4, <1>6 DEF CellOK
<1> QED
  BY <1>0, <1>7, Zenon DEF One

\* The invariant implies RootRowsEverywhere.
LEMMA InvRootRows ==
    ASSUME Inv
    PROVE  RootRowsEverywhere
<1> SUFFICES ASSUME NEW i \in Nodes, SyncDone(i), SyncType(round[i]) = "WITH_ROOT", NEW c \in DOMAIN buf[i]
             PROVE  buf[i][c] = SetToBag({<<IF Tp1Skipped(round[i]) THEN i ELSE 0, round[i]>>})
  BY Zenon DEF RootRowsEverywhere
<1>0. PICK r : r = round[i]
  OBVIOUS
<1>2. PICK T, d : setup \in Setups /\ r \in Rounds /\ Ended(T, d, i, r)
  BY <1>0, AtEnd, Zenon
<1>3. (Kind(r) = "idle" /\ Tp1Skipped(r)) \/ (Kind(r) = "root" /\ ~Tp1Skipped(r))
  BY <1>0, <1>2, KindFacts
<1>4. PICK s \in Slices, y \in Rows(r) : c = <<s, y>> /\ CellOK(i, r, d, buf[i], s, y)
  BY <1>0, <1>2, PipeCells, Zenon DEF Ended
<1>5. ASSUME Kind(r) = "root" PROVE i = 0 \/ y < d[<<0, i>>]
  <2>1. ASSUME i # 0 PROVE y < d[<<0, i>>]
    <3>1. Linked(r, 0, i) /\ Kind(r) \notin {"kv", "ring"}
      BY <1>5, <2>1 DEF Linked
    <3>2. T = Table /\ AllRead(T, d, i, r)
      BY <1>2 DEF Ended
    <3>3. 0 \in Nodes
      BY <1>2, SetupFacts DEF Nodes
    <3> QED
      BY <1>2, <1>4, <3>1, <3>2, <3>3, RowsCame
  <2> QED
    BY <2>1
<1>6. CASE Kind(r) = "idle" /\ Tp1Skipped(r)
  <2>1. buf[i][c] = One(i, r)
    BY <1>4, <1>6, Zenon DEF CellOK
  <2> QED
    BY <1>0, <1>6, <2>1, Zenon DEF One
<1>7. CASE Kind(r) = "root" /\ ~Tp1Skipped(r)
  <2>1. buf[i][c] = One(0, r)
    BY <1>4, <1>5, <1>7, Zenon DEF CellOK
  <2> QED
    BY <1>0, <1>7, <2>1, Zenon DEF One
<1> QED
  BY <1>3, <1>6, <1>7

\* The invariant implies KvGathered.
LEMMA InvKv ==
    ASSUME Inv
    PROVE  KvGathered
<1> SUFFICES ASSUME NEW i \in Nodes, SyncDone(i), SyncType(round[i]) = "SP_KV", ~SpKvSkipped(round[i]),
                    NEW p \in 0..maxPos(round[i]), NEW x \in {"k", "v"}
             PROVE  /\ kv[i][<<x, p>>] \in 1..round[i]
                    /\ SyncType(kv[i][<<x, p>>]) = "SP_KV"
                    /\ p \in setup.syncs[kv[i][<<x, p>>]].position..maxPos(kv[i][<<x, p>>])
                    /\ \A r \in (kv[i][<<x, p>>] + 1)..round[i] :
                         ~(SyncType(r) = "SP_KV" /\ p \in setup.syncs[r].position..maxPos(r))
  BY ZenonT(60) DEF KvGathered
<1>0. PICK r, latest : r = round[i] /\ latest = kv[i][<<x, p>>]
  OBVIOUS
<1>1. PICK T, d : setup \in Setups /\ r \in Rounds /\ Ended(T, d, i, r)
  BY <1>0, AtEnd, Zenon
<1>2. Kind(r) = "kv"
  BY <1>0, <1>1, KindFacts
<1>3. T = Table /\ AllRead(T, d, i, r) /\ KvOK(T, i, r, d, kv[i])
  BY <1>1, Zenon DEF Ended
<1>4. ~SpKvSkipped(r) /\ p \in 0..maxPos(r)
  BY <1>0
<1>5. IsLatest(setup, latest, r, p) /\ \E k \in 1..r : Covers(setup, k, p)
  BY <1>0, <1>1, <1>2, <1>3, <1>4, EndGathered, Zenon
<1>6. \A k : Covers(setup, k, p) <=> SyncType(k) = "SP_KV" /\ p \in setup.syncs[k].position..maxPos(k)
  BY DEF Covers, PositionsOf, SyncType, maxPos
<1>7. r \in Nat
  BY <1>1, SetupFacts DEF Rounds
<1>8. /\ latest \in 0..r /\ (latest # 0 => Covers(setup, latest, p))
      /\ \A k \in (latest + 1)..r : ~Covers(setup, k, p)
  BY <1>5, Zenon DEF IsLatest
<1>9. latest \in 1..r
  BY <1>5, <1>7, <1>8
<1>10. Covers(setup, latest, p)
  BY <1>7, <1>8, <1>9
<1> QED
  BY <1>0, <1>6, <1>8, <1>9, <1>10, Zenon

\* Two nodes that are through with the same step have left nothing between them.
LEMMA InvWires ==
    ASSUME Inv
    PROVE  WiresDrained
<1> SUFFICES ASSUME NEW i \in Nodes, NEW j \in Nodes, SyncDone(i), SyncDone(j), round[i] = round[j]
             PROVE  chan[<<i, j>>] = <<>>
  BY Zenon DEF WiresDrained
<1>1. PICK T, S, w, d : Story(T, S, w, d)
  BY Zenon DEF Inv
<1>2. /\ T = Table /\ Types /\ Starts(T, S) /\ Writing(T, w) /\ Reading(T, d) /\ Flying(T, S, w, d)
  BY <1>1, Zenon DEF Story, Starts
<1>3. setup \in Setups /\ round[i] \in Rounds /\ IsSeq(chan[<<i, j>>])
  BY <1>2 DEF Types
<1>4. w[<<i, j>>] = T.link[<<round[i], i, j>>].n /\ d[<<j, i>>] = T.link[<<round[i], j, i>>].n
  BY <1>2, DoneCounts
<1>5. w[<<j, i>>] = T.link[<<round[j], j, i>>].n /\ d[<<i, j>>] = T.link[<<round[j], i, j>>].n
  BY <1>2, DoneCounts
<1>6. PICK r, n, st, q : r = round[i] /\ n = T.link[<<r, i, j>>].n /\ st = S[<<i, j>>] /\ q = chan[<<i, j>>]
  OBVIOUS
<1>7. w[<<i, j>>] = n /\ d[<<i, j>>] = n
  BY <1>4, <1>5, <1>6
<1>8. Len(q) = (st[r] + n) - (st[r] + n)
  <2>1. FlightOK(T, i, j, st, CountsT(T, <<i, j>>), MaxRounds, r, n, r, n, q)
    BY <1>2, <1>6, <1>7, Zenon DEF Flying
  <2> QED
    BY <2>1, Zenon DEF FlightOK
<1>9. n \in Nat /\ st[r] \in Nat
  <2>1. n \in Nat
    BY <1>2, <1>3, <1>6, EndsFacts
  <2>2. st \in [1..(MaxRounds + 1) -> Nat]
    BY <1>2, <1>6 DEF Starts, StartOK
  <2>3. r \in 1..(MaxRounds + 1)
    BY <1>3, <1>6, SetupFacts DEF Rounds
  <2> QED
    BY <2>1, <2>2, <2>3
<1>10. Len(q) = 0
  BY <1>8, <1>9
<1> QED
  BY <1>3, <1>6, <1>10 DEF IsSeq

\* The star leaves, on every node that gets the result, the sum of exactly one
\* partial result of every node of its TP group, of this sync step, for every
\* cluster, row length, number of threads, socket size and order of sync steps.
THEOREM StarSums == Spec => []StarReduced
<1>1. Inv => StarReduced
  BY InvStar
<1> QED
  BY <1>1, CollectivesInvariance, PTL

\* The batched exchange leaves slice n of every row as node n has computed it in
\* this sync step, whatever the threads' paces and whatever was sent before or
\* ahead on the same sockets.
THEOREM BatchGathers == Spec => []SlicesGathered
<1>1. Inv => SlicesGathered
  BY InvSlices
<1> QED
  BY <1>1, CollectivesInvariance, PTL

\* SYNC_WITH_ROOT leaves the root's rows of this sync step on every node, of SP
\* groups too, unless the TP groups are of one node and skip it: then every node
\* keeps its own.
THEOREM RootRowsArrive == Spec => []RootRowsEverywhere
<1>1. Inv => RootRowsEverywhere
  BY InvRootRows
<1> QED
  BY <1>1, CollectivesInvariance, PTL

\* Behind SYNC_SP_KV every node of the SP group has the latest K and V row of every
\* position so far, for both ways to split a chunk, with empty blocks and ranges,
\* and after skipped exchanges of decoded tokens.
THEOREM KvComplete == Spec => []KvGathered
<1>1. Inv => KvGathered
  BY InvKv
<1> QED
  BY <1>1, CollectivesInvariance, PTL

\* Every byte that is sent in a sync step, of any of the algorithms, the ring
\* included, is read in the same sync step: when two nodes are through with it
\* nothing is left between them that the next sync step could take for its own.
THEOREM WiresDrain == Spec => []WiresDrained
<1>1. Inv => WiresDrained
  BY InvWires
<1> QED
  BY <1>1, CollectivesInvariance, PTL
=============================================================================
