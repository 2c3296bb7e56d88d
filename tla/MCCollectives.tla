--------------------------- MODULE MCCollectives ----------------------------
(* Small clusters for TLC.                                                 *)
EXTENDS Collectives

Sync(type, n, position, decode) ==
    [type |-> type, batchSize |-> n, position |-> position, decode |-> decode]
SlicesOf(n) == Sync("NODE_SLICES", n, 0, FALSE)
ToRoot(n) == Sync("NODE_SLICES_EXCEPT_ROOT", n, 0, FALSE)
FromRoot(n) == Sync("WITH_ROOT", n, 0, FALSE)
FromRootAt(position) == Sync("WITH_ROOT", 1, position, TRUE)
SlicesAt(position) == Sync("NODE_SLICES", 1, position, TRUE)
Kv(position, n) == Sync("SP_KV", n, position, FALSE)
KvOfToken(position) == Sync("SP_KV", 1, position, TRUE)

Cluster(nodes, tp, threads, off, turbo, steps) ==
    [nNodes |-> nodes, tpSize |-> tp, spSize |-> 1, nThreads |-> threads,
     collectiveType |-> "auto", nBytes |-> 16, batchedSyncOff |-> off, keepTp1Syncs |-> FALSE,
     netTurbo |-> turbo,
     localSeqLen |-> 2, cpSplit |-> FALSE, spPrefillOnly |-> FALSE, syncs |-> steps]

SpCluster(tp, sp, seqLen, cp, prefillOnly, steps) ==
    [Cluster(tp * sp, tp, 1, TRUE, FALSE, steps) EXCEPT
        !.spSize = sp, !.localSeqLen = seqLen \div sp, !.cpSplit = cp,
        !.spPrefillOnly = prefillOnly]

\* A chunk of a prompt and decoded tokens in one TP group; the same without the
\* batched exchange; two pipeline stages of two nodes each; and eight nodes, the
\* smallest group that uses the ring.
TpGroups ==
    {Cluster(3, 3, 2, FALSE, TRUE, <<FromRoot(2), SlicesOf(2), SlicesOf(1), ToRoot(2)>>),
     Cluster(3, 3, 2, TRUE, FALSE, <<FromRoot(1), SlicesOf(2), FromRoot(1), ToRoot(1)>>),
     Cluster(4, 2, 1, TRUE, TRUE, <<SlicesOf(2), SlicesOf(1)>>),
     Cluster(8, 8, 1, FALSE, FALSE, <<SlicesOf(1)>>)}

\* Three SP ranks: chunks that end inside a rank's share; the same cut by rows,
\* with a last chunk of fewer rows than ranks and a token; a prompt that is
\* computed anew over the rows of an earlier one.  And two SP ranks of two nodes:
\* a token whose rows are not exchanged, then the next prompt, between all-reduces.
SpGroups ==
    {SpCluster(1, 3, 6, FALSE, FALSE, <<Kv(0, 3), Kv(3, 2), KvOfToken(5)>>),
     SpCluster(1, 3, 9, TRUE, FALSE, <<Kv(0, 4), Kv(4, 2), KvOfToken(6), Kv(3, 5)>>),
     SpCluster(1, 3, 6, TRUE, TRUE, <<Kv(0, 2), KvOfToken(2), Kv(1, 4)>>),
     SpCluster(2, 2, 6, FALSE, TRUE,
         <<Kv(0, 2), SlicesOf(1), KvOfToken(2), KvOfToken(3), Kv(4, 2), SlicesOf(1)>>)}

\* A chunk of a prompt and a token in whole graphs of SP clusters, from the
\* embedding to the slices: in TP groups of one node, where the root's rows are kept
\* or skipped, and in TP groups of two.
Graph(n) == <<FromRoot(n), Kv(0, n), SlicesOf(n), FromRootAt(n), KvOfToken(n), SlicesAt(n)>>
Sp2 == [SpCluster(1, 2, 4, TRUE, FALSE, Graph(2)) EXCEPT !.batchedSyncOff = FALSE]
SpGraphs ==
    {Sp2, [Sp2 EXCEPT !.keepTp1Syncs = TRUE, !.nThreads = 2],
     [SpCluster(2, 2, 4, FALSE, FALSE, <<FromRoot(2), Kv(0, 2), SlicesOf(2)>>) EXCEPT !.nThreads = 2]}

MCGroups == TpGroups \cup SpGroups \cup SpGraphs

\* Two SP ranks with the default environment, from the chunk's KV exchange on.
MCTp1 == {[Sp2 EXCEPT !.syncs = Tail(@)]}

\* One decoded token in a ring, and one chunk of a prompt in a star.
MCRing == {Cluster(8, 8, 1, FALSE, TRUE, <<SlicesOf(1)>>)}
MCChunk == {Cluster(3, 3, 1, FALSE, FALSE, <<SlicesOf(2)>>)}
=============================================================================
