----------------------------- MODULE MCPipeline -----------------------------
(* Short prompts on small pipelines for TLC.                               *)
EXTENDS Pipeline

\* Eleven chunks of one token pushed as a wave through sockets of one message,
\* with two failing nodes.
MCWave ==
    [prompts |-> <<11>>, promptsFile |-> FALSE, maxNewTokens |-> 0,
     seqLen |-> 13, steps |-> 13, prefillBatchCap |-> 1,
     useWave |-> TRUE, tileAligned |-> FALSE, netTurbo |-> TRUE, skipTarget |-> 1,
     delta |-> FALSE, deltaMinRows |-> 0,
     maxConsecutive |-> 1, maxRejectStreak |-> 1, socketCapacity |-> 1, maxFaults |-> 2]

\* A padded prompt, one chunk at a time, and enough tokens for two rounds of
\* skipping and rejecting.
MCSkip ==
    [prompts |-> <<6>>, promptsFile |-> FALSE, maxNewTokens |-> 0,
     seqLen |-> 14, steps |-> 14, prefillBatchCap |-> 2,
     useWave |-> FALSE, tileAligned |-> TRUE, netTurbo |-> TRUE, skipTarget |-> 2,
     delta |-> TRUE, deltaMinRows |-> 0,
     maxConsecutive |-> 2, maxRejectStreak |-> 2, socketCapacity |-> 2, maxFaults |-> 1]

\* Over blocking sockets, as a wave: without a stage that may be skipped; with
\* one, where the poll blocks.
MCBlocking ==
    [MCSkip EXCEPT !.useWave = TRUE, !.netTurbo = FALSE, !.socketCapacity = 1, !.maxFaults = 1,
                   !.deltaMinRows = 2, !.skipTarget = 0]
MCBlockingPoll ==
    [MCBlocking EXCEPT !.skipTarget = 2, !.prompts = <<3>>, !.seqLen = 6, !.steps = 6,
                       !.maxFaults = 2]

\* The prompts of a file, one after the other.
MCPrompts ==
    [MCSkip EXCEPT !.prompts = <<2, 3>>, !.promptsFile = TRUE, !.maxNewTokens = 3,
                   !.seqLen = 5, !.steps = 6, !.maxFaults = 0, !.tileAligned = FALSE]

MCSessions == {MCWave, MCSkip, MCBlocking, MCBlockingPoll, MCPrompts}
MCPoll == {[MCBlockingPoll EXCEPT !.maxFaults = 0]}

\* A prompt that nearly fills a context that is no multiple of the tile.
MCPadding ==
    {[prompts |-> <<6>>, promptsFile |-> FALSE, maxNewTokens |-> 0,
      seqLen |-> 6, steps |-> 6, prefillBatchCap |-> 4,
      useWave |-> FALSE, tileAligned |-> TRUE, netTurbo |-> FALSE, skipTarget |-> 0,
      delta |-> FALSE, deltaMinRows |-> 0,
      maxConsecutive |-> 1, maxRejectStreak |-> 1, socketCapacity |-> 1, maxFaults |-> 0]}
=============================================================================
