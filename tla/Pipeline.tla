------------------------------ MODULE Pipeline ------------------------------
(***************************************************************************)
(* One inference session of a pipeline of ppSize stages (tpSize = spSize   *)
(* = 1): RootLlmInference on stage 0, driven by inference() of dllama.cpp  *)
(* (one prompt) or by inferenceContinuousBatching() with one active        *)
(* request (the prompts of a file, one after the other), and the loop of   *)
(* runWorkerApp with WorkerLlmInference on every other stage.              *)
(*                                                                         *)
(* The root cuts the prompt into chunks.  For every chunk, and then for    *)
(* every decoded token, it broadcasts a control packet, runs its own       *)
(* layers, sends the activation to stage 1 and waits for the logits of the *)
(* last stage.  In wave mode it does not wait: it pushes all the chunks    *)
(* and drains one logits message at the end.  A stage may be skipped while *)
(* decoding (pp-stage-skip): the stage before it sends it an empty marker  *)
(* and sends the activation to the stage behind it.                        *)
(*                                                                         *)
(* Every pair of nodes shares one socket: a bounded FIFO per direction,    *)
(* which carries control packets and activations alike.  Activations and   *)
(* logits are abstracted to their header and to what the payload stands    *)
(* for: a row, or the difference to the row sent before on this socket     *)
(* (delta transport).  The KV cache keeps for every position what it was   *)
(* computed from: -1 for nothing, 0 for padding, or the request whose      *)
(* token it was.                                                           *)
(***************************************************************************)
EXTENDS Integers, Sequences

CONSTANTS ppSize,   \* number of stages
          Sessions  \* the prompts, options and environments that are tried

\* prompts: tokens of each prompt; promptsFile: are they those of a file, whose
\* requests also end at an EOS token or after maxNewTokens (0: no such limit)?;
\* seqLen, steps: limits of the generation;
\* prefillBatchCap: chunk size; useWave: wave pipelining; tileAligned: pad the
\* prompt to the GEMM tile; skipTarget: stage that may be skipped, 0 for none;
\* delta, deltaMinRows: delta transport and the size from which it is used;
\* netTurbo: are sockets non-blocking?; socketCapacity: messages that fit into
\* a socket; maxFaults: bound on the nodes that fail by themselves.
ASSUME PipelineAssumption ==
    /\ ppSize \in Nat /\ ppSize >= 2
    /\ Sessions \subseteq
         [prompts : Seq(Nat \ {0}), promptsFile : BOOLEAN, maxNewTokens : Nat, seqLen : Nat, steps : Nat, prefillBatchCap : Nat \ {0},
          useWave : BOOLEAN, tileAligned : BOOLEAN, netTurbo : BOOLEAN, skipTarget : Nat,
          maxConsecutive : Nat \ {0}, maxRejectStreak : Nat \ {0},
          delta : BOOLEAN, deltaMinRows : Nat,
          socketCapacity : Nat \ {0}, maxFaults : Nat]
    /\ \A x \in Sessions :
         /\ x.prompts # <<>>
         /\ \A r \in DOMAIN x.prompts : x.prompts[r] <= x.seqLen /\ x.prompts[r] <= x.steps
         /\ IF x.promptsFile THEN ~x.useWave /\ ~x.tileAligned
                             ELSE Len(x.prompts) = 1 /\ x.maxNewTokens = 0
         /\ x.skipTarget # 0 => x.skipTarget <= ppSize - 2

VARIABLES
    session,  \* which of Sessions this is
    sock,     \* sock[<<i, j>>]: sent by i, not yet read by j
    sent,     \* sent[<<i, j>>]: prevSendBySocket, the rows last sent by i to j
    got,      \* got[<<i, j>>]: prevRecvBySocket, the rows j has last decoded from i
    pc,       \* what a node does next
    why,      \* why a node's session ended
    secondSource,  \* blocking sockets: the stage that polls two peers reads the second
    ctrl,     \* controlPacket: the root's, and the worker's latest copy
    toWrite,  \* the root: workers the control packet is not yet written to
    request,  \* the root: which prompt it is at
    pos,      \* the root: pos of inference()
    waves,    \* the root: waveChunkCount
    logits,   \* the root: position of the logits in logitsPipe; -1: none
    skip,     \* the decision stage: what it remembers between tokens
    kv,       \* kv[s][p]: the KV cache of stage s at position p
    skipped,  \* history: positions at which the target stage was skipped
    faults    \* number of nodes that have failed by themselves

bases == <<sent, got>>
rootVars == <<toWrite, request, pos, waves, logits>>
vars == <<session, sock, bases, pc, why, secondSource, ctrl, rootVars, skip, kv, skipped, faults>>

Stages  == 0..(ppSize - 1)
Workers == 1..(ppSize - 1)
LastStage == ppSize - 1

nInputTokens == session.prompts[request]
seqLen == session.seqLen
steps == session.steps
prefillBatchCap == session.prefillBatchCap
useWave == session.useWave
skipTarget == session.skipTarget
maxConsecutive == session.maxConsecutive
maxRejectStreak == session.maxRejectStreak

Smaller(a, b) == IF a < b THEN a ELSE b

kGemmTileRows == 4
RealTotal(r) == session.prompts[r] - 1
realTotal == RealTotal(request)
schedTotal ==
    IF session.tileAligned
      THEN ((realTotal + kGemmTileRows - 1) \div kGemmTileRows) * kGemmTileRows
      ELSE realTotal
maxPos ==
    IF session.maxNewTokens = 0 THEN Smaller(seqLen, steps)
    ELSE Smaller(Smaller(seqLen, steps), nInputTokens + session.maxNewTokens)
Positions == 0..(seqLen - 1)

-----------------------------------------------------------------------------
(* Sockets.                                                                *)

Control(packet) == [kind |-> "ctrl", packet |-> packet]
NoRows == [phase |-> "none", position |-> 0, rows |-> 0]

CanSend(i, j) == Len(sock[<<i, j>>]) < session.socketCapacity
Send(i, j, m) == sock' = [sock EXCEPT ![<<i, j>>] = Append(@, m)]
Incoming(i, j) == sock[<<i, j>>] # <<>>
Drop(i, j) == sock' = [sock EXCEPT ![<<i, j>>] = Tail(@)]

\* Mutant of SendRows: one base for all sockets of the node.
MutOneSendBase(i, j, rows, bypass) ==
    LET data == [phase |-> ctrl[i].phase, position |-> ctrl[i].position, rows |-> rows]
        canDelta == session.delta /\ rows >= session.deltaMinRows /\ rows > 0
        base == IF canDelta /\ sent[<<i, j>>].rows = rows THEN sent[<<i, j>>] ELSE NoRows
    IN  /\ Send(i, j, [kind |-> "act", data |-> data, base |-> base, bypass |-> bypass])
        /\ sent' = IF rows = 0 THEN sent
                   ELSE [l \in DOMAIN sent |-> IF l[1] = i THEN data ELSE sent[l]]
        /\ UNCHANGED got

\* sendActivation: the rows, or their difference to the last ones if there are
\* as many.  A marker has no rows and leaves the base alone.
SendRows(i, j, rows, bypass) ==
    LET data == [phase |-> ctrl[i].phase, position |-> ctrl[i].position, rows |-> rows]
        canDelta == session.delta /\ rows >= session.deltaMinRows /\ rows > 0
        base == IF canDelta /\ sent[<<i, j>>].rows = rows THEN sent[<<i, j>>] ELSE NoRows
    IN  /\ Send(i, j, [kind |-> "act", data |-> data, base |-> base, bypass |-> bypass])
        /\ sent' = IF rows = 0 THEN sent ELSE [sent EXCEPT ![<<i, j>>] = data]
        /\ UNCHANGED got

\* recvActivation: the bytes are a header, the rows fit into the buffer, and
\* there is a base of the right size for a difference.
Decodes(i, j, bufferRows) ==
    LET m == Head(sock[<<i, j>>])
    IN  /\ m.kind = "act" /\ m.data.rows <= bufferRows
        /\ m.base # NoRows => got[<<i, j>>].rows = m.data.rows

RecvRows(i, j, bufferRows) ==
    LET m == Head(sock[<<i, j>>])
    IN  /\ Drop(i, j)
        /\ got' = IF Decodes(i, j, bufferRows) /\ m.data.rows > 0
                    THEN [got EXCEPT ![<<i, j>>] = m.data] ELSE got
        /\ UNCHANGED sent

Over(s) == pc[s] = "over"

\* A peer that has closed its end: what it had sent can still be read, unless
\* it closed with unread data, which resets the connection.
RecvBroken(i, j) == Over(i) /\ (~Incoming(i, j) \/ Incoming(j, i))
SendBroken(j) == Over(j)

Goto(s, to) == pc' = [pc EXCEPT ![s] = to]

\* The session of s ends: the sockets are closed.
End(s, reason) == Goto(s, "over") /\ why' = [why EXCEPT ![s] = reason]

-----------------------------------------------------------------------------
NoPacket == [phase |-> "prefill", position |-> 0, batchSize |-> 0,
             isLastPrefillChunk |-> TRUE, request |-> 1]

\* hasPrevXPipeRow, hasLastDeltaNorm, skipConsecutiveAccepts, skipRejectStreak
NoSkipState == [hasPrev |-> FALSE, hasDelta |-> FALSE, accepts |-> 0, rejects |-> 0]

Init ==
    /\ session \in Sessions
    /\ sock = [l \in Stages \X Stages |-> <<>>]
    /\ sent = [l \in Stages \X Stages |-> NoRows] /\ got = sent
    /\ pc = [s \in Stages |-> IF s = 0 THEN "prefill" ELSE "ctrl"]
    /\ why = [s \in Stages |-> "running"] /\ secondSource = FALSE
    /\ ctrl = [s \in Stages |-> NoPacket]
    /\ toWrite = {} /\ request = 1 /\ pos = 0 /\ waves = 0 /\ logits = -1
    /\ skip = NoSkipState
    /\ kv = [s \in Stages |-> [p \in Positions |-> -1]]
    /\ skipped = {}
    /\ faults = 0

\* Rows position .. position + batchSize - 1 of stage s are computed from the
\* control packet's tokens; prefill rows past the prompt repeat its last token.
StoreKv(s) ==
    LET c == ctrl[s]
        rows == c.position .. (c.position + c.batchSize - 1)
        origin(p) == IF c.phase = "prefill" /\ p >= RealTotal(c.request) THEN 0 ELSE c.request
    IN  kv' = [kv EXCEPT ![s] = [p \in Positions |->
                                   IF p \in rows THEN origin(p) ELSE @[p]]]

-----------------------------------------------------------------------------
(* The root.                                                               *)

\* Mutant of Broadcast: sockets, numbered from 0, are taken for nodes.
MutBroadcastBySocket(packet) ==
    /\ ctrl' = [ctrl EXCEPT ![0] = packet]
    /\ toWrite' = 0..(ppSize - 2)
    /\ Goto(0, "write")

Broadcast(packet) ==
    /\ ctrl' = [ctrl EXCEPT ![0] = packet]
    /\ toWrite' = Workers
    /\ Goto(0, "write")

\* One iteration of the prefill loop: setBatchSize, setLastPrefillChunk,
\* setPosition (whose assert aborts the root), then forward[PrefillNoWait].
PrefillChunk ==
    /\ pc[0] = "prefill" /\ pos < schedTotal
    /\ LET batchSize == Smaller(schedTotal - pos, prefillBatchCap)
       IN  IF pos + batchSize - 1 < seqLen
             THEN /\ Broadcast([phase |-> "prefill", position |-> pos,
                                batchSize |-> batchSize, request |-> request,
                                isLastPrefillChunk |->
                                    ~useWave \/ pos + batchSize >= schedTotal])
                  /\ UNCHANGED why
             ELSE End(0, "assert") /\ UNCHANGED <<ctrl, toWrite>>
    /\ UNCHANGED <<sock, bases, request, pos, waves, logits, skip, kv, skipped, faults>>

\* Mutants of PrefillDone: the padding is not rolled back; nothing is drained.
MutNoRollback ==
    /\ pc[0] = "prefill" /\ pos >= schedTotal
    /\ Goto(0, IF useWave /\ waves > 0 THEN "drain" ELSE "decode")
    /\ UNCHANGED <<sock, bases, why, ctrl, rootVars, skip, kv, skipped, faults>>

MutNoDrain ==
    /\ pc[0] = "prefill" /\ pos >= schedTotal
    /\ pos' = Smaller(pos, realTotal)
    /\ Goto(0, "decode")
    /\ UNCHANGED <<sock, bases, why, ctrl, toWrite, request, waves, logits, skip, kv, skipped, faults>>

\* The prefill loop is over: pos is rolled back from the padding.
PrefillDone ==
    /\ pc[0] = "prefill" /\ pos >= schedTotal
    /\ pos' = Smaller(pos, realTotal)
    /\ Goto(0, IF useWave /\ waves > 0 THEN "drain" ELSE "decode")
    /\ UNCHANGED <<sock, bases, why, ctrl, toWrite, request, waves, logits, skip, kv, skipped, faults>>

DecodeToken ==
    /\ pc[0] = "decode" /\ pos < maxPos
    /\ Broadcast([phase |-> "decode", position |-> pos, batchSize |-> 1, request |-> request,
                  isLastPrefillChunk |-> TRUE])
    /\ UNCHANGED <<sock, bases, why, request, pos, waves, logits, skip, kv, skipped, faults>>

\* The request is finished: at its limit or, for those of a file, at an EOS token.
Finished == pos >= maxPos \/ (session.promptsFile /\ pos > realTotal)

NextRequest ==
    /\ pc[0] = "decode" /\ Finished /\ request < Len(session.prompts)
    /\ request' = request + 1 /\ pos' = 0
    /\ Goto(0, "prefill")
    /\ UNCHANGED <<sock, bases, why, ctrl, toWrite, waves, logits, skip, kv, skipped, faults>>

\* The handler returns and runInferenceApp calls finish().
Finish ==
    /\ pc[0] = "decode" /\ Finished /\ request = Len(session.prompts)
    /\ Broadcast([ctrl[0] EXCEPT !.batchSize = 0])
    /\ UNCHANGED <<sock, bases, why, request, pos, waves, logits, skip, kv, skipped, faults>>

\* writeAll: in socket order, or whichever socket takes data.
WriteControl(w) ==
    /\ pc[0] = "write" /\ w \in toWrite
    /\ session.netTurbo \/ \A v \in toWrite : w <= v
    /\ CanSend(0, w) /\ Send(0, w, Control(ctrl[0]))
    /\ toWrite' = toWrite \ {w}
    /\ UNCHANGED <<bases, pc, why, ctrl, request, pos, waves, logits, skip, kv, skipped, faults>>

ControlWritten ==
    /\ pc[0] = "write" /\ toWrite = {}
    /\ IF ctrl[0].batchSize = 0
         THEN End(0, "stop")
         ELSE Goto(0, "forward") /\ UNCHANGED why
    /\ UNCHANGED <<sock, bases, ctrl, rootVars, skip, kv, skipped, faults>>

\* executor->forward() on stage 0.
RootForward ==
    /\ pc[0] = "forward"
    /\ StoreKv(0)
    /\ Goto(0, "send")
    /\ UNCHANGED <<sock, bases, why, ctrl, rootVars, skip, skipped, faults>>

InWave == useWave /\ ctrl[0].phase = "prefill"

\* The loop head to which the root returns after a chunk or a token.
LoopHead == IF ctrl[0].phase = "prefill" THEN "prefill" ELSE "decode"

RootSend ==
    /\ pc[0] = "send" /\ CanSend(0, 1)
    /\ SendRows(0, 1, ctrl[0].batchSize, FALSE)
    /\ IF InWave
         THEN /\ Goto(0, "prefill")
              /\ pos' = pos + ctrl[0].batchSize
              /\ waves' = waves + 1
         ELSE Goto(0, "recv") /\ UNCHANGED <<pos, waves>>
    /\ UNCHANGED <<why, ctrl, toWrite, request, logits, skip, kv, skipped, faults>>

\* The end of forward(): blocks for the logits; the header is not looked at.
RootRecvLogits ==
    /\ pc[0] = "recv" /\ Incoming(LastStage, 0)
    /\ RecvRows(LastStage, 0, 1)
    /\ IF Decodes(LastStage, 0, 1)
         THEN /\ logits' = Head(sock[<<LastStage, 0>>]).data.position
              /\ pos' = pos + ctrl[0].batchSize
              /\ Goto(0, LoopHead) /\ UNCHANGED why
         ELSE End(0, "protocol") /\ UNCHANGED <<logits, pos>>
    /\ UNCHANGED <<ctrl, toWrite, request, waves, skip, kv, skipped, faults>>

\* drainPrefillLogits: one message, whatever the number of chunks.
DrainLogits ==
    /\ pc[0] = "drain" /\ Incoming(LastStage, 0)
    /\ RecvRows(LastStage, 0, prefillBatchCap)
    /\ IF Decodes(LastStage, 0, prefillBatchCap)
         THEN /\ logits' = Head(sock[<<LastStage, 0>>]).data.position
              /\ Goto(0, "decode") /\ UNCHANGED why
         ELSE End(0, "protocol") /\ UNCHANGED logits
    /\ UNCHANGED <<ctrl, toWrite, request, pos, waves, skip, kv, skipped, faults>>

\* A socket error reaches the root: runInferenceApp unwinds.
RootPeerClosed ==
    /\ \/ pc[0] = "write" /\ \E w \in toWrite : SendBroken(w)
       \/ pc[0] = "send" /\ SendBroken(1)
       \/ pc[0] \in {"recv", "drain"} /\ RecvBroken(LastStage, 0)
    /\ End(0, "peer")
    /\ UNCHANGED <<sock, bases, ctrl, rootVars, skip, kv, skipped, faults>>

-----------------------------------------------------------------------------
(* A worker.                                                               *)

DecodeSingle(w) == ctrl[w].phase = "decode" /\ ctrl[w].batchSize = 1
SkipEnabled == skipTarget # 0
DecisionStage(w) == SkipEnabled /\ w + 1 = skipTarget
TargetStage(w) == SkipEnabled /\ w = skipTarget
PostTargetStage(w) == SkipEnabled /\ w = skipTarget + 1

\* tryReadControlPacket
ReadControl(w) ==
    /\ pc[w] = "ctrl" /\ Incoming(0, w)
    /\ Drop(0, w)
    /\ LET m == Head(sock[<<0, w>>])
       IN  IF m.kind = "ctrl" /\ m.packet.batchSize > 0
             THEN /\ ctrl' = [ctrl EXCEPT ![w] = m.packet]
                  /\ skip' = IF DecisionStage(w) /\ m.packet.phase # ctrl[w].phase
                               THEN NoSkipState ELSE skip
                  /\ Goto(w, "recv") /\ UNCHANGED why
             ELSE /\ End(w, IF m.kind = "ctrl" THEN "stop" ELSE "protocol")
                  /\ UNCHANGED <<ctrl, skip>>
    /\ UNCHANGED <<bases, rootVars, kv, skipped, faults>>

\* The stage behind a skippable one polls two peers: where a bypass comes from,
\* and then where the activation comes from otherwise.
Polls(w) == PostTargetStage(w) /\ DecodeSingle(w)
PolledSources == {skipTarget - 1, skipTarget}

\* Mutant of Sources: both peers are polled while prefilling, too.
MutPollAlways(w) == IF PostTargetStage(w) THEN PolledSources ELSE {w - 1}

\* Where beforeForward reads.  A recv on a non-blocking socket without data returns,
\* and the poll takes what comes first; on a blocking socket it waits, and the poll
\* is at one of its peers until that one has sent something or is gone.
Sources(w) ==
    IF ~Polls(w) THEN {w - 1}
    ELSE IF session.netTurbo THEN PolledSources
    ELSE {IF secondSource THEN skipTarget ELSE skipTarget - 1}

\* The blocking poll after a recv that has returned: the other peer is next, or,
\* with an activation, the poll is over.
PollGoesOn(w, received) ==
    secondSource' = IF Polls(w) /\ ~session.netTurbo THEN ~received /\ ~secondSource
                                                   ELSE secondSource

IsMarker(w, m) ==
    /\ m.kind = "act"
    /\ TargetStage(w) /\ DecodeSingle(w) /\ m.bypass /\ m.data.rows = 0

\* beforeForward, with the marker: forward() and the send are skipped.
SkipForward(w, src) ==
    /\ pc[w] = "recv" /\ src \in Sources(w) /\ Incoming(src, w)
    /\ IsMarker(w, Head(sock[<<src, w>>]))
    /\ RecvRows(src, w, ctrl[w].batchSize)
    /\ skipped' = skipped \cup {<<ctrl[w].request, ctrl[w].position>>}
    /\ Goto(w, "ctrl")
    /\ UNCHANGED <<why, ctrl, rootVars, skip, kv, faults>>

\* beforeForward.  What does not decode ends the session, unless the stage is
\* polling: then it is lost and the poll goes on.  Another position than the
\* control packet's always ends it.
RecvActivation(w, src) ==
    /\ pc[w] = "recv" /\ src \in Sources(w) /\ Incoming(src, w)
    /\ LET m == Head(sock[<<src, w>>])
           decodes == Decodes(src, w, ctrl[w].batchSize)
       IN  /\ ~IsMarker(w, m)
           /\ IF decodes /\ m.data.position = ctrl[w].position
                THEN /\ Goto(w, "forward") /\ UNCHANGED why
                     /\ skip' = IF DecisionStage(w) /\ DecodeSingle(w)
                                  THEN [skip EXCEPT !.hasDelta = skip.hasPrev,
                                                    !.hasPrev = TRUE]
                                  ELSE skip
                ELSE /\ IF ~decodes /\ Polls(w)
                          THEN UNCHANGED <<pc, why>> ELSE End(w, "protocol")
                     /\ UNCHANGED skip
           /\ PollGoesOn(w, decodes)
    /\ RecvRows(src, w, ctrl[w].batchSize)
    /\ UNCHANGED <<ctrl, rootVars, kv, skipped, faults>>

\* executor.forward() on a worker.
WorkerForward(w) ==
    /\ pc[w] = "forward"
    /\ StoreKv(w)
    /\ Goto(w, IF DecisionStage(w) /\ DecodeSingle(w) /\ skip.hasDelta
                 THEN "decide" ELSE "send")
    /\ UNCHANGED <<sock, bases, why, ctrl, rootVars, skip, skipped, faults>>

\* Mutant of EvaluateSkip: one more consecutive skip than allowed.
MutOneSkipMore(w, close) ==
    /\ pc[w] = "decide"
    /\ LET forced == skip.rejects >= maxRejectStreak
           accept == close /\ skip.accepts <= maxConsecutive /\ ~forced
       IN  /\ skip' = [skip EXCEPT !.accepts = IF accept THEN @ + 1 ELSE 0,
                                   !.rejects = IF accept \/ forced THEN 0 ELSE @ + 1]
           /\ Goto(w, IF accept THEN "marker" ELSE "send")
    /\ UNCHANGED <<sock, bases, why, ctrl, rootVars, kv, skipped, faults>>

\* evaluateStageSkipDecision; `close`: the activation is close to the last one
\* and the skip lottery agrees.
EvaluateSkip(w, close) ==
    /\ pc[w] = "decide"
    /\ LET forced == skip.rejects >= maxRejectStreak
           accept == close /\ skip.accepts < maxConsecutive /\ ~forced
       IN  /\ skip' = [skip EXCEPT !.accepts = IF accept THEN @ + 1 ELSE 0,
                                   !.rejects = IF accept \/ forced THEN 0 ELSE @ + 1]
           /\ Goto(w, IF accept THEN "marker" ELSE "send")
    /\ UNCHANGED <<sock, bases, why, ctrl, rootVars, kv, skipped, faults>>

\* afterForward of a skipped token: first the marker, then the bypass.
SendMarker(w) ==
    /\ pc[w] = "marker" /\ CanSend(w, skipTarget)
    /\ SendRows(w, skipTarget, 0, TRUE)
    /\ Goto(w, "bypass")
    /\ UNCHANGED <<why, ctrl, rootVars, skip, kv, skipped, faults>>

SendBypass(w) ==
    /\ pc[w] = "bypass" /\ CanSend(w, skipTarget + 1)
    /\ SendRows(w, skipTarget + 1, ctrl[w].batchSize, TRUE)
    /\ Goto(w, "ctrl")
    /\ UNCHANGED <<why, ctrl, rootVars, skip, kv, skipped, faults>>

\* afterForward on an inner stage.
SendActivation(w) ==
    /\ pc[w] = "send" /\ w # LastStage
    /\ CanSend(w, w + 1)
    /\ SendRows(w, w + 1, ctrl[w].batchSize, FALSE)
    /\ Goto(w, "ctrl")
    /\ UNCHANGED <<why, ctrl, rootVars, skip, kv, skipped, faults>>

\* Mutant of SendsLogits: every chunk is answered (the deadlock that
\* isLastPrefillChunk was introduced for).
MutAnswersEveryChunk(w) == TRUE

\* Logits of a prefill chunk that is not the last one are not sent.
SendsLogits(w) == ctrl[w].phase = "decode" \/ ctrl[w].isLastPrefillChunk

\* afterForward on the last stage; only the last row of a prefill chunk.
SendLogits(w) ==
    /\ pc[w] = "send" /\ w = LastStage
    /\ IF SendsLogits(w)
         THEN CanSend(w, 0) /\ SendRows(w, 0, 1, FALSE)
         ELSE UNCHANGED <<sock, bases>>
    /\ Goto(w, "ctrl")
    /\ UNCHANGED <<why, ctrl, rootVars, skip, kv, skipped, faults>>

SendTarget(w) ==
    CASE pc[w] = "marker" -> skipTarget
      [] pc[w] = "bypass" -> skipTarget + 1
      [] OTHER -> IF w = LastStage THEN 0 ELSE w + 1

\* A socket error reaches the worker loop: break, and listen again.
WorkerPeerClosed(w) ==
    /\ \/ pc[w] = "ctrl" /\ RecvBroken(0, w)
       \/ pc[w] = "recv" /\ ~Polls(w) /\ RecvBroken(w - 1, w)
       \/ pc[w] \in {"marker", "bypass", "send"} /\ SendBroken(SendTarget(w))
    /\ End(w, "peer")
    /\ UNCHANGED <<sock, bases, ctrl, rootVars, skip, kv, skipped, faults>>

\* The poll of two peers does not see that one of them has closed its socket.  It
\* ends 30 seconds later: when the other one sends nothing either or, since a
\* blocking recv looks at no clock, when the other one has closed its socket, too.
PollTimeout(w) ==
    /\ pc[w] = "recv" /\ Polls(w)
    /\ \E src \in PolledSources : Over(src)
    /\ \A src \in PolledSources :
         RecvBroken(src, w) \/ (session.netTurbo /\ ~Incoming(src, w))
    /\ End(w, "timeout")
    /\ UNCHANGED <<sock, bases, ctrl, rootVars, skip, kv, skipped, faults>>

\* The blocking poll: the recv on the one peer returns because it is gone.  (That
\* nothing comes from the other one for 30 seconds is PollTimeout.)
NextSource(w) ==
    /\ pc[w] = "recv" /\ Polls(w) /\ ~session.netTurbo
    /\ \A src \in Sources(w) : RecvBroken(src, w)
    /\ \E src \in PolledSources : ~RecvBroken(src, w)
    /\ PollGoesOn(w, FALSE)
    /\ UNCHANGED <<sock, bases, pc, why, ctrl, rootVars, skip, kv, skipped, faults>>

-----------------------------------------------------------------------------
\* A node fails by itself: forward() throws, a transfer stalls for longer than
\* its hard timeout, a poll for a bypassed activation times out.
Fault(s) ==
    /\ faults < session.maxFaults
    /\ pc[s] \in {"forward", "recv", "write", "send", "drain", "marker", "bypass"}
    /\ faults' = faults + 1
    /\ End(s, "fault")
    /\ UNCHANGED <<session, secondSource, sock, bases, ctrl, rootVars, skip, kv, skipped>>

RootStep ==
    /\ UNCHANGED session /\ UNCHANGED secondSource
    /\ \/ PrefillChunk \/ PrefillDone \/ DecodeToken \/ NextRequest \/ Finish
       \/ \E w \in Workers : WriteControl(w)
       \/ ControlWritten \/ RootForward \/ RootSend \/ RootRecvLogits
       \/ DrainLogits \/ RootPeerClosed

WorkerStep(w) ==
    /\ UNCHANGED session
    /\ \/ \E src \in Stages : RecvActivation(w, src)
       \/ NextSource(w)
       \/ /\ UNCHANGED secondSource
          /\ \/ ReadControl(w)
             \/ \E src \in Stages : SkipForward(w, src)
             \/ WorkerForward(w)
             \/ \E close \in BOOLEAN : EvaluateSkip(w, close)
             \/ SendMarker(w) \/ SendBypass(w) \/ SendActivation(w) \/ SendLogits(w)
             \/ WorkerPeerClosed(w) \/ PollTimeout(w)

Next ==
    \/ RootStep
    \/ \E w \in Workers : WorkerStep(w)
    \/ \E s \in Stages : Fault(s)

Spec == Init /\ [][Next]_vars

\* Every node keeps running; a blocked transfer goes on when the peer moves.
FairSpec == Spec /\ WF_vars(RootStep) /\ \A w \in Workers : WF_vars(WorkerStep(w))

-----------------------------------------------------------------------------
Packet == [phase : {"prefill", "decode"}, position : Nat, batchSize : Nat,
           isLastPrefillChunk : BOOLEAN, request : Nat]
RowsOf == [phase : {"none", "prefill", "decode"}, position : Nat, rows : Nat]
Message ==
    [kind : {"ctrl"}, packet : Packet]
    \cup [kind : {"act"}, data : RowsOf, base : RowsOf, bypass : BOOLEAN]

TypeOK ==
    /\ session \in Sessions
    /\ sock \in [Stages \X Stages -> Seq(Message)]
    /\ sent \in [Stages \X Stages -> RowsOf] /\ got \in [Stages \X Stages -> RowsOf]
    /\ pc \in [Stages -> {"prefill", "decode", "write", "forward", "send", "recv",
                          "drain", "ctrl", "decide", "marker", "bypass", "over"}]
    /\ why \in [Stages -> {"running", "stop", "peer", "timeout", "fault", "protocol",
                           "assert"}]
    /\ secondSource \in BOOLEAN
    /\ ctrl \in [Stages -> Packet]
    /\ toWrite \in SUBSET Workers
    /\ request \in DOMAIN session.prompts /\ pos \in Nat /\ waves \in Nat /\ logits \in Int
    /\ skip \in [hasPrev : BOOLEAN, hasDelta : BOOLEAN, accepts : Nat, rejects : Nat]
    /\ kv \in [Stages -> [Positions -> -1..Len(session.prompts)]]
    /\ skipped \in SUBSET (Nat \X Nat)
    /\ faults \in 0..session.maxFaults

\* The nodes agree on the protocol: as long as none fails by itself, no worker
\* reads an activation as a control packet or the reverse, no activation is of
\* another position than the control packet it is paired with, and nobody
\* finds a socket closed before it has read its stop packet.
CleanSession ==
    faults = 0 => \A s \in Stages : why[s] \notin {"peer", "protocol", "timeout"}

\* The root never checks the header of the logits it reads.  They are those of
\* the latest chunk or token: no stale or surplus message is ever in the way.
LogitsAnswerRequest ==
    /\ pc[0] = "decode" /\ pos > 0 => logits = ctrl[0].position
    /\ pc[0] = "prefill" /\ pos > 0 /\ ~useWave => logits = ctrl[0].position

\* Delta transport: a difference always meets the rows it was taken from, through
\* markers and bypassed stages, chunks of other sizes and sockets that are not
\* used for a while.  Nothing on the wire says which rows the base is.
DeltaMeetsItsBase ==
    \A l \in Stages \X Stages : sock[l] # <<>> =>
        LET m == Head(sock[l])
        IN  m.kind = "act" /\ m.base # NoRows => got[l] = m.base

\* When a stage runs a chunk or token whose output counts, the KV cache of every
\* earlier position was computed from the tokens of this request: padding, and what
\* an earlier request has left, is overwritten before it is attended to.  Only the
\* skippable stage has gaps, where it was skipped.
PaddingOnly(c) == c.phase = "prefill" /\ c.position >= RealTotal(c.request)

KvPrefixIsReal ==
    \A s \in Stages : (pc[s] = "forward" /\ ~PaddingOnly(ctrl[s])) =>
        \A p \in 0..(ctrl[s].position - 1) :
            \/ kv[s][p] = ctrl[s].request
            \/ TargetStage(s) /\ <<ctrl[s].request, p>> \in skipped

\* The verifier bounds the gaps: never more than maxConsecutive tokens in a row.
SkipsAreBounded ==
    \A x \in skipped : ~({x[1]} \X (x[2]..(x[2] + maxConsecutive)) \subseteq skipped)

\* setPosition asserts that a chunk stays within the sequence.
PositionsInRange == why[0] # "assert"

\* The blocking poll waits for a bypass that is not sent, while the other peer
\* has sent the activation or is gone.
PollBlocked ==
    \E w \in Workers :
        /\ pc[w] = "recv" /\ Polls(w) /\ ~session.netTurbo /\ ~secondSource
        /\ ~Incoming(skipTarget - 1, w) /\ ~Over(skipTarget - 1)
        /\ Incoming(skipTarget, w) \/ RecvBroken(skipTarget, w)

\* Every session comes to an end on every node: no cycle of nodes blocked on
\* full or empty sockets, and after a failure everybody notices.  Blocked for good
\* are only the sessions in which the poll of two peers is.
SessionEnds == <>(\A s \in Stages : Over(s)) \/ <>[]PollBlocked

\* "Polled recv path intentionally returns false on "no data yet" style probes": a
\* stage that polls two peers gets on when either of them has sent something.
PollReturns ==
    \A w \in Workers :
        (pc[w] = "recv" /\ Polls(w) /\ \E src \in PolledSources : Incoming(src, w))
            ~> pc[w] # "recv"
=============================================================================
