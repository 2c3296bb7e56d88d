---------------------------- MODULE PipelineProofs --------------------------
(***************************************************************************)
(* What the root and the stages compute with: the logits it reads answer    *)
(* its last packet, the KV cache holds the tokens of the request, and the   *)
(* target stage is never skipped too often in a row.                        *)
(***************************************************************************)
EXTENDS PipelineFlow

\* A worker is a stage, and not the root.
LEMMA WorkerIsStage ==
    ASSUME NEW w \in Workers
    PROVE  w \in Stages /\ w # 0 /\ w \in Nat
<1>1. w \in Stages /\ w \in Nat /\ w >= 1
  BY StageFacts
<1> QED
  BY <1>1

\* A wave that has not begun has no position.
LogitsInv ==
    /\ LogitsAnswerRequest
    /\ pc[0] = "prefill" /\ useWave /\ waves = 0 => pos = 0

\* A step of another node, or one that ends the root, leaves the logits alone.
LEMMA LogitsKept0 ==
    ASSUME LogitsInv, session' = session, UNCHANGED <<pos, waves, logits>>,
           \/ pc'[0] \notin {"prefill", "decode"}
           \/ pc'[0] = pc[0] /\ ctrl'[0] = ctrl[0]
    PROVE  LogitsInv'
BY DEF LogitsInv, LogitsAnswerRequest, useWave

\* Logits that are read are those of the root's last packet.
LEMMA LogitsAreLast ==
    ASSUME TypeInv, NEW g, Flow(g), session' = session, RootRecvLogits \/ DrainLogits
    PROVE  /\ logits' = ctrl[0].position /\ ctrl' = ctrl
           /\ pc[0] = "recv" => pc'[0] = LoopHead /\ pos' = pos + ctrl[0].batchSize /\ ~InWave
           /\ pc[0] = "drain" => pc'[0] = "decode" /\ pos' = pos
           /\ UNCHANGED <<request, waves, toWrite, skip, kv, skipped>>
<1>1. g \in Ghosts /\ RootAt(g) /\ Wave(g)
  BY DEF Flow
<1>2. ASSUME NEW m, m = Head(sock[<<LastStage, 0>>]), Incoming(LastStage, 0),
             IsAct(Q(LastStage, 0)[1], g.h[N(g)], 1, FALSE), N(g) \in Nat, N(g) > 0
      PROVE  m.data.position = ctrl[0].position
  <2>1. Q(LastStage, 0) \in Seq(Message)
    BY StageFacts DEF TypeInv, TypeOK, Q
  <2>2. m = Q(LastStage, 0)[1]
    BY <1>2, <2>1 DEF Incoming, Q
  <2>3. ctrl[0] = g.h[N(g)]
    BY <1>1, <1>2, RootFacts
  <2> QED
    BY <1>2, <2>2, <2>3 DEF IsAct
<1>3. CASE RootRecvLogits
  <2>1. Incoming(LastStage, 0) /\ RecvRows(LastStage, 0, 1) /\ pc[0] = "recv"
        /\ UNCHANGED <<ctrl, toWrite, request, waves, faults, skip, kv, skipped>>
    BY <1>3 DEF RootRecvLogits
  <2>2. Decodes(LastStage, 0, 1) =>
          Goto(0, IF pc[0] = "recv" THEN LoopHead ELSE "decode") /\ why' = why
    BY <1>3 DEF RootRecvLogits
  <2>3. Decodes(LastStage, 0, 1) /\ IsAct(Q(LastStage, 0)[1], g.h[N(g)], 1, FALSE)
        /\ N(g) \in Nat /\ N(g) > 0
    <3>1. PICK n \in Nat : n = 1
      OBVIOUS
    <3>2. /\ n >= 1 /\ RecvRows(LastStage, 0, n)
          /\ Decodes(LastStage, 0, n) =>
               Goto(0, IF pc[0] = "recv" THEN LoopHead ELSE "decode") /\ why' = why
      BY <2>1, <2>2, <3>1
    <3>3. Decodes(LastStage, 0, n) /\ IsAct(Q(LastStage, 0)[1], g.h[N(g)], 1, FALSE)
          /\ N(g) \in Nat /\ N(g) > 0
      BY <2>1, <3>2, FlowLogitsRead
    <3> QED
      BY <3>1, <3>3
  <2>4. logits' = Head(sock[<<LastStage, 0>>]).data.position /\ pos' = pos + ctrl[0].batchSize
        /\ Goto(0, LoopHead)
    BY <1>3, <2>3 DEF RootRecvLogits
  <2>5. pc'[0] = LoopHead
    BY <2>4, GotoPcs, StageFacts
  <2>6. logits' = ctrl[0].position
    BY <1>2, <2>1, <2>3, <2>4
  <2> QED
    BY <1>1, <2>1, <2>4, <2>5, <2>6 DEF Wave
<1>4. CASE DrainLogits
  <2>0. prefillBatchCap \in Nat /\ prefillBatchCap >= 1
    BY SessionFacts DEF TypeInv, TypeOK
  <2>1. Incoming(LastStage, 0) /\ RecvRows(LastStage, 0, prefillBatchCap) /\ pc[0] = "drain"
        /\ UNCHANGED <<ctrl, toWrite, request, waves, pos, faults, skip, kv, skipped>>
    BY <1>4 DEF DrainLogits
  <2>2. Decodes(LastStage, 0, prefillBatchCap) =>
          Goto(0, IF pc[0] = "recv" THEN LoopHead ELSE "decode") /\ why' = why
    BY <1>4 DEF DrainLogits
  <2>3. Decodes(LastStage, 0, prefillBatchCap) /\ IsAct(Q(LastStage, 0)[1], g.h[N(g)], 1, FALSE)
        /\ N(g) \in Nat /\ N(g) > 0
    BY <2>0, <2>1, <2>2, FlowLogitsRead
  <2>4. logits' = Head(sock[<<LastStage, 0>>]).data.position /\ Goto(0, "decode")
    BY <1>4, <2>3 DEF DrainLogits
  <2>5. pc'[0] = "decode"
    BY <2>4, GotoPcs, StageFacts
  <2>6. logits' = ctrl[0].position
    BY <1>2, <2>1, <2>3, <2>4
  <2> QED
    BY <2>1, <2>4, <2>5, <2>6
<1> QED
  BY <1>3, <1>4

\* PrefillDone without logits to drain: a wave that sent nothing has no position.
LEMMA LogitsRoot ==
    ASSUME TypeInv, NEW g, Flow(g), LogitsInv, RootStep
    PROVE  LogitsInv'
<1>0. session' = session /\ 0 \in Stages /\ useWave' = useWave
  BY StageFacts DEF RootStep, useWave
<1>1. CASE PrefillDone
  <2>1. pc[0] = "prefill" /\ pos' = Smaller(pos, realTotal) /\ ctrl' = ctrl /\ logits' = logits
        /\ waves' = waves /\ Goto(0, IF useWave /\ waves > 0 THEN "drain" ELSE "decode")
    BY <1>1 DEF PrefillDone
  <2>2. pc'[0] = IF useWave /\ waves > 0 THEN "drain" ELSE "decode"
    BY <1>0, <2>1, GotoPcs
  <2>3. pos \in Nat /\ realTotal \in Nat /\ waves \in Nat
    BY Totals DEF TypeInv, TypeOK
  <2>4. pos' > 0 => pos > 0
    BY <2>1, <2>3 DEF Smaller
  <2> QED
    BY <1>0, <2>1, <2>2, <2>3, <2>4 DEF LogitsInv, LogitsAnswerRequest
<1>2. CASE NextRequest
  <2>1. pos' = 0
    BY <1>2 DEF NextRequest
  <2> QED
    BY <2>1 DEF LogitsInv, LogitsAnswerRequest
<1>3. CASE RootSend
  <2>1. CASE InWave
    <3>1. Goto(0, "prefill") /\ waves' = waves + 1
      BY <1>3, <2>1 DEF RootSend
    <3>2. pc'[0] = "prefill" /\ waves \in Nat
      BY <1>0, <3>1, GotoPcs DEF TypeInv, TypeOK
    <3> QED
      BY <1>0, <2>1, <3>1, <3>2 DEF LogitsInv, LogitsAnswerRequest, InWave
  <2>2. CASE ~InWave
    <3>1. Goto(0, "recv")
      BY <1>3, <2>2 DEF RootSend
    <3>2. pc'[0] = "recv"
      BY <1>0, <3>1, GotoPcs
    <3> QED
      BY <3>2 DEF LogitsInv, LogitsAnswerRequest
  <2> QED
    BY <2>1, <2>2
<1>4. CASE RootRecvLogits \/ DrainLogits
  <2>1. /\ logits' = ctrl[0].position /\ ctrl' = ctrl
        /\ pc[0] = "recv" => pc'[0] = LoopHead /\ ~InWave
        /\ pc[0] = "drain" => pc'[0] = "decode"
    BY <1>0, <1>4, LogitsAreLast
  <2>2. pc[0] \in {"recv", "drain"}
    BY <1>4 DEF RootRecvLogits, DrainLogits
  <2>3. pc'[0] = "prefill" => ~useWave
    BY <2>1, <2>2 DEF LoopHead, InWave
  <2> QED
    BY <1>0, <2>1, <2>3 DEF LogitsInv, LogitsAnswerRequest
<1>5. CASE \E w \in Workers : WriteControl(w)
  <2>1. UNCHANGED <<pc, ctrl, pos, waves, logits>>
    BY <1>5 DEF WriteControl
  <2> QED
    BY <1>0, <2>1, LogitsKept0
<1>6. CASE PrefillChunk \/ DecodeToken \/ Finish \/ ControlWritten \/ RootForward \/ RootPeerClosed
  <2>1. UNCHANGED <<pos, waves, logits>>
    BY <1>6 DEF PrefillChunk, DecodeToken, Finish, ControlWritten, RootForward, RootPeerClosed, rootVars
  <2>2. \/ \E to \in {"write", "forward", "send"} : Goto(0, to)
        \/ \E r \in {"assert", "stop", "peer"} : End(0, r)
    BY <1>6 DEF PrefillChunk, DecodeToken, Finish, ControlWritten, RootForward, RootPeerClosed, Broadcast
  <2>3. pc'[0] \notin {"prefill", "decode"}
    BY <1>0, <2>2, GotoPcs, EndedPcs
  <2> QED
    BY <1>0, <2>1, <2>3, LogitsKept0
<1> QED
  BY <1>1, <1>2, <1>3, <1>4, <1>5, <1>6 DEF RootStep

\* Nobody else touches the logits.
LEMMA LogitsOther ==
    ASSUME TypeInv, LogitsInv,
           (\E w \in Workers : WorkerStep(w)) \/ (\E s \in Stages : Fault(s)) \/ UNCHANGED vars
    PROVE  LogitsInv'
<1>0. 0 \in Stages /\ \A w \in Workers : w # 0 /\ w \in Stages
  BY StageFacts
<1>1. ASSUME NEW w \in Workers, WorkerStep(w) PROVE LogitsInv'
  <2>1. session' = session /\ UNCHANGED <<pos, waves, logits>> /\ ctrl'[0] = ctrl[0]
    BY <1>0, <1>1 DEF WorkerStep, ReadControl, SkipForward, RecvActivation, WorkerForward, EvaluateSkip,
         SendMarker, SendBypass, SendActivation, SendLogits, WorkerPeerClosed, PollTimeout, NextSource, rootVars,
         TypeInv, TypeOK
  <2>2. pc' = pc \/ (\E to : Goto(w, to)) \/ (\E r : End(w, r))
    BY <1>1 DEF WorkerStep, ReadControl, SkipForward, RecvActivation, WorkerForward, EvaluateSkip,
         SendMarker, SendBypass, SendActivation, SendLogits, WorkerPeerClosed, PollTimeout, NextSource
  <2>3. pc'[0] = pc[0]
    BY <1>0, <2>2, GotoPcs, EndedPcs
  <2> QED
    BY <2>1, <2>3, LogitsKept0
<1>2. ASSUME NEW s \in Stages, Fault(s) PROVE LogitsInv'
  <2>1. UNCHANGED <<session, pos, waves, logits, ctrl>> /\ End(s, "fault")
    BY <1>2 DEF Fault, rootVars
  <2>2. pc'[0] = "over" \/ pc'[0] = pc[0]
    BY <1>0, <2>1, EndedPcs
  <2> QED
    BY <2>1, <2>2, LogitsKept0
<1>3. CASE UNCHANGED vars
  BY <1>3, LogitsKept0 DEF vars, rootVars
<1> QED
  BY <1>1, <1>2, <1>3

\* LogitsAnswerRequest: forward() and drainPrefillLogits() never look at the header of
\* the logits they read, and still these are always those of the last chunk or token.
THEOREM LogitsHold == Spec => []LogitsAnswerRequest
<1>1. Init => LogitsInv
  BY StageFacts DEF Init, LogitsInv, LogitsAnswerRequest
<1>2. FlowInv /\ LogitsInv /\ [Next]_vars => LogitsInv'
  <2> SUFFICES ASSUME FlowInv, LogitsInv, [Next]_vars PROVE LogitsInv'
    OBVIOUS
  <2>1. TypeInv /\ \E g : Flow(g)
    BY DEF FlowInv
  <2> QED
    BY <2>1, LogitsRoot, LogitsOther DEF Next
<1>3. LogitsInv => LogitsAnswerRequest
  BY DEF LogitsInv
<1> QED
  BY <1>1, <1>2, <1>3, FlowHolds, PTL DEF Spec

-----------------------------------------------------------------------------
(* The loops of the root.                                                  *)

\* The first position behind packet c at which a token of its request is missing.
Front(c) ==
    IF c.phase = "prefill" THEN Smaller(c.position + c.batchSize, RealTotal(c.request))
    ELSE c.position + 1

\* The last packet of the root is not one of the request it is at.
Unbegun(c, r) == c.batchSize = 0 \/ c.request # r

\* Where the root is at p with packet c, pos and request are those of the packet, or
\* follow from it.
LoopOK(p, c, r, n) ==
    /\ p \in {"write", "forward", "send", "recv"} /\ c.batchSize # 0 => c.position = n /\ c.request = r
    /\ p \in {"forward", "send", "recv"} => c.batchSize # 0
    /\ p \in {"prefill", "decode", "drain"} /\ Unbegun(c, r) => n = 0
    /\ p = "prefill" /\ ~Unbegun(c, r) => c.phase = "prefill" /\ n = c.position + c.batchSize
    /\ p \in {"decode", "drain"} /\ ~Unbegun(c, r) => n = Front(c)
    /\ c.request <= r
    /\ c.phase = "decode" /\ c.batchSize # 0 => c.batchSize = 1

Loops == LoopOK(pc[0], ctrl[0], request, pos)

\* The lengths of the prompts belong to the session.
LEMMA SameFront ==
    ASSUME session' = session
    PROVE  \A c : Front(c)' = Front(c)
BY DEF Front, RealTotal

\* A step that leaves the root where it is, or ends it.
LEMMA LoopsKept ==
    ASSUME Loops, session' = session, ctrl'[0] = ctrl[0], UNCHANGED <<request, pos>>,
           pc'[0] = pc[0] \/ pc'[0] = "over"
    PROVE  Loops'
<1>1. \A c : Front(c)' = Front(c)
  BY SameFront
<1> QED
  BY <1>1 DEF Loops, LoopOK, Unbegun

\* A broadcast: the packet is at the root's position, or stops the session.
LEMMA LoopsCast ==
    ASSUME TypeInv, Loops, NEW p \in Packet, Broadcast(p), UNCHANGED <<request, pos>>,
           \/ p.batchSize # 0 /\ p.position = pos /\ p.request = request
           \/ p.batchSize = 0 /\ p.request = ctrl[0].request,
           p.phase = "decode" /\ p.batchSize # 0 => p.batchSize = 1
    PROVE  Loops'
<1>1. pc'[0] = "write" /\ ctrl'[0] = p
  BY StageFacts DEF Broadcast, Goto, TypeInv, TypeOK
<1>2. request \in Nat /\ p.request \in Nat /\ ctrl[0].request <= request
  <2>1. session \in Sessions /\ request \in DOMAIN session.prompts
    BY DEF TypeInv, TypeOK
  <2>2. request \in Nat
    BY <2>1, SessionFacts
  <2> QED
    BY <2>2 DEF Loops, LoopOK, Packet
<1>3. p.request <= request
  BY <1>2
<1> QED
  BY <1>1, <1>3 DEF Loops, LoopOK

\* Every step of the root keeps its loops in step with its packet.
LEMMA LoopsRoot ==
    ASSUME TypeInv, NEW g, Flow(g), Loops, RootStep
    PROVE  Loops'
<1>0. session' = session /\ 0 \in Stages
  BY StageFacts DEF RootStep
<1>1. pos \in Nat /\ request \in Nat /\ realTotal \in Nat /\ ctrl[0].position \in Nat
      /\ ctrl[0].batchSize \in Nat /\ ctrl[0].request \in Nat
  <2>1. session \in Sessions /\ request \in DOMAIN session.prompts /\ pos \in Nat /\ ctrl[0] \in Packet
    BY <1>0 DEF TypeInv, TypeOK
  <2>2. request \in Nat
    BY <2>1, SessionFacts
  <2> QED
    BY <2>1, <2>2, Totals DEF Packet
<1>2. \A c : Front(c)' = Front(c)
  BY <1>0, SameFront
<1>3. CASE PrefillChunk
  <2>1. UNCHANGED <<request, pos>>
    BY <1>3 DEF PrefillChunk
  <2>2. CASE pc'[0] = "over"
    <3>1. ctrl' = ctrl
      BY <1>0, <1>3, <2>2, GotoPcs DEF PrefillChunk, Broadcast
    <3> QED
      BY <1>0, <2>1, <2>2, <3>1, LoopsKept
  <2>3. CASE pc'[0] # "over"
    <3>1. PICK p : p = ctrl'[0]
      OBVIOUS
    <3>2. /\ Broadcast(p) /\ p \in Packet /\ p.phase = "prefill" /\ p.batchSize # 0
          /\ p.position = pos /\ p.request = request
      BY <1>3, <2>3, <3>1, ChunkCast DEF Stop
    <3> QED
      BY <2>1, <3>2, LoopsCast
  <2> QED
    BY <2>2, <2>3
<1>4. CASE DecodeToken
  <2>1. UNCHANGED <<request, pos>>
    BY <1>4 DEF DecodeToken
  <2>2. PICK p : p = ctrl'[0]
    OBVIOUS
  <2>3. /\ Broadcast(p) /\ p \in Packet /\ p.batchSize = 1 /\ p.position = pos /\ p.request = request
    BY <1>4, <2>2, DecodeCast
  <2> QED
    BY <2>1, <2>3, LoopsCast
<1>5. CASE Finish
  <2>1. UNCHANGED <<request, pos>>
    BY <1>5 DEF Finish
  <2>2. PICK p : p = ctrl'[0]
    OBVIOUS
  <2>3. /\ Broadcast(p) /\ p \in Packet /\ p.batchSize = 0 /\ p.request = ctrl[0].request
    BY <1>5, <2>2, FinishCast DEF Stop
  <2> QED
    BY <2>1, <2>3, LoopsCast
<1>6. CASE PrefillDone
  <2>1. pc[0] = "prefill" /\ pos' = Smaller(pos, realTotal) /\ ctrl' = ctrl /\ request' = request
        /\ Goto(0, IF useWave /\ waves > 0 THEN "drain" ELSE "decode")
    BY <1>6 DEF PrefillDone
  <2>2. pc'[0] \in {"drain", "decode"}
    BY <1>0, <2>1, GotoPcs
  <2>3. CASE Unbegun(ctrl[0], request)
    <3>1. pos' = 0
      BY <1>1, <2>1, <2>3 DEF Loops, LoopOK, Smaller
    <3> QED
      BY <2>1, <2>2, <2>3, <3>1 DEF Loops, LoopOK
  <2>4. CASE ~Unbegun(ctrl[0], request)
    <3>1. ctrl[0].phase = "prefill" /\ pos = ctrl[0].position + ctrl[0].batchSize /\ ctrl[0].request = request
      BY <2>1, <2>4 DEF Loops, LoopOK, Unbegun
    <3>2. pos' = Front(ctrl[0])
      BY <2>1, <3>1 DEF Front, realTotal
    <3> QED
      BY <1>2, <2>1, <2>2, <2>4, <3>2 DEF Loops, LoopOK
  <2> QED
    BY <2>3, <2>4
<1>7. CASE NextRequest
  <2>1. request' = request + 1 /\ pos' = 0 /\ ctrl' = ctrl /\ Goto(0, "prefill")
    BY <1>7 DEF NextRequest
  <2>2. pc'[0] = "prefill" /\ ctrl[0].request <= request
    BY <1>0, <2>1, GotoPcs DEF Loops, LoopOK
  <2>3. Unbegun(ctrl[0], request + 1) /\ ctrl[0].request <= request + 1
    BY <1>1, <2>2 DEF Unbegun
  <2> QED
    BY <2>1, <2>2, <2>3 DEF Loops, LoopOK
<1>8. CASE \E w \in Workers : WriteControl(w)
  <2>1. UNCHANGED <<pc, ctrl, request, pos>>
    BY <1>8 DEF WriteControl
  <2> QED
    BY <1>0, <2>1, LoopsKept
<1>9. CASE ControlWritten \/ RootPeerClosed
  <2>1. UNCHANGED <<ctrl, request, pos>>
    BY <1>9 DEF ControlWritten, RootPeerClosed, rootVars
  <2>2. \/ \E r \in {"stop", "peer"} : End(0, r)
        \/ pc[0] = "write" /\ ctrl[0].batchSize # 0 /\ Goto(0, "forward")
    BY <1>9 DEF ControlWritten, RootPeerClosed
  <2>3. pc'[0] = "over" \/ (pc[0] = "write" /\ ctrl[0].batchSize # 0 /\ pc'[0] = "forward")
    BY <1>0, <2>2, GotoPcs, EndedPcs
  <2> QED
    BY <1>2, <2>1, <2>3 DEF Loops, LoopOK
<1>10. CASE RootForward
  <2>1. UNCHANGED <<ctrl, request, pos>> /\ pc[0] = "forward" /\ Goto(0, "send")
    BY <1>10 DEF RootForward, rootVars
  <2>2. pc'[0] = "send"
    BY <1>0, <2>1, GotoPcs
  <2> QED
    BY <1>2, <2>1, <2>2 DEF Loops, LoopOK
<1>11. CASE RootSend
  <2>1. UNCHANGED <<ctrl, request>> /\ pc[0] = "send"
    BY <1>11 DEF RootSend
  <2>2. /\ InWave => Goto(0, "prefill") /\ pos' = pos + ctrl[0].batchSize
        /\ ~InWave => Goto(0, "recv") /\ pos' = pos
    BY <1>11 DEF RootSend
  <2>3. /\ InWave => pc'[0] = "prefill"
        /\ ~InWave => pc'[0] = "recv"
    BY <1>0, <2>2, GotoPcs
  <2>4. InWave => ctrl[0].phase = "prefill"
    BY DEF InWave
  <2>5. ctrl[0].batchSize # 0 /\ ctrl[0].position = pos /\ ctrl[0].request = request
    BY <2>1 DEF Loops, LoopOK
  <2> QED
    BY <2>1, <2>2, <2>3, <2>4, <2>5 DEF Loops, LoopOK, Unbegun
<1>12. CASE RootRecvLogits \/ DrainLogits
  <2>1. /\ ctrl' = ctrl /\ request' = request
        /\ pc[0] = "recv" => pc'[0] = LoopHead /\ pos' = pos + ctrl[0].batchSize
        /\ pc[0] = "drain" => pc'[0] = "decode" /\ pos' = pos
    BY <1>0, <1>12, LogitsAreLast
  <2>2. CASE pc[0] = "recv"
    <3>1. ctrl[0].batchSize # 0 /\ ctrl[0].position = pos /\ ctrl[0].request = request
      BY <2>2 DEF Loops, LoopOK
    <3>2. CASE ctrl[0].phase = "prefill"
      <4>1. pc'[0] = "prefill"
        BY <2>1, <2>2, <3>2 DEF LoopHead
      <4> QED
        BY <2>1, <2>2, <3>1, <3>2, <4>1 DEF Loops, LoopOK, Unbegun
    <3>3. CASE ctrl[0].phase # "prefill"
      <4>1. pc'[0] = "decode" /\ ctrl[0].phase = "decode"
        BY <1>0, <2>1, <2>2, <3>3 DEF LoopHead, TypeInv, TypeOK, Packet
      <4>2. pos' = Front(ctrl[0])
        BY <2>1, <2>2, <3>1, <4>1 DEF Loops, LoopOK, Front
      <4> QED
        BY <1>2, <2>1, <3>1, <4>1, <4>2 DEF Loops, LoopOK, Unbegun
    <3> QED
      BY <3>2, <3>3
  <2>3. CASE pc[0] = "drain"
    BY <1>2, <2>1, <2>3 DEF Loops, LoopOK
  <2>4. pc[0] \in {"recv", "drain"}
    BY <1>12 DEF RootRecvLogits, DrainLogits
  <2> QED
    BY <2>2, <2>3, <2>4
<1> QED
  BY <1>3, <1>4, <1>5, <1>6, <1>7, <1>8, <1>9, <1>10, <1>11, <1>12 DEF RootStep

-----------------------------------------------------------------------------
(* The order of the packets.                                               *)

Fits(c) ==
    /\ c.position + c.batchSize <= seqLen /\ c.request \in DOMAIN session.prompts
    /\ c.phase = "decode" => c.batchSize = 1

\* Packet c continues the request of packet b, or begins the next one.
Succeeds(b, c) ==
    \/ /\ c.request = b.request /\ c.phase = "prefill" /\ b.phase = "prefill"
       /\ c.position = b.position + b.batchSize
    \/ c.request = b.request /\ c.phase = "decode" /\ c.position = Front(b)
    \/ c.request > b.request /\ c.position = 0

Follows(h) ==
    /\ \A m \in 1..Len(h) : ~Stop(h[m]) => Fits(h[m]) /\ (m = 1 => h[m].position = 0)
    /\ \A m \in 2..Len(h) : ~Stop(h[m]) => Succeeds(h[m - 1], h[m])

InTurn(h) == \A a, b \in 1..Len(h) : a <= b => h[a].request <= h[b].request

\* One decode packet per position.
Numbered(h) ==
    \A a, b \in 1..Len(h) :
      a < b /\ h[a].request = h[b].request /\ h[a].phase = "decode" /\ ~Stop(h[b]) =>
        h[b].phase = "decode" /\ h[b].position = h[a].position + (b - a)

Orderly(h) == Follows(h) /\ InTurn(h) /\ Numbered(h)

\* The order of a history depends on the session only.
LEMMA OrderlyKept ==
    ASSUME NEW h, Orderly(h), session' = session
    PROVE  Orderly(h)'
<1>1. \A c : Front(c)' = Front(c)
  BY SameFront
<1>2. \A c : Fits(c)' = Fits(c)
  BY DEF Fits, seqLen
<1>3. \A b, c : Succeeds(b, c)' = Succeeds(b, c)
  BY <1>1 DEF Succeeds
<1>4. Follows(h)'
  BY <1>2, <1>3 DEF Orderly, Follows
<1> QED
  BY <1>4 DEF Orderly, InTurn, Numbered

\* What the root broadcasts from the head of a loop.
Castable(p) ==
    \/ /\ p.batchSize # 0 /\ Fits(p) /\ p.request = request /\ p.position = pos
       /\ p.phase = pc[0]
    \/ p.batchSize = 0 /\ p.request = ctrl[0].request

\* It continues the history in order.
LEMMA OrderlyCast ==
    ASSUME TypeInv, NEW g, NEW g2, Flow(g), Loops, Orderly(g.h), pc[0] \in {"prefill", "decode"},
           NEW p \in Packet, GCast(g, g2, p), Castable(p)
    PROVE  Orderly(g2.h)
<1>0. g \in Ghosts /\ RootAt(g)
  BY DEF Flow
<1>1. /\ N(g2) = N(g) + 1 /\ g2.h[N(g) + 1] = p
      /\ \A m \in 1..N(g) : g2.h[m] = g.h[m]
  BY <1>0, CastHistory
<1>2. PICK n \in Nat : n = N(g) /\ Len(g.h) = n /\ Len(g2.h) = n + 1
  BY <1>0, <1>1, GhostTypes DEF N
<1>3. \A m \in 1..n : g.h[m] \in Packet /\ ~Stop(g.h[m])
  BY <1>0, <1>2, GhostTypes, RootFacts
<1>4. \A m \in 1..n : g.h[m].request \in Nat /\ g.h[m].position \in Nat /\ g.h[m].batchSize \in Nat
                      /\ g.h[m].batchSize # 0
  BY <1>3 DEF Packet, Stop
<1>5. n >= 1 => ctrl[0] = g.h[n] /\ ctrl[0].batchSize # 0
  BY <1>0, <1>2, <1>4, RootFacts
<1>6. n = 0 => ctrl[0].batchSize = 0 /\ ctrl[0].request = 1
  <2>1. n = 0 => ctrl[0] = NoPacket
    BY <1>0, <1>2, RootFacts
  <2> QED
    BY <2>1 DEF NoPacket
<1>7. request \in Nat /\ p.request \in Nat /\ ctrl[0].request <= request
  <2>1. session \in Sessions /\ request \in DOMAIN session.prompts
    BY DEF TypeInv, TypeOK
  <2>2. request \in Nat
    BY <2>1, SessionFacts
  <2> QED
    BY <2>2 DEF Loops, LoopOK, Packet
<1>8. n >= 1 => g.h[n].request <= p.request
  BY <1>5, <1>7 DEF Castable
<1>9. n = 0 /\ ~Stop(p) => p.position = 0
  BY <1>6 DEF Castable, Loops, LoopOK, Unbegun, Stop
<1>10. ASSUME n >= 1, ~Stop(p) PROVE Succeeds(g.h[n], p)
  <2>1. /\ p.request = request /\ p.position = pos /\ p.phase = pc[0]
    BY <1>10 DEF Castable, Stop
  <2>2. CASE ctrl[0].request # request
    <3>1. pos = 0
      BY <2>2 DEF Loops, LoopOK, Unbegun
    <3>2. ctrl[0].request < request
      BY <1>4, <1>5, <1>7, <1>10, <2>2
    <3> QED
      BY <1>5, <1>10, <2>1, <3>1, <3>2 DEF Succeeds
  <2>3. CASE ctrl[0].request = request
    <3>1. ~Unbegun(ctrl[0], request)
      BY <1>5, <1>10, <2>3 DEF Unbegun
    <3> QED
      BY <1>5, <1>10, <2>1, <2>3, <3>1 DEF Succeeds, Loops, LoopOK
  <2> QED
    BY <2>2, <2>3
<1>11. Follows(g2.h)
  <2>1. \A m \in 1..(n + 1) : m \in 1..n \/ m = n + 1
    OBVIOUS
  <2>2. ASSUME NEW m \in 1..(n + 1), ~Stop(g2.h[m])
        PROVE  Fits(g2.h[m]) /\ (m = 1 => g2.h[m].position = 0)
    <3>1. CASE m \in 1..n
      BY <1>1, <1>2, <2>2, <3>1 DEF Orderly, Follows
    <3>2. CASE m = n + 1
      BY <1>1, <1>2, <1>9, <2>2, <3>2 DEF Castable, Stop
    <3> QED
      BY <2>1, <3>1, <3>2
  <2>3. ASSUME NEW m \in 2..(n + 1), ~Stop(g2.h[m])
        PROVE  Succeeds(g2.h[m - 1], g2.h[m])
    <3>1. CASE m \in 2..n
      <4>1. m - 1 \in 1..n /\ m \in 1..n
        BY <3>1
      <4> QED
        BY <1>1, <1>2, <2>3, <3>1, <4>1 DEF Orderly, Follows
    <3>2. CASE m = n + 1
      <4>1. n >= 1 /\ m - 1 = n /\ n \in 1..n
        BY <3>2
      <4> QED
        BY <1>1, <1>2, <1>10, <2>3, <3>2, <4>1
    <3> QED
      BY <2>1, <3>1, <3>2
  <2> QED
    BY <1>2, <2>2, <2>3 DEF Follows
<1>12. InTurn(g2.h)
  <2>1. ASSUME NEW a \in 1..(n + 1), NEW b \in 1..(n + 1), a <= b
        PROVE  g2.h[a].request <= g2.h[b].request
    <3>1. CASE b \in 1..n
      <4>1. a \in 1..n
        BY <2>1, <3>1
      <4> QED
        BY <1>1, <1>2, <2>1, <3>1, <4>1 DEF Orderly, InTurn
    <3>2. CASE b = n + 1 /\ a \in 1..n
      <4>1. g.h[a].request <= g.h[n].request /\ n \in 1..n
        BY <1>2, <3>2 DEF Orderly, InTurn
      <4> QED
        <5>1. n >= 1 /\ g.h[n].request <= p.request
          BY <1>8, <3>2
        <5>2. g.h[a].request \in Nat /\ g.h[n].request \in Nat
          BY <1>4, <3>2, <4>1
        <5>3. g2.h[a] = g.h[a] /\ g2.h[b] = p
          BY <1>1, <1>2, <3>2
        <5> QED
          BY <1>7, <4>1, <5>1, <5>2, <5>3
    <3>3. CASE b = n + 1 /\ a = n + 1
      BY <1>1, <1>2, <1>7, <3>3
    <3> QED
      BY <3>1, <3>2, <3>3
  <2> QED
    BY <1>2, <2>1 DEF InTurn
<1>13. Numbered(g2.h)
  <2>1. ASSUME NEW a \in 1..(n + 1), NEW b \in 1..(n + 1), a < b, g2.h[a].request = g2.h[b].request,
               g2.h[a].phase = "decode", ~Stop(g2.h[b])
        PROVE  g2.h[b].phase = "decode" /\ g2.h[b].position = g2.h[a].position + (b - a)
    <3>0. a \in 1..n /\ n \in 1..n /\ n >= 1
      BY <2>1
    <3>1. CASE b \in 1..n
      BY <1>1, <1>2, <2>1, <3>0, <3>1 DEF Orderly, Numbered
    <3>2. CASE b = n + 1
      <4>1. g2.h[b] = p /\ g2.h[a] = g.h[a]
        BY <1>1, <1>2, <3>0, <3>2
      <4>2. Succeeds(g.h[n], p) /\ g.h[a].request <= g.h[n].request /\ g.h[n].request <= p.request
        BY <1>2, <1>8, <1>10, <2>1, <3>0, <4>1 DEF Orderly, InTurn
      <4>3. g.h[n].request = p.request
        BY <1>4, <1>7, <2>1, <3>0, <4>1, <4>2
      <4>4. g.h[n].phase = "decode" /\ g.h[n].position = g.h[a].position + (n - a)
        <5>1. CASE a = n
          BY <1>4, <2>1, <3>0, <4>1, <5>1
        <5>2. CASE a # n
          <6>1. a < n
            BY <3>0, <5>2
          <6> QED
            BY <1>2, <1>3, <2>1, <3>0, <4>1, <4>3, <6>1 DEF Orderly, Numbered
        <5> QED
          BY <5>1, <5>2
      <4>5. p.phase = "decode" /\ p.position = g.h[n].position + 1
        BY <1>4, <1>7, <3>0, <4>2, <4>3, <4>4 DEF Succeeds, Front
      <4> QED
        BY <1>4, <3>0, <3>2, <4>1, <4>4, <4>5
    <3> QED
      BY <3>1, <3>2
  <2> QED
    BY <1>2, <2>1 DEF Numbered
<1> QED
  BY <1>11, <1>12, <1>13 DEF Orderly

-----------------------------------------------------------------------------
(* The KV cache.                                                           *)

\* The number of packets that stage s has run.
Ran(g, s) ==
    IF s = 0 THEN IF pc[0] \in {"write", "forward"} THEN N(g) - 1 ELSE N(g)
    ELSE IF pc[s] = "forward" THEN g.rc[s] - 1 ELSE g.rc[s]

\* The first n rows of stage s are those of request r.
Backed(s, r, n) ==
    \A p \in 0..(n - 1) : kv[s][p] = r \/ (TargetStage(s) /\ <<r, p>> \in skipped)

\* Stage s has run n packets of h: it has the rows of the last one's request.
KvUpto(s, h, n) == n > 0 => Backed(s, h[n].request, Front(h[n]))

KvAt(g, s) == pc[s] # "over" => KvUpto(s, g.h, Ran(g, s))

\* A running stage has run at most what was broadcast; in forward() it runs the next packet.
LEMMA RanFacts ==
    ASSUME TypeInv, NEW g, Flow(g), NEW s \in Stages, pc[s] # "over"
    PROVE  /\ Ran(g, s) \in Nat /\ Ran(g, s) <= N(g) /\ N(g) = Len(g.h) /\ N(g) \in Nat
           /\ pc[s] = "forward" => /\ Ran(g, s) + 1 <= N(g) /\ ctrl[s] = g.h[Ran(g, s) + 1]
                                   /\ ~Stop(g.h[Ran(g, s) + 1])
<1>0. g \in Ghosts /\ RootAt(g) /\ (\A w \in Workers : WorkerAt(g, w)) /\ N(g) = Len(g.h)
  BY DEF Flow, N
<1>1. CASE s = 0
  <2>1. /\ N(g) \in Nat
        /\ pc[0] \in {"write", "forward"} => N(g) >= 1 /\ ctrl[0] = g.h[N(g)]
        /\ pc[0] = "forward" => \A m \in 1..N(g) : ~Stop(g.h[m])
    BY <1>0, RootFacts
  <2> QED
    BY <1>0, <1>1, <2>1 DEF Ran
<1>2. CASE s # 0
  <2>1. s \in Workers
    BY <1>2, StageFacts
  <2>2. /\ g.rd[s] \in Nat /\ g.rc[s] \in Nat /\ N(g) \in Nat
        /\ g.rc[s] <= g.rd[s] /\ Written(g, s) \in Nat /\ g.rd[s] <= Written(g, s) /\ Written(g, s) <= N(g)
    BY <1>0, <2>1, WorkerBounds
  <2>3. pc[s] = "forward" => /\ g.rc[s] = g.rd[s] /\ g.rd[s] >= 1 /\ ctrl[s] = g.h[g.rd[s]]
                             /\ ~Stop(g.h[g.rd[s]])
    BY <1>0, <2>1, Working
  <2> QED
    BY <1>0, <1>2, <2>2, <2>3 DEF Ran
<1> QED
  BY <1>1, <1>2

\* The packets a history consists of, as far as arithmetic is concerned.
LEMMA PacketNumbers ==
    ASSUME TypeInv, NEW c \in Packet, Fits(c)
    PROVE  /\ c.position \in Nat /\ c.batchSize \in Nat /\ c.request \in Nat /\ seqLen \in Nat
           /\ RealTotal(c.request) \in Nat /\ c.phase \in {"prefill", "decode"}
           /\ Front(c) \in Nat /\ Front(c) <= c.position + c.batchSize
<1>1. session \in Sessions
  BY DEF TypeInv, TypeOK
<1>2. c.request \in 1..Len(session.prompts) /\ Len(session.prompts) \in Nat
  BY <1>1, SessionFacts DEF Fits
<1>3. session.prompts[c.request] \in Nat /\ session.prompts[c.request] >= 1 /\ seqLen \in Nat
  BY <1>1, <1>2, SessionFacts
<1>4. RealTotal(c.request) \in Nat
  BY <1>3 DEF RealTotal
<1>5. c.position \in Nat /\ c.batchSize \in Nat /\ c.request \in Nat /\ c.phase \in {"prefill", "decode"}
  BY DEF Packet
<1>6. c.phase = "decode" => c.batchSize = 1
  BY DEF Fits
<1>7. Front(c) \in Nat /\ Front(c) <= c.position + c.batchSize
  BY <1>4, <1>5, <1>6 DEF Front, Smaller
<1> QED
  BY <1>3, <1>4, <1>5, <1>7

\* Rows before a packet that count for it were there after the packet before.
LEMMA PrefixBacked ==
    ASSUME TypeInv, NEW h, Follows(h), Len(h) \in Nat, NEW n \in Nat, n + 1 <= Len(h),
           \A m \in 1..Len(h) : h[m] \in Packet, \A m \in 1..(n + 1) : ~Stop(h[m]),
           NEW s, KvUpto(s, h, n), NEW p \in Nat, p < h[n + 1].position, p < Front(h[n + 1])
    PROVE  kv[s][p] = h[n + 1].request \/ (TargetStage(s) /\ <<h[n + 1].request, p>> \in skipped)
<1>1. PICK c \in Packet : c = h[n + 1]
  OBVIOUS
<1>2. Fits(c) /\ (n = 0 => c.position = 0)
  BY <1>1 DEF Follows
<1>3. c.position \in Nat /\ Front(c) \in Nat
  BY <1>2, PacketNumbers
<1>4. n # 0
  BY <1>1, <1>2, <1>3
<1>5. PICK b \in Packet : b = h[n]
  BY <1>4
<1>6. Fits(b) /\ Succeeds(b, c)
  <2>1. n \in 1..Len(h) /\ n \in 1..(n + 1) /\ n + 1 \in 2..Len(h) /\ n + 1 \in 1..(n + 1) /\ (n + 1) - 1 = n
    BY <1>4
  <2>2. Succeeds(h[(n + 1) - 1], h[n + 1])
    BY <2>1 DEF Follows
  <2> QED
    BY <1>1, <1>5, <2>1, <2>2 DEF Follows
<1>7. /\ b.position \in Nat /\ b.batchSize \in Nat /\ RealTotal(b.request) \in Nat /\ Front(b) \in Nat
      /\ c.position \in Nat /\ c.batchSize \in Nat /\ RealTotal(c.request) \in Nat
  BY <1>2, <1>6, PacketNumbers
<1>8. c.request = b.request /\ p < Front(b)
  <2>1. p < c.position /\ p < Front(c)
    BY <1>1
  <2>2. CASE c.request = b.request /\ c.phase = "prefill" /\ b.phase = "prefill"
             /\ c.position = b.position + b.batchSize
    <3>1. p < RealTotal(c.request)
      BY <1>7, <2>1, <2>2 DEF Front, Smaller
    <3> QED
      BY <1>7, <2>1, <2>2, <3>1 DEF Front, Smaller
  <2>3. CASE c.request = b.request /\ c.phase = "decode" /\ c.position = Front(b)
    BY <2>1, <2>3
  <2>4. CASE c.request > b.request /\ c.position = 0
    BY <2>1, <2>4
  <2> QED
    BY <1>6, <2>2, <2>3, <2>4 DEF Succeeds
<1>9. Backed(s, b.request, Front(b))
  BY <1>4, <1>5 DEF KvUpto
<1>10. p \in 0..(Front(b) - 1)
  BY <1>7, <1>8
<1> QED
  BY <1>1, <1>8, <1>9, <1>10 DEF Backed

\* What a stage in forward() relies on.
LEMMA ForwardPrefix ==
    ASSUME TypeInv, NEW g, Flow(g), Orderly(g.h), NEW s \in Stages, KvAt(g, s),
           pc[s] = "forward", NEW p \in Nat, p < ctrl[s].position, p < Front(ctrl[s])
    PROVE  kv[s][p] = ctrl[s].request \/ (TargetStage(s) /\ <<ctrl[s].request, p>> \in skipped)
<1>0. g \in Ghosts /\ RootAt(g)
  BY DEF Flow
<1>1. PICK n \in Nat : /\ n = Ran(g, s) /\ n + 1 <= Len(g.h) /\ ctrl[s] = g.h[n + 1]
                       /\ ~Stop(g.h[n + 1]) /\ Len(g.h) = N(g)
  BY RanFacts
<1>2. Len(g.h) \in Nat /\ \A m \in 1..Len(g.h) : g.h[m] \in Packet
  BY <1>0, <1>1, GhostTypes
<1>3. \A m \in 1..(n + 1) : ~Stop(g.h[m])
  <2>1. \A m \in 1..Len(g.h) : Stop(g.h[m]) => m = Len(g.h)
    BY <1>0, <1>1, RootFacts
  <2> QED
    BY <1>1, <1>2, <2>1
<1>4. KvUpto(s, g.h, n) /\ Follows(g.h)
  BY <1>1 DEF KvAt, Orderly
<1> QED
  BY <1>1, <1>2, <1>3, <1>4, PrefixBacked

\* KvPrefixIsReal follows.
LEMMA KvReal ==
    ASSUME TypeInv, NEW g, Flow(g), Orderly(g.h), \A s \in Stages : KvAt(g, s)
    PROVE  KvPrefixIsReal
<1> SUFFICES ASSUME NEW s \in Stages, pc[s] = "forward", ~PaddingOnly(ctrl[s]),
                    NEW p \in 0..(ctrl[s].position - 1)
             PROVE  kv[s][p] = ctrl[s].request \/ (TargetStage(s) /\ <<ctrl[s].request, p>> \in skipped)
  BY DEF KvPrefixIsReal
<1>0. g \in Ghosts
  BY DEF Flow
<1>1. PICK c \in Packet : c = ctrl[s] /\ Fits(c) /\ c.batchSize # 0
  <2>1. PICK n \in Nat : /\ n + 1 <= Len(g.h) /\ ctrl[s] = g.h[n + 1] /\ ~Stop(g.h[n + 1])
                         /\ Len(g.h) \in Nat
    BY RanFacts
  <2>2. g.h[n + 1] \in Packet /\ Fits(g.h[n + 1])
    BY <1>0, <2>1, GhostTypes DEF Orderly, Follows, N
  <2> QED
    BY <2>1, <2>2 DEF Stop
<1>2. /\ c.position \in Nat /\ c.batchSize \in Nat /\ RealTotal(c.request) \in Nat
      /\ c.phase \in {"prefill", "decode"} /\ Front(c) \in Nat
  BY <1>1, PacketNumbers
<1>3. c.position < Front(c)
  BY <1>1, <1>2 DEF PaddingOnly, Front, Smaller
<1>4. p \in Nat /\ p < c.position /\ p < Front(c)
  BY <1>1, <1>2, <1>3
<1> QED
  BY <1>1, <1>4, ForwardPrefix

\* A step that runs nothing on stage s leaves its cache as it is.
LEMMA KvKept ==
    ASSUME TypeInv, NEW g, NEW g2, Flow(g), NEW s \in Stages, KvAt(g, s), session' = session,
           Extends(g2.h, g.h), kv'[s] = kv[s], skipped \subseteq skipped',
           pc'[s] = "over" \/ (pc[s] # "over" /\ Ran(g2, s)' = Ran(g, s))
    PROVE  KvAt(g2, s)'
<1>1. CASE pc'[s] = "over"
  BY <1>1 DEF KvAt
<1>2. CASE pc'[s] # "over"
  <2>1. PICK n \in Nat : n = Ran(g, s) /\ n = Ran(g2, s)' /\ n <= Len(g.h) /\ Len(g.h) \in Nat
    BY <1>2, RanFacts
  <2>2. n > 0 => g2.h[n] = g.h[n]
    BY <2>1 DEF Extends
  <2>3. KvUpto(s, g.h, n)
    BY <1>2, <2>1 DEF KvAt
  <2>4. \A c : Front(c)' = Front(c)
    BY SameFront
  <2>5. TargetStage(s)' = TargetStage(s)
    BY DEF TargetStage, SkipEnabled, skipTarget
  <2>6. \A r, m : Backed(s, r, m) => Backed(s, r, m)'
    BY <2>5 DEF Backed
  <2>7. KvUpto(s, g2.h, n)'
    BY <2>2, <2>3, <2>4, <2>6 DEF KvUpto
  <2> QED
    BY <2>1, <2>7 DEF KvAt
<1> QED
  BY <1>1, <1>2

\* forward() adds the rows of its packet; those of the padding do not count.
LEMMA KvForward ==
    ASSUME TypeInv, NEW g, Flow(g), Orderly(g.h), NEW s \in Stages, KvAt(g, s), session' = session,
           pc[s] = "forward", StoreKv(s), skipped' = skipped, pc'[s] \in {"send", "decide"}
    PROVE  KvAt(g, s)'
<1>0. g \in Ghosts /\ s \in Nat
  BY StageFacts DEF Flow
<1>1. PICK n \in Nat : /\ n = Ran(g, s) /\ n + 1 <= Len(g.h) /\ ctrl[s] = g.h[n + 1]
                       /\ ~Stop(g.h[n + 1]) /\ Len(g.h) = N(g) /\ Len(g.h) \in Nat
  BY RanFacts
<1>2. PICK c \in Packet : c = ctrl[s] /\ Fits(c)
  BY <1>0, <1>1, GhostTypes DEF Orderly, Follows
<1>3. /\ c.position \in Nat /\ c.batchSize \in Nat /\ c.request \in Nat /\ seqLen \in Nat
      /\ RealTotal(c.request) \in Nat /\ Front(c) \in Nat /\ Front(c) <= c.position + c.batchSize
      /\ c.position + c.batchSize <= seqLen
  BY <1>2, PacketNumbers DEF Fits
<1>4. Ran(g, s)' = n + 1
  <2>1. N(g) \in Nat /\ (s # 0 => s \in Workers)
    BY <1>0, GhostTypes, StageFacts
  <2>2. s # 0 => g.rc[s] \in Nat
    BY <1>0, <2>1, GhostTypes
  <2> QED
    BY <1>1, <2>1, <2>2 DEF Ran
<1>5. ASSUME NEW p \in 0..(Front(c) - 1)
      PROVE  kv'[s][p] = c.request \/ (TargetStage(s) /\ <<c.request, p>> \in skipped)
  <2>1. p \in Nat /\ p < Front(c) /\ p \in Positions
    BY <1>3, <1>5 DEF Positions
  <2>2. kv'[s][p] = IF p \in c.position..(c.position + c.batchSize - 1)
                      THEN IF c.phase = "prefill" /\ p >= RealTotal(c.request) THEN 0 ELSE c.request
                      ELSE kv[s][p]
    BY <1>2, <2>1 DEF StoreKv, TypeInv, TypeOK
  <2>3. CASE p < c.position
    <3>1. kv'[s][p] = kv[s][p]
      BY <1>3, <2>1, <2>2, <2>3
    <3> QED
      BY <1>2, <2>1, <2>3, <3>1, ForwardPrefix
  <2>4. CASE p >= c.position
    <3>1. p \in c.position..(c.position + c.batchSize - 1)
      BY <1>3, <2>1, <2>4
    <3>2. c.phase = "prefill" => p < RealTotal(c.request)
      BY <1>3, <2>1 DEF Front, Smaller
    <3> QED
      BY <1>3, <2>1, <2>2, <3>1, <3>2
  <2> QED
    BY <1>3, <2>1, <2>3, <2>4
<1>6. TargetStage(s)' = TargetStage(s) /\ Front(c)' = Front(c)
  BY SameFront DEF TargetStage, SkipEnabled, skipTarget
<1>7. Backed(s, c.request, Front(c))'
  BY <1>5, <1>6 DEF Backed
<1>8. KvUpto(s, g.h, n + 1)'
  BY <1>1, <1>2, <1>7 DEF KvUpto
<1> QED
  BY <1>4, <1>8 DEF KvAt

\* A skipped token leaves a gap in the cache of the target.
LEMMA KvSkip ==
    ASSUME TypeInv, NEW g, NEW g2, Flow(g), Orderly(g.h), NEW w \in Workers, KvAt(g, w), session' = session,
           NEW src \in Stages, SkipForward(w, src), GSkip(g, g2, w)
    PROVE  KvAt(g2, w)'
<1>0. g \in Ghosts /\ RootAt(g) /\ WorkerAt(g, w) /\ w \in Stages /\ w # 0
  BY WorkerIsStage DEF Flow
<1>1. /\ pc[w] = "recv" /\ Goto(w, "ctrl") /\ kv' = kv /\ TargetStage(w) /\ DecodeSingle(w)
      /\ skipped' = skipped \cup {<<ctrl[w].request, ctrl[w].position>>}
  BY DEF SkipForward, IsMarker
<1>2. pc'[w] = "ctrl"
  BY <1>0, <1>1, GotoPcs
<1>3. /\ g.rd[w] \in 1..N(g) /\ ctrl[w] = g.h[g.rd[w]] /\ ~Stop(g.h[g.rd[w]]) /\ g.rc[w] = g.rd[w] - 1
      /\ g.rc[w] \in Nat /\ N(g) \in Nat
  BY <1>0, <1>1, Working
<1>4. PICK n \in Nat : n = g.rc[w] /\ n + 1 = g.rd[w] /\ n + 1 <= Len(g.h) /\ Len(g.h) = N(g)
  BY <1>3 DEF N
<1>5. g2.rc[w] = n + 1 /\ g2.h = g.h
  BY <1>0, <1>4, SkipValues
<1>6. Ran(g, w) = n /\ Ran(g2, w)' = n + 1
  BY <1>0, <1>1, <1>2, <1>4, <1>5 DEF Ran
<1>7. PICK c \in Packet : c = ctrl[w] /\ c = g.h[n + 1] /\ Fits(c) /\ c.phase = "decode"
  BY <1>0, <1>1, <1>3, <1>4, GhostTypes DEF Orderly, Follows, DecodeSingle
<1>8. c.position \in Nat /\ Front(c) = c.position + 1
  BY <1>7, PacketNumbers DEF Front
<1>9. Len(g.h) \in Nat /\ (\A m \in 1..Len(g.h) : g.h[m] \in Packet) /\ \A m \in 1..(n + 1) : ~Stop(g.h[m])
  <2>1. \A m \in 1..Len(g.h) : g.h[m] \in Packet /\ (Stop(g.h[m]) => m = Len(g.h))
    BY <1>0, <1>4, GhostTypes, RootFacts
  <2> QED
    BY <1>3, <1>4, <2>1
<1>10. KvUpto(w, g.h, n) /\ Follows(g.h)
  BY <1>1, <1>6 DEF KvAt, Orderly
<1>11. ASSUME NEW p \in 0..(Front(c) - 1)
       PROVE  kv[w][p] = c.request \/ <<c.request, p>> \in skipped'
  <2>1. CASE p = c.position
    BY <1>1, <1>7, <2>1
  <2>2. CASE p # c.position
    <3>1. p \in Nat /\ p < c.position /\ p < Front(c)
      BY <1>8, <2>2
    <3>2. kv[w][p] = g.h[n + 1].request \/ (TargetStage(w) /\ <<g.h[n + 1].request, p>> \in skipped)
      BY <1>4, <1>7, <1>9, <1>10, <3>1, PrefixBacked
    <3> QED
      BY <1>1, <1>7, <3>2
  <2> QED
    BY <2>1, <2>2
<1>12. TargetStage(w)' /\ Front(c)' = Front(c)
  BY <1>1, SameFront DEF TargetStage, SkipEnabled, skipTarget
<1>13. Backed(w, c.request, Front(c))'
  BY <1>1, <1>11, <1>12 DEF Backed
<1>14. KvUpto(w, g2.h, n + 1)'
  BY <1>5, <1>7, <1>13 DEF KvUpto
<1> QED
  BY <1>6, <1>14 DEF KvAt

-----------------------------------------------------------------------------
(* How often the target is skipped.                                        *)

\* A run of skipped packets that ends with number n is not longer than len.
RunsTo(sk, n, len) ==
    \A a \in Nat : a >= 1 /\ a <= n /\ (\A b \in a..n : b \in sk) => (n - a) + 1 <= len

NoLongRun(sk, max) == \A n \in Nat : ~(\A b \in n..(n + max) : b \in sk)

\* The decision stage at p, with rd packets read and the last one of this phase: acc is
\* at least the length of the present run.
AcceptsOK(p, phase, rd, sk, acc) ==
    /\ p \in {"recv", "forward", "decide"} /\ phase = "decode" => RunsTo(sk, rd - 1, acc)
    /\ p \in {"ctrl", "send", "marker", "bypass"} => RunsTo(sk, rd, acc)

AcceptsAt(g, d) == AcceptsOK(pc[d], ctrl[d].phase, g.rd[d], g.sk, skip.accepts)

Gaps(g) == \A x \in skipped : \E n \in g.sk : x = <<g.h[n].request, g.h[n].position>>

Verified(g) ==
    /\ NoLongRun(g.sk, maxConsecutive)
    /\ \A d \in Workers : d + 1 = skipTarget => AcceptsAt(g, d)
    /\ Gaps(g)

\* No run ends with a packet that is not skipped.
LEMMA NoRunTo ==
    ASSUME NEW sk, NEW n \in Nat, NEW len, n \notin sk
    PROVE  RunsTo(sk, n, len)
<1>1. ASSUME NEW a \in Nat, a <= n, \A b \in a..n : b \in sk PROVE FALSE
  <2>1. n \in a..n
    BY <1>1
  <2> QED
    BY <1>1, <2>1
<1> QED
  BY <1>1 DEF RunsTo

\* Skipping one more packet makes the run one longer,
LEMMA RunGrows ==
    ASSUME NEW sk, NEW n \in Nat, n >= 1, NEW len \in Nat, RunsTo(sk, n - 1, len)
    PROVE  RunsTo(sk \cup {n}, n, len + 1)
<1> SUFFICES ASSUME NEW a \in Nat, a >= 1, a <= n, \A b \in a..n : b \in sk \cup {n}
             PROVE  (n - a) + 1 <= len + 1
  BY DEF RunsTo
<1>1. CASE a = n
  BY <1>1
<1>2. CASE a # n
  <2>1. a <= n - 1 /\ \A b \in a..(n - 1) : b \in a..n /\ b # n
    BY <1>2
  <2>2. \A b \in a..(n - 1) : b \in sk
    BY <2>1
  <2>3. ((n - 1) - a) + 1 <= len
    BY <2>1, <2>2 DEF RunsTo
  <2> QED
    BY <2>3
<1> QED
  BY <1>1, <1>2

\* and no run is too long if this one is not.
LEMMA NoRunTooLong ==
    ASSUME NEW sk, NEW n \in Nat, NEW len \in Nat, NEW max \in Nat, NoLongRun(sk, max),
           RunsTo(sk \cup {n}, n, len), len <= max, \A m \in sk : m \in Nat /\ m >= 1 /\ m <= n, n >= 1
    PROVE  NoLongRun(sk \cup {n}, max)
<1> SUFFICES ASSUME NEW a \in Nat, \A b \in a..(a + max) : b \in sk \cup {n} PROVE FALSE
  BY DEF NoLongRun
<1>1. a \in a..(a + max) /\ a + max \in a..(a + max)
  OBVIOUS
<1>2. a \in sk \cup {n} /\ a + max \in sk \cup {n}
  BY <1>1
<1>3. a >= 1 /\ a + max <= n
  BY <1>2
<1>4. CASE a + max = n
  <2>1. a <= n /\ \A b \in a..n : b \in sk \cup {n}
    BY <1>4
  <2>2. (n - a) + 1 <= len
    BY <1>3, <2>1 DEF RunsTo
  <2> QED
    BY <1>4, <2>2
<1>5. CASE a + max # n
  <2>1. \A b \in a..(a + max) : b # n
    BY <1>3, <1>5
  <2>2. \A b \in a..(a + max) : b \in sk
    BY <2>1
  <2> QED
    BY <2>2 DEF NoLongRun
<1> QED
  BY <1>4, <1>5

\* SkipsAreBounded follows: skipped positions in a row are skipped packets in a row.
LEMMA SkipsBounded ==
    ASSUME TypeInv, NEW g, Flow(g), Orderly(g.h), Verified(g)
    PROVE  SkipsAreBounded
<1> SUFFICES ASSUME NEW x \in skipped, {x[1]} \X (x[2]..(x[2] + maxConsecutive)) \subseteq skipped
             PROVE  FALSE
  BY DEF SkipsAreBounded
<1>0. /\ g \in Ghosts /\ RootAt(g) /\ (\A w \in Workers : WorkerAt(g, w)) /\ Pace(g)
  BY DEF Flow
<1>1. PICK max \in Nat : max = maxConsecutive
  BY SessionFacts DEF TypeInv, TypeOK
<1>2. PICK r \in Nat, q \in Nat : r = x[1] /\ q = x[2]
  BY DEF TypeInv, TypeOK
<1>3. \A i \in 0..max : <<r, q + i>> \in skipped
  <2> SUFFICES ASSUME NEW i \in 0..max PROVE <<r, q + i>> \in skipped
    OBVIOUS
  <2>1. q + i \in q..(q + max)
    OBVIOUS
  <2>2. <<r, q + i>> \in {r} \X (q..(q + max))
    BY <2>1
  <2> QED
    BY <1>1, <1>2, <2>2
<1>4. \A n \in g.sk : n \in 1..N(g) /\ g.h[n].phase = "decode" /\ ~Stop(g.h[n])
  BY <1>0, SkippedFacts DEF Stop
<1>5. \A i \in 0..max : \E n \in g.sk : g.h[n].request = r /\ g.h[n].position = q + i
  <2> SUFFICES ASSUME NEW i \in 0..max
               PROVE  \E n \in g.sk : g.h[n].request = r /\ g.h[n].position = q + i
    OBVIOUS
  <2>1. PICK n \in g.sk : <<r, q + i>> = <<g.h[n].request, g.h[n].position>>
    BY <1>3 DEF Verified, Gaps
  <2> QED
    BY <2>1
<1>6. PICK n \in g.sk : g.h[n].request = r /\ g.h[n].position = q
  <2>1. 0 \in 0..max /\ q + 0 = q
    OBVIOUS
  <2> QED
    BY <1>5, <2>1
<1>7. \A i \in 0..max : n + i \in g.sk
  <2> SUFFICES ASSUME NEW i \in 0..max PROVE n + i \in g.sk
    OBVIOUS
  <2>1. PICK m \in g.sk : g.h[m].request = r /\ g.h[m].position = q + i
    BY <1>5
  <2>2. n \in 1..Len(g.h) /\ m \in 1..Len(g.h) /\ Len(g.h) \in Nat
    BY <1>0, <1>4, GhostTypes DEF N
  <2>3. n < m => g.h[m].position = g.h[n].position + (m - n)
    BY <1>4, <1>6, <2>1, <2>2 DEF Orderly, Numbered
  <2>4. m < n => g.h[n].position = g.h[m].position + (n - m)
    BY <1>4, <1>6, <2>1, <2>2 DEF Orderly, Numbered
  <2>5. m = n + i
    <3>1. CASE n < m
      <4>1. q + i = q + (m - n)
        BY <1>6, <2>1, <2>3, <3>1
      <4> QED
        BY <2>2, <4>1
    <3>2. CASE m < n
      <4>1. q = (q + i) + (n - m)
        BY <1>6, <2>1, <2>4, <3>2
      <4> QED
        BY <2>2, <3>2, <4>1
    <3>3. CASE m = n
      <4>1. q + i = q
        BY <1>6, <2>1, <3>3
      <4> QED
        BY <2>2, <3>3, <4>1
    <3> QED
      BY <2>2, <3>1, <3>2, <3>3
  <2> QED
    BY <2>5
<1>8. \A b \in n..(n + max) : b \in g.sk
  <2> SUFFICES ASSUME NEW b \in n..(n + max) PROVE b \in g.sk
    OBVIOUS
  <2>1. n \in Nat
    BY <1>0, <1>4, GhostTypes
  <2>2. b - n \in 0..max /\ n + (b - n) = b
    BY <2>1
  <2> QED
    BY <1>7, <2>2
<1>9. n \in Nat
  BY <1>0, <1>4, GhostTypes
<1> QED
  BY <1>1, <1>8, <1>9 DEF Verified, NoLongRun

-----------------------------------------------------------------------------
(* The steps.                                                              *)

Story(g) == Orderly(g.h) /\ (\A s \in Stages : KvAt(g, s)) /\ Verified(g)

\* A history that is not touched extends itself.
LEMMA ExtendsItself ==
    ASSUME NEW g \in Ghosts, NEW g2, g2.h = g.h
    PROVE  Extends(g2.h, g.h) /\ N(g2) = N(g)
BY GhostTypes DEF Extends, N

\* As long as nothing is skipped, only the decision stage matters.
LEMMA VerifiedStep ==
    ASSUME TypeInv, NEW g, NEW g2, Flow(g), Verified(g), session' = session, g2.sk = g.sk,
           Extends(g2.h, g.h), skipped' = skipped,
           \A d \in Workers : d + 1 = skipTarget => AcceptsAt(g2, d)'
    PROVE  Verified(g2)'
<1>0. /\ g \in Ghosts /\ RootAt(g) /\ (\A w \in Workers : WorkerAt(g, w)) /\ Pace(g)
  BY DEF Flow
<1>1. skipTarget' = skipTarget /\ maxConsecutive' = maxConsecutive
  BY DEF skipTarget, maxConsecutive
<1>2. \A n \in g.sk : n \in 1..Len(g.h)
  BY <1>0, SkippedFacts DEF N
<1>3. \A n \in g.sk : g2.h[n] = g.h[n]
  BY <1>2 DEF Extends
<1>4. Gaps(g2)'
  BY <1>3 DEF Verified, Gaps
<1>5. NoLongRun(g2.sk, maxConsecutive)'
  BY <1>1 DEF Verified
<1> QED
  BY <1>1, <1>4, <1>5 DEF Verified

\* The root does not touch what the workers have.
LEMMA RootLocal ==
    ASSUME TypeInv, RootStep
    PROVE  /\ session' = session /\ skip' = skip /\ skipped' = skipped
           /\ \A w \in Workers : pc'[w] = pc[w] /\ ctrl'[w] = ctrl[w] /\ kv'[w] = kv[w]
<1>0. 0 \in Stages /\ \A w \in Workers : w # 0 /\ w \in Stages
  BY StageFacts
<1>1. session' = session /\ skip' = skip /\ skipped' = skipped
  BY DEF RootStep, PrefillChunk, PrefillDone, DecodeToken, NextRequest, Finish, WriteControl, ControlWritten,
         RootForward, RootSend, RootRecvLogits, DrainLogits, RootPeerClosed
<1>2. pc' = pc \/ (\E to : Goto(0, to)) \/ (\E r : End(0, r))
  BY DEF RootStep, PrefillChunk, PrefillDone, DecodeToken, NextRequest, Finish, WriteControl, ControlWritten,
         RootForward, RootSend, RootRecvLogits, DrainLogits, RootPeerClosed, Broadcast
<1>3. kv' = kv \/ StoreKv(0)
  BY DEF RootStep, PrefillChunk, PrefillDone, DecodeToken, NextRequest, Finish, WriteControl, ControlWritten,
         RootForward, RootSend, RootRecvLogits, DrainLogits, RootPeerClosed
<1>4. ctrl' = ctrl \/ \E p : ctrl' = [ctrl EXCEPT ![0] = p]
  BY DEF RootStep, PrefillChunk, PrefillDone, DecodeToken, NextRequest, Finish, WriteControl, ControlWritten,
         RootForward, RootSend, RootRecvLogits, DrainLogits, RootPeerClosed, Broadcast
<1>5. \A w \in Workers : pc'[w] = pc[w]
  BY <1>0, <1>2, GotoPcs, EndedPcs
<1>6. \A w \in Workers : kv'[w] = kv[w]
  BY <1>0, <1>3 DEF StoreKv, TypeInv, TypeOK
<1>7. \A w \in Workers : ctrl'[w] = ctrl[w]
  BY <1>0, <1>4 DEF TypeInv, TypeOK
<1> QED
  BY <1>1, <1>5, <1>6, <1>7

\* A step of the root keeps the story if it keeps the order and the root's own cache.
LEMMA StoryRoot ==
    ASSUME TypeInv, NEW g, NEW g2, Flow(g), Story(g), RootStep, g2.rd = g.rd, g2.rc = g.rc, g2.sk = g.sk,
           Extends(g2.h, g.h), Orderly(g2.h), KvAt(g2, 0)'
    PROVE  Story(g2)'
<1>1. /\ session' = session /\ skip' = skip /\ skipped' = skipped
      /\ \A w \in Workers : pc'[w] = pc[w] /\ ctrl'[w] = ctrl[w] /\ kv'[w] = kv[w]
  BY RootLocal
<1>2. Orderly(g2.h)'
  BY <1>1, OrderlyKept
<1>3. ASSUME NEW w \in Workers PROVE KvAt(g2, w)'
  <2>1. w \in Stages /\ w # 0
    BY WorkerIsStage
  <2>2. Ran(g2, w)' = Ran(g, w)
    BY <1>1, <2>1 DEF Ran
  <2> QED
    BY <1>1, <2>1, <2>2, KvKept DEF Story
<1>4. \A s \in Stages : KvAt(g2, s)'
  BY <1>3, StageFacts
<1>5. \A d \in Workers : d + 1 = skipTarget => AcceptsAt(g2, d)'
  BY <1>1 DEF Story, Verified, AcceptsAt
<1>6. Verified(g2)'
  BY <1>1, <1>5, VerifiedStep DEF Story
<1> QED
  BY <1>2, <1>4, <1>6 DEF Story, Stages

\* The root's cache does not change while it is not in forward().
LEMMA RootKvKept ==
    ASSUME TypeInv, NEW g, NEW g2, Flow(g), Story(g), RootStep, kv' = kv, Extends(g2.h, g.h),
           pc'[0] = "over" \/ (pc[0] # "over" /\ Ran(g2, 0)' = Ran(g, 0))
    PROVE  KvAt(g2, 0)'
<1>1. session' = session /\ skipped' = skipped /\ 0 \in Stages /\ KvAt(g, 0)
  BY RootLocal, StageFacts DEF Story
<1> QED
  BY <1>1, KvKept

\* A broadcast keeps the story.
LEMMA StoryCast ==
    ASSUME TypeInv, NEW g, NEW g2, Flow(g), Story(g), Loops, RootStep, pc[0] \in {"prefill", "decode"},
           NEW p \in Packet, Broadcast(p), kv' = kv, Castable(p), GCast(g, g2, p)
    PROVE  Story(g2)'
<1>0. g \in Ghosts /\ N(g) \in Nat /\ Orderly(g.h)
  BY GhostTypes DEF Flow, Story
<1>1. N(g2) = N(g) + 1 /\ Extends(g2.h, g.h)
  BY <1>0, CastHistory
<1>2. g2.rd = g.rd /\ g2.rc = g.rc /\ g2.sk = g.sk
  BY DEF GCast
<1>3. Orderly(g2.h)
  BY <1>0, OrderlyCast
<1>4. pc'[0] = "write"
  BY StageFacts DEF Broadcast, Goto, TypeInv, TypeOK
<1>5. Ran(g2, 0)' = Ran(g, 0)
  BY <1>0, <1>1, <1>4 DEF Ran, N
<1>6. KvAt(g2, 0)'
  BY <1>1, <1>5, RootKvKept
<1> QED
  BY <1>1, <1>2, <1>3, <1>6, StoryRoot

\* A step of the root that broadcasts nothing and runs nothing.
LEMMA StoryRootRest ==
    ASSUME TypeInv, NEW g, NEW g2, Flow(g), Story(g), RootStep, g2 \in Ghosts, g2.h = g.h, g2.rd = g.rd,
           g2.rc = g.rc, g2.sk = g.sk, kv' = kv,
           \/ pc'[0] = "over"
           \/ pc[0] \in {"write", "forward"} /\ pc'[0] \in {"write", "forward"}
           \/ pc[0] \in {"prefill", "decode", "send", "recv", "drain"}
                /\ pc'[0] \in {"prefill", "decode", "send", "recv", "drain"}
    PROVE  Story(g2)'
<1>0. g \in Ghosts /\ Orderly(g2.h)
  BY DEF Flow, Story
<1>1. Extends(g2.h, g.h) /\ N(g2) = N(g)
  BY <1>0, ExtendsItself
<1>2. pc'[0] = "over" \/ (pc[0] # "over" /\ Ran(g2, 0)' = Ran(g, 0))
  BY <1>1 DEF Ran, N
<1>3. KvAt(g2, 0)'
  BY <1>1, <1>2, RootKvKept
<1> QED
  BY <1>0, <1>1, <1>3, StoryRoot

\* Every step of the root keeps flow and story.
LEMMA StoryRootStep ==
    ASSUME TypeInv, TypeInv', NEW g, Flow(g), Story(g), Loops, RootStep
    PROVE  \E g2 : Flow(g2)' /\ Story(g2)'
<1>0. session' = session /\ g \in Ghosts /\ 0 \in Stages
  BY StageFacts DEF RootStep, Flow
<1>1. PICK p \in Packet : p = ctrl'[0]
  BY <1>0 DEF TypeInv, TypeOK
<1>2. PICK g2 : GCast(g, g2, p)
  BY <1>0, CastMove
<1>3. PICK g3 : GSent(g, g3, 0)
  BY <1>0, SentMove
<1>4. CASE PrefillChunk
  <2>1. CASE pc'[0] = "over"
    <3>1. kv' = kv
      BY <1>4 DEF PrefillChunk
    <3> QED
      BY <1>0, <1>4, <2>1, <3>1, FlowAssert, StoryRootRest
  <2>2. CASE pc'[0] # "over"
    <3>1. /\ Broadcast(p) /\ p.phase = "prefill" /\ ~Stop(p) /\ p.position = pos /\ p.request = request
          /\ pos + p.batchSize <= seqLen
      BY <1>1, <1>4, <2>2, ChunkCast
    <3>2. pc[0] = "prefill" /\ kv' = kv
      BY <1>4 DEF PrefillChunk
    <3>3. request \in DOMAIN session.prompts
      BY DEF TypeInv, TypeOK
    <3>4. Castable(p)
      BY <3>1, <3>2, <3>3 DEF Castable, Fits, Stop
    <3>5. Story(g2)'
      BY <1>2, <3>1, <3>2, <3>4, StoryCast
    <3>6. Flow(g2)'
      BY <1>0, <1>1, <1>2, <1>4, <2>2, FlowPrefillChunk
    <3> QED
      BY <3>5, <3>6
  <2> QED
    BY <2>1, <2>2
<1>5. CASE DecodeToken
  <2>1. Broadcast(p) /\ p.phase = "decode" /\ p.batchSize = 1 /\ p.position = pos /\ p.request = request
    BY <1>1, <1>5, DecodeCast
  <2>2. pc[0] = "decode" /\ kv' = kv /\ pos < maxPos
    BY <1>5 DEF DecodeToken
  <2>3. request \in DOMAIN session.prompts /\ pos + 1 <= seqLen
    <3>1. session \in Sessions /\ request \in DOMAIN session.prompts /\ pos \in Nat
      BY DEF TypeInv, TypeOK
    <3>2. maxPos \in Nat /\ maxPos <= seqLen /\ seqLen \in Nat
      BY <3>1, Totals, SessionFacts
    <3> QED
      BY <2>2, <3>1, <3>2
  <2>4. Castable(p)
    BY <2>1, <2>2, <2>3 DEF Castable, Fits
  <2>5. Story(g2)'
    BY <1>2, <2>1, <2>2, <2>4, StoryCast
  <2>6. Flow(g2)'
    BY <1>0, <1>1, <1>2, <1>5, FlowDecodeToken
  <2> QED
    BY <2>5, <2>6
<1>6. CASE Finish
  <2>1. Broadcast(p) /\ p.batchSize = 0 /\ p.request = ctrl[0].request
    BY <1>1, <1>6, FinishCast DEF Stop
  <2>2. pc[0] = "decode" /\ kv' = kv
    BY <1>6 DEF Finish
  <2>3. Castable(p)
    BY <2>1 DEF Castable
  <2>4. Story(g2)'
    BY <1>2, <2>1, <2>2, <2>3, StoryCast
  <2>5. Flow(g2)'
    BY <1>0, <1>1, <1>2, <1>6, FlowFinish
  <2> QED
    BY <2>4, <2>5
<1>7. CASE RootSend
  <2>1. /\ pc[0] = "send" /\ kv' = kv /\ \E to \in {"prefill", "recv"} : Goto(0, to)
    BY <1>7 DEF RootSend
  <2>2. pc'[0] \in {"prefill", "recv"}
    BY <1>0, <2>1, GotoPcs
  <2>3. g3 \in Ghosts /\ g3.h = g.h /\ g3.rd = g.rd /\ g3.rc = g.rc /\ g3.sk = g.sk
    BY <1>3 DEF GSent
  <2>4. Story(g3)'
    BY <2>1, <2>2, <2>3, StoryRootRest
  <2>5. Flow(g3)'
    BY <1>0, <1>3, <1>7, FlowRootSend
  <2> QED
    BY <2>4, <2>5
<1>8. CASE PrefillDone \/ NextRequest
  <2>1. /\ pc[0] \in {"prefill", "decode"} /\ kv' = kv /\ \E to \in {"prefill", "decode", "drain"} : Goto(0, to)
    BY <1>8 DEF PrefillDone, NextRequest
  <2>2. pc'[0] \in {"prefill", "decode", "drain"}
    BY <1>0, <2>1, GotoPcs
  <2>3. Story(g)'
    BY <1>0, <2>1, <2>2, StoryRootRest
  <2>4. Flow(g)'
    BY <1>0, <1>8, FlowPrefillDone, FlowNextRequest
  <2> QED
    BY <2>3, <2>4
<1>9. CASE \E w \in Workers : WriteControl(w)
  <2>1. pc[0] = "write" /\ pc' = pc /\ kv' = kv
    BY <1>9 DEF WriteControl
  <2>2. Story(g)'
    BY <1>0, <2>1, StoryRootRest
  <2>3. Flow(g)'
    BY <1>0, <1>9, FlowWriteControl
  <2> QED
    BY <2>2, <2>3
<1>10. CASE ControlWritten \/ RootPeerClosed
  <2>1. kv' = kv /\ ((pc[0] = "write" /\ Goto(0, "forward")) \/ \E r \in {"stop", "peer"} : End(0, r))
    BY <1>10 DEF ControlWritten, RootPeerClosed
  <2>2. pc'[0] = "over" \/ (pc[0] = "write" /\ pc'[0] = "forward")
    BY <1>0, <2>1, GotoPcs, EndedPcs
  <2>3. Story(g)'
    BY <1>0, <2>1, <2>2, StoryRootRest
  <2>4. Flow(g)'
    BY <1>0, <1>10, FlowControlWritten, FlowRootPeerClosed
  <2> QED
    BY <2>3, <2>4
<1>11. CASE RootForward
  <2>1. pc[0] = "forward" /\ StoreKv(0) /\ Goto(0, "send") /\ skipped' = skipped
    BY <1>11 DEF RootForward
  <2>2. pc'[0] = "send"
    BY <1>0, <2>1, GotoPcs
  <2>3. Orderly(g.h) /\ KvAt(g, 0) /\ Extends(g.h, g.h)
    BY <1>0, ExtendsItself DEF Story
  <2>4. KvAt(g, 0)'
    BY <1>0, <2>1, <2>2, <2>3, KvForward
  <2>5. Story(g)'
    BY <2>3, <2>4, StoryRoot
  <2>6. Flow(g)'
    BY <1>0, <1>11, FlowRootForward
  <2> QED
    BY <2>5, <2>6
<1>12. CASE RootRecvLogits \/ DrainLogits
  <2>1. pc[0] \in {"recv", "drain"}
    BY <1>12 DEF RootRecvLogits, DrainLogits
  <2>2. kv' = kv /\ (pc[0] = "recv" => pc'[0] = LoopHead) /\ (pc[0] = "drain" => pc'[0] = "decode")
    BY <1>0, <1>12, LogitsAreLast
  <2>3. pc'[0] \in {"prefill", "decode"}
    BY <2>1, <2>2 DEF LoopHead
  <2>4. Story(g)'
    BY <1>0, <2>1, <2>2, <2>3, StoryRootRest
  <2>5. Flow(g)'
    BY <1>0, <1>12, FlowRootRecvLogits, FlowDrainLogits
  <2> QED
    BY <2>4, <2>5
<1> QED
  BY <1>4, <1>5, <1>6, <1>7, <1>8, <1>9, <1>10, <1>11, <1>12 DEF RootStep

\* Nobody else touches the loops.
LEMMA LoopsOther ==
    ASSUME TypeInv, Loops,
           (\E w \in Workers : WorkerStep(w)) \/ (\E s \in Stages : Fault(s)) \/ UNCHANGED vars
    PROVE  Loops'
<1>0. 0 \in Stages /\ \A w \in Workers : w # 0 /\ w \in Stages
  BY StageFacts
<1>1. ASSUME NEW w \in Workers, WorkerStep(w) PROVE Loops'
  <2>1. session' = session /\ UNCHANGED <<request, pos>> /\ ctrl'[0] = ctrl[0]
    BY <1>0, <1>1 DEF WorkerStep, ReadControl, SkipForward, RecvActivation, WorkerForward, EvaluateSkip,
         SendMarker, SendBypass, SendActivation, SendLogits, WorkerPeerClosed, PollTimeout, NextSource, rootVars,
         TypeInv, TypeOK
  <2>2. pc' = pc \/ (\E to : Goto(w, to)) \/ (\E r : End(w, r))
    BY <1>1 DEF WorkerStep, ReadControl, SkipForward, RecvActivation, WorkerForward, EvaluateSkip,
         SendMarker, SendBypass, SendActivation, SendLogits, WorkerPeerClosed, PollTimeout, NextSource
  <2>3. pc'[0] = pc[0]
    BY <1>0, <2>2, GotoPcs, EndedPcs
  <2> QED
    BY <2>1, <2>3, LoopsKept
<1>2. ASSUME NEW s \in Stages, Fault(s) PROVE Loops'
  <2>1. UNCHANGED <<session, request, pos, ctrl>> /\ End(s, "fault")
    BY <1>2 DEF Fault, rootVars
  <2>2. pc'[0] = "over" \/ pc'[0] = pc[0]
    BY <1>0, <2>1, EndedPcs
  <2> QED
    BY <2>1, <2>2, LoopsKept
<1>3. CASE UNCHANGED vars
  BY <1>3, LoopsKept DEF vars, rootVars
<1> QED
  BY <1>1, <1>2, <1>3

\* A worker does not touch what the others have.
LEMMA WorkerLocal ==
    ASSUME TypeInv, NEW w \in Workers, WorkerStep(w)
    PROVE  /\ session' = session /\ pc[w] # "over" /\ skipped \subseteq skipped'
           /\ \A s \in Stages : s # w => pc'[s] = pc[s] /\ ctrl'[s] = ctrl[s] /\ kv'[s] = kv[s]
<1>0. w \in Stages
  BY StageFacts
<1>1. session' = session /\ pc[w] # "over" /\ skipped \subseteq skipped'
  BY DEF WorkerStep, ReadControl, SkipForward, RecvActivation, WorkerForward, EvaluateSkip,
         SendMarker, SendBypass, SendActivation, SendLogits, WorkerPeerClosed, PollTimeout, NextSource
<1>2. pc' = pc \/ (\E to : Goto(w, to)) \/ (\E r : End(w, r))
  BY DEF WorkerStep, ReadControl, SkipForward, RecvActivation, WorkerForward, EvaluateSkip,
         SendMarker, SendBypass, SendActivation, SendLogits, WorkerPeerClosed, PollTimeout, NextSource
<1>3. kv' = kv \/ StoreKv(w)
  BY DEF WorkerStep, ReadControl, SkipForward, RecvActivation, WorkerForward, EvaluateSkip,
         SendMarker, SendBypass, SendActivation, SendLogits, WorkerPeerClosed, PollTimeout, NextSource
<1>4. ctrl' = ctrl \/ \E p : ctrl' = [ctrl EXCEPT ![w] = p]
  BY DEF WorkerStep, ReadControl, SkipForward, RecvActivation, WorkerForward, EvaluateSkip,
         SendMarker, SendBypass, SendActivation, SendLogits, WorkerPeerClosed, PollTimeout, NextSource
<1>5. \A s \in Stages : s # w => pc'[s] = pc[s]
  BY <1>0, <1>2, GotoPcs, EndedPcs
<1>6. \A s \in Stages : s # w => kv'[s] = kv[s]
  BY <1>3 DEF StoreKv, TypeInv, TypeOK
<1>7. \A s \in Stages : s # w => ctrl'[s] = ctrl[s]
  BY <1>4 DEF TypeInv, TypeOK
<1> QED
  BY <1>1, <1>5, <1>6, <1>7

\* A step of a worker keeps the story if it keeps its own cache and what is verified.
LEMMA StoryWorker ==
    ASSUME TypeInv, NEW g, NEW g2, Flow(g), Story(g), NEW w \in Workers, WorkerStep(w), g2.h = g.h,
           \A t \in Workers : t # w => g2.rc[t] = g.rc[t], KvAt(g2, w)', Verified(g2)'
    PROVE  Story(g2)'
<1>0. g \in Ghosts /\ Orderly(g.h)
  BY DEF Flow, Story
<1>1. /\ session' = session /\ pc[w] # "over" /\ skipped \subseteq skipped'
      /\ \A s \in Stages : s # w => pc'[s] = pc[s] /\ ctrl'[s] = ctrl[s] /\ kv'[s] = kv[s]
  BY WorkerLocal
<1>2. Orderly(g2.h)'
  BY <1>0, <1>1, OrderlyKept
<1>3. Extends(g2.h, g.h) /\ N(g2) = N(g)
  BY <1>0, ExtendsItself
<1>4. ASSUME NEW s \in Stages PROVE KvAt(g2, s)'
  <2>1. CASE s = w
    BY <2>1
  <2>2. CASE s # w
    <3>1. s # 0 => s \in Workers
      BY StageFacts
    <3>2. pc'[s] = pc[s] /\ kv'[s] = kv[s]
      BY <1>1, <2>2
    <3>3. Ran(g2, s)' = Ran(g, s)
      BY <1>3, <2>2, <3>1, <3>2 DEF Ran, N
    <3>4. KvAt(g, s)
      BY DEF Story
    <3> QED
      BY <1>1, <1>3, <3>2, <3>3, <3>4, KvKept
  <2> QED
    BY <2>1, <2>2
<1> QED
  BY <1>2, <1>4 DEF Story, Stages

\* What a step that decides nothing has to keep of the verifier.
LEMMA StoryWorkerRest ==
    ASSUME TypeInv, NEW g, NEW g2, Flow(g), Story(g), NEW w \in Workers, WorkerStep(w), g2.h = g.h,
           g2.sk = g.sk, \A t \in Workers : t # w => g2.rc[t] = g.rc[t] /\ g2.rd[t] = g.rd[t],
           KvAt(g2, w)', skipped' = skipped, w + 1 = skipTarget => AcceptsAt(g2, w)',
           w + 1 # skipTarget => skip'.accepts = skip.accepts
    PROVE  Story(g2)'
<1>0. g \in Ghosts /\ Verified(g)
  BY DEF Flow, Story
<1>1. /\ session' = session
      /\ \A s \in Stages : s # w => pc'[s] = pc[s] /\ ctrl'[s] = ctrl[s] /\ kv'[s] = kv[s]
  BY WorkerLocal
<1>2. ASSUME NEW d \in Workers, d + 1 = skipTarget PROVE AcceptsAt(g2, d)'
  <2>1. CASE d = w
    BY <1>2, <2>1
  <2>2. CASE d # w
    <3>1. w + 1 # skipTarget /\ d \in Stages
      BY <1>2, <2>2, StageFacts
    <3>2. AcceptsAt(g, d)
      BY <1>0, <1>2 DEF Verified
    <3> QED
      BY <1>1, <2>2, <3>1, <3>2 DEF AcceptsAt
  <2> QED
    BY <2>1, <2>2
<1>3. Extends(g2.h, g.h)
  BY <1>0, ExtendsItself
<1>4. Verified(g2)'
  BY <1>0, <1>1, <1>2, <1>3, VerifiedStep
<1> QED
  BY <1>4, StoryWorker

\* A worker's cache does not change while it is not in forward().
LEMMA WorkerKvKept ==
    ASSUME TypeInv, NEW g, NEW g2, Flow(g), Story(g), NEW w \in Workers, WorkerStep(w), kv' = kv, g2.h = g.h,
           pc'[w] = "over" \/ Ran(g2, w)' = Ran(g, w)
    PROVE  KvAt(g2, w)'
<1>1. /\ session' = session /\ pc[w] # "over" /\ skipped \subseteq skipped'
  BY WorkerLocal
<1>2. g \in Ghosts /\ w \in Stages /\ KvAt(g, w)
  BY StageFacts DEF Flow, Story
<1>3. Extends(g2.h, g.h)
  BY <1>2, ExtendsItself
<1> QED
  BY <1>1, <1>2, <1>3, KvKept

\* Reading a control packet: the count of skips starts over when the phase changes.
LEMMA StoryReadControl ==
    ASSUME TypeInv, NEW g, NEW g2, Flow(g), Story(g), NEW w \in Workers, WorkerStep(w), ReadControl(w),
           GRead(g, g2, w), Flow(g2)'
    PROVE  Story(g2)'
<1>0. /\ g \in Ghosts /\ RootAt(g) /\ (\A v \in Workers : WorkerAt(g, v)) /\ Pace(g) /\ WorkerAt(g2, w)'
      /\ Verified(g)
  BY DEF Flow, Story
<1>1. /\ g2.h = g.h /\ g2.sk = g.sk /\ g2.rc = g.rc /\ g2.rd[w] = g.rd[w] + 1 /\ g.rd[w] \in Nat
      /\ \A t \in Workers : t # w => g2.rd[t] = g.rd[t]
  BY <1>0, ReadValues
<1>2. w \in Stages /\ w # 0 /\ w \in Nat
  BY WorkerIsStage
<1>3. pc[w] = "ctrl" /\ kv' = kv /\ skipped' = skipped /\ (Goto(w, "recv") \/ \E r : End(w, r))
  BY DEF ReadControl
<1>4. pc'[w] \in {"recv", "over"}
  BY <1>2, <1>3, GotoPcs, EndedPcs
<1>5. KvAt(g2, w)'
  <2>1. pc'[w] = "over" \/ Ran(g2, w)' = Ran(g, w)
    BY <1>1, <1>2, <1>3, <1>4 DEF Ran
  <2> QED
    BY <1>1, <1>3, <2>1, WorkerKvKept
<1>6. w + 1 # skipTarget => skip' = skip
  BY DEF ReadControl, DecisionStage
<1>7. ASSUME w + 1 = skipTarget PROVE AcceptsAt(g2, w)'
  <2>1. CASE pc'[w] = "over"
    BY <2>1 DEF AcceptsAt, AcceptsOK
  <2>2. CASE pc'[w] # "over"
    <3>0. pc'[w] = "recv" /\ ~(\E r : End(w, r))
      BY <1>2, <1>4, <2>2, EndedPcs
    <3>1. PICK p : ctrl' = [ctrl EXCEPT ![w] = p] /\ skip' = IF DecisionStage(w) /\ p.phase # ctrl[w].phase
                                                               THEN NoSkipState ELSE skip
      BY <3>0 DEF ReadControl
    <3>2. ctrl'[w] = p
      BY <1>2, <3>1 DEF TypeInv, TypeOK
    <3>3. DecisionStage(w)
      BY <1>2, <1>7 DEF DecisionStage, SkipEnabled
    <3>4. ASSUME p.phase = "decode" PROVE RunsTo(g.sk, g.rd[w], skip'.accepts)
      <4>1. CASE ctrl[w].phase = "decode"
        <5>1. skip' = skip
          BY <3>1, <3>4, <4>1
        <5>2. AcceptsAt(g, w)
          BY <1>0, <1>7 DEF Verified
        <5> QED
          BY <1>3, <5>1, <5>2 DEF AcceptsAt, AcceptsOK
      <4>2. CASE ctrl[w].phase # "decode"
        <5>1. ctrl[w] = IF g.rd[w] = 0 THEN NoPacket ELSE g.h[g.rd[w]]
          BY <1>0, <1>3 DEF WorkerAt, WorkerOK
        <5>2. g.rd[w] \notin g.sk
          BY <1>0, <4>2, <5>1, SkippedFacts
        <5> QED
          BY <1>1, <5>2, NoRunTo
      <4> QED
        BY <4>1, <4>2
    <3>5. (g.rd[w] + 1) - 1 = g.rd[w]
      BY <1>1
    <3>6. AcceptsOK("recv", p.phase, g.rd[w] + 1, g.sk, skip'.accepts)
      BY <3>4, <3>5 DEF AcceptsOK
    <3> QED
      BY <1>1, <3>0, <3>2, <3>6 DEF AcceptsAt
  <2> QED
    BY <2>1, <2>2
<1> QED
  BY <1>1, <1>3, <1>5, <1>6, <1>7, StoryWorkerRest

\* Receiving rows: what cannot be decoded is never met, and nothing has run yet.
LEMMA StoryRecvActivation ==
    ASSUME TypeInv, NEW g, NEW g2, Flow(g), Story(g), NEW w \in Workers, WorkerStep(w), NEW src \in Stages,
           RecvActivation(w, src), GRecv(g, g2, w), Flow(g2)'
    PROVE  Story(g2)'
<1>0. /\ g \in Ghosts /\ RootAt(g) /\ WorkerAt(g, w) /\ WorkerAt(g2, w)' /\ Verified(g)
  BY DEF Flow, Story
<1>1. /\ g2.h = g.h /\ g2.sk = g.sk /\ g2.rd = g.rd /\ g2.rc[w] = g.rc[w] + 1 /\ g.rc[w] \in Nat
      /\ \A t \in Workers : t # w => g2.rc[t] = g.rc[t]
  BY <1>0, RecvValues
<1>2. w \in Stages /\ w # 0 /\ w \in Nat
  BY WorkerIsStage
<1>3. /\ pc[w] = "recv" /\ kv' = kv /\ skipped' = skipped /\ ctrl' = ctrl
      /\ (Goto(w, "forward") \/ pc' = pc \/ \E r : End(w, r))
  BY DEF RecvActivation
<1>4. g.rd[w] \in Nat /\ g.rc[w] = g.rd[w] - 1
  BY <1>0, <1>3, Working
<1>5. pc'[w] # "recv"
  BY <1>0, <1>1, <1>4 DEF WorkerAt, WorkerOK
<1>6. pc'[w] \in {"forward", "over"}
  BY <1>2, <1>3, <1>5, GotoPcs, EndedPcs
<1>7. KvAt(g2, w)'
  <2>1. pc'[w] = "over" \/ Ran(g2, w)' = Ran(g, w)
    BY <1>1, <1>2, <1>3, <1>6 DEF Ran
  <2> QED
    BY <1>1, <1>3, <2>1, WorkerKvKept
<1>8. skip'.accepts = skip.accepts
  BY DEF RecvActivation, TypeInv, TypeOK
<1>9. ASSUME w + 1 = skipTarget PROVE AcceptsAt(g2, w)'
  <2>1. AcceptsAt(g, w)
    BY <1>0, <1>9 DEF Verified
  <2> QED
    BY <1>1, <1>3, <1>6, <1>8, <2>1 DEF AcceptsAt, AcceptsOK
<1> QED
  BY <1>1, <1>3, <1>7, <1>8, <1>9, StoryWorkerRest

\* forward() on a worker: a packet that is sent on is not a skipped one.
LEMMA StoryWorkerForward ==
    ASSUME TypeInv, NEW g, Flow(g), Story(g), NEW w \in Workers, WorkerStep(w), WorkerForward(w)
    PROVE  Story(g)'
<1>0. /\ g \in Ghosts /\ SkipAt(g, w) /\ Verified(g) /\ Orderly(g.h) /\ g.rd[w] \in Nat
  BY GhostTypes DEF Flow, Story
<1>1. w \in Stages /\ w # 0 /\ session' = session /\ KvAt(g, w)
  BY WorkerIsStage, WorkerLocal DEF Story
<1>2. /\ pc[w] = "forward" /\ StoreKv(w) /\ skipped' = skipped /\ ctrl' = ctrl /\ skip' = skip
      /\ \E to \in {"decide", "send"} : Goto(w, to)
  BY DEF WorkerForward
<1>3. pc'[w] \in {"decide", "send"}
  BY <1>1, <1>2, GotoPcs
<1>4. KvAt(g, w)'
  BY <1>0, <1>1, <1>2, <1>3, KvForward
<1>5. ASSUME w + 1 = skipTarget PROVE AcceptsAt(g, w)'
  <2>1. AcceptsAt(g, w)
    BY <1>0, <1>5 DEF Verified
  <2>2. RunsTo(g.sk, g.rd[w], skip.accepts)
    <3>1. g.rd[w] \notin g.sk
      BY <1>0, <1>2, <1>5 DEF SkipAt, SkipOK
    <3> QED
      BY <1>0, <3>1, NoRunTo
  <2> QED
    BY <1>2, <1>3, <2>1, <2>2 DEF AcceptsAt, AcceptsOK
<1> QED
  BY <1>2, <1>4, <1>5, StoryWorkerRest

\* The verifier's answer no: the run of skips ends.
LEMMA StoryReject ==
    ASSUME TypeInv, NEW g, Flow(g), Story(g), NEW w \in Workers, WorkerStep(w), NEW close,
           EvaluateSkip(w, close), pc'[w] # "marker"
    PROVE  Story(g)'
<1>0. /\ g \in Ghosts /\ SkipAt(g, w) /\ g.rd[w] \in Nat
  BY GhostTypes DEF Flow, Story
<1>1. w \in Stages /\ w # 0
  BY WorkerIsStage
<1>2. /\ pc[w] = "decide" /\ kv' = kv /\ skipped' = skipped /\ ctrl' = ctrl
      /\ \E to \in {"marker", "send"} : Goto(w, to)
  BY DEF EvaluateSkip
<1>3. pc'[w] = "send"
  BY <1>1, <1>2, GotoPcs
<1>4. w + 1 = skipTarget /\ g.rd[w] \notin g.sk
  BY <1>0, <1>2 DEF SkipAt, SkipOK
<1>5. KvAt(g, w)'
  <2>1. Ran(g, w)' = Ran(g, w)
    BY <1>1, <1>2, <1>3 DEF Ran
  <2> QED
    BY <1>2, <2>1, WorkerKvKept
<1>6. AcceptsAt(g, w)'
  <2>1. RunsTo(g.sk, g.rd[w], skip'.accepts)
    BY <1>0, <1>4, NoRunTo
  <2> QED
    BY <1>3, <2>1 DEF AcceptsAt, AcceptsOK
<1> QED
  BY <1>2, <1>4, <1>5, <1>6, StoryWorkerRest

\* The verifier's answer yes: the run is one longer, and there was room for it.
LEMMA StoryAccept ==
    ASSUME TypeInv, NEW g, NEW g2, Flow(g), Story(g), NEW w \in Workers, WorkerStep(w), NEW close,
           EvaluateSkip(w, close), pc'[w] = "marker", GMark(g, g2, g.rd[w])
    PROVE  Story(g2)'
<1>0. /\ g \in Ghosts /\ RootAt(g) /\ WorkerAt(g, w) /\ SkipAt(g, w) /\ Pace(g) /\ Verified(g)
  BY DEF Flow, Story
<1>1. /\ g2.h = g.h /\ g2.rd = g.rd /\ g2.rc = g.rc /\ g2.sk = g.sk \cup {g.rd[w]}
  BY DEF GMark
<1>2. w \in Stages /\ w # 0 /\ w \in Nat /\ session' = session
  <2>1. session' = session
    BY WorkerLocal
  <2> QED
    BY <2>1, WorkerIsStage
<1>3. /\ pc[w] = "decide" /\ kv' = kv /\ skipped' = skipped /\ ctrl' = ctrl
  BY DEF EvaluateSkip
<1>4. w + 1 = skipTarget /\ ctrl[w].phase = "decode"
  BY <1>0, <1>3 DEF SkipAt, SkipOK
<1>5. PICK n \in Nat : n = g.rd[w] /\ n >= 1 /\ g.rc[w] = n
  BY <1>0, <1>3, Working
<1>6. PICK acc \in Nat, max \in Nat : acc = skip.accepts /\ max = maxConsecutive
  BY SessionFacts DEF TypeInv, TypeOK
<1>7. acc + 1 <= max /\ skip'.accepts = acc + 1
  <2>1. skip.accepts < maxConsecutive /\ skip' = [skip EXCEPT !.accepts = @ + 1, !.rejects = 0]
    <3>1. ~(Goto(w, "send"))
      BY <1>2, GotoPcs
    <3> QED
      BY <3>1 DEF EvaluateSkip
  <2>2. skip'.accepts = skip.accepts + 1
    BY <2>1 DEF TypeInv, TypeOK
  <2> QED
    BY <1>6, <2>1, <2>2
<1>8. RunsTo(g.sk, n - 1, acc)
  <2>1. AcceptsAt(g, w)
    BY <1>0, <1>4 DEF Verified
  <2> QED
    BY <1>3, <1>4, <1>5, <1>6, <2>1 DEF AcceptsAt, AcceptsOK
<1>9. RunsTo(g.sk \cup {n}, n, acc + 1)
  BY <1>5, <1>8, RunGrows
<1>10. \A m \in g.sk : m \in Nat /\ m >= 1 /\ m <= n
  <2>1. skipTarget - 1 = w /\ \A m \in g.sk : m \in Nat
    BY <1>0, <1>2, <1>4, GhostTypes
  <2>2. \A m \in g.sk : m >= 1 /\ m <= g.rc[skipTarget - 1]
    BY <1>0 DEF Pace, PaceOK, Skips
  <2> QED
    BY <1>5, <2>1, <2>2
<1>11. NoLongRun(g.sk, max)
  BY <1>0, <1>6 DEF Verified
<1>12. NoLongRun(g.sk \cup {n}, max)
  <2>1. PICK len \in Nat : len = acc + 1
    OBVIOUS
  <2>2. len <= max /\ RunsTo(g.sk \cup {n}, n, len)
    BY <1>7, <1>9, <2>1
  <2> QED
    BY <1>5, <1>10, <1>11, <2>2, NoRunTooLong
<1>13. NoLongRun(g2.sk, maxConsecutive)'
  BY <1>1, <1>2, <1>5, <1>6, <1>12 DEF maxConsecutive
<1>14. AcceptsAt(g2, w)'
  BY <1>1, <1>5, <1>7, <1>9 DEF AcceptsAt, AcceptsOK
<1>15. \A d \in Workers : (d + 1 = skipTarget)' => d = w
  BY <1>2, <1>4, StageFacts DEF skipTarget
<1>16. Gaps(g2)'
  BY <1>0, <1>1, <1>3 DEF Verified, Gaps
<1>17. Verified(g2)'
  BY <1>13, <1>14, <1>15, <1>16 DEF Verified
<1>18. KvAt(g2, w)'
  <2>1. Ran(g2, w)' = Ran(g, w)
    BY <1>1, <1>2, <1>3 DEF Ran
  <2> QED
    BY <1>1, <1>3, <2>1, WorkerKvKept
<1> QED
  BY <1>1, <1>17, <1>18, StoryWorker

\* The target meets its marker: the packet is one the verifier had accepted.
LEMMA StorySkipForward ==
    ASSUME TypeInv, NEW g, NEW g2, Flow(g), Story(g), NEW w \in Workers, WorkerStep(w), NEW src \in Stages,
           SkipForward(w, src), GSkip(g, g2, w), g.rd[w] \in g.sk
    PROVE  Story(g2)'
<1>0. /\ g \in Ghosts /\ RootAt(g) /\ WorkerAt(g, w) /\ Verified(g) /\ Orderly(g.h) /\ KvAt(g, w)
  BY StageFacts DEF Flow, Story
<1>1. /\ g2.h = g.h /\ g2.sk = g.sk /\ g2.rd = g.rd /\ \A t \in Workers : t # w => g2.rc[t] = g.rc[t]
  BY <1>0, SkipValues
<1>2. /\ session' = session
      /\ \A s \in Stages : s # w => pc'[s] = pc[s] /\ ctrl'[s] = ctrl[s] /\ kv'[s] = kv[s]
  BY WorkerLocal
<1>3. /\ pc[w] = "recv" /\ w = skipTarget /\ skip' = skip
      /\ skipped' = skipped \cup {<<ctrl[w].request, ctrl[w].position>>}
  BY DEF SkipForward, IsMarker, TargetStage
<1>4. ctrl[w] = g.h[g.rd[w]]
  BY <1>0, <1>3, Working
<1>5. Gaps(g2)'
  <2> SUFFICES ASSUME NEW x \in skipped'
               PROVE  \E n \in g.sk : x = <<g.h[n].request, g.h[n].position>>
    BY <1>1 DEF Gaps
  <2>1. CASE x \in skipped
    BY <1>0, <2>1 DEF Verified, Gaps
  <2>2. CASE x \notin skipped
    BY <1>3, <1>4, <2>2
  <2> QED
    BY <2>1, <2>2
<1>6. NoLongRun(g2.sk, maxConsecutive)'
  BY <1>0, <1>1, <1>2 DEF Verified, maxConsecutive
<1>7. ASSUME NEW d \in Workers, d + 1 = skipTarget PROVE AcceptsAt(g2, d)'
  <2>1. d # w /\ d \in Stages
    <3>1. d \in Stages /\ d \in Nat
      BY StageFacts
    <3>2. w = d + 1
      BY <1>3, <1>7
    <3>3. \A n \in Nat : n # n + 1
      OBVIOUS
    <3> QED
      BY <3>1, <3>2, <3>3
  <2>2. AcceptsAt(g, d)
    BY <1>0, <1>7 DEF Verified
  <2>3. pc'[d] = pc[d] /\ ctrl'[d] = ctrl[d]
    BY <1>2, <2>1
  <2>4. g2.sk = g.sk /\ g2.rd = g.rd /\ skip' = skip
    BY <1>1, <1>3
  <2> QED
    BY <2>2, <2>3, <2>4 DEF AcceptsAt
<1>8. skipTarget' = skipTarget
  BY <1>2 DEF skipTarget
<1>9. Verified(g2)'
  BY <1>5, <1>6, <1>7, <1>8 DEF Verified
<1>10. KvAt(g2, w)'
  BY <1>0, <1>2, KvSkip
<1> QED
  BY <1>1, <1>9, <1>10, StoryWorker

\* Sending the marker, the bypass, the rows or the logits of a packet that has run.
LEMMA StorySends ==
    ASSUME TypeInv, NEW g, NEW g2, Flow(g), Story(g), NEW w \in Workers, WorkerStep(w),
           SendMarker(w) \/ SendBypass(w) \/ SendActivation(w) \/ SendLogits(w),
           g2.h = g.h, g2.rd = g.rd, g2.rc = g.rc, g2.sk = g.sk
    PROVE  Story(g2)'
<1>0. w \in Stages /\ w # 0 /\ Verified(g)
  BY WorkerIsStage DEF Story
<1>1. /\ pc[w] \in {"marker", "bypass", "send"} /\ kv' = kv /\ skipped' = skipped /\ ctrl' = ctrl /\ skip' = skip
      /\ \E to \in {"bypass", "ctrl"} : Goto(w, to)
  BY DEF SendMarker, SendBypass, SendActivation, SendLogits
<1>2. pc'[w] \in {"bypass", "ctrl"}
  BY <1>0, <1>1, GotoPcs
<1>3. KvAt(g2, w)'
  <2>1. Ran(g2, w)' = Ran(g, w)
    BY <1>0, <1>1, <1>2 DEF Ran
  <2> QED
    BY <1>1, <2>1, WorkerKvKept
<1>4. ASSUME w + 1 = skipTarget PROVE AcceptsAt(g2, w)'
  <2>1. AcceptsAt(g, w)
    BY <1>0, <1>4 DEF Verified
  <2> QED
    BY <1>1, <1>2, <2>1 DEF AcceptsAt, AcceptsOK
<1> QED
  BY <1>1, <1>3, <1>4, StoryWorkerRest

\* A worker that loses a peer or gives up polling.
LEMMA StoryWorkerEnds ==
    ASSUME TypeInv, NEW g, Flow(g), Story(g), NEW w \in Workers, WorkerStep(w),
           WorkerPeerClosed(w) \/ PollTimeout(w)
    PROVE  Story(g)'
<1>0. w \in Stages
  BY StageFacts
<1>1. kv' = kv /\ skipped' = skipped /\ skip' = skip /\ \E r : End(w, r)
  BY DEF WorkerPeerClosed, PollTimeout
<1>2. pc'[w] = "over"
  BY <1>0, <1>1, EndedPcs
<1>3. KvAt(g, w)' /\ AcceptsAt(g, w)'
  BY <1>2 DEF KvAt, AcceptsAt, AcceptsOK
<1> QED
  BY <1>1, <1>3, StoryWorkerRest

\* A step that only ends nodes, or does nothing.
LEMMA StoryStays ==
    ASSUME TypeInv, NEW g, Flow(g), Story(g), UNCHANGED <<session, kv, skipped, skip, ctrl>>,
           \A s \in Stages : pc'[s] = "over" \/ pc'[s] = pc[s]
    PROVE  Story(g)'
<1>0. g \in Ghosts /\ Orderly(g.h) /\ Verified(g)
  BY DEF Flow, Story
<1>1. Orderly(g.h)'
  BY <1>0, OrderlyKept
<1>2. Extends(g.h, g.h)
  BY <1>0, ExtendsItself
<1>3. ASSUME NEW s \in Stages PROVE KvAt(g, s)'
  <2>1. KvAt(g, s) /\ kv'[s] = kv[s]
    BY DEF Story
  <2>2. pc'[s] = pc[s] => Ran(g, s)' = Ran(g, s)
    BY DEF Ran
  <2> QED
    BY <1>2, <2>1, <2>2, KvKept
<1>4. \A d \in Workers : d + 1 = skipTarget => AcceptsAt(g, d)'
  BY <1>0, StageFacts DEF Verified, AcceptsAt, AcceptsOK
<1>5. Verified(g)'
  BY <1>0, <1>2, <1>4, VerifiedStep
<1> QED
  BY <1>1, <1>3, <1>5 DEF Story, Stages

\* Every step of a worker keeps flow and story.
LEMMA StoryWorkerStep ==
    ASSUME TypeInv, NEW g, Flow(g), Story(g), NEW w \in Workers, WorkerStep(w)
    PROVE  \E g2 : Flow(g2)' /\ Story(g2)'
<1>0. session' = session /\ g \in Ghosts /\ w \in Stages
  BY StageFacts DEF WorkerStep, Flow
<1>1. PICK g2 : GRead(g, g2, w)
  BY <1>0, ReadMove
<1>2. PICK g3 : GSent(g, g3, w)
  BY <1>0, SentMove
<1>3. PICK g4 : GRecv(g, g4, w)
  BY <1>0, RecvMove
<1>4. PICK g5 : GSkip(g, g5, w)
  BY <1>0, SkipMove
<1>5. PICK g6 : GMark(g, g6, g.rd[w])
  BY <1>0, MarkMove, GhostTypes
<1>6. CASE ReadControl(w)
  BY <1>0, <1>1, <1>6, FlowReadControl, StoryReadControl
<1>7. CASE \E src \in Stages : SkipForward(w, src)
  BY <1>0, <1>4, <1>7, FlowSkipForward, StorySkipForward
<1>8. CASE \E src \in Stages : RecvActivation(w, src)
  BY <1>0, <1>3, <1>8, FlowRecvActivation, StoryRecvActivation
<1>9. CASE \E close \in BOOLEAN : EvaluateSkip(w, close)
  BY <1>0, <1>5, <1>9, FlowAccept, FlowReject, StoryAccept, StoryReject
<1>10. CASE SendMarker(w) \/ SendActivation(w) \/ SendLogits(w)
  <2>1. g3.h = g.h /\ g3.rd = g.rd /\ g3.rc = g.rc /\ g3.sk = g.sk
    BY <1>2 DEF GSent
  <2>2. Flow(g3)'
    BY <1>0, <1>2, <1>10, FlowSendMarker, FlowSendActivation, FlowSendLogits
  <2>3. Story(g3)'
    BY <1>10, <2>1, StorySends
  <2> QED
    BY <2>2, <2>3
<1>11. CASE SendBypass(w)
  <2>1. Flow(g)'
    BY <1>0, <1>11, FlowSendBypass
  <2>2. Story(g)'
    BY <1>11, StorySends
  <2> QED
    BY <2>1, <2>2
<1>12. CASE WorkerForward(w)
  BY <1>0, <1>12, FlowWorkerForward, StoryWorkerForward
<1>13. CASE WorkerPeerClosed(w) \/ PollTimeout(w)
  BY <1>0, <1>13, FlowWorkerPeerClosed, FlowPollTimeout, StoryWorkerEnds
<1>14. CASE NextSource(w)
  <2>1. Flow(g)'
    BY <1>0, <1>14, FlowStutter DEF NextSource
  <2>2. Story(g)'
    BY <1>0, <1>14, StoryStays DEF NextSource
  <2> QED
    BY <2>1, <2>2
<1> QED
  BY <1>6, <1>7, <1>8, <1>9, <1>10, <1>11, <1>12, <1>13, <1>14 DEF WorkerStep

\* The story starts with nothing broadcast, run or skipped.
LEMMA StoryInit ==
    ASSUME Init
    PROVE  Loops /\ \E g : Flow(g) /\ Story(g)
<1>1. PICK g : Flow(g) /\ g.h = <<>> /\ g.sk = {} /\ N(g) = 0 /\ \A w \in Workers : g.rc[w] = 0
  BY FlowInit
<1>2. TypeInv /\ g \in Ghosts
  BY <1>1, TypeInit DEF Flow
<1>3. /\ pc[0] = "prefill" /\ (\A w \in Workers : pc[w] = "ctrl") /\ ctrl[0] = NoPacket
      /\ request = 1 /\ pos = 0 /\ skipped = {}
  BY StageFacts DEF Init
<1>4. Loops
  BY <1>3 DEF Loops, LoopOK, Unbegun, NoPacket
<1>5. Len(g.h) = 0
  BY <1>1 DEF N
<1>6. Orderly(g.h)
  BY <1>5 DEF Orderly, Follows, InTurn, Numbered
<1>7. ASSUME NEW s \in Stages PROVE KvAt(g, s)
  <2>1. s # 0 => s \in Workers
    BY StageFacts
  <2>2. Ran(g, s) = 0
    BY <1>1, <1>3, <2>1 DEF Ran
  <2> QED
    BY <2>2 DEF KvAt, KvUpto
<1>8. Verified(g)
  <2>1. NoLongRun(g.sk, maxConsecutive)
    <3>1. PICK max \in Nat : max = maxConsecutive
      BY <1>2, SessionFacts DEF TypeInv, TypeOK
    <3>2. \A n \in Nat : n \in n..(n + max)
      OBVIOUS
    <3> QED
      BY <1>1, <3>1, <3>2 DEF NoLongRun
  <2>2. \A d \in Workers : AcceptsAt(g, d)
    <3> SUFFICES ASSUME NEW d \in Workers PROVE AcceptsAt(g, d)
      OBVIOUS
    <3>1. g.rd[d] \in Nat
      BY <1>2, GhostTypes
    <3>2. RunsTo(g.sk, g.rd[d], skip.accepts)
      BY <1>1, <3>1, NoRunTo
    <3> QED
      BY <1>3, <3>2 DEF AcceptsAt, AcceptsOK
  <2>3. Gaps(g)
    BY <1>3 DEF Gaps
  <2> QED
    BY <2>1, <2>2, <2>3 DEF Verified
<1>9. Story(g)
  BY <1>6, <1>7, <1>8 DEF Story
<1> QED
  BY <1>1, <1>4, <1>9

StoryInv == Loops /\ \E g : Flow(g) /\ Story(g)

\* Every step of the pipeline keeps the story.
LEMMA StoryNext ==
    ASSUME TypeInv, TypeInv', StoryInv, [Next]_vars
    PROVE  StoryInv'
<1>1. PICK g : Flow(g) /\ Story(g)
  BY DEF StoryInv
<1>2. Loops
  BY DEF StoryInv
<1>3. CASE RootStep
  BY <1>1, <1>2, <1>3, LoopsRoot, StoryRootStep DEF StoryInv
<1>4. CASE \E w \in Workers : WorkerStep(w)
  BY <1>1, <1>2, <1>4, LoopsOther, StoryWorkerStep DEF StoryInv
<1>5. CASE \E s \in Stages : Fault(s)
  <2>1. Loops' /\ Flow(g)'
    BY <1>1, <1>2, <1>5, LoopsOther, FlowFault
  <2>2. PICK s \in Stages : Fault(s)
    BY <1>5
  <2>3. UNCHANGED <<session, kv, skipped, skip, ctrl>> /\ End(s, "fault")
    BY <2>2 DEF Fault
  <2>4. \A t \in Stages : pc'[t] = "over" \/ pc'[t] = pc[t]
    BY <2>3, EndedPcs
  <2>5. Story(g)'
    BY <1>1, <2>3, <2>4, StoryStays
  <2> QED
    BY <2>1, <2>5 DEF StoryInv
<1>6. CASE UNCHANGED vars
  <2>1. Loops' /\ Flow(g)'
    BY <1>1, <1>2, <1>6, LoopsOther, FlowStutter DEF vars
  <2>2. UNCHANGED <<session, kv, skipped, skip, ctrl, pc>>
    BY <1>6 DEF vars
  <2>3. Story(g)'
    BY <1>1, <2>2, StoryStays
  <2> QED
    BY <2>1, <2>3 DEF StoryInv
<1> QED
  BY <1>3, <1>4, <1>5, <1>6 DEF Next

\* The order of the packets, the caches and the verifier's count keep to one history.
THEOREM StoryHolds == Spec => []StoryInv
<1>1. Init => StoryInv
  BY StoryInit DEF StoryInv
<1>2. FlowInv /\ FlowInv' /\ StoryInv /\ [Next]_vars => StoryInv'
  BY StoryNext DEF FlowInv
<1> QED
  BY <1>1, <1>2, FlowHolds, PTL DEF Spec

\* KvPrefixIsReal: whenever executor.forward() runs a chunk or token whose output counts,
\* every row it attends to was computed from this request's tokens, on every stage and for
\* every chunk size, padding and sequence of requests; only the stage pp-stage-skip skips has gaps.
THEOREM KvHolds == Spec => []KvPrefixIsReal
<1>1. FlowInv /\ StoryInv => KvPrefixIsReal
  BY KvReal DEF FlowInv, StoryInv, Story
<1> QED
  BY <1>1, FlowHolds, StoryHolds, PTL

\* SkipsAreBounded: evaluateStageSkipDecision counts on the decision stage, the gaps arise on
\* the target, later and in another process; they are never longer than maxConsecutive.
THEOREM SkipsHold == Spec => []SkipsAreBounded
<1>1. FlowInv /\ StoryInv => SkipsAreBounded
  BY SkipsBounded DEF FlowInv, StoryInv, Story
<1> QED
  BY <1>1, FlowHolds, StoryHolds, PTL
=============================================================================
