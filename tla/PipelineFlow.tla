---------------------------- MODULE PipelineFlow ----------------------------
(***************************************************************************)
(* Every step of the pipeline keeps Flow: each stage works through the      *)
(* packets in the order the root broadcast them, and the sockets hold what  *)
(* has been sent and not yet read of them.  One lemma per action, and at    *)
(* the end the theorems: no delta meets a wrong base, and a session without *)
(* a fault ends everywhere by the stop packet.                              *)
(***************************************************************************)
EXTENDS PipelineTypes

\* Counts of a worker, and what was written to it.
LEMMA WorkerBounds ==
    ASSUME NEW g \in Ghosts, RootAt(g), NEW w \in Workers, WorkerAt(g, w)
    PROVE  /\ g.rd[w] \in Nat /\ g.rc[w] \in Nat /\ g.sn[w] \in Nat /\ N(g) \in Nat
           /\ g.sn[w] <= g.rc[w] /\ g.rc[w] <= g.rd[w] /\ g.rd[w] <= g.sn[w] + 1
           /\ Written(g, w) \in Nat /\ g.rd[w] <= Written(g, w) /\ Written(g, w) <= N(g)
           /\ Written(g, w) >= N(g) - 1
           /\ w \notin toWrite => Written(g, w) = N(g)
           /\ w \in toWrite => Written(g, w) = N(g) - 1
<1>1. g.rd[w] \in Nat /\ g.rc[w] \in Nat /\ g.sn[w] \in Nat /\ N(g) \in Nat /\ g.sn[0] \in Nat
  BY GhostTypes
<1>2. /\ g.sn[w] <= g.rc[w] /\ g.rc[w] <= g.rd[w] /\ g.rd[w] <= g.sn[w] + 1
      /\ g.rd[w] <= Written(g, w)
  BY DEF WorkerAt, WorkerOK
<1>3. w \in toWrite => N(g) >= 1
  BY <1>1 DEF RootAt, RootOK
<1> QED
  BY <1>1, <1>2, <1>3 DEF Written

\* The root is at the head of a loop, or behind the broadcast: nothing is left to
\* write, and no stop packet was sent.
LEMMA RootFacts ==
    ASSUME NEW g \in Ghosts, RootAt(g)
    PROVE  /\ N(g) \in Nat /\ g.sn[0] \in Nat /\ g.sn[0] <= N(g) /\ g.sn[0] >= N(g) - 1
           /\ pc[0] \notin {"write", "over"} => toWrite = {} /\ \A m \in 1..N(g) : ~Stop(g.h[m])
           /\ pc[0] \in {"prefill", "decode", "recv", "drain"} => g.sn[0] = N(g)
           /\ pc[0] \in {"write", "forward", "send"} => g.sn[0] = N(g) - 1 /\ N(g) >= 1
           /\ toWrite # {} => g.sn[0] = N(g) - 1 /\ N(g) >= 1
           /\ N(g) >= 1 => ctrl[0] = g.h[N(g)]
           /\ N(g) = 0 => ctrl[0] = NoPacket
           /\ \A m \in 1..N(g) : Stop(g.h[m]) => m = N(g) /\ g.sn[0] = N(g) - 1
<1>1. N(g) \in Nat /\ g.sn[0] \in Nat
  BY GhostTypes
<1>2. g.sn[0] = N(g) \/ (N(g) > 0 /\ g.sn[0] = N(g) - 1)
  BY DEF RootAt, RootOK
<1>3. pc[0] \in {"prefill", "decode", "recv", "drain"} => g.sn[0] = N(g)
  BY DEF RootAt, RootOK
<1>4. pc[0] \in {"write", "forward", "send"} => g.sn[0] = N(g) - 1
  BY DEF RootAt, RootOK
<1>5. toWrite # {} => g.sn[0] = N(g) - 1 /\ pc[0] \in {"write", "over"}
  BY DEF RootAt, RootOK
<1>6. ctrl[0] = IF N(g) = 0 THEN NoPacket ELSE g.h[N(g)]
  BY DEF RootAt, RootOK
<1>7. \A m \in 1..N(g) : Stop(g.h[m]) =>
        m = N(g) /\ g.sn[0] = N(g) - 1 /\ pc[0] \in {"write", "over"}
  BY DEF RootAt, RootOK
<1> QED
  BY <1>1, <1>2, <1>3, <1>4, <1>5, <1>6, <1>7

\* The length of the first link is what was written less what was read.
LEMMA FirstLen ==
    ASSUME NEW g, FirstAt(g)
    PROVE  Len(Q(0, 1)) = (Written(g, 1) + g.sn[0]) - (g.rd[1] + g.rc[1])
<1>1. FirstRun(Q(0, 1), g.h, g.rd[1] + g.rc[1], Written(g, 1) + g.sn[0])
  BY DEF FirstAt
<1>2. ASSUME NEW q, NEW h, NEW a, NEW b, FirstRun(q, h, a, b) PROVE Len(q) = b - a
  BY <1>2 DEF FirstRun
<1> QED
  BY <1>1, <1>2

-----------------------------------------------------------------------------
(* What a step leaves alone.                                               *)

\* Where the counters of a link do not move and the socket is untouched, the link is as
\* it was.
LEMMA LinkKept ==
    ASSUME NEW g, NEW g2, NEW w, LinkAt(g, w), Q(0, w)' = Q(0, w), Q(w - 1, w)' = Q(w - 1, w),
           w \in toWrite' <=> w \in toWrite, session' = session,
           g2.h = g.h, g2.rd[w] = g.rd[w], g2.rc[w] = g.rc[w], g2.sn[w - 1] = g.sn[w - 1],
           g2.sk = g.sk
    PROVE  LinkAt(g2, w)'
<1>1. N(g2) = N(g) /\ skipTarget' = skipTarget
  BY DEF N, skipTarget
<1>2. Written(g2, w)' = Written(g, w)
  BY <1>1 DEF Written
<1>3. Upto(g2, w, skipTarget) = Upto(g, w, skipTarget) /\ Marks(g2, w, skipTarget) = Marks(g, w, skipTarget)
  BY <1>1 DEF Upto, Marks
<1> QED
  BY <1>1, <1>2, <1>3 DEF LinkAt

\* The same for the first link,
LEMMA FirstKept ==
    ASSUME NEW g, NEW g2, FirstAt(g), Q(0, 1)' = Q(0, 1), 1 \in toWrite' <=> 1 \in toWrite,
           g2.h = g.h, g2.rd[1] = g.rd[1], g2.rc[1] = g.rc[1], g2.sn[0] = g.sn[0]
    PROVE  FirstAt(g2)'
<1>1. Written(g2, 1)' = Written(g, 1)
  BY DEF Written, N
<1> QED
  BY <1>1 DEF FirstAt

\* for the link around the target,
LEMMA BypassKept ==
    ASSUME NEW g, NEW g2, BypassAt(g), session' = session, g2.h = g.h, g2.sk = g.sk,
           NEW k, k = skipTarget,
           k >= 2 => /\ Q(k - 1, k + 1)' = Q(k - 1, k + 1)
                     /\ g2.rc[k + 1] = g.rc[k + 1] /\ g2.sn[k - 1] = g.sn[k - 1]
    PROVE  BypassAt(g2)'
<1>1. N(g2) = N(g) /\ skipTarget' = k
  BY DEF N, skipTarget
<1>2. ASSUME k >= 2 PROVE BypassRun(Q(k - 1, k + 1)', g2, k)
  <2>1. BypassRun(Q(k - 1, k + 1), g, k)
    BY <1>2 DEF BypassAt
  <2>2. BypassRun(Q(k - 1, k + 1), g2, k)
    BY <1>1, <1>2, <2>1 DEF BypassRun
  <2> QED
    BY <1>2, <2>2
<1> QED
  BY <1>1, <1>2 DEF BypassAt, Q

\* for the link that returns logits,
LEMMA LogitsKept ==
    ASSUME NEW g, NEW g2, LogitsAt(g), Q(LastStage, 0)' = Q(LastStage, 0),
           g2.h = g.h, g2.sn[LastStage] = g.sn[LastStage]
    PROVE  LogitsAt(g2)'
<1>1. N(g2) = N(g) /\ LastStage' = LastStage
  BY DEF N, LastStage
<1> QED
  BY <1>1 DEF LogitsAt, LogitsRun, Q

\* for the bookkeeping of a worker,
LEMMA WorkerKept ==
    ASSUME NEW g, NEW g2, NEW w, WorkerAt(g, w), pc'[w] = pc[w], ctrl'[w] = ctrl[w],
           w \in toWrite' <=> w \in toWrite,
           g2.h = g.h, g2.rd[w] = g.rd[w], g2.rc[w] = g.rc[w], g2.sn[w] = g.sn[w]
    PROVE  WorkerAt(g2, w)'
<1>1. Written(g2, w)' = Written(g, w)
  BY DEF Written, N
<1> QED
  BY <1>1 DEF WorkerAt

\* and for that of the skip decision.
LEMMA SkipKept ==
    ASSUME NEW g, NEW g2, NEW w, SkipAt(g, w), pc'[w] = pc[w], ctrl'[w] = ctrl[w],
           session' = session, g2.rd[w] = g.rd[w], g2.sk = g.sk,
           pc[w] = "bypass" => Q(w, w + 2)' = Q(w, w + 2) /\ g2.rc[w + 2] = g.rc[w + 2]
    PROVE  SkipAt(g2, w)'
<1>1. skipTarget' = skipTarget
  BY DEF skipTarget
<1>2. CASE pc[w] = "bypass"
  BY <1>1, <1>2 DEF SkipAt, SkipOK, Q
<1>3. CASE pc[w] # "bypass"
  <2>1. SkipOK(pc[w], ctrl[w], w, g2, skipTarget, Len(Q(w, w + 2)'))
    BY <1>3 DEF SkipAt, SkipOK
  <2> QED
    BY <1>1, <2>1 DEF SkipAt
<1> QED
  BY <1>2, <1>3

-----------------------------------------------------------------------------
(* Messages that are sent and received.                                    *)

\* Sending appends to one socket,
LEMMA SentGrows ==
    ASSUME TypeInv, NEW i \in Stages, NEW j \in Stages, NEW m \in Message, Send(i, j, m)
    PROVE  /\ Grown(Q(i, j), Q(i, j)', m)
           /\ \A a, b \in Stages : a # i \/ b # j => Q(a, b)' = Q(a, b)
<1>1. LinkType
  BY DEF TypeInv, TypeOK, LinkType
<1>2. Len(Q(i, j)) \in Nat
  BY <1>1, LinkSeq
<1> QED
  BY <1>1, <1>2, LinkSend DEF Grown

\* and reading removes the head of one.
LEMMA DroppedShrinks ==
    ASSUME TypeInv, NEW i \in Stages, NEW j \in Stages, Incoming(i, j), Drop(i, j)
    PROVE  /\ Shrunk(Q(i, j), Q(i, j)')
           /\ \A a, b \in Stages : a # i \/ b # j => Q(a, b)' = Q(a, b)
<1>1. LinkType
  BY DEF TypeInv, TypeOK, LinkType
<1>2. Len(Q(i, j)) \in Nat /\ Len(Q(i, j)) >= 1
  BY <1>1, LinkSeq
<1> QED
  BY <1>1, <1>2, LinkDrop DEF Shrunk

\* Sending rows keeps the chain of deltas between the two bases.
LEMMA ChainsSent ==
    ASSUME TypeInv, Chains, NEW i \in Stages, NEW j \in Stages, NEW m \in Message,
           NEW rows \in Nat, NEW bypass, SentMessage(m, i, j, rows, bypass), got' = got
    PROVE  Chains'
<1>1. /\ Grown(Q(i, j), Q(i, j)', m)
      /\ \A a, b \in Stages : a # i \/ b # j => Q(a, b)' = Q(a, b)
  BY SentGrows DEF SentMessage
<1>2. /\ sent \in [Stages \X Stages -> RowsOf] /\ m.data \in RowsOf /\ m.data.rows = rows
      /\ m.kind = "act"
      /\ sent' = IF rows = 0 THEN sent ELSE [sent EXCEPT ![<<i, j>>] = m.data]
      /\ m.base = NoRows \/ (m.base = sent[<<i, j>>] /\ m.base.rows = rows /\ rows > 0)
  BY DEF TypeInv, TypeOK, SentMessage
<1>3. ASSUME NEW a \in Stages, NEW b \in Stages PROVE Chain(Q(a, b)', got'[<<a, b>>], sent'[<<a, b>>])
  <2>0. Chain(Q(a, b), got[<<a, b>>], sent[<<a, b>>])
    BY DEF Chains
  <2>1. CASE a = i /\ b = j
    <3>1. PICK l2 \in RowsOf : l2 = sent'[<<i, j>>]
      BY <1>2
    <3>2. l2 = IF m.kind = "act" /\ m.data.rows > 0 THEN m.data ELSE sent[<<i, j>>]
      BY <1>2, <3>1
    <3>3. m.kind = "act" /\ m.base # NoRows => m.base = sent[<<i, j>>] /\ sent[<<i, j>>].rows = m.data.rows
      BY <1>2
    <3>4. Chain(Q(i, j)', got[<<i, j>>], l2)
      BY <1>1, <2>0, <2>1, <3>2, <3>3, ChainGrows
    <3> QED
      BY <2>1, <3>1, <3>4
  <2>2. CASE ~(a = i /\ b = j)
    <3>1. Q(a, b)' = Q(a, b)
      BY <1>1, <2>2
    <3>2. sent'[<<a, b>>] = sent[<<a, b>>]
      BY <1>2, <2>2
    <3> QED
      BY <2>0, <3>1, <3>2
  <2> QED
    BY <2>1, <2>2
<1> QED
  BY <1>3 DEF Chains

\* A control packet is no part of the chain.
LEMMA ChainsWritten ==
    ASSUME TypeInv, Chains, NEW i \in Stages, NEW j \in Stages, NEW p \in Packet,
           Send(i, j, Control(p)), got' = got, sent' = sent
    PROVE  Chains'
<1>1. Control(p) \in Message /\ Control(p).kind = "ctrl" /\ sent \in [Stages \X Stages -> RowsOf]
  BY MessageKinds DEF TypeInv, TypeOK
<1>2. /\ Grown(Q(i, j), Q(i, j)', Control(p))
      /\ \A a, b \in Stages : a # i \/ b # j => Q(a, b)' = Q(a, b)
  BY <1>1, SentGrows
<1>3. ASSUME NEW a \in Stages, NEW b \in Stages PROVE Chain(Q(a, b)', got[<<a, b>>], sent[<<a, b>>])
  <2>0. Chain(Q(a, b), got[<<a, b>>], sent[<<a, b>>])
    BY DEF Chains
  <2>1. CASE a = i /\ b = j
    <3>1. PICK m : m = Control(p)
      OBVIOUS
    <3>2. PICK l2 \in RowsOf : l2 = sent[<<i, j>>]
      BY <1>1
    <3>3. l2 = IF m.kind = "act" /\ m.data.rows > 0 THEN m.data ELSE l2
      BY <1>1, <3>1
    <3>4. Chain(Q(i, j)', got[<<i, j>>], l2)
      <4>1. Grown(Q(i, j), Q(i, j)', m) /\ Chain(Q(i, j), got[<<i, j>>], l2)
        BY <1>2, <2>0, <2>1, <3>1, <3>2
      <4>2. ~(m.kind = "act")
        BY <1>1, <3>1
      <4> QED
        BY <4>1, <4>2, <3>3, ChainGrows
    <3> QED
      BY <2>1, <3>2, <3>4
  <2>2. CASE ~(a = i /\ b = j)
    <3>1. Q(a, b)' = Q(a, b)
      BY <1>2, <2>2
    <3> QED
      BY <2>0, <3>1
  <2> QED
    BY <2>1, <2>2
<1> QED
  BY <1>3 DEF Chains

\* Receiving rows moves the receiver's base along the chain.
LEMMA ChainsReceived ==
    ASSUME TypeInv, Chains, NEW i \in Stages, NEW j \in Stages, Incoming(i, j), Drop(i, j),
           sent' = sent,
           got' = IF Q(i, j)[1].kind = "act" /\ Q(i, j)[1].data.rows > 0
                    THEN [got EXCEPT ![<<i, j>>] = Q(i, j)[1].data] ELSE got
    PROVE  Chains'
<1>1. /\ Shrunk(Q(i, j), Q(i, j)')
      /\ \A a, b \in Stages : a # i \/ b # j => Q(a, b)' = Q(a, b)
  BY DroppedShrinks
<1>2. got \in [Stages \X Stages -> RowsOf]
  BY DEF TypeInv, TypeOK
<1>3. ASSUME NEW a \in Stages, NEW b \in Stages PROVE Chain(Q(a, b)', got'[<<a, b>>], sent[<<a, b>>])
  <2>0. Chain(Q(a, b), got[<<a, b>>], sent[<<a, b>>])
    BY DEF Chains
  <2>1. CASE a = i /\ b = j
    <3>1. PICK f2 : f2 = got'[<<i, j>>]
      OBVIOUS
    <3>2. f2 = IF Q(i, j)[1].kind = "act" /\ Q(i, j)[1].data.rows > 0 THEN Q(i, j)[1].data ELSE got[<<i, j>>]
      BY <1>2, <3>1
    <3>4. Chain(Q(i, j)', f2, sent[<<i, j>>])
      BY <1>1, <2>0, <2>1, <3>2, ChainShrinks
    <3> QED
      BY <2>1, <3>1, <3>4
  <2>2. CASE ~(a = i /\ b = j)
    <3>1. Q(a, b)' = Q(a, b)
      BY <1>1, <2>2
    <3>2. got'[<<a, b>>] = got[<<a, b>>]
      BY <1>2, <2>2
    <3> QED
      BY <2>0, <3>1, <3>2
  <2> QED
    BY <2>1, <2>2
<1> QED
  BY <1>3 DEF Chains

\* The rows of packet c always decode, and what they leave.
LEMMA RowsDecode ==
    ASSUME TypeInv, Chains, NEW i \in Stages, NEW j \in Stages, NEW c, NEW rows \in Nat, NEW n \in Nat,
           NEW bypass, Incoming(i, j), RecvRows(i, j, n), IsAct(Q(i, j)[1], c, rows, bypass), rows <= n
    PROVE  Decodes(i, j, n) /\ Chains'
<1>1. /\ sent' = sent /\ Drop(i, j)
      /\ Decodes(i, j, n) <=> /\ Q(i, j)[1].kind = "act" /\ Q(i, j)[1].data.rows <= n
                              /\ Q(i, j)[1].base # NoRows => got[<<i, j>>].rows = Q(i, j)[1].data.rows
      /\ got' = IF Decodes(i, j, n) /\ Q(i, j)[1].data.rows > 0
                  THEN [got EXCEPT ![<<i, j>>] = Q(i, j)[1].data] ELSE got
  BY ReceivedRows DEF TypeInv
<1>2. Q(i, j)[1].kind = "act" /\ Q(i, j)[1].data.rows <= n
  BY DEF IsAct
<1>3. Q(i, j)[1].base # NoRows => got[<<i, j>>].rows = Q(i, j)[1].data.rows
  <2>1. Len(Q(i, j)) \in Nat /\ Len(Q(i, j)) >= 1
    BY LinkSeq DEF TypeInv, TypeOK, LinkType
  <2>2. Chain(Q(i, j), got[<<i, j>>], sent[<<i, j>>])
    BY DEF Chains
  <2> QED
    BY <1>2, <2>1, <2>2, ChainHead
<1>4. Decodes(i, j, n)
  BY <1>1, <1>2, <1>3
<1>5. got' = IF Q(i, j)[1].kind = "act" /\ Q(i, j)[1].data.rows > 0
               THEN [got EXCEPT ![<<i, j>>] = Q(i, j)[1].data] ELSE got
  BY <1>1, <1>2, <1>4
<1> QED
  BY <1>1, <1>4, <1>5, ChainsReceived

-----------------------------------------------------------------------------
\* The skip target is a worker, with a worker behind it.
LEMMA TargetFacts ==
    ASSUME TypeInv
    PROVE  /\ skipTarget \in Nat /\ useWave \in BOOLEAN
           /\ skipTarget # 0 => skipTarget \in Workers /\ skipTarget \in Stages
           /\ skipTarget # 0 => skipTarget + 1 \in Workers /\ skipTarget + 1 \in Stages
           /\ skipTarget # LastStage /\ skipTarget < LastStage
           /\ skipTarget >= 2 => skipTarget - 1 \in Workers /\ skipTarget - 1 \in Stages
<1>1. skipTarget \in Nat /\ useWave \in BOOLEAN /\ (skipTarget # 0 => skipTarget <= ppSize - 2)
  BY SessionFacts DEF TypeInv, TypeOK
<1> QED
  BY <1>1, PipelineAssumption DEF Workers, Stages, LastStage

\* Where the target is skipped.
LEMMA SkippedFacts ==
    ASSUME NEW g \in Ghosts, TypeInv, RootAt(g), \A w \in Workers : WorkerAt(g, w), Pace(g),
           NEW n \in g.sk
    PROVE  /\ skipTarget >= 2 /\ n \in Nat /\ n >= 1 /\ n <= g.rc[skipTarget - 1] /\ n \in 1..N(g)
           /\ g.h[n].phase = "decode" /\ g.h[n].batchSize = 1
<1>1. /\ skipTarget >= 2 /\ n >= 1 /\ n <= g.rc[skipTarget - 1]
      /\ g.h[n].phase = "decode" /\ g.h[n].batchSize = 1
  BY DEF Pace, PaceOK, Skips
<1>2. skipTarget - 1 \in Workers
  BY <1>1, TargetFacts
<1>3. /\ g.rc[skipTarget - 1] <= N(g) /\ g.rc[skipTarget - 1] \in Nat /\ N(g) \in Nat
  <2>1. WorkerAt(g, skipTarget - 1)
    BY <1>2
  <2>2. PICK d \in Workers : d = skipTarget - 1
    BY <1>2
  <2>3. g.rc[d] \in Nat /\ N(g) \in Nat /\ g.rd[d] \in Nat /\ Written(g, d) \in Nat /\
        g.rc[d] <= g.rd[d] /\ g.rd[d] <= Written(g, d) /\ Written(g, d) <= N(g)
    BY <2>1, <2>2, WorkerBounds
  <2> QED
    BY <2>2, <2>3
<1>4. n \in Nat
  BY GhostTypes
<1> QED
  BY <1>1, <1>3, <1>4

\* With a packet of a token, or a stop packet, at most one packet is in the pipeline.
LEMMA Settled ==
    ASSUME NEW g \in Ghosts, TypeInv, Pace(g), NEW m \in 1..N(g),
           g.h[m].phase = "decode" \/ Stop(g.h[N(g)])
    PROVE  /\ \A s \in Stages : ~(skipTarget # 0 /\ s = skipTarget) => g.sn[s] >= N(g) - 1
           /\ skipTarget # 0 => \A n \in Nat : g.sn[skipTarget] < n /\ n <= N(g) - 1 => n \in g.sk
<1>1. ~Streaming(g, useWave)
  <2>1. SUFFICES ASSUME Streaming(g, useWave) PROVE FALSE
    OBVIOUS
  <2>2. useWave /\ N(g) > 0 /\ g.h[N(g)].phase = "prefill" /\ ~Stop(g.h[N(g)])
    BY <2>1 DEF Streaming
  <2>3. g.h[m].phase = "prefill"
    BY <2>2 DEF Pace, PaceOK, WaveOnly
  <2> QED
    BY <2>2, <2>3
<1> QED
  BY <1>1 DEF Pace, PaceOK, OneAtATime

\* When the last stage has completed every packet, so have the others.
LEMMA AllDone ==
    ASSUME NEW g \in Ghosts, TypeInv, RootAt(g), \A w \in Workers : WorkerAt(g, w), Pace(g),
           g.sn[LastStage] = N(g)
    PROVE  /\ \A i \in Stages : ~(skipTarget # 0 /\ i = skipTarget) => g.sn[i] >= N(g)
           /\ skipTarget # 0 => g.rc[skipTarget + 1] >= N(g)
           /\ skipTarget # 0 => \A m \in Nat : g.sn[skipTarget] < m /\ m <= N(g) => m \in g.sk
<1>1. /\ \A w \in Workers : g.sn[w] \in Nat /\ g.rc[w] \in Nat /\ g.sn[w] <= g.rc[w]
      /\ N(g) \in Nat /\ LastStage \in Workers /\ \A s \in Stages : g.sn[s] \in Nat
  BY WorkerBounds, StageFacts, GhostTypes
<1>2. g.rc[LastStage] >= N(g)
  BY <1>1
<1>3. \A i \in Stages, j \in Workers : i < j /\ ~(skipTarget # 0 /\ i = skipTarget) => g.rc[j] <= g.sn[i]
  BY DEF Pace, PaceOK, Order
<1>4. ASSUME NEW i \in Stages, ~(skipTarget # 0 /\ i = skipTarget) PROVE g.sn[i] >= N(g)
  <2>1. CASE i = LastStage
    BY <1>1, <2>1
  <2>2. CASE i # LastStage
    <3>1. i < LastStage
      BY <2>2, PipelineAssumption DEF Stages, LastStage
    <3>2. g.rc[LastStage] <= g.sn[i]
      BY <1>1, <1>3, <1>4, <3>1
    <3> QED
      BY <1>1, <1>2, <3>2
  <2> QED
    BY <2>1, <2>2
<1>5. ASSUME skipTarget # 0 PROVE g.rc[skipTarget + 1] >= N(g)
  <2>1. skipTarget + 1 \in Workers /\ skipTarget + 1 \in Stages /\ skipTarget + 1 # skipTarget
    BY <1>5, TargetFacts
  <2>2. g.sn[skipTarget + 1] >= N(g)
    BY <1>4, <2>1
  <2> QED
    BY <1>1, <2>1, <2>2
<1>6. ASSUME skipTarget # 0, NEW m \in Nat, g.sn[skipTarget] < m, m <= N(g) PROVE m \in g.sk
  <2>1. m <= g.rc[skipTarget + 1]
    BY <1>1, <1>5, <1>6, TargetFacts
  <2> QED
    BY <1>6, <2>1 DEF Pace, PaceOK, Order
<1> QED
  BY <1>4, <1>5, <1>6

-----------------------------------------------------------------------------
\* A step that leaves the root's state alone leaves its bookkeeping alone,
LEMMA RootKept ==
    ASSUME NEW g, NEW g2, RootAt(g), pc'[0] = pc[0], ctrl'[0] = ctrl[0], toWrite' = toWrite,
           g2.h = g.h, g2.sn[0] = g.sn[0]
    PROVE  RootAt(g2)'
<1>1. N(g2) = N(g)
  BY DEF N
<1> QED
  BY <1>1 DEF RootAt, RootOK

\* and what it says of a quiet pipeline,
LEMMA QuietKept ==
    ASSUME NEW g, NEW g2, Quiet(g), pc'[0] = pc[0], session' = session,
           Q(LastStage, 0)' = Q(LastStage, 0), g2.h = g.h, g2.sn[LastStage] = g.sn[LastStage]
    PROVE  Quiet(g2)'
<1>1. N(g2) = N(g) /\ LastStage' = LastStage /\ useWave' = useWave
  BY DEF N, LastStage, useWave
<1> QED
  BY <1>1 DEF Quiet, Q

\* and of the wave,
LEMMA WaveKept ==
    ASSUME NEW g, NEW g2, Wave(g), pc'[0] = pc[0], session' = session, ctrl'[0] = ctrl[0],
           pos' = pos, waves' = waves, request' = request, g2.h = g.h
    PROVE  Wave(g2)'
<1>1. /\ N(g2) = N(g) /\ useWave' = useWave /\ (InWave)' = InWave /\ schedTotal' = schedTotal
  BY DEF N, useWave, InWave, schedTotal, realTotal, RealTotal
<1> QED
  BY <1>1 DEF Wave

\* and of how the stages have ended,
LEMMA EndsKept ==
    ASSUME NEW g, NEW g2, Ends(g), faults' = faults, g2.h = g.h,
           \A s \in Stages : why'[s] = why[s] /\ (pc'[s] = "over" <=> pc[s] = "over"),
           pc[0] = "over" => toWrite' = toWrite,
           \A s \in Stages : s # 0 /\ pc[s] = "over" => g2.rd[s] = g.rd[s]
    PROVE  Ends(g2)'
<1>1. N(g2) = N(g) /\ 0 \in Stages
  BY StageFacts DEF N
<1>2. PositionsInRange' <=> PositionsInRange
  BY <1>1 DEF PositionsInRange
<1>3. \A s \in Stages : EndOK(g, s) => EndOK(g2, s)'
  BY <1>1 DEF EndOK
<1> QED
  BY <1>1, <1>2, <1>3 DEF Ends, Stages

\* and the links nobody writes to,
LEMMA BackKept ==
    ASSUME BackLinks, \A i, j \in Stages : j < i /\ ~(i = LastStage /\ j = 0) => Q(i, j)' = Q(i, j)
    PROVE  BackLinks'
<1>1. LastStage' = LastStage /\ Stages' = Stages
  BY DEF LastStage, Stages
<1> QED
  BY <1>1 DEF BackLinks

\* and the pace.
LEMMA PaceKept ==
    ASSUME NEW g, Pace(g), session' = session
    PROVE  Pace(g)'
BY DEF Pace, skipTarget, useWave

-----------------------------------------------------------------------------
(* Steps of one node that touch no socket.                                 *)

\* A step that touches no socket and no counter keeps the flow when it keeps the
\* bookkeeping of the stage that makes it.
LEMMA FlowLocal ==
    ASSUME TypeInv, NEW g, Flow(g), NEW s \in Stages,
           UNCHANGED <<session, sock, sent, got, ctrl, toWrite>>,
           \A t \in Stages : t # s => pc'[t] = pc[t],
           s = 0 => RootAt(g)' /\ Quiet(g)' /\ Wave(g)',
           s # 0 => WorkerAt(g, s)' /\ SkipAt(g, s)' /\ UNCHANGED <<pos, waves, request>>,
           Ends(g)'
    PROVE  Flow(g)'
<1>0. /\ g \in Ghosts /\ RootAt(g) /\ (\A w \in Workers : WorkerAt(g, w) /\ SkipAt(g, w))
      /\ Links(g) /\ Chains /\ Pace(g) /\ Quiet(g) /\ Wave(g)
  BY DEF Flow
<1>1. \A i, j : Q(i, j)' = Q(i, j)
  BY DEF Q
<1>2. Workers' = Workers /\ 0 \in Stages /\ \A w \in Workers : w \in Stages /\ w # 0
  BY StageFacts DEF Workers
<1>3. RootAt(g)' /\ Quiet(g)' /\ Wave(g)'
  <2>1. CASE s = 0
    BY <2>1
  <2>2. CASE s # 0
    <3>1. pc'[0] = pc[0] /\ ctrl'[0] = ctrl[0] /\ pos' = pos /\ waves' = waves /\ request' = request
      BY <1>2, <2>2
    <3>2. RootAt(g)'
      BY <1>0, <3>1, RootKept
    <3>3. Quiet(g)'
      BY <1>0, <1>1, <3>1, QuietKept
    <3>4. Wave(g)'
      BY <1>0, <3>1, WaveKept
    <3> QED
      BY <3>2, <3>3, <3>4
  <2> QED
    BY <2>1, <2>2
<1>4. ASSUME NEW w \in Workers PROVE WorkerAt(g, w)' /\ SkipAt(g, w)'
  <2>1. CASE w = s
    BY <1>2, <2>1
  <2>2. CASE w # s
    <3>1. pc'[w] = pc[w] /\ ctrl'[w] = ctrl[w]
      BY <1>2, <2>2
    <3>2. WorkerAt(g, w)'
      BY <1>0, <3>1, WorkerKept
    <3>3. SkipAt(g, w)'
      BY <1>0, <1>1, <3>1, SkipKept
    <3> QED
      BY <3>2, <3>3
  <2> QED
    BY <2>1, <2>2
<1>5. ASSUME NEW w \in Workers, w >= 2 PROVE LinkAt(g, w)'
  BY <1>0, <1>1, <1>5, LinkKept DEF Links
<1>6. FirstAt(g)'
  BY <1>0, <1>1, FirstKept DEF Links
<1>7. BypassAt(g)'
  <2>1. PICK k : k = skipTarget
    OBVIOUS
  <2> QED
    BY <1>0, <1>1, <2>1, BypassKept DEF Links
<1>8. LogitsAt(g)'
  BY <1>0, <1>1, LogitsKept DEF Links
<1>9. BackLinks'
  BY <1>0, <1>1, BackKept DEF Links
<1>10. Chains'
  BY <1>0, <1>1 DEF Chains, Stages
<1>11. Pace(g)'
  BY <1>0, PaceKept
<1>12. Links(g)'
  BY <1>2, <1>5, <1>6, <1>7, <1>8, <1>9 DEF Links
<1> QED
  BY <1>0, <1>2, <1>3, <1>4, <1>10, <1>11, <1>12 DEF Flow

\* A node that ends is still where it was.
LEMMA OverRoot ==
    ASSUME NEW g, RootAt(g), pc'[0] = "over", ctrl'[0] = ctrl[0], toWrite' = toWrite
    PROVE  RootAt(g)' /\ Quiet(g)' /\ Wave(g)'
<1>1. RootAt(g)'
  BY DEF RootAt, RootOK, RootPcs
<1>2. Quiet(g)'
  BY DEF Quiet
<1>3. Wave(g)'
  BY DEF Wave
<1> QED
  BY <1>1, <1>2, <1>3

\* Nothing is claimed of a worker that has ended.
LEMMA OverWorker ==
    ASSUME NEW g, NEW w, WorkerAt(g, w), pc'[w] = "over", toWrite' = toWrite
    PROVE  WorkerAt(g, w)' /\ SkipAt(g, w)'
<1>1. Written(g, w)' = Written(g, w)
  BY DEF Written
<1>2. WorkerAt(g, w)'
  <2>1. WorkerOK("over", ctrl'[w], g.h, g.rd[w], g.rc[w], g.sn[w], Written(g, w))
    BY DEF WorkerAt, WorkerOK, WorkerPcs
  <2> QED
    BY <1>1, <2>1 DEF WorkerAt
<1>3. SkipAt(g, w)'
  BY DEF SkipAt, SkipOK
<1> QED
  BY <1>2, <1>3

\* Ending a stage moves that stage only,
LEMMA EndedPcs ==
    ASSUME TypeInv, NEW s \in Stages, NEW r, End(s, r)
    PROVE  /\ pc'[s] = "over" /\ why'[s] = r
           /\ \A t \in Stages : t # s => pc'[t] = pc[t] /\ why'[t] = why[t]
BY DEF TypeInv, TypeOK, End, Goto

\* A node ends for a reason that counts as a failure, or because it must.
LEMMA FlowEnds ==
    ASSUME TypeInv, NEW g, Flow(g), NEW s \in Stages, NEW r, End(s, r), r # "protocol",
           pc[s] # "over", r = "assert" => s = 0,
           UNCHANGED <<session, sock, sent, got, ctrl, toWrite>>,
           s # 0 => UNCHANGED <<pos, waves, request>>,
           \/ faults' # 0
           \/ s = 0 /\ r = "assert"
           \/ faults' = faults /\ ~(faults = 0 /\ PositionsInRange)
    PROVE  Flow(g)'
<1>0. /\ g \in Ghosts /\ RootAt(g) /\ (\A w \in Workers : WorkerAt(g, w) /\ SkipAt(g, w)) /\ Ends(g)
  BY DEF Flow
<1>1. /\ pc'[s] = "over" /\ why'[s] = r
      /\ \A t \in Stages : t # s => pc'[t] = pc[t] /\ why'[t] = why[t]
  BY EndedPcs
<1>2. s = 0 => RootAt(g)' /\ Quiet(g)' /\ Wave(g)'
  BY <1>0, <1>1, OverRoot
<1>3. s # 0 => s \in Workers
  BY StageFacts
<1>4. s # 0 => WorkerAt(g, s)' /\ SkipAt(g, s)'
  BY <1>0, <1>1, <1>3, OverWorker
<1>5. \A t \in Stages : why'[t] # "protocol"
  BY <1>0, <1>1 DEF Ends
<1>6. ~(faults' = 0 /\ PositionsInRange')
  <2>1. CASE s = 0 /\ r = "assert"
    BY <1>1, <2>1 DEF PositionsInRange
  <2>2. CASE faults' = faults /\ ~(faults = 0 /\ PositionsInRange)
    <3>1. CASE faults # 0
      BY <2>2, <3>1
    <3>2. CASE faults = 0 /\ ~PositionsInRange
      <4>1. why[0] = "assert" /\ pc[0] = "over"
        BY <1>0, <3>2 DEF PositionsInRange, Ends
      <4>2. s # 0
        BY <4>1
      <4> QED
        BY <1>1, <4>1, <4>2, StageFacts DEF PositionsInRange
    <3> QED
      BY <2>2, <3>1, <3>2
  <2>3. CASE faults' # 0
    BY <2>3
  <2> QED
    BY <2>1, <2>2, <2>3
<1>8. why'[0] = "assert" => pc'[0] = "over"
  BY <1>0, <1>1, StageFacts DEF Ends
<1>7. Ends(g)'
  BY <1>5, <1>6, <1>8 DEF Ends, Stages
<1> QED
  BY <1>1, <1>2, <1>4, <1>7, FlowLocal

\* and so does going on.
LEMMA GotoPcs ==
    ASSUME TypeInv, NEW s \in Stages, NEW to, Goto(s, to)
    PROVE  pc'[s] = to /\ \A t \in Stages : t # s => pc'[t] = pc[t]
BY DEF TypeInv, TypeOK, Goto

\* The root leaves the prefill loop: in a wave it goes on to drain what it owes.
LEMMA FlowPrefillDone ==
    ASSUME TypeInv, NEW g, Flow(g), PrefillDone, session' = session
    PROVE  Flow(g)'
<1>0. /\ g \in Ghosts /\ RootAt(g) /\ (\A w \in Workers : WorkerAt(g, w)) /\ Quiet(g) /\ Wave(g)
      /\ Ends(g) /\ LogitsAt(g)
  BY DEF Flow, Links
<1>1. /\ pc[0] = "prefill" /\ Goto(0, IF useWave /\ waves > 0 THEN "drain" ELSE "decode")
      /\ UNCHANGED <<sock, sent, got, ctrl, toWrite, why, faults>>
  BY DEF PrefillDone, bases
<1>2. /\ pc'[0] = IF useWave /\ waves > 0 THEN "drain" ELSE "decode"
      /\ \A t \in Stages : t # 0 => pc'[t] = pc[t]
  BY <1>1, GotoPcs, StageFacts
<1>3. pc'[0] \in {"drain", "decode"} /\ useWave \in BOOLEAN
  BY <1>2, TargetFacts
<1>4. RootAt(g)'
  BY <1>0, <1>1, <1>3 DEF RootAt, RootOK, RootPcs
<1>5. Wave(g)'
  BY <1>3 DEF Wave
<1>6. ASSUME pc'[0] = "decode" PROVE g.sn[LastStage] = N(g) /\ Len(Q(LastStage, 0)) = 0
  <2>1. CASE ~useWave
    BY <1>0, <1>1, <2>1 DEF Quiet
  <2>2. CASE useWave
    <3>1. N(g) = 0
      BY <1>0, <1>1, <1>2, <1>6, <2>2, GhostTypes DEF Wave
    <3>2. Len(Q(LastStage, 0)) \in Nat
      BY LinkSeq, StageFacts DEF TypeInv, TypeOK, LinkType
    <3>3. Len(Q(LastStage, 0)) = 0
      <4>1. Len(Q(LastStage, 0)) <= 1 /\ (Len(Q(LastStage, 0)) = 1 => N(g) > 0)
        BY <1>0 DEF LogitsAt, LogitsRun
      <4> QED
        BY <3>1, <3>2, <4>1, SMTT(30)
    <3>4. g.sn[LastStage] = 0
      <4>1. PICK w \in Workers : w = LastStage
        BY StageFacts
      <4>2. /\ g.rd[w] \in Nat /\ g.rc[w] \in Nat /\ g.sn[w] \in Nat /\ N(g) \in Nat
            /\ g.sn[w] <= g.rc[w] /\ g.rc[w] <= g.rd[w]
            /\ Written(g, w) \in Nat /\ g.rd[w] <= Written(g, w) /\ Written(g, w) <= N(g)
        BY <1>0, WorkerBounds
      <4> QED
        BY <3>1, <4>1, <4>2
    <3> QED
      BY <3>1, <3>3, <3>4
  <2> QED
    BY <1>3, <2>1, <2>2
<1>7. Quiet(g)'
  BY <1>1, <1>3, <1>6 DEF Quiet, Q, LastStage
<1>8. Ends(g)'
  <2>1. \A s \in Stages : why'[s] = why[s] /\ (pc'[s] = "over" <=> pc[s] = "over")
    BY <1>1, <1>2, <1>3
  <2> QED
    BY <1>0, <1>1, <2>1, EndsKept
<1> QED
  BY <1>1, <1>2, <1>4, <1>5, <1>7, <1>8, FlowLocal, StageFacts

\* The root moves to the next prompt of the file.
LEMMA FlowNextRequest ==
    ASSUME TypeInv, NEW g, Flow(g), NextRequest, session' = session
    PROVE  Flow(g)'
<1>0. /\ g \in Ghosts /\ RootAt(g) /\ Quiet(g) /\ Wave(g) /\ Ends(g)
  BY DEF Flow
<1>1. /\ pc[0] = "decode" /\ Goto(0, "prefill") /\ request < Len(session.prompts)
      /\ UNCHANGED <<sock, sent, got, ctrl, toWrite, why, faults>>
  BY DEF NextRequest, bases
<1>2. /\ pc'[0] = "prefill" /\ \A t \in Stages : t # 0 => pc'[t] = pc[t]
  BY <1>1, GotoPcs, StageFacts
<1>3. ~useWave /\ useWave' = useWave
  <2>1. /\ Len(session.prompts) \in Nat /\ DOMAIN session.prompts = 1..Len(session.prompts)
        /\ useWave => Len(session.prompts) = 1
    BY SessionFacts DEF TypeInv, TypeOK
  <2>2. request \in 1..Len(session.prompts)
    BY <2>1 DEF TypeInv, TypeOK
  <2>3. Len(session.prompts) # 1
    <3>1. PICK n \in Nat : n = Len(session.prompts)
      BY <2>1
    <3>2. request \in 1..n /\ request < n
      BY <1>1, <2>2, <3>1
    <3>3. PICK r \in Int : r = request
      BY <3>2
    <3>4. r >= 1 /\ r < n
      BY <3>1, <3>2, <3>3
    <3>5. n # 1
      BY <3>4
    <3> QED
      BY <3>1, <3>5
  <2>4. useWave' = useWave
    BY DEF useWave
  <2> QED
    BY <2>1, <2>3, <2>4
<1>4. RootAt(g)'
  BY <1>0, <1>1, <1>2 DEF RootAt, RootOK, RootPcs
<1>5. Wave(g)'
  BY <1>2, <1>3 DEF Wave
<1>7. Quiet(g)'
  BY <1>0, <1>1, <1>2 DEF Quiet, Q, LastStage
<1>8. Ends(g)'
  <2>1. \A s \in Stages : why'[s] = why[s] /\ (pc'[s] = "over" <=> pc[s] = "over")
    BY <1>1, <1>2
  <2> QED
    BY <1>0, <1>1, <2>1, EndsKept
<1> QED
  BY <1>1, <1>2, <1>4, <1>5, <1>7, <1>8, FlowLocal, StageFacts

\* The control packet is written everywhere: the root ends on the stop packet.
LEMMA FlowControlWritten ==
    ASSUME TypeInv, NEW g, Flow(g), ControlWritten, session' = session
    PROVE  Flow(g)'
<1>0. /\ g \in Ghosts /\ RootAt(g) /\ Quiet(g) /\ Wave(g) /\ Ends(g)
  BY DEF Flow
<1>1. /\ pc[0] = "write" /\ toWrite = {}
      /\ UNCHANGED <<sock, sent, got, ctrl, toWrite, faults, pos, waves, request>>
  BY DEF ControlWritten, bases, rootVars
<1>2. N(g) \in Nat /\ N(g) >= 1 /\ ctrl[0] = g.h[N(g)] /\ g.sn[0] = N(g) - 1
  BY <1>0, <1>1, RootFacts
<1>3. CASE ctrl[0].batchSize = 0
  <2>1. End(0, "stop")
    BY <1>3 DEF ControlWritten
  <2>2. /\ pc'[0] = "over" /\ why'[0] = "stop"
        /\ \A t \in Stages : t # 0 => pc'[t] = pc[t] /\ why'[t] = why[t]
    BY <2>1, EndedPcs, StageFacts
  <2>3. RootAt(g)' /\ Quiet(g)' /\ Wave(g)'
    BY <1>0, <1>1, <2>2, OverRoot
  <2>4. Ends(g)'
    <3>1. \A s \in Stages : why'[s] # "protocol"
      BY <1>0, <2>2 DEF Ends
    <3>2. ASSUME faults' = 0, PositionsInRange', NEW s \in Stages PROVE EndOK(g, s)'
      <4>1. why[0] # "assert"
        BY <1>0, <1>1 DEF Ends
      <4>2. EndOK(g, s)
        BY <1>0, <1>1, <3>2, <4>1 DEF Ends, PositionsInRange
      <4>3. CASE s = 0
        BY <1>1, <1>2, <1>3, <2>2, <4>3 DEF EndOK, Stop
      <4>4. CASE s # 0
        BY <1>1, <2>2, <4>2, <4>4 DEF EndOK
      <4> QED
        BY <4>3, <4>4
    <3> QED
      BY <2>2, <3>1, <3>2 DEF Ends, Stages
  <2> QED
    BY <1>1, <2>2, <2>3, <2>4, FlowLocal, StageFacts
<1>4. CASE ctrl[0].batchSize # 0
  <2>1. Goto(0, "forward") /\ why' = why
    BY <1>4 DEF ControlWritten
  <2>2. /\ pc'[0] = "forward" /\ \A t \in Stages : t # 0 => pc'[t] = pc[t]
    BY <2>1, GotoPcs, StageFacts
  <2>3. \A m \in 1..N(g) : ~Stop(g.h[m])
    BY <1>0, <1>2, <1>4, RootFacts DEF Stop
  <2>4. RootAt(g)'
    BY <1>0, <1>1, <2>2, <2>3 DEF RootAt, RootOK, RootPcs
  <2>5. Quiet(g)'
    BY <2>2 DEF Quiet
  <2>6. Wave(g)'
    <3>1. schedTotal' = schedTotal /\ useWave' = useWave
      BY <1>1 DEF schedTotal, realTotal, RealTotal, useWave
    <3> QED
      BY <1>0, <1>1, <2>2, <3>1 DEF Wave
  <2>7. Ends(g)'
    <3>1. \A s \in Stages : why'[s] = why[s] /\ (pc'[s] = "over" <=> pc[s] = "over")
      BY <1>1, <2>1, <2>2
    <3> QED
      BY <1>0, <1>1, <3>1, EndsKept
  <2> QED
    BY <1>1, <2>2, <2>4, <2>5, <2>6, <2>7, FlowLocal, StageFacts
<1> QED
  BY <1>3, <1>4

\* The root ran its own layers.
LEMMA FlowRootForward ==
    ASSUME TypeInv, NEW g, Flow(g), RootForward, session' = session
    PROVE  Flow(g)'
<1>0. /\ g \in Ghosts /\ RootAt(g) /\ Quiet(g) /\ Wave(g) /\ Ends(g)
  BY DEF Flow
<1>1. /\ pc[0] = "forward" /\ Goto(0, "send")
      /\ UNCHANGED <<sock, sent, got, ctrl, toWrite, faults, pos, waves, request, why>>
  BY DEF RootForward, bases, rootVars
<1>2. /\ pc'[0] = "send" /\ \A t \in Stages : t # 0 => pc'[t] = pc[t]
  BY <1>1, GotoPcs, StageFacts
<1>3. RootAt(g)'
  BY <1>0, <1>1, <1>2 DEF RootAt, RootOK, RootPcs
<1>4. Quiet(g)'
  BY <1>2 DEF Quiet
<1>5. Wave(g)'
  <2>1. schedTotal' = schedTotal /\ useWave' = useWave
    BY <1>1 DEF schedTotal, realTotal, RealTotal, useWave
  <2> QED
    BY <1>0, <1>1, <1>2, <2>1 DEF Wave
<1>6. Ends(g)'
  <2>1. \A s \in Stages : why'[s] = why[s] /\ (pc'[s] = "over" <=> pc[s] = "over")
    BY <1>1, <1>2
  <2> QED
    BY <1>0, <1>1, <2>1, EndsKept
<1> QED
  BY <1>1, <1>2, <1>3, <1>4, <1>5, <1>6, FlowLocal, StageFacts

\* A worker ran its layers.
LEMMA FlowWorkerForward ==
    ASSUME TypeInv, NEW g, Flow(g), NEW w \in Workers, WorkerForward(w), session' = session
    PROVE  Flow(g)'
<1>0. /\ g \in Ghosts /\ WorkerAt(g, w) /\ SkipAt(g, w) /\ Ends(g) /\ w \in Stages /\ w # 0
  BY StageFacts DEF Flow
<1>1. /\ pc[w] = "forward"
      /\ Goto(w, IF DecisionStage(w) /\ DecodeSingle(w) /\ skip.hasDelta THEN "decide" ELSE "send")
      /\ UNCHANGED <<sock, sent, got, ctrl, toWrite, faults, pos, waves, request, why>>
  BY DEF WorkerForward, bases, rootVars
<1>2. /\ pc'[w] = IF DecisionStage(w) /\ DecodeSingle(w) /\ skip.hasDelta THEN "decide" ELSE "send"
      /\ \A t \in Stages : t # w => pc'[t] = pc[t]
  BY <1>0, <1>1, GotoPcs
<1>3. pc'[w] \in {"decide", "send"} /\ (pc'[w] = "decide" => DecisionStage(w) /\ DecodeSingle(w))
  BY <1>2
<1>4. WorkerAt(g, w)'
  <2>1. Written(g, w)' = Written(g, w)
    BY <1>1 DEF Written
  <2>2. WorkerOK(pc'[w], ctrl[w], g.h, g.rd[w], g.rc[w], g.sn[w], Written(g, w))
    BY <1>0, <1>1, <1>3 DEF WorkerAt, WorkerOK, WorkerPcs
  <2> QED
    BY <1>1, <2>1, <2>2 DEF WorkerAt
<1>5. SkipAt(g, w)'
  <2>1. SkipOK(pc'[w], ctrl[w], w, g, skipTarget, Len(Q(w, w + 2)'))
    BY <1>0, <1>1, <1>3 DEF SkipAt, SkipOK, DecisionStage, DecodeSingle
  <2>2. skipTarget' = skipTarget
    BY DEF skipTarget
  <2> QED
    BY <1>1, <2>1, <2>2 DEF SkipAt
<1>6. Ends(g)'
  <2>1. \A s \in Stages : why'[s] = why[s] /\ (pc'[s] = "over" <=> pc[s] = "over")
    BY <1>1, <1>2, <1>3
  <2> QED
    BY <1>0, <1>1, <2>1, EndsKept
<1> QED
  BY <1>0, <1>1, <1>2, <1>4, <1>5, <1>6, FlowLocal

\* The skip is rejected.
LEMMA FlowReject ==
    ASSUME TypeInv, NEW g, Flow(g), NEW w \in Workers, NEW close, EvaluateSkip(w, close),
           pc'[w] # "marker", session' = session
    PROVE  Flow(g)'
<1>0. /\ g \in Ghosts /\ WorkerAt(g, w) /\ SkipAt(g, w) /\ Ends(g) /\ w \in Stages /\ w # 0
  BY StageFacts DEF Flow
<1>1. /\ pc[w] = "decide" /\ (Goto(w, "send") \/ Goto(w, "marker"))
      /\ UNCHANGED <<sock, sent, got, ctrl, toWrite, faults, pos, waves, request, why>>
  BY DEF EvaluateSkip, bases, rootVars
<1>2. /\ pc'[w] = "send" /\ \A t \in Stages : t # w => pc'[t] = pc[t]
  BY <1>0, <1>1, GotoPcs
<1>4. WorkerAt(g, w)'
  <2>1. Written(g, w)' = Written(g, w)
    BY <1>1 DEF Written
  <2>2. WorkerOK(pc'[w], ctrl[w], g.h, g.rd[w], g.rc[w], g.sn[w], Written(g, w))
    BY <1>0, <1>1, <1>2 DEF WorkerAt, WorkerOK, WorkerPcs
  <2> QED
    BY <1>1, <2>1, <2>2 DEF WorkerAt
<1>5. SkipAt(g, w)'
  <2>1. SkipOK(pc'[w], ctrl[w], w, g, skipTarget, Len(Q(w, w + 2)'))
    BY <1>0, <1>1, <1>2 DEF SkipAt, SkipOK
  <2>2. skipTarget' = skipTarget
    BY DEF skipTarget
  <2> QED
    BY <1>1, <2>1, <2>2 DEF SkipAt
<1>6. Ends(g)'
  <2>1. \A s \in Stages : why'[s] = why[s] /\ (pc'[s] = "over" <=> pc[s] = "over")
    BY <1>1, <1>2
  <2> QED
    BY <1>0, <1>1, <2>1, EndsKept
<1> QED
  BY <1>0, <1>1, <1>2, <1>4, <1>5, <1>6, FlowLocal

\* A stage dies on a fault of its own.
LEMMA FlowFault ==
    ASSUME TypeInv, NEW g, Flow(g), NEW s \in Stages, Fault(s)
    PROVE  Flow(g)'
<1>1. /\ pc[s] # "over" /\ End(s, "fault") /\ faults' = faults + 1
      /\ UNCHANGED <<session, sock, sent, got, ctrl, toWrite, pos, waves, request>>
  BY DEF Fault, bases, rootVars
<1>2. faults' # 0
  <2>1. faults \in Nat
    BY SessionFacts DEF TypeInv, TypeOK
  <2> QED
    BY <1>1, <2>1
<1> QED
  BY <1>1, <1>2, FlowEnds

\* The root stops at the assertion on positions of the prefill loop.
LEMMA FlowAssert ==
    ASSUME TypeInv, NEW g, Flow(g), PrefillChunk, pc'[0] = "over", session' = session
    PROVE  Flow(g)'
<1>1. /\ pc[0] = "prefill" /\ (Goto(0, "write") \/ End(0, "assert"))
      /\ UNCHANGED <<sock, sent, got>>
      /\ End(0, "assert") => UNCHANGED <<ctrl, toWrite>> \/ Goto(0, "write")
  BY DEF PrefillChunk, bases, Broadcast
<1>2. ~Goto(0, "write")
  BY GotoPcs, StageFacts
<1> QED
  BY <1>1, <1>2, FlowEnds, StageFacts

\* As long as nobody has failed, a node that is over has read its stop packet.
LEMMA Stopped ==
    ASSUME TypeInv, NEW g, Flow(g), faults = 0, PositionsInRange, NEW s \in Stages, pc[s] = "over"
    PROVE  /\ N(g) \in Nat /\ N(g) >= 1 /\ Stop(g.h[N(g)]) /\ N(g) \notin g.sk
           /\ s # 0 => g.rd[s] = N(g)
           /\ s = 0 => toWrite = {}
           /\ pc[0] \in {"write", "over"}
           /\ \A w \in Workers : pc[w] # "over" => g.rd[w] <= N(g) - 1
           /\ \A t \in Stages : ~(skipTarget # 0 /\ t = skipTarget) => g.sn[t] >= N(g) - 1
           /\ skipTarget # 0 => \A n \in Nat : g.sn[skipTarget] < n /\ n <= N(g) - 1 => n \in g.sk
<1>0. /\ g \in Ghosts /\ RootAt(g) /\ (\A w \in Workers : WorkerAt(g, w)) /\ Pace(g) /\ Ends(g)
  BY DEF Flow
<1>1. EndOK(g, s) /\ N(g) \in Nat
  BY <1>0, GhostTypes DEF Ends
<1>2. /\ N(g) >= 1 /\ Stop(g.h[N(g)]) /\ (s # 0 => g.rd[s] = N(g)) /\ (s = 0 => toWrite = {})
  BY <1>1 DEF EndOK
<1>3. N(g) \notin g.sk
  BY <1>0, <1>2, SkippedFacts DEF Stop
<1>4. pc[0] \in {"write", "over"}
  BY <1>0, <1>1, <1>2, RootFacts
<1>5. ASSUME NEW w \in Workers, pc[w] # "over" PROVE g.rd[w] <= N(g) - 1
  <2>1. /\ g.rd[w] \in Nat /\ Written(g, w) \in Nat /\ g.rd[w] <= Written(g, w) /\ Written(g, w) <= N(g)
    BY <1>0, WorkerBounds
  <2>2. g.rd[w] = 0 \/ ~Stop(g.h[g.rd[w]])
    BY <1>0, <1>5 DEF WorkerAt, WorkerOK
  <2>3. g.rd[w] # N(g)
    BY <1>1, <1>2, <2>2
  <2> QED
    BY <1>1, <2>1, <2>3
<1>6. /\ \A t \in Stages : ~(skipTarget # 0 /\ t = skipTarget) => g.sn[t] >= N(g) - 1
      /\ skipTarget # 0 => \A n \in Nat : g.sn[skipTarget] < n /\ n <= N(g) - 1 => n \in g.sk
  <2>1. PICK m \in 1..N(g) : m = N(g)
    BY <1>1, <1>2
  <2> QED
    BY <1>0, <1>2, <2>1, Settled
<1> QED
  BY <1>1, <1>2, <1>3, <1>4, <1>5, <1>6

\* The root finds a socket closed: another stage has ended early.
LEMMA FlowRootPeerClosed ==
    ASSUME TypeInv, NEW g, Flow(g), RootPeerClosed, session' = session
    PROVE  Flow(g)'
<1>0. /\ g \in Ghosts /\ RootAt(g) /\ (\A w \in Workers : WorkerAt(g, w))
  BY DEF Flow
<1>1. /\ End(0, "peer") /\ pc[0] # "over" /\ faults' = faults
      /\ UNCHANGED <<sock, sent, got, ctrl, toWrite, pos, waves, request>>
      /\ \/ pc[0] = "write" /\ \E w \in toWrite : pc[w] = "over"
         \/ pc[0] = "send" /\ pc[1] = "over"
         \/ pc[0] \in {"recv", "drain"} /\ pc[LastStage] = "over"
  BY DEF RootPeerClosed, bases, rootVars, SendBroken, RecvBroken, Over
<1>2. ASSUME faults = 0, PositionsInRange PROVE FALSE
  <2>1. CASE pc[0] = "write" /\ \E w \in toWrite : pc[w] = "over"
    <3>1. PICK w \in toWrite : pc[w] = "over"
      BY <2>1
    <3>2. w \in Workers /\ w \in Stages /\ w # 0
      BY <3>1, StageFacts DEF TypeInv, TypeOK
    <3>3. g.rd[w] = N(g) /\ N(g) \in Nat /\ N(g) >= 1
      BY <1>2, <3>1, <3>2, Stopped
    <3>4. Written(g, w) = N(g) - 1 /\ g.rd[w] <= Written(g, w)
      BY <1>0, <3>1, <3>2, WorkerBounds
    <3> QED
      BY <3>3, <3>4
  <2>2. CASE pc[0] \notin {"write", "over"}
    <3>1. 1 \in Stages /\ LastStage \in Stages
      BY StageFacts
    <3>2. PICK s \in Stages : pc[s] = "over"
      BY <1>1, <2>2, <3>1
    <3> QED
      BY <1>2, <2>2, <3>2, Stopped
  <2> QED
    BY <1>1, <2>1, <2>2
<1> QED
  BY <1>1, <1>2, FlowEnds, StageFacts

\* A worker that waits for rows behind a stop packet has been sent them.
LEMMA WaitingTarget ==
    ASSUME TypeInv, NEW g, Flow(g), faults = 0, PositionsInRange, NEW w \in Workers,
           pc[w] = "recv", pc[w - 1] = "over"
    PROVE  Incoming(w - 1, w)
<1>0. /\ g \in Ghosts /\ RootAt(g) /\ (\A v \in Workers : WorkerAt(g, v)) /\ Links(g)
  BY DEF Flow
<1>1. w - 1 \in Stages /\ w \in Stages /\ w \in Nat
  BY StageFacts
<1>2. /\ N(g) \in Nat /\ N(g) >= 1 /\ N(g) \notin g.sk /\ g.rd[w] <= N(g) - 1
      /\ \A t \in Stages : ~(skipTarget # 0 /\ t = skipTarget) => g.sn[t] >= N(g) - 1
      /\ (w - 1 = 0 => toWrite = {})
  BY <1>1, Stopped
<1>3. /\ g.rd[w] \in Nat /\ g.rc[w] \in Nat /\ g.sn[w] \in Nat /\ g.sn[w] <= g.rc[w]
      /\ g.rc[w] <= g.rd[w] /\ g.rd[w] <= g.sn[w] + 1 /\ (w \notin toWrite => Written(g, w) = N(g))
  BY <1>0, WorkerBounds
<1>4. g.rc[w] = g.rd[w] - 1
  BY <1>0 DEF WorkerAt, WorkerOK
<1>5. skipTarget # 0 /\ w = skipTarget
  BY <1>1, <1>2, <1>3, <1>4
<1>6. g.sn[w - 1] >= N(g) - 1 /\ g.sn[w - 1] \in Nat
  <2>1. w - 1 # skipTarget
    BY <1>1, <1>5
  <2> QED
    BY <1>0, <1>1, <1>2, <2>1, GhostTypes
<1>7. Len(Q(w - 1, w)) \in Nat /\ (Incoming(w - 1, w) <=> Len(Q(w - 1, w)) >= 1)
  BY <1>1, LinkSeq DEF TypeInv, TypeOK, LinkType
<1>8. CASE w = 1
  <2>1. Len(Q(0, 1)) = (Written(g, 1) + g.sn[0]) - (g.rd[1] + g.rc[1])
    BY <1>0, FirstLen DEF Links
  <2>2. Written(g, 1) = N(g) /\ g.sn[0] >= N(g) - 1 /\ g.sn[0] \in Nat
    BY <1>2, <1>3, <1>6, <1>8
  <2>3. g.rd[1] <= N(g) - 1 /\ g.rc[1] = g.rd[1] - 1 /\ g.rd[1] \in Nat /\ g.rc[1] \in Nat
    BY <1>2, <1>3, <1>4, <1>8
  <2>4. Len(Q(0, 1)) >= 1
    BY <1>2, <2>1, <2>2, <2>3, SMTT(30)
  <2> QED
    BY <1>7, <1>8, <2>4
<1>9. CASE w # 1
  <2>1. w >= 2
    BY <1>1, <1>9, StageFacts
  <2>2. Upto(g, w, skipTarget) = g.sn[w - 1]
    BY <1>2, <1>3, <1>4, <1>5, <1>6 DEF Upto
  <2>3. Len(Q(w - 1, w)) = Upto(g, w, skipTarget) - g.rc[w]
    BY <1>0, <2>1 DEF Links, LinkAt, ActRun
  <2> QED
    BY <1>2, <1>3, <1>4, <1>6, <1>7, <2>2, <2>3
<1> QED
  BY <1>8, <1>9

\* So does a worker.
LEMMA FlowWorkerPeerClosed ==
    ASSUME TypeInv, NEW g, Flow(g), NEW w \in Workers, WorkerPeerClosed(w), session' = session
    PROVE  Flow(g)'
<1>0. /\ g \in Ghosts /\ RootAt(g) /\ (\A v \in Workers : WorkerAt(g, v) /\ SkipAt(g, v)) /\ Links(g)
  BY DEF Flow
<1>1. /\ End(w, "peer") /\ faults' = faults
      /\ UNCHANGED <<sock, sent, got, ctrl, toWrite, pos, waves, request>>
      /\ \/ pc[w] = "ctrl" /\ RecvBroken(0, w)
         \/ pc[w] = "recv" /\ ~Polls(w) /\ RecvBroken(w - 1, w)
         \/ pc[w] \in {"marker", "bypass", "send"} /\ pc[SendTarget(w)] = "over"
  BY DEF WorkerPeerClosed, bases, rootVars, SendBroken, Over
<1>2. w \in Stages /\ w # 0 /\ w \in Nat /\ w >= 1 /\ w - 1 \in Stages /\ 0 \in Stages /\ LastStage \in Stages
  BY StageFacts
<1>3. ASSUME faults = 0, PositionsInRange PROVE FALSE
  <2>0. /\ g.rd[w] \in Nat /\ g.rc[w] \in Nat /\ g.sn[w] \in Nat /\ g.sn[w] <= g.rc[w]
        /\ g.rc[w] <= g.rd[w] /\ g.rd[w] <= g.sn[w] + 1 /\ (w \notin toWrite => Written(g, w) = N(g))
    BY <1>0, WorkerBounds
  <2>1. ASSUME NEW s \in Stages, pc[s] = "over", Incoming(w, s), s < w PROVE FALSE
    <3>1. N(g) \in Nat /\ g.rd[w] <= N(g) - 1
      BY <1>1, <1>3, <2>1, Stopped
    <3>2. Len(Q(w, s)) >= 1
      BY <1>2, <2>1, LinkSeq DEF TypeInv, TypeOK, LinkType
    <3>3. w = LastStage /\ s = 0
      BY <1>0, <1>2, <2>1, <3>2 DEF Links, BackLinks
    <3>4. Len(Q(LastStage, 0)) <= 1 /\ (Len(Q(LastStage, 0)) = 1 => g.sn[LastStage] = N(g))
      BY <1>0 DEF Links, LogitsAt, LogitsRun
    <3>5. Len(Q(LastStage, 0)) \in Nat
      BY <1>2, LinkSeq DEF TypeInv, TypeOK, LinkType
    <3>6. Len(Q(LastStage, 0)) = 1
      <4>1. Len(Q(LastStage, 0)) >= 1
        BY <3>2, <3>3
      <4>2. Len(Q(LastStage, 0)) <= 1
        BY <3>4
      <4>3. \A n \in Nat : n >= 1 /\ n <= 1 => n = 1
        OBVIOUS
      <4> QED
        BY <3>5, <4>1, <4>2, <4>3, Zenon
    <3>7. g.sn[w] = N(g)
      BY <3>3, <3>4, <3>6
    <3> QED
      BY <2>0, <3>1, <3>7
  <2>2. CASE pc[w] = "ctrl" /\ RecvBroken(0, w)
    <3>1. pc[0] = "over" /\ ~Incoming(0, w)
      BY <1>2, <2>1, <2>2 DEF RecvBroken, Over
    <3>2. N(g) \in Nat /\ g.rd[w] <= N(g) - 1 /\ toWrite = {} /\ N(g) >= 1
      BY <1>2, <1>3, <2>2, <3>1, Stopped
    <3>3. g.rc[w] = g.rd[w]
      BY <1>0, <2>0, <2>2 DEF WorkerAt, WorkerOK
    <3>4. Len(Q(0, w)) = 0
      <4>1. Len(Q(0, w)) \in Nat /\ (Incoming(0, w) <=> Len(Q(0, w)) >= 1)
        BY <1>2, LinkSeq DEF TypeInv, TypeOK, LinkType
      <4> QED
        BY <3>1, <4>1
    <3>5. CASE w = 1
      <4>1. Len(Q(0, 1)) = (Written(g, 1) + g.sn[0]) - (g.rd[1] + g.rc[1])
        BY <1>0, FirstLen DEF Links
      <4>2. g.sn[0] \in Nat /\ g.sn[0] >= N(g) - 1
        BY <1>0, RootFacts
      <4> QED
        BY <2>0, <3>2, <3>3, <3>4, <3>5, <4>1, <4>2
    <3>6. CASE w # 1
      <4>1. w >= 2
        BY <1>2, <3>6
      <4>2. Len(Q(0, w)) = Written(g, w) - g.rd[w]
        BY <1>0, <4>1 DEF Links, LinkAt, CtrlRun
      <4> QED
        BY <2>0, <3>2, <3>4, <4>2
    <3> QED
      BY <3>5, <3>6
  <2>3. CASE pc[w] = "recv" /\ ~Polls(w) /\ RecvBroken(w - 1, w)
    <3>1. pc[w - 1] = "over"
      BY <2>3 DEF RecvBroken, Over
    <3>2. Incoming(w - 1, w)
      BY <1>3, <2>3, <3>1, WaitingTarget
    <3>3. Incoming(w, w - 1)
      BY <2>3, <3>2 DEF RecvBroken
    <3> QED
      BY <1>2, <2>1, <3>1, <3>3
  <2>4. CASE pc[w] \in {"marker", "bypass", "send"} /\ pc[SendTarget(w)] = "over"
    <3>1. skipTarget \in Nat /\ (skipTarget # 0 => skipTarget \in Stages /\ skipTarget + 1 \in Stages)
      BY TargetFacts
    <3>2. pc[w] \in {"marker", "bypass"} => w + 1 = skipTarget
      BY <1>0, <2>4 DEF SkipAt, SkipOK
    <3>3. PICK t : t = SendTarget(w)
      OBVIOUS
    <3>4. t \in Stages /\ pc[t] = "over"
      <4>1. pc[w] = "marker" => t = skipTarget
        BY <3>3 DEF SendTarget
      <4>2. pc[w] = "bypass" => t = skipTarget + 1
        BY <3>3 DEF SendTarget
      <4>3. pc[w] = "send" => t = IF w = LastStage THEN 0 ELSE w + 1
        BY <3>3 DEF SendTarget
      <4>4. w # LastStage => w + 1 \in Stages
        BY StageFacts
      <4> QED
        BY <1>2, <2>4, <3>1, <3>2, <3>3, <4>1, <4>2, <4>3, <4>4
    <3>5. /\ N(g) \in Nat /\ N(g) >= 1 /\ g.rd[w] <= N(g) - 1 /\ (t # 0 => g.rd[t] = N(g))
          /\ \A u \in Stages : ~(skipTarget # 0 /\ u = skipTarget) => g.sn[u] >= N(g) - 1
          /\ skipTarget # 0 => \A n \in Nat : g.sn[skipTarget] < n /\ n <= N(g) - 1 => n \in g.sk
      BY <1>2, <1>3, <2>4, <3>4, Stopped
    <3>6. CASE pc[w] \in {"send", "marker"}
      <4>1. g.sn[w] = g.rd[w] - 1
        BY <1>0, <3>6 DEF WorkerAt, WorkerOK
      <4>2. skipTarget # 0 /\ w = skipTarget
        BY <1>2, <2>0, <3>5, <4>1
      <4>3. pc[w] = "send"
        BY <1>2, <3>2, <3>6, <4>2
      <4>4. g.rd[w] \notin g.sk
        BY <1>0, <4>2, <4>3 DEF SkipAt, SkipOK
      <4> QED
        BY <2>0, <3>5, <4>1, <4>2, <4>4
    <3>7. CASE pc[w] = "bypass"
      <4>1. t = w + 2 /\ t = skipTarget + 1
        BY <1>2, <3>2, <3>3, <3>7, <3>1 DEF SendTarget
      <4>2. g.rc[t] < g.rd[w]
        BY <1>0, <3>7, <4>1 DEF SkipAt, SkipOK
      <4>3. t # 0 /\ t \in Workers
        BY <1>2, <3>4, <4>1, StageFacts
      <4>4. /\ g.rd[t] \in Nat /\ g.rc[t] \in Nat /\ g.sn[t] \in Nat /\ g.sn[t] <= g.rc[t]
            /\ g.rd[t] <= g.sn[t] + 1
        BY <1>0, <4>3, WorkerBounds
      <4> QED
        BY <2>0, <3>5, <4>2, <4>3, <4>4
    <3> QED
      BY <2>4, <3>6, <3>7
  <2> QED
    BY <1>1, <2>2, <2>3, <2>4
<1> QED
  BY <1>1, <1>2, <1>3, FlowEnds

\* The post-target stage gives up polling: both its sources have ended.
LEMMA FlowPollTimeout ==
    ASSUME TypeInv, NEW g, Flow(g), NEW w \in Workers, PollTimeout(w), session' = session
    PROVE  Flow(g)'
<1>0. /\ g \in Ghosts /\ RootAt(g) /\ (\A v \in Workers : WorkerAt(g, v) /\ SkipAt(g, v)) /\ Links(g)
  BY DEF Flow
<1>1. /\ End(w, "timeout") /\ faults' = faults /\ pc[w] = "recv" /\ Polls(w)
      /\ UNCHANGED <<sock, sent, got, ctrl, toWrite, pos, waves, request>>
      /\ \E src \in PolledSources : pc[src] = "over"
  BY DEF PollTimeout, bases, rootVars, Over
<1>2. w \in Stages /\ w # 0 /\ skipTarget # 0 /\ w = skipTarget + 1 /\ w # skipTarget
      /\ PolledSources \subseteq Stages
  <2>1. skipTarget # 0 /\ w = skipTarget + 1 /\ PolledSources = {skipTarget - 1, skipTarget}
    BY <1>1 DEF Polls, PostTargetStage, SkipEnabled, PolledSources
  <2>2. skipTarget \in Workers /\ skipTarget \in Nat
    BY <2>1, TargetFacts
  <2> QED
    BY <2>1, <2>2, StageFacts
<1>3. ASSUME faults = 0, PositionsInRange PROVE FALSE
  <2>0. /\ g.rd[w] \in Nat /\ g.rc[w] \in Nat /\ g.sn[w] \in Nat /\ g.sn[w] <= g.rc[w]
    BY <1>0, WorkerBounds
  <2>1. g.rc[w] = g.rd[w] - 1
    BY <1>0, <1>1 DEF WorkerAt, WorkerOK
  <2>2. PICK s \in Stages : pc[s] = "over"
    BY <1>1, <1>2
  <2>3. N(g) \in Nat /\ g.rd[w] <= N(g) - 1 /\ g.sn[w] >= N(g) - 1
    BY <1>1, <1>2, <1>3, <2>2, Stopped
  <2> QED
    BY <2>0, <2>1, <2>3
<1> QED
  BY <1>1, <1>2, <1>3, FlowEnds

-----------------------------------------------------------------------------
(* Steps that send or receive.                                             *)

\* Logits wait at the root for the last packet only.
LEMMA LogitsCases ==
    ASSUME TypeInv, NEW g, LogitsAt(g)
    PROVE  /\ Len(Q(LastStage, 0)) \in Nat
           /\ \/ Len(Q(LastStage, 0)) = 0
              \/ /\ Len(Q(LastStage, 0)) = 1 /\ N(g) > 0 /\ g.sn[LastStage] = N(g)
                 /\ Answers(g.h[N(g)]) /\ IsAct(Q(LastStage, 0)[1], g.h[N(g)], 1, FALSE)
<1>1. Len(Q(LastStage, 0)) \in Nat
  BY LinkSeq, StageFacts DEF TypeInv, TypeOK, LinkType
<1>2. Len(Q(LastStage, 0)) <= 1
  BY DEF LogitsAt, LogitsRun
<1>3. \A n \in Nat : n <= 1 => n = 0 \/ n = 1
  OBVIOUS
<1>4. Len(Q(LastStage, 0)) = 0 \/ Len(Q(LastStage, 0)) = 1
  BY <1>1, <1>2, <1>3, Zenon
<1>5. Len(Q(LastStage, 0)) = 1 => /\ N(g) > 0 /\ g.sn[LastStage] = N(g) /\ Answers(g.h[N(g)])
                                  /\ IsAct(Q(LastStage, 0)[1], g.h[N(g)], 1, FALSE)
  BY DEF LogitsAt, LogitsRun
<1> QED
  BY <1>1, <1>4, <1>5

\* Rows wait on the link around the target for the last packet only.
LEMMA BypassCases ==
    ASSUME TypeInv, NEW g, BypassAt(g), NEW k, k = skipTarget, k >= 2
    PROVE  /\ Len(Q(k - 1, k + 1)) \in Nat
           /\ \/ Len(Q(k - 1, k + 1)) = 0
              \/ /\ Len(Q(k - 1, k + 1)) = 1 /\ N(g) \in g.sk /\ g.rc[k + 1] < N(g)
                 /\ g.sn[k - 1] = N(g) /\ IsAct(Q(k - 1, k + 1)[1], g.h[N(g)], 1, TRUE)
<1>0. BypassRun(Q(k - 1, k + 1), g, k)
  BY DEF BypassAt
<1>1. Len(Q(k - 1, k + 1)) \in Nat
  <2>1. k - 1 \in Stages /\ k + 1 \in Stages
    BY TargetFacts
  <2> QED
    BY <2>1, LinkSeq DEF TypeInv, TypeOK, LinkType
<1>2. Len(Q(k - 1, k + 1)) <= 1
  BY <1>0 DEF BypassRun
<1>3. \A n \in Nat : n <= 1 => n = 0 \/ n = 1
  OBVIOUS
<1>4. Len(Q(k - 1, k + 1)) = 0 \/ Len(Q(k - 1, k + 1)) = 1
  BY <1>1, <1>2, <1>3, Zenon
<1>5. Len(Q(k - 1, k + 1)) = 1 =>
        /\ N(g) \in g.sk /\ g.rc[k + 1] < N(g)
        /\ g.sn[k - 1] = N(g) /\ IsAct(Q(k - 1, k + 1)[1], g.h[N(g)], 1, TRUE)
  BY <1>0 DEF BypassRun
<1> QED
  BY <1>1, <1>4, <1>5

\* The two ways to establish what the logits link holds.
LEMMA LogitsSet ==
    ASSUME NEW q, NEW g,
           \/ Len(q) = 0
           \/ Len(q) = 1 /\ N(g) > 0 /\ g.sn[LastStage] = N(g) /\ Answers(g.h[N(g)])
                /\ IsAct(q[1], g.h[N(g)], 1, FALSE)
    PROVE  LogitsRun(q, g)
<1>1. 0 <= 1 /\ 1 <= 1 /\ 0 # 1
  OBVIOUS
<1>2. CASE Len(q) = 0
  <2>1. Len(q) <= 1 /\ Len(q) # 1
    BY <1>1, <1>2
  <2> QED
    BY <2>1 DEF LogitsRun
<1>3. CASE Len(q) # 0
  <2>1. Len(q) <= 1
    BY <1>1, <1>3
  <2> QED
    BY <1>3, <2>1 DEF LogitsRun
<1> QED
  BY <1>2, <1>3

\* The same for the link around the target.
LEMMA BypassSet ==
    ASSUME NEW q, NEW g, NEW k,
           \/ Len(q) = 0
           \/ Len(q) = 1 /\ N(g) \in g.sk /\ g.rc[k + 1] < N(g) /\ g.sn[k - 1] = N(g)
                /\ IsAct(q[1], g.h[N(g)], 1, TRUE)
    PROVE  BypassRun(q, g, k)
<1>1. 0 <= 1 /\ 1 <= 1 /\ 0 # 1
  OBVIOUS
<1>2. CASE Len(q) = 0
  <2>1. Len(q) <= 1 /\ Len(q) # 1
    BY <1>1, <1>2
  <2> QED
    BY <2>1 DEF BypassRun
<1>3. CASE Len(q) # 0
  <2>1. Len(q) <= 1
    BY <1>1, <1>3
  <2> QED
    BY <1>3, <2>1 DEF BypassRun
<1> QED
  BY <1>2, <1>3

\* Node s moves, and the socket from i to j is the only one that changes.
Moved(g, g2, i, j, s) ==
    /\ g2 \in Ghosts /\ session' = session /\ toWrite' = toWrite /\ g2.h = g.h /\ g2.sk = g.sk
    /\ \A a, b \in Stages : a # i \/ b # j => Q(a, b)' = Q(a, b)
    /\ \A t \in Stages : t # s => pc'[t] = pc[t] /\ ctrl'[t] = ctrl[t] /\ g2.sn[t] = g.sn[t]
    /\ \A t \in Workers : t # s => g2.rd[t] = g.rd[t] /\ g2.rc[t] = g.rc[t]
    /\ j < i => i = LastStage /\ j = 0
    /\ s # 0 => UNCHANGED <<pos, waves, request>>

\* What is then left to show.
Owed(g2, i, j, s, k) ==
    /\ s = 0 => RootAt(g2)' /\ Wave(g2)'
    /\ s # 0 => WorkerAt(g2, s)' /\ SkipAt(g2, s)'
    /\ \A w \in Workers : w >= 2 /\ ((i = 0 /\ j = w) \/ (i = w - 1 /\ j = w) \/ w = s \/ w - 1 = s)
                            => LinkAt(g2, w)'
    /\ (i = 0 /\ j = 1) \/ s = 0 \/ s = 1 => FirstAt(g2)'
    /\ k >= 2 /\ (s = k - 1 \/ s = k + 1 \/ (i = k - 1 /\ j = k + 1)) => BypassAt(g2)'
    /\ (i = LastStage /\ j = 0) \/ s = LastStage => LogitsAt(g2)'
    /\ (i = LastStage /\ j = 0) \/ s = LastStage \/ s = 0 => Quiet(g2)'
    /\ \A w \in Workers : w # s /\ pc[w] = "bypass" /\ (s = w + 2 \/ (i = w /\ j = w + 2))
                            => SkipAt(g2, w)'
    /\ Chains' /\ Pace(g2)' /\ Ends(g2)'

\* The facts of a step that moves one counter, put together.
LEMMA FlowStep ==
    ASSUME TypeInv, NEW g, NEW g2, Flow(g), NEW i \in Stages, NEW j \in Stages, NEW s \in Stages,
           NEW k, k = skipTarget, Moved(g, g2, i, j, s), Owed(g2, i, j, s, k)
    PROVE  Flow(g2)'
<1> USE DEF Moved, Owed
<1>0. /\ g \in Ghosts /\ RootAt(g) /\ (\A w \in Workers : WorkerAt(g, w) /\ SkipAt(g, w))
      /\ Links(g) /\ Quiet(g) /\ Wave(g)
  BY DEF Flow
<1>2. /\ Workers' = Workers /\ 0 \in Stages /\ LastStage \in Stages /\ LastStage # 0 /\ 1 \in Workers
      /\ \A w \in Workers : w \in Stages /\ w # 0 /\ w - 1 \in Stages /\ w \in Nat /\ w >= 1
  BY StageFacts DEF Workers
<1>3. RootAt(g2)' /\ Wave(g2)'
  <2>1. CASE s = 0
    BY <2>1
  <2>2. CASE s # 0
    <3>1. /\ pc'[0] = pc[0] /\ ctrl'[0] = ctrl[0] /\ pos' = pos /\ waves' = waves /\ request' = request
          /\ g2.sn[0] = g.sn[0]
      BY <1>2, <2>2
    <3>2. RootAt(g2)'
      BY <1>0, <3>1, RootKept
    <3>4. Wave(g2)'
      BY <1>0, <3>1, WaveKept
    <3> QED
      BY <3>2, <3>4
  <2> QED
    BY <2>1, <2>2
<1>4. ASSUME NEW w \in Workers PROVE WorkerAt(g2, w)' /\ SkipAt(g2, w)'
  <2>1. CASE w = s
    BY <1>2, <2>1
  <2>2. CASE w # s
    <3>1. pc'[w] = pc[w] /\ ctrl'[w] = ctrl[w] /\ g2.sn[w] = g.sn[w] /\ g2.rd[w] = g.rd[w] /\ g2.rc[w] = g.rc[w]
      BY <1>2, <2>2
    <3>2. WorkerAt(g2, w)'
      BY <1>0, <3>1, WorkerKept
    <3>3. SkipAt(g2, w)'
      <4>1. CASE pc[w] = "bypass" /\ (s = w + 2 \/ (i = w /\ j = w + 2))
        BY <2>2, <4>1
      <4>2. CASE pc[w] = "bypass" /\ ~(s = w + 2 \/ (i = w /\ j = w + 2))
        <5>1. w + 1 = skipTarget
          BY <1>0, <4>2 DEF SkipAt, SkipOK
        <5>2. w + 2 \in Workers /\ w + 2 \in Stages
          <6>1. skipTarget # 0
            BY <1>2, <5>1
          <6>2. skipTarget + 1 \in Workers /\ skipTarget + 1 \in Stages
            BY <6>1, TargetFacts
          <6>3. skipTarget + 1 = w + 2
            BY <1>2, <5>1
          <6> QED
            BY <6>2, <6>3
        <5>3. Q(w, w + 2)' = Q(w, w + 2) /\ g2.rc[w + 2] = g.rc[w + 2]
          BY <1>2, <4>2, <5>2
        <5> QED
          BY <1>0, <3>1, <5>3, SkipKept
      <4>3. CASE pc[w] # "bypass"
        BY <1>0, <3>1, <4>3, SkipKept
      <4> QED
        BY <4>1, <4>2, <4>3
    <3> QED
      BY <3>2, <3>3
  <2> QED
    BY <2>1, <2>2
<1>5. ASSUME NEW w \in Workers, w >= 2 PROVE LinkAt(g2, w)'
  <2>1. CASE (i = 0 /\ j = w) \/ (i = w - 1 /\ j = w) \/ w = s \/ w - 1 = s
    BY <1>5, <2>1
  <2>2. CASE ~((i = 0 /\ j = w) \/ (i = w - 1 /\ j = w) \/ w = s \/ w - 1 = s)
    <3>1. Q(0, w)' = Q(0, w) /\ Q(w - 1, w)' = Q(w - 1, w)
      BY <1>2, <2>2
    <3>2. g2.sn[w - 1] = g.sn[w - 1] /\ g2.rd[w] = g.rd[w] /\ g2.rc[w] = g.rc[w]
      BY <1>2, <2>2
    <3>3. LinkAt(g, w)
      BY <1>0, <1>5 DEF Links
    <3> QED
      BY <3>1, <3>2, <3>3, LinkKept
  <2> QED
    BY <2>1, <2>2
<1>6. FirstAt(g2)'
  <2>1. CASE (i = 0 /\ j = 1) \/ s = 0 \/ s = 1
    BY <2>1
  <2>2. CASE ~((i = 0 /\ j = 1) \/ s = 0 \/ s = 1)
    <3>1. Q(0, 1)' = Q(0, 1)
      BY <1>2, <2>2
    <3>2. g2.sn[0] = g.sn[0] /\ g2.rd[1] = g.rd[1] /\ g2.rc[1] = g.rc[1]
      BY <1>2, <2>2
    <3> QED
      BY <1>0, <3>1, <3>2, FirstKept DEF Links
  <2> QED
    BY <2>1, <2>2
<1>7. BypassAt(g2)'
  <2>1. CASE k >= 2 /\ (s = k - 1 \/ s = k + 1 \/ (i = k - 1 /\ j = k + 1))
    BY <2>1
  <2>2. CASE ~(k >= 2 /\ (s = k - 1 \/ s = k + 1 \/ (i = k - 1 /\ j = k + 1)))
    <3>1. k \in Nat /\ (k >= 2 => k - 1 \in Stages /\ k + 1 \in Stages /\ k + 1 \in Workers)
      BY TargetFacts
    <3>2. k >= 2 => /\ Q(k - 1, k + 1)' = Q(k - 1, k + 1)
                    /\ g2.rc[k + 1] = g.rc[k + 1] /\ g2.sn[k - 1] = g.sn[k - 1]
      BY <2>2, <3>1
    <3> QED
      BY <1>0, <3>2, BypassKept DEF Links
  <2> QED
    BY <2>1, <2>2
<1>8. LogitsAt(g2)' /\ Quiet(g2)'
  <2>1. CASE (i = LastStage /\ j = 0) \/ s = LastStage
    BY <2>1
  <2>2. CASE ~((i = LastStage /\ j = 0) \/ s = LastStage)
    <3>1. Q(LastStage, 0)' = Q(LastStage, 0) /\ g2.sn[LastStage] = g.sn[LastStage]
      BY <1>2, <2>2
    <3>2. LogitsAt(g2)'
      BY <1>0, <3>1, LogitsKept DEF Links
    <3>3. s # 0 => Quiet(g2)'
      BY <1>0, <1>2, <3>1, QuietKept
    <3> QED
      BY <3>2, <3>3
  <2> QED
    BY <2>1, <2>2
<1>9. BackLinks'
  BY <1>0, BackKept DEF Links
<1>12. Links(g2)'
  BY <1>2, <1>5, <1>6, <1>7, <1>8, <1>9 DEF Links
<1> QED
  BY <1>2, <1>3, <1>4, <1>8, <1>12 DEF Flow

\* What completing a packet does to the counters,
LEMMA SentValues ==
    ASSUME NEW g \in Ghosts, NEW g2, NEW s \in Stages, GSent(g, g2, s)
    PROVE  /\ g2 \in Ghosts /\ g2.h = g.h /\ g2.sk = g.sk /\ g2.rd = g.rd /\ g2.rc = g.rc /\ N(g2) = N(g)
           /\ g2.sn[s] = g.sn[s] + 1 /\ g.sn[s] \in Nat
           /\ \A t \in Stages : t # s => g2.sn[t] = g.sn[t]
<1>1. g.sn \in [Stages -> Nat]
  BY GhostTypes
<1> QED
  BY <1>1 DEF GSent, N

\* what reading a packet does,
LEMMA ReadValues ==
    ASSUME NEW g \in Ghosts, NEW g2, NEW w \in Workers, GRead(g, g2, w)
    PROVE  /\ g2 \in Ghosts /\ g2.h = g.h /\ g2.sk = g.sk /\ g2.sn = g.sn /\ g2.rc = g.rc /\ N(g2) = N(g)
           /\ g2.rd[w] = g.rd[w] + 1 /\ g.rd[w] \in Nat
           /\ \A t \in Workers : t # w => g2.rd[t] = g.rd[t]
<1>1. g.rd \in [Workers -> Nat]
  BY GhostTypes
<1> QED
  BY <1>1 DEF GRead, N

\* what receiving rows does,
LEMMA RecvValues ==
    ASSUME NEW g \in Ghosts, NEW g2, NEW w \in Workers, GRecv(g, g2, w)
    PROVE  /\ g2 \in Ghosts /\ g2.h = g.h /\ g2.sk = g.sk /\ g2.sn = g.sn /\ g2.rd = g.rd /\ N(g2) = N(g)
           /\ g2.rc[w] = g.rc[w] + 1 /\ g.rc[w] \in Nat
           /\ \A t \in Workers : t # w => g2.rc[t] = g.rc[t]
<1>1. g.rc \in [Workers -> Nat]
  BY GhostTypes
<1> QED
  BY <1>1 DEF GRecv, N

\* and what passing a packet over does.
LEMMA SkipValues ==
    ASSUME NEW g \in Ghosts, NEW g2, NEW w \in Workers, GSkip(g, g2, w)
    PROVE  /\ g2 \in Ghosts /\ g2.h = g.h /\ g2.sk = g.sk /\ g2.rd = g.rd /\ N(g2) = N(g)
           /\ g2.rc[w] = g.rc[w] + 1 /\ g.rc[w] \in Nat
           /\ \A t \in Workers : t # w => g2.rc[t] = g.rc[t]
           /\ g2.sn[w] = g.sn[w] + 1 /\ g.sn[w] \in Nat
           /\ \A t \in Stages : t # w => g2.sn[t] = g.sn[t]
<1>1. g.rc \in [Workers -> Nat] /\ g.sn \in [Stages -> Nat] /\ w \in Stages
  BY GhostTypes, StageFacts
<1>2. /\ g2.rc[w] = g.rc[w] + 1 /\ g.rc[w] \in Nat /\ \A t \in Workers : t # w => g2.rc[t] = g.rc[t]
  BY <1>1 DEF GSkip
<1>3. /\ g2.sn[w] = g.sn[w] + 1 /\ g.sn[w] \in Nat /\ \A t \in Stages : t # w => g2.sn[t] = g.sn[t]
  BY <1>1 DEF GSkip
<1> QED
  BY <1>2, <1>3 DEF GSkip, N

\* The rows a stage sends are those of its own packet.
LEMMA SentIsAct ==
    ASSUME NEW m, NEW i, NEW j, NEW rows, NEW bypass, SentMessage(m, i, j, rows, bypass)
    PROVE  IsAct(m, ctrl[i], rows, bypass)
BY DEF SentMessage, IsAct

\* The root sends the rows of its packet to the first worker.
LEMMA FlowRootSend ==
    ASSUME TypeInv, NEW g, NEW g2, Flow(g), RootSend, session' = session, GSent(g, g2, 0)
    PROVE  Flow(g2)'
<1>0. /\ g \in Ghosts /\ RootAt(g) /\ (\A w \in Workers : WorkerAt(g, w) /\ SkipAt(g, w))
      /\ Links(g) /\ Chains /\ Pace(g) /\ Quiet(g) /\ Wave(g) /\ Ends(g)
  BY DEF Flow
<1>1. /\ pc[0] = "send" /\ SendRows(0, 1, ctrl[0].batchSize, FALSE)
      /\ UNCHANGED <<why, ctrl, toWrite, request, faults>>
      /\ InWave => Goto(0, "prefill") /\ pos' = pos + ctrl[0].batchSize /\ waves' = waves + 1
      /\ ~InWave => Goto(0, "recv") /\ pos' = pos /\ waves' = waves
  BY DEF RootSend
<1>2. 0 \in Stages /\ 1 \in Stages /\ 1 \in Workers /\ 0 # LastStage /\ 1 # 0
  BY StageFacts
<1>3. ctrl[0].batchSize \in Nat /\ waves \in Nat /\ pos \in Nat
  BY <1>2, PacketFields DEF TypeInv, TypeOK
<1>4. /\ g2 \in Ghosts /\ g2.h = g.h /\ g2.sk = g.sk /\ g2.rd = g.rd /\ g2.rc = g.rc /\ N(g2) = N(g)
      /\ g2.sn[0] = g.sn[0] + 1 /\ g.sn[0] \in Nat
      /\ \A t \in Stages : t # 0 => g2.sn[t] = g.sn[t]
  BY <1>0, <1>2, SentValues
<1>5. /\ N(g) \in Nat /\ N(g) >= 1 /\ toWrite = {} /\ ctrl[0] = g.h[N(g)] /\ g.sn[0] = N(g) - 1
      /\ \A m \in 1..N(g) : ~Stop(g.h[m])
  BY <1>0, <1>1, RootFacts
<1>6. /\ pc'[0] = IF InWave THEN "prefill" ELSE "recv"
      /\ \A t \in Stages : t # 0 => pc'[t] = pc[t]
  BY <1>1, <1>2, GotoPcs
<1>7. PICK m \in Message : SentMessage(m, 0, 1, ctrl[0].batchSize, FALSE)
  BY <1>1, <1>2, <1>3, SentRows DEF TypeInv
<1>8. got' = got
  BY <1>1 DEF SendRows
<1>9. /\ Grown(Q(0, 1), Q(0, 1)', m)
      /\ \A a, b \in Stages : a # 0 \/ b # 1 => Q(a, b)' = Q(a, b)
  BY <1>2, <1>7, SentGrows DEF SentMessage
<1>10. Chains'
  BY <1>0, <1>2, <1>3, <1>7, <1>8, ChainsSent
<1>11. FirstAt(g2)'
  <2>1. /\ g.rd[1] \in Nat /\ g.rc[1] \in Nat /\ Written(g, 1) = N(g)
    BY <1>0, <1>2, <1>5, WorkerBounds
  <2>2. FirstRun(Q(0, 1), g.h, g.rd[1] + g.rc[1], Written(g, 1) + g.sn[0])
    BY <1>0 DEF Links, FirstAt
  <2>3. PICK a \in Nat, b \in Nat : a = g.rd[1] + g.rc[1] /\ b = Written(g, 1) + g.sn[0]
    BY <1>4, <1>5, <2>1
  <2>4. b + 1 = 2 * N(g) /\ N(g) \in 1..N(g) /\ Len(g.h) = N(g)
    <3>1. b + 1 = 2 * N(g) /\ N(g) \in 1..N(g)
      BY <1>5, <2>1, <2>3
    <3> QED
      BY <3>1 DEF N
  <2>5. RowsFor(m, g.h[N(g)], FALSE)
    BY <1>5, <1>7, SentIsAct DEF RowsFor
  <2>6. FirstMsg(m, b + 1, g.h)
    <3>1. FirstMsg(m, 2 * N(g), g.h)
      BY <1>5, <2>4, <2>5, FirstMessages
    <3> QED
      BY <2>4, <3>1
  <2>7. FirstRun(Q(0, 1)', g.h, a, b + 1)
    BY <1>9, <2>2, <2>3, <2>6, FirstRunGrows
  <2>8. b + 1 = Written(g, 1) + g2.sn[0] /\ a = g2.rd[1] + g2.rc[1]
    BY <1>4, <1>5, <2>1, <2>3
  <2>9. Written(g2, 1)' = Written(g, 1)
    BY <1>1, <1>4 DEF Written
  <2> QED
    BY <1>4, <2>7, <2>8, <2>9 DEF FirstAt
<1>12. RootAt(g2)'
  BY <1>0, <1>1, <1>4, <1>5, <1>6 DEF RootAt, RootOK, RootPcs
<1>13. Wave(g2)'
  <2>1. useWave' = useWave /\ (InWave)' = InWave /\ schedTotal' = schedTotal
    BY <1>1 DEF useWave, InWave, schedTotal, realTotal, RealTotal
  <2>2. CASE InWave
    <3>1. /\ pc'[0] = "prefill" /\ pos' = pos + ctrl[0].batchSize /\ waves' > 0
          /\ useWave /\ g.h[N(g)].phase = "prefill"
      BY <1>1, <1>3, <1>5, <1>6, <2>2 DEF InWave
    <3>2. g.h[N(g)].isLastPrefillChunk => pos' >= schedTotal
      <4>1. ~Stop(g.h[N(g)])
        BY <1>5
      <4> QED
        BY <1>0, <1>1, <1>5, <3>1, <4>1 DEF Wave
    <3> QED
      BY <1>4, <2>1, <3>1, <3>2 DEF Wave
  <2>3. CASE ~InWave
    BY <1>6, <2>1, <2>3 DEF Wave
  <2> QED
    BY <2>2, <2>3
<1>14. Quiet(g2)'
  <2>1. pc'[0] # "decode" /\ (pc'[0] = "prefill" => useWave)
    BY <1>6 DEF InWave
  <2>2. useWave' = useWave
    BY DEF useWave
  <2> QED
    BY <2>1, <2>2 DEF Quiet
<1>15. Pace(g2)'
  <2>1. PaceOK(g2, skipTarget, useWave)
    BY <1>0, <1>2, PaceSent, TargetFacts DEF Pace
  <2> QED
    BY <2>1 DEF Pace, skipTarget, useWave
<1>16. Ends(g2)'
  <2>1. \A s \in Stages : why'[s] = why[s] /\ (pc'[s] = "over" <=> pc[s] = "over")
    BY <1>1, <1>6
  <2> QED
    BY <1>0, <1>1, <1>4, <2>1, EndsKept
<1>17. PICK k : k = skipTarget
  OBVIOUS
<1>18. /\ \A w \in Workers : w >= 2 => w - 1 # 0 /\ w # 0 /\ w # 1
       /\ k >= 2 => k - 1 # 0 /\ k + 1 # 0
       /\ \A w \in Workers : w + 2 # 0 /\ w # 0
  BY <1>17, TargetFacts, StageFacts
<1>19. Moved(g, g2, 0, 1, 0)
  BY <1>1, <1>2, <1>4, <1>6, <1>9 DEF Moved
<1>20. Owed(g2, 0, 1, 0, k)
  BY <1>2, <1>10, <1>11, <1>12, <1>13, <1>14, <1>15, <1>16, <1>18 DEF Owed
<1> QED
  BY <1>2, <1>17, <1>19, <1>20, FlowStep

\* The root reads the logits: they are those of the latest packet.
LEMMA FlowLogitsRead ==
    ASSUME TypeInv, NEW g, Flow(g), session' = session, NEW n \in Nat, n >= 1,
           Incoming(LastStage, 0), RecvRows(LastStage, 0, n),
           UNCHANGED <<ctrl, toWrite, request, waves, faults>>,
           pc[0] \in {"recv", "drain"},
           Decodes(LastStage, 0, n) => /\ Goto(0, IF pc[0] = "recv" THEN LoopHead ELSE "decode")
                                       /\ why' = why
    PROVE  Flow(g)' /\ Decodes(LastStage, 0, n) /\ IsAct(Q(LastStage, 0)[1], g.h[N(g)], 1, FALSE)
           /\ N(g) \in Nat /\ N(g) > 0
<1>0. /\ g \in Ghosts /\ RootAt(g) /\ (\A w \in Workers : WorkerAt(g, w) /\ SkipAt(g, w))
      /\ Links(g) /\ Chains /\ Pace(g) /\ Quiet(g) /\ Wave(g) /\ Ends(g)
  BY DEF Flow
<1>1. 0 \in Stages /\ LastStage \in Stages /\ LastStage # 0 /\ LastStage \in Nat
  BY StageFacts
<1>2. Len(Q(LastStage, 0)) \in Nat /\ Len(Q(LastStage, 0)) >= 1
  BY <1>1, LinkSeq DEF TypeInv, TypeOK, LinkType
<1>3. /\ Len(Q(LastStage, 0)) = 1 /\ N(g) > 0 /\ g.sn[LastStage] = N(g)
      /\ Answers(g.h[N(g)]) /\ IsAct(Q(LastStage, 0)[1], g.h[N(g)], 1, FALSE)
  <2>1. Len(Q(LastStage, 0)) # 0
    BY <1>2
  <2> QED
    BY <1>0, <2>1, LogitsCases DEF Links
<1>4. Decodes(LastStage, 0, n) /\ Chains'
  BY <1>0, <1>1, <1>3, RowsDecode
<1>5. /\ pc'[0] = IF pc[0] = "recv" THEN LoopHead ELSE "decode"
      /\ \A t \in Stages : t # 0 => pc'[t] = pc[t]
      /\ why' = why
  BY <1>1, <1>4, GotoPcs
<1>6. /\ N(g) \in Nat /\ ctrl[0] = g.h[N(g)] /\ g.sn[0] = N(g) /\ toWrite = {}
      /\ \A m \in 1..N(g) : ~Stop(g.h[m])
  BY <1>0, <1>3, RootFacts
<1>7. pc'[0] \in {"prefill", "decode"} /\ (pc'[0] = "prefill" => ~useWave)
  BY <1>0, <1>5 DEF LoopHead, Wave, InWave
<1>8. Drop(LastStage, 0)
  BY DEF RecvRows
<1>9. /\ Shrunk(Q(LastStage, 0), Q(LastStage, 0)')
      /\ \A a, b \in Stages : a # LastStage \/ b # 0 => Q(a, b)' = Q(a, b)
  BY <1>1, <1>8, DroppedShrinks
<1>10. Len(Q(LastStage, 0)') = 0
  <2>1. \A x \in Nat : x = 1 => x - 1 = 0
    OBVIOUS
  <2> QED
    BY <1>2, <1>3, <1>9, <2>1 DEF Shrunk
<1>11. LogitsAt(g)'
  <2>1. LogitsRun(Q(LastStage, 0)', g)
    BY <1>10, LogitsSet
  <2> QED
    BY <2>1 DEF LogitsAt, Q, LastStage
<1>12. Quiet(g)'
  BY <1>3, <1>10 DEF Quiet, Q, LastStage
<1>13. RootAt(g)'
  BY <1>0, <1>6, <1>7 DEF RootAt, RootOK, RootPcs
<1>14. Wave(g)'
  <2>1. useWave' = useWave
    BY DEF useWave
  <2> QED
    BY <1>7, <2>1 DEF Wave
<1>15. Pace(g)'
  BY <1>0, PaceKept
<1>16. Ends(g)'
  <2>1. \A s \in Stages : why'[s] = why[s] /\ (pc'[s] = "over" <=> pc[s] = "over")
    BY <1>5, <1>7
  <2> QED
    BY <1>0, <2>1, EndsKept
<1>17. PICK k : k = skipTarget
  OBVIOUS
<1>18. /\ \A w \in Workers : w >= 2 => w - 1 # 0 /\ w # 0 /\ w # 1
       /\ k >= 2 => k - 1 # 0 /\ k + 1 # 0
       /\ \A w \in Workers : w + 2 # 0 /\ w # 0
  BY <1>17, TargetFacts, StageFacts
<1>19. Moved(g, g, LastStage, 0, 0)
  BY <1>0, <1>1, <1>5, <1>9 DEF Moved
<1>21. FirstAt(g)'
  <2>1. Q(0, 1)' = Q(0, 1)
    BY <1>1, <1>9, StageFacts
  <2> QED
    BY <1>0, <2>1, FirstKept DEF Links
<1>20. Owed(g, LastStage, 0, 0, k)
  BY <1>1, <1>4, <1>11, <1>12, <1>13, <1>14, <1>15, <1>16, <1>18, <1>21 DEF Owed
<1> QED
  BY <1>1, <1>3, <1>4, <1>6, <1>17, <1>19, <1>20, FlowStep

\* The root reads the logits of the packet it has just sent through.
LEMMA FlowRootRecvLogits ==
    ASSUME TypeInv, NEW g, Flow(g), RootRecvLogits, session' = session
    PROVE  Flow(g)'
<1>1. /\ pc[0] = "recv" /\ Incoming(LastStage, 0) /\ RecvRows(LastStage, 0, 1)
      /\ UNCHANGED <<ctrl, toWrite, request, waves, faults>>
      /\ Decodes(LastStage, 0, 1) => Goto(0, LoopHead) /\ why' = why
  BY DEF RootRecvLogits
<1>2. PICK n \in Nat : n = 1
  OBVIOUS
<1>3. Decodes(LastStage, 0, n) => /\ Goto(0, IF pc[0] = "recv" THEN LoopHead ELSE "decode")
                                  /\ why' = why
  BY <1>1, <1>2
<1>4. RecvRows(LastStage, 0, n) /\ n >= 1
  BY <1>1, <1>2
<1> QED
  BY <1>1, <1>3, <1>4, FlowLogitsRead

\* The root drains the logits of a wave.
LEMMA FlowDrainLogits ==
    ASSUME TypeInv, NEW g, Flow(g), DrainLogits, session' = session
    PROVE  Flow(g)'
<1>0. prefillBatchCap \in Nat /\ prefillBatchCap >= 1
  BY SessionFacts DEF TypeInv, TypeOK
<1>1. /\ pc[0] = "drain" /\ Incoming(LastStage, 0) /\ RecvRows(LastStage, 0, prefillBatchCap)
      /\ UNCHANGED <<ctrl, toWrite, request, waves, faults>>
      /\ Decodes(LastStage, 0, prefillBatchCap) => Goto(0, "decode") /\ why' = why
  BY DEF DrainLogits
<1>2. PICK n \in Nat : n = prefillBatchCap
  BY <1>0
<1>3. Decodes(LastStage, 0, n) => /\ Goto(0, IF pc[0] = "recv" THEN LoopHead ELSE "decode")
                                  /\ why' = why
  BY <1>1, <1>2
<1>4. RecvRows(LastStage, 0, n) /\ n >= 1
  BY <1>0, <1>1, <1>2
<1> QED
  BY <1>1, <1>3, <1>4, FlowLogitsRead

\* The last stage returns the logits of a packet that asks for them.
LEMMA FlowSendLogits ==
    ASSUME TypeInv, NEW g, NEW g2, Flow(g), NEW w \in Workers, SendLogits(w), session' = session,
           GSent(g, g2, w)
    PROVE  Flow(g2)'
<1>0. /\ g \in Ghosts /\ RootAt(g) /\ (\A v \in Workers : WorkerAt(g, v) /\ SkipAt(g, v))
      /\ Links(g) /\ Chains /\ Pace(g) /\ Quiet(g) /\ Wave(g) /\ Ends(g)
  BY DEF Flow
<1>1. /\ pc[w] = "send" /\ w = LastStage /\ Goto(w, "ctrl")
      /\ UNCHANGED <<why, ctrl, toWrite, request, pos, waves, faults>>
      /\ SendsLogits(w) => SendRows(w, 0, 1, FALSE)
      /\ ~SendsLogits(w) => UNCHANGED <<sock, sent, got>>
  BY DEF SendLogits, bases, rootVars
<1>2. w \in Stages /\ w # 0 /\ 0 \in Stages /\ w \in Nat
  BY StageFacts
<1>4. /\ g2 \in Ghosts /\ g2.h = g.h /\ g2.sk = g.sk /\ g2.rd = g.rd /\ g2.rc = g.rc /\ N(g2) = N(g)
      /\ g2.sn[w] = g.sn[w] + 1 /\ g.sn[w] \in Nat
      /\ \A t \in Stages : t # w => g2.sn[t] = g.sn[t]
  BY <1>0, <1>2, SentValues
<1>5. /\ g.rd[w] \in Nat /\ g.rc[w] \in Nat /\ N(g) \in Nat /\ g.rc[w] = g.rd[w] /\ g.sn[w] = g.rd[w] - 1
      /\ g.rd[w] <= N(g) /\ g.rd[w] >= 1 /\ ctrl[w] = g.h[g.rd[w]] /\ ~Stop(g.h[g.rd[w]])
  <2>1. /\ g.rd[w] \in Nat /\ g.rc[w] \in Nat /\ g.sn[w] \in Nat /\ N(g) \in Nat
        /\ Written(g, w) \in Nat /\ g.rd[w] <= Written(g, w) /\ Written(g, w) <= N(g)
    BY <1>0, WorkerBounds
  <2>2. /\ g.rc[w] = g.rd[w] /\ g.sn[w] = g.rd[w] - 1
        /\ ctrl[w] = IF g.rd[w] = 0 THEN NoPacket ELSE g.h[g.rd[w]]
        /\ g.rd[w] = 0 \/ ~Stop(g.h[g.rd[w]])
    BY <1>0, <1>1 DEF WorkerAt, WorkerOK
  <2>3. g.rd[w] >= 1 /\ g.rd[w] <= N(g)
    BY <2>1, <2>2
  <2> QED
    BY <2>1, <2>2, <2>3
<1>6. pc'[w] = "ctrl" /\ \A t \in Stages : t # w => pc'[t] = pc[t]
  BY <1>1, <1>2, GotoPcs
<1>7. Len(Q(w, 0)) = 0
  <2>1. g.sn[LastStage] # N(g)
    BY <1>1, <1>5
  <2>2. Len(Q(LastStage, 0)) = 0
    BY <1>0, <2>1, LogitsCases DEF Links
  <2> QED
    BY <1>1, <2>2
<1>8. WorkerAt(g2, w)'
  <2>1. Written(g2, w)' = Written(g, w)
    BY <1>1, <1>4 DEF Written
  <2>2. WorkerOK("ctrl", ctrl[w], g.h, g.rd[w], g.rc[w], g.sn[w] + 1, Written(g, w))
    BY <1>0, <1>1, <1>5 DEF WorkerAt, WorkerOK, WorkerPcs
  <2> QED
    BY <1>1, <1>4, <1>6, <2>1, <2>2 DEF WorkerAt
<1>9. SkipAt(g2, w)'
  BY <1>6 DEF SkipAt, SkipOK
<1>10. Pace(g2)'
  <2>1. PaceOK(g2, skipTarget, useWave)
    BY <1>0, <1>2, PaceSent, TargetFacts DEF Pace
  <2> QED
    BY <2>1 DEF Pace, skipTarget, useWave
<1>11. Ends(g2)'
  <2>1. \A s \in Stages : why'[s] = why[s] /\ (pc'[s] = "over" <=> pc[s] = "over")
    BY <1>1, <1>6
  <2> QED
    BY <1>0, <1>1, <1>4, <2>1, EndsKept
<1>12. ~(pc[0] = "decode" \/ (pc[0] = "prefill" /\ ~useWave))
  BY <1>0, <1>1, <1>5 DEF Quiet
<1>13. Quiet(g2)'
  <2>1. useWave' = useWave /\ pc'[0] = pc[0]
    BY <1>2, <1>6 DEF useWave
  <2> QED
    BY <1>12, <2>1 DEF Quiet
<1>14. PICK k : k = skipTarget
  OBVIOUS
<1>15. SendsLogits(w) <=> Answers(g.h[g.rd[w]])
  BY <1>5 DEF SendsLogits, Answers
<1>16. /\ Chains' /\ LogitsRun(Q(w, 0)', g2)
       /\ \A a, b \in Stages : a # w \/ b # 0 => Q(a, b)' = Q(a, b)
  <2>1. CASE ~SendsLogits(w)
    <3>1. \A i, j : Q(i, j)' = Q(i, j)
      BY <1>1, <2>1 DEF Q
    <3>2. Chains'
      BY <1>0, <1>1, <2>1, <3>1 DEF Chains, Stages
    <3>3. LogitsRun(Q(w, 0)', g2)
      BY <1>7, <3>1, LogitsSet
    <3> QED
      BY <3>1, <3>2, <3>3
  <2>2. CASE SendsLogits(w)
    <3>1. PICK m \in Message : SentMessage(m, w, 0, 1, FALSE)
      BY <1>1, <1>2, <2>2, SentRows DEF TypeInv
    <3>2. got' = got
      BY <1>1, <2>2 DEF SendRows
    <3>3. /\ Grown(Q(w, 0), Q(w, 0)', m)
          /\ \A a, b \in Stages : a # w \/ b # 0 => Q(a, b)' = Q(a, b)
      BY <1>2, <3>1, SentGrows DEF SentMessage
    <3>4. Chains'
      BY <1>0, <1>2, <3>1, <3>2, ChainsSent
    <3>5. g.rd[w] = N(g)
      <4>1. CASE Streaming(g, useWave)
        <5>1. useWave /\ N(g) > 0 /\ g.h[N(g)].phase = "prefill" /\ ~Stop(g.h[N(g)])
          BY <4>1 DEF Streaming
        <5>2. \A m1 \in 1..N(g) : g.h[m1].phase = "prefill" /\ (m1 < N(g) => ~g.h[m1].isLastPrefillChunk)
          BY <1>0, <5>1 DEF Pace, PaceOK, WaveOnly
        <5>3. g.rd[w] \in 1..N(g)
          BY <1>5
        <5>4. ~(g.rd[w] < N(g))
          BY <1>15, <2>2, <5>2, <5>3 DEF Answers
        <5> QED
          BY <1>5, <5>4
      <4>2. CASE ~Streaming(g, useWave)
        <5>1. g.sn[w] >= N(g) - 1
          <6>1. ~(skipTarget # 0 /\ w = skipTarget)
            BY <1>1, TargetFacts
          <6> QED
            BY <1>0, <1>2, <4>2, <6>1 DEF Pace, PaceOK, OneAtATime
        <5> QED
          BY <1>5, <5>1
      <4> QED
        BY <4>1, <4>2
    <3>6. IsAct(m, g.h[N(g)], 1, FALSE)
      BY <1>5, <3>1, <3>5, SentIsAct
    <3>7. Len(Q(w, 0)') = 1 /\ Q(w, 0)'[1] = m
      <4>1. 0 + 1 = 1
        OBVIOUS
      <4> QED
        BY <1>7, <3>3, <4>1 DEF Grown
    <3>8. LogitsRun(Q(w, 0)', g2)
      <4>1. g2.sn[LastStage] = N(g2) /\ N(g2) > 0 /\ Answers(g2.h[N(g2)]) /\ IsAct(m, g2.h[N(g2)], 1, FALSE)
        <5>1. g2.sn[w] = N(g) /\ N(g) > 0
          BY <1>4, <1>5, <3>5
        <5>2. Answers(g.h[N(g)])
          BY <1>15, <2>2, <3>5
        <5> QED
          BY <1>1, <1>4, <3>6, <5>1, <5>2
      <4> QED
        BY <3>7, <4>1, LogitsSet
    <3> QED
      BY <3>3, <3>4, <3>8
  <2> QED
    BY <2>1, <2>2
<1>17. LogitsAt(g2)'
  BY <1>1, <1>16 DEF LogitsAt, Q, LastStage
<1>18. Moved(g, g2, w, 0, w)
  BY <1>1, <1>2, <1>4, <1>6, <1>16 DEF Moved
<1>19. FirstAt(g2)'
  <2>1. Q(0, 1)' = Q(0, 1) /\ g2.sn[0] = g.sn[0]
    BY <1>2, <1>4, <1>16, StageFacts
  <2> QED
    BY <1>0, <1>1, <1>4, <2>1, FirstKept DEF Links
<1>20. ASSUME NEW v \in Workers, v >= 2, v = w \/ v - 1 = w PROVE LinkAt(g2, v)'
  <2>1. v = w /\ v - 1 \in Stages /\ v - 1 # w /\ v \in Nat /\ v \in Stages
    BY <1>1, <1>20, PipelineAssumption DEF Workers, Stages, LastStage
  <2>2. Q(0, v)' = Q(0, v) /\ Q(v - 1, v)' = Q(v - 1, v) /\ g2.sn[v - 1] = g.sn[v - 1]
    BY <1>2, <1>4, <1>16, <2>1
  <2>3. LinkAt(g, v)
    BY <1>0, <1>20 DEF Links
  <2> QED
    BY <1>1, <1>4, <2>2, <2>3, LinkKept
<1>21. BypassAt(g2)'
  <2>1. k >= 2 => k - 1 \in Stages /\ k + 1 \in Stages /\ k - 1 # w /\ k + 1 # 0
    BY <1>1, <1>14, TargetFacts, StageFacts
  <2>2. k >= 2 => Q(k - 1, k + 1)' = Q(k - 1, k + 1) /\ g2.sn[k - 1] = g.sn[k - 1]
    BY <1>4, <1>16, <2>1
  <2> QED
    BY <1>0, <1>4, <1>14, <2>2, BypassKept DEF Links
<1>22. ASSUME NEW v \in Workers, v # w, pc[v] = "bypass", w = v + 2 \/ (w = v /\ 0 = v + 2)
       PROVE  SkipAt(g2, v)'
  <2>1. v + 1 = skipTarget /\ v \in Nat /\ v \in Stages
    BY <1>0, <1>22, StageFacts DEF SkipAt, SkipOK
  <2>2. v + 2 \in Stages
    BY <1>2, <1>22
  <2>3. Q(v, v + 2)' = Q(v, v + 2) /\ pc'[v] = pc[v] /\ ctrl'[v] = ctrl[v]
    BY <1>1, <1>6, <1>16, <1>22, <2>1, <2>2
  <2> QED
    BY <1>0, <1>4, <2>3, SkipKept
<1>23. Owed(g2, w, 0, w, k)
  BY <1>1, <1>2, <1>8, <1>9, <1>10, <1>11, <1>13, <1>16, <1>17, <1>19, <1>20, <1>21, <1>22 DEF Owed
<1> QED
  BY <1>2, <1>14, <1>18, <1>23, FlowStep

\* A worker that has a packet.
LEMMA Working ==
    ASSUME NEW g \in Ghosts, RootAt(g), NEW w \in Workers, WorkerAt(g, w),
           pc[w] \in {"recv", "forward", "decide", "send", "marker"}
    PROVE  /\ g.rd[w] \in Nat /\ g.rc[w] \in Nat /\ g.sn[w] \in Nat /\ N(g) \in Nat
           /\ g.rd[w] >= 1 /\ g.rd[w] <= N(g) /\ g.rd[w] \in 1..N(g)
           /\ ctrl[w] = g.h[g.rd[w]] /\ ~Stop(g.h[g.rd[w]]) /\ g.sn[w] = g.rd[w] - 1
           /\ pc[w] = "recv" => g.rc[w] = g.rd[w] - 1
           /\ pc[w] # "recv" => g.rc[w] = g.rd[w]
<1>1. /\ g.rd[w] \in Nat /\ g.rc[w] \in Nat /\ g.sn[w] \in Nat /\ N(g) \in Nat
      /\ g.sn[w] <= g.rc[w] /\ g.rc[w] <= g.rd[w] /\ g.rd[w] <= g.sn[w] + 1
      /\ Written(g, w) \in Nat /\ g.rd[w] <= Written(g, w) /\ Written(g, w) <= N(g)
  BY WorkerBounds
<1>2. /\ pc[w] = "recv" => g.rc[w] = g.rd[w] - 1
      /\ pc[w] # "recv" => g.rc[w] = g.rd[w] /\ g.sn[w] = g.rd[w] - 1
      /\ ctrl[w] = IF g.rd[w] = 0 THEN NoPacket ELSE g.h[g.rd[w]]
      /\ g.rd[w] = 0 \/ ~Stop(g.h[g.rd[w]])
  BY DEF WorkerAt, WorkerOK
<1>3. g.rd[w] >= 1 /\ g.rd[w] <= N(g) /\ g.sn[w] = g.rd[w] - 1
  BY <1>1, <1>2
<1> QED
  BY <1>1, <1>2, <1>3

\* The rows that stage u - 1 has completed are on their way to stage u.
LEMMA LinkSent ==
    ASSUME NEW g \in Ghosts, NEW g2, NEW u \in Workers, u >= 2, LinkAt(g, u), NEW k, k = skipTarget,
           GSent(g, g2, u - 1), NEW m, Grown(Q(u - 1, u), Q(u - 1, u)', m),
           Q(0, u)' = Q(0, u), toWrite' = toWrite, session' = session,
           g.rc[u] <= g.sn[u - 1], ~(k # 0 /\ u = k + 1 /\ N(g) \in g.sk),
           RowsFor(m, g.h[g.sn[u - 1] + 1], g.sn[u - 1] + 1 \in Marks(g, u, k))
    PROVE  LinkAt(g2, u)'
<1>1. u - 1 \in Stages /\ g.rc[u] \in Nat /\ g.sn[u - 1] \in Nat
  BY StageFacts, GhostTypes
<1>2. /\ g2 \in Ghosts /\ g2.h = g.h /\ g2.sk = g.sk /\ g2.rd = g.rd /\ g2.rc = g.rc /\ N(g2) = N(g)
      /\ g2.sn[u - 1] = g.sn[u - 1] + 1
  BY <1>1, SentValues
<1>3. Upto(g, u, k) = g.sn[u - 1]
  BY <1>1 DEF Upto
<1>4. Upto(g2, u, k) = g.sn[u - 1] + 1 /\ Marks(g2, u, k) = Marks(g, u, k)
  BY <1>1, <1>2 DEF Upto, Marks
<1>5. ActRun(Q(u - 1, u), g.h, g.rc[u], g.sn[u - 1], Marks(g, u, k)) /\ CtrlRun(Q(0, u), g.h, g.rd[u], Written(g, u))
  BY <1>3 DEF LinkAt
<1>6. ActRun(Q(u - 1, u)', g.h, g.rc[u], g.sn[u - 1] + 1, Marks(g, u, k))
  BY <1>1, <1>5, ActRunGrows
<1>7. Written(g2, u)' = Written(g, u) /\ skipTarget' = k
  BY <1>2 DEF Written, skipTarget
<1>8. CtrlRun(Q(0, u)', g2.h, g2.rd[u], Written(g2, u)')
  BY <1>2, <1>5, <1>7
<1>9. ActRun(Q(u - 1, u)', g2.h, g2.rc[u], Upto(g2, u, k), Marks(g2, u, k))
  BY <1>2, <1>4, <1>6
<1> QED
  BY <1>7, <1>8, <1>9 DEF LinkAt

\* A worker w has sent message m, which completes a packet, to stage w + 1.
LEMMA FlowSentOn ==
    ASSUME TypeInv, NEW g, NEW g2, Flow(g), NEW w \in Workers, w # LastStage, session' = session,
           GSent(g, g2, w), NEW rows \in Nat, NEW bypass \in BOOLEAN, SendRows(w, w + 1, rows, bypass),
           UNCHANGED <<why, ctrl, toWrite, request, pos, waves, faults>>,
           pc[w] \in {"send", "marker"}, NEW to, to \in {"ctrl", "bypass"}, Goto(w, to),
           NEW k, k = skipTarget,
           to = "bypass" => w + 1 = k /\ ctrl[w].phase = "decode" /\ ctrl[w].batchSize = 1 /\ g.rd[w] \in g.sk,
           g.rc[w + 1] <= g.sn[w], ~(k # 0 /\ w = k /\ N(g) \in g.sk),
           \A m : IsAct(m, ctrl[w], rows, bypass) => RowsFor(m, g.h[g.rd[w]], g.rd[w] \in Marks(g, w + 1, k))
    PROVE  Flow(g2)'
<1>0. /\ g \in Ghosts /\ RootAt(g) /\ (\A v \in Workers : WorkerAt(g, v) /\ SkipAt(g, v))
      /\ Links(g) /\ Chains /\ Pace(g) /\ Ends(g)
  BY DEF Flow
<1>1. w \in Stages /\ 0 \in Stages /\ w \in Nat /\ w >= 1 /\ w + 1 \in Workers
  BY StageFacts
<1>2. w \in Stages /\ w # 0 /\ 0 \in Stages /\ w \in Nat /\ w >= 1 /\ w + 1 \in Workers /\ w + 1 \in Stages
  BY <1>1, StageFacts
<1>4. /\ g2 \in Ghosts /\ g2.h = g.h /\ g2.sk = g.sk /\ g2.rd = g.rd /\ g2.rc = g.rc /\ N(g2) = N(g)
      /\ g2.sn[w] = g.sn[w] + 1 /\ g.sn[w] \in Nat
      /\ \A t \in Stages : t # w => g2.sn[t] = g.sn[t]
  BY <1>0, <1>2, SentValues
<1>5. /\ g.rd[w] \in Nat /\ g.rc[w] \in Nat /\ N(g) \in Nat /\ g.rc[w] = g.rd[w] /\ g.sn[w] = g.rd[w] - 1
      /\ g.rd[w] <= N(g) /\ g.rd[w] >= 1 /\ ctrl[w] = g.h[g.rd[w]] /\ ~Stop(g.h[g.rd[w]])
  BY <1>0, Working
<1>6. pc'[w] = to /\ \A t \in Stages : t # w => pc'[t] = pc[t]
  BY <1>2, GotoPcs
<1>7. PICK m \in Message : SentMessage(m, w, w + 1, rows, bypass)
  BY <1>2, SentRows DEF TypeInv
<1>8. got' = got
  BY DEF SendRows
<1>9. /\ Grown(Q(w, w + 1), Q(w, w + 1)', m)
      /\ \A a, b \in Stages : a # w \/ b # w + 1 => Q(a, b)' = Q(a, b)
  BY <1>2, <1>7, SentGrows DEF SentMessage
<1>10. Chains'
  BY <1>0, <1>2, <1>7, <1>8, ChainsSent
<1>11. RowsFor(m, g.h[g.rd[w]], g.rd[w] \in Marks(g, w + 1, k))
  BY <1>7, SentIsAct
<1>12. LinkAt(g2, w + 1)'
  <2>1. PICK u \in Workers : u = w + 1
    BY <1>2
  <2>2. u >= 2 /\ u - 1 = w /\ LinkAt(g, u)
    BY <1>0, <1>2, <2>1 DEF Links
  <2>3. GSent(g, g2, u - 1) /\ Grown(Q(u - 1, u), Q(u - 1, u)', m)
    BY <1>9, <2>1, <2>2
  <2>4. Q(0, u)' = Q(0, u)
    BY <1>2, <1>9, <2>1
  <2>5. g.rc[u] <= g.sn[u - 1] /\ ~(k # 0 /\ u = k + 1 /\ N(g) \in g.sk)
    <3>1. u = k + 1 => w = k
      BY <2>1, <1>2, TargetFacts
    <3> QED
      BY <2>1, <2>2, <3>1
  <2>6. g.sn[u - 1] + 1 = g.rd[w]
    BY <1>5, <2>2
  <2>7. RowsFor(m, g.h[g.sn[u - 1] + 1], g.sn[u - 1] + 1 \in Marks(g, u, k))
    BY <1>11, <2>1, <2>6
  <2> QED
    BY <1>0, <2>1, <2>2, <2>3, <2>4, <2>5, <2>7, LinkSent
<1>13. WorkerAt(g2, w)'
  <2>1. Written(g2, w)' = Written(g, w)
    BY <1>4 DEF Written
  <2>2. WorkerOK(to, ctrl[w], g.h, g.rd[w], g.rc[w], g.sn[w] + 1, Written(g, w))
    BY <1>0, <1>5 DEF WorkerAt, WorkerOK, WorkerPcs
  <2> QED
    BY <1>4, <1>6, <2>1, <2>2 DEF WorkerAt
<1>14. k >= 2 /\ w = k - 1 => Len(Q(k - 1, k + 1)) = 0 /\ Q(k - 1, k + 1)' = Q(k - 1, k + 1)
  <2>1. ASSUME k >= 2, w = k - 1 PROVE Len(Q(k - 1, k + 1)) = 0 /\ Q(k - 1, k + 1)' = Q(k - 1, k + 1)
    <3>1. g.sn[k - 1] # N(g)
      BY <1>5, <2>1
    <3>2. Len(Q(k - 1, k + 1)) = 0
      BY <1>0, <2>1, <3>1, BypassCases DEF Links
    <3>3. k + 1 \in Stages /\ k + 1 # w + 1
      BY <1>2, <2>1, TargetFacts
    <3>4. Q(k - 1, k + 1)' = Q(k - 1, k + 1)
      BY <1>2, <1>9, <2>1, <3>3
    <3> QED
      BY <3>2, <3>4
  <2> QED
    BY <2>1
<1>15. SkipAt(g2, w)'
  <2>1. CASE to = "ctrl"
    BY <1>6, <2>1 DEF SkipAt, SkipOK
  <2>2. CASE to = "bypass"
    <3>1. w = k - 1 /\ k >= 2 /\ w + 2 = k + 1
      BY <1>2, <2>2, TargetFacts
    <3>2. Len(Q(w, w + 2)') = 0
      BY <1>14, <3>1
    <3>3. k \in Workers /\ k # w /\ k + 1 \in Workers /\ w < k + 1
      BY <1>2, <2>2, <3>1, TargetFacts
    <3>4. g.rc[k + 1] <= g.sn[w]
      BY <1>0, <1>2, <3>3 DEF Pace, PaceOK, Order
    <3>5. g2.rc[w + 2] < g2.rd[w]
      <4>1. g.rc[k + 1] \in Nat
        BY <1>0, <3>3, GhostTypes
      <4> QED
        BY <1>4, <1>5, <3>1, <3>4, <4>1
    <3>6. skipTarget' = skipTarget
      BY DEF skipTarget
    <3>7. SkipOK("bypass", ctrl[w], w, g2, k, Len(Q(w, w + 2)'))
      BY <1>4, <2>2, <3>2, <3>5 DEF SkipOK
    <3> QED
      BY <1>6, <2>2, <3>6, <3>7 DEF SkipAt
  <2> QED
    BY <2>1, <2>2
<1>16. Pace(g2)'
  <2>1. PaceOK(g2, skipTarget, useWave)
    BY <1>0, <1>2, PaceSent, TargetFacts DEF Pace
  <2> QED
    BY <2>1 DEF Pace, skipTarget, useWave
<1>17. Ends(g2)'
  <2>1. \A s \in Stages : why'[s] = why[s] /\ (pc'[s] = "over" <=> pc[s] = "over")
    BY <1>6
  <2> QED
    BY <1>0, <1>4, <2>1, EndsKept
<1>18. BypassAt(g2)'
  <2>1. CASE k >= 2 /\ w = k - 1
    <3>1. BypassRun(Q(k - 1, k + 1)', g2, k)
      BY <1>14, <2>1, BypassSet
    <3>2. skipTarget' = k
      BY DEF skipTarget
    <3> QED
      BY <3>1, <3>2 DEF BypassAt, Q
  <2>2. CASE ~(k >= 2 /\ w = k - 1)
    <3>1. k >= 2 => k - 1 \in Stages /\ k + 1 \in Stages /\ k - 1 # w
      BY <2>2, TargetFacts
    <3>2. k >= 2 => Q(k - 1, k + 1)' = Q(k - 1, k + 1) /\ g2.sn[k - 1] = g.sn[k - 1]
      BY <1>4, <1>9, <3>1
    <3> QED
      BY <1>0, <1>4, <3>2, BypassKept DEF Links
  <2> QED
    BY <2>1, <2>2
<1>19. ASSUME w >= 2 PROVE LinkAt(g2, w)'
  <2>1. w - 1 \in Stages /\ w - 1 # w /\ w # w + 1
    BY <1>2, StageFacts
  <2>2. Q(0, w)' = Q(0, w) /\ Q(w - 1, w)' = Q(w - 1, w) /\ g2.sn[w - 1] = g.sn[w - 1]
    BY <1>2, <1>4, <1>9, <2>1
  <2>3. LinkAt(g, w)
    BY <1>0, <1>19 DEF Links
  <2> QED
    BY <1>4, <2>2, <2>3, LinkKept
<1>20. FirstAt(g2)'
  <2>1. Q(0, 1)' = Q(0, 1) /\ g2.sn[0] = g.sn[0]
    BY <1>2, <1>4, <1>9, StageFacts
  <2> QED
    BY <1>0, <1>4, <2>1, FirstKept DEF Links
<1>21. Moved(g, g2, w, w + 1, w)
  BY <1>2, <1>4, <1>6, <1>9 DEF Moved
<1>22. ASSUME NEW v \in Workers, v # w, pc[v] = "bypass", w = v + 2 \/ (w = v /\ w + 1 = v + 2)
       PROVE  SkipAt(g2, v)'
  <2>1. v \in Nat /\ v \in Stages /\ w = v + 2 /\ v + 2 \in Stages
    BY <1>2, <1>22, StageFacts
  <2>2. Q(v, v + 2)' = Q(v, v + 2) /\ pc'[v] = pc[v]
    BY <1>6, <1>9, <1>22, <2>1
  <2> QED
    BY <1>0, <1>4, <2>2, SkipKept
<1>23. \A v \in Workers : v - 1 = w => v = w + 1
  BY <1>2, StageFacts
<1>24. ASSUME NEW v \in Workers, v >= 2,
              (w = 0 /\ w + 1 = v) \/ (w = v - 1 /\ w + 1 = v) \/ v = w \/ v - 1 = w
       PROVE  LinkAt(g2, v)'
  BY <1>2, <1>12, <1>19, <1>23, <1>24
<1>25. w + 1 # 0
  BY <1>2
<1>26. Owed(g2, w, w + 1, w, k)
  BY <1>2, <1>10, <1>13, <1>15, <1>16, <1>17, <1>18, <1>20, <1>22, <1>24, <1>25 DEF Owed
<1> QED
  BY <1>2, <1>21, <1>26, FlowStep

\* A stage sends its rows to the next one.
LEMMA FlowSendActivation ==
    ASSUME TypeInv, NEW g, NEW g2, Flow(g), NEW w \in Workers, SendActivation(w), session' = session,
           GSent(g, g2, w)
    PROVE  Flow(g2)'
<1>0. /\ g \in Ghosts /\ RootAt(g) /\ (\A v \in Workers : WorkerAt(g, v) /\ SkipAt(g, v))
      /\ Pace(g)
  BY DEF Flow
<1>1. /\ pc[w] = "send" /\ w # LastStage /\ SendRows(w, w + 1, ctrl[w].batchSize, FALSE) /\ Goto(w, "ctrl")
      /\ UNCHANGED <<why, ctrl, toWrite, request, pos, waves, faults>>
  BY DEF SendActivation, rootVars
<1>2. PICK k : k = skipTarget
  OBVIOUS
<1>3. w \in Stages /\ w \in Nat /\ w >= 1 /\ w + 1 \in Workers
  BY <1>1, StageFacts
<1>4. /\ g.rd[w] \in Nat /\ g.rc[w] = g.rd[w] /\ g.sn[w] = g.rd[w] - 1 /\ N(g) \in Nat
      /\ g.rd[w] \in 1..N(g) /\ ctrl[w] = g.h[g.rd[w]] /\ g.sn[w] \in Nat
  BY <1>0, <1>1, Working
<1>5. ctrl[w].batchSize \in Nat
  BY <1>3 DEF TypeInv, TypeOK, Packet
<1>6. k \in Nat /\ (k # 0 => k \in Workers /\ k + 1 \in Workers)
  BY <1>2, TargetFacts
<1>7. k # 0 /\ (w + 1 = k \/ w = k) => g.rd[w] \notin g.sk
  BY <1>0, <1>1, <1>2 DEF SkipAt, SkipOK
<1>8. g.rc[w + 1] \in Nat
  BY <1>0, <1>3, GhostTypes
<1>9. g.rc[w + 1] <= g.sn[w]
  <2>1. CASE k # 0 /\ w = k
    <3>1. \A m \in Nat : g.sn[w] < m /\ m <= g.rc[w + 1] => m \in g.sk
      BY <1>0, <1>2, <2>1 DEF Pace, PaceOK, Order
    <3>2. ~(g.sn[w] < g.rd[w] /\ g.rd[w] <= g.rc[w + 1])
      BY <1>4, <1>7, <2>1, <3>1
    <3> QED
      BY <1>4, <1>8, <3>2
  <2>2. CASE ~(k # 0 /\ w = k)
    <3>1. w < w + 1
      BY <1>3
    <3> QED
      BY <1>0, <1>2, <1>3, <2>2, <3>1 DEF Pace, PaceOK, Order
  <2> QED
    BY <2>1, <2>2
<1>10. ~(k # 0 /\ w = k /\ N(g) \in g.sk)
  <2>1. ASSUME k # 0, w = k, N(g) \in g.sk PROVE FALSE
    <3>1. N(g) \in 1..N(g) /\ g.h[N(g)].phase = "decode"
      BY <1>0, <2>1, SkippedFacts
    <3>2. \A n \in Nat : g.sn[w] < n /\ n <= N(g) - 1 => n \in g.sk
      BY <1>0, <1>2, <2>1, <3>1, Settled
    <3>3. g.rd[w] # N(g)
      BY <1>7, <2>1
    <3>4. g.sn[w] < g.rd[w] /\ g.rd[w] <= N(g) - 1
      BY <1>4, <3>3
    <3> QED
      BY <1>4, <1>7, <2>1, <3>2, <3>4
  <2> QED
    BY <2>1
<1>11. g.rd[w] \notin Marks(g, w + 1, k)
  <2>1. w + 1 = k => k # 0
    BY <1>3
  <2> QED
    BY <1>7, <2>1 DEF Marks
<1>12. \A m : IsAct(m, ctrl[w], ctrl[w].batchSize, FALSE) =>
                RowsFor(m, g.h[g.rd[w]], g.rd[w] \in Marks(g, w + 1, k))
  BY <1>4, <1>11 DEF RowsFor
<1>13. PICK rows \in Nat : rows = ctrl[w].batchSize
  BY <1>5
<1>14. /\ SendRows(w, w + 1, rows, FALSE)
       /\ \A m : IsAct(m, ctrl[w], rows, FALSE) => RowsFor(m, g.h[g.rd[w]], g.rd[w] \in Marks(g, w + 1, k))
  BY <1>1, <1>12, <1>13
<1>15. /\ w # LastStage /\ pc[w] = "send" /\ Goto(w, "ctrl")
       /\ UNCHANGED <<why, ctrl, toWrite, request, pos, waves, faults>>
  BY <1>1
<1> QED
  BY <1>2, <1>9, <1>10, <1>14, <1>15, FlowSentOn

\* The stage before the target sends the marker that says: skip.
LEMMA FlowSendMarker ==
    ASSUME TypeInv, NEW g, NEW g2, Flow(g), NEW w \in Workers, SendMarker(w), session' = session,
           GSent(g, g2, w)
    PROVE  Flow(g2)'
<1>0. /\ g \in Ghosts /\ RootAt(g) /\ (\A v \in Workers : WorkerAt(g, v) /\ SkipAt(g, v))
      /\ Pace(g)
  BY DEF Flow
<1>1. /\ pc[w] = "marker" /\ SendRows(w, skipTarget, 0, TRUE) /\ Goto(w, "bypass")
      /\ UNCHANGED <<why, ctrl, toWrite, request, pos, waves, faults>>
  BY DEF SendMarker, rootVars
<1>2. PICK k : k = skipTarget
  OBVIOUS
<1>3. /\ w + 1 = k /\ ctrl[w].phase = "decode" /\ ctrl[w].batchSize = 1 /\ g.rd[w] \in g.sk
  BY <1>0, <1>1, <1>2 DEF SkipAt, SkipOK
<1>4. w \in Stages /\ w \in Nat /\ w >= 1
  BY StageFacts
<1>5. w # LastStage /\ w # k /\ w < w + 1 /\ k # 0
  BY <1>2, <1>3, <1>4, TargetFacts
<1>6. /\ g.rd[w] \in Nat /\ ctrl[w] = g.h[g.rd[w]]
  BY <1>0, <1>1, Working
<1>7. w + 1 \in Workers
  BY <1>5, StageFacts
<1>8. g.rc[w + 1] <= g.sn[w]
  BY <1>0, <1>2, <1>4, <1>5, <1>7 DEF Pace, PaceOK, Order
<1>9. g.rd[w] \in Marks(g, w + 1, k)
  BY <1>3 DEF Marks
<1>10. \A m : IsAct(m, ctrl[w], 0, TRUE) =>
                RowsFor(m, g.h[g.rd[w]], g.rd[w] \in Marks(g, w + 1, k))
  BY <1>6, <1>9 DEF RowsFor
<1>11. SendRows(w, w + 1, 0, TRUE)
  BY <1>1, <1>2, <1>3
<1>12. ~(k # 0 /\ w = k /\ N(g) \in g.sk)
  BY <1>5
<1>13. PICK rows \in Nat : rows = 0
  OBVIOUS
<1>14. PICK to : to = "bypass"
  OBVIOUS
<1>15. PICK byp \in BOOLEAN : byp = TRUE
  OBVIOUS
<1>16. /\ SendRows(w, w + 1, rows, byp)
       /\ \A m : IsAct(m, ctrl[w], rows, byp) => RowsFor(m, g.h[g.rd[w]], g.rd[w] \in Marks(g, w + 1, k))
  BY <1>10, <1>11, <1>13, <1>15
<1>17. /\ w # LastStage /\ pc[w] \in {"send", "marker"} /\ to \in {"ctrl", "bypass"} /\ Goto(w, to)
       /\ UNCHANGED <<why, ctrl, toWrite, request, pos, waves, faults>>
  BY <1>1, <1>5, <1>14
<1>18. to = "bypass" => w + 1 = k /\ ctrl[w].phase = "decode" /\ ctrl[w].batchSize = 1 /\ g.rd[w] \in g.sk
  BY <1>3
<1> QED
  BY <1>2, <1>8, <1>12, <1>16, <1>17, <1>18, FlowSentOn

\* The target's rows went to the stage behind it: the last packet is the one at
\* which it is skipped.
LEMMA FlowSendBypass ==
    ASSUME TypeInv, NEW g, Flow(g), NEW w \in Workers, SendBypass(w), session' = session
    PROVE  Flow(g)'
<1>0. /\ g \in Ghosts /\ RootAt(g) /\ (\A v \in Workers : WorkerAt(g, v) /\ SkipAt(g, v))
      /\ Links(g) /\ Chains /\ Pace(g) /\ Quiet(g) /\ Wave(g) /\ Ends(g)
  BY DEF Flow
<1>1. /\ pc[w] = "bypass" /\ SendRows(w, skipTarget + 1, ctrl[w].batchSize, TRUE) /\ Goto(w, "ctrl")
      /\ UNCHANGED <<why, ctrl, toWrite, request, pos, waves, faults>>
  BY DEF SendBypass, rootVars
<1>2. PICK k : k = skipTarget
  OBVIOUS
<1>3. /\ w + 1 = k /\ ctrl[w].batchSize = 1 /\ g.rd[w] \in g.sk
      /\ Len(Q(w, w + 2)) = 0 /\ g.rc[w + 2] < g.rd[w]
  BY <1>0, <1>1, <1>2 DEF SkipAt, SkipOK
<1>4. w \in Stages /\ w \in Nat /\ w >= 1 /\ 0 \in Stages /\ w # 0
  BY StageFacts
<1>5. /\ w = k - 1 /\ k >= 2 /\ k \in Nat /\ w + 2 = k + 1 /\ k + 1 # 0 /\ w < k + 1 /\ w # LastStage
      /\ k + 1 # w /\ k + 1 # k
  BY <1>2, <1>3, <1>4, TargetFacts
<1>6. k + 1 \in Workers /\ k + 1 \in Stages /\ k \in Workers
  BY <1>2, <1>5, TargetFacts
<1>7. /\ g.rd[w] \in Nat /\ g.sn[w] = g.rd[w] /\ N(g) \in Nat /\ g.rd[w] <= N(g)
      /\ g.rd[w] >= 1 /\ ctrl[w] = g.h[g.rd[w]]
  <2>1. /\ g.rd[w] \in Nat /\ g.rd[w] <= Written(g, w) /\ Written(g, w) <= N(g) /\ N(g) \in Nat /\ Written(g, w) \in Nat
    BY <1>0, WorkerBounds
  <2>2. g.sn[w] = g.rd[w] /\ ctrl[w] = IF g.rd[w] = 0 THEN NoPacket ELSE g.h[g.rd[w]]
    BY <1>0, <1>1 DEF WorkerAt, WorkerOK
  <2>3. g.rd[w] >= 1
    BY <1>0, <1>3, SkippedFacts
  <2> QED
    BY <2>1, <2>2, <2>3
<1>8. g.rd[w] = N(g)
  <2>1. g.rd[w] \in 1..N(g) /\ g.h[g.rd[w]].phase = "decode"
    BY <1>0, <1>3, SkippedFacts
  <2>2. g.sn[k + 1] >= N(g) - 1
    BY <1>0, <1>2, <1>5, <1>6, <2>1, Settled
  <2>3. g.sn[k + 1] <= g.rc[k + 1] /\ g.sn[k + 1] \in Nat /\ g.rc[k + 1] \in Nat
    BY <1>0, <1>6, WorkerBounds
  <2>4. g.rc[k + 1] < g.rd[w]
    BY <1>3, <1>5
  <2> QED
    BY <1>7, <2>2, <2>3, <2>4
<1>9. pc'[w] = "ctrl" /\ \A t \in Stages : t # w => pc'[t] = pc[t]
  BY <1>1, <1>4, GotoPcs
<1>10. SendRows(w, k + 1, 1, TRUE)
  BY <1>1, <1>2, <1>3
<1>11. PICK m \in Message : SentMessage(m, w, k + 1, 1, TRUE)
  BY <1>4, <1>6, <1>10, SentRows DEF TypeInv
<1>12. got' = got
  BY <1>1 DEF SendRows
<1>13. /\ Grown(Q(w, k + 1), Q(w, k + 1)', m)
       /\ \A a, b \in Stages : a # w \/ b # k + 1 => Q(a, b)' = Q(a, b)
  BY <1>4, <1>6, <1>11, SentGrows DEF SentMessage
<1>14. Chains'
  BY <1>0, <1>4, <1>6, <1>11, <1>12, ChainsSent
<1>15. IsAct(m, g.h[N(g)], 1, TRUE)
  BY <1>7, <1>8, <1>11, SentIsAct
<1>16. BypassAt(g)'
  <2>1. Len(Q(k - 1, k + 1)) = 0
    BY <1>3, <1>5
  <2>2. Len(Q(k - 1, k + 1)') = 1 /\ Q(k - 1, k + 1)'[1] = m
    <3>1. Grown(Q(k - 1, k + 1), Q(k - 1, k + 1)', m)
      BY <1>5, <1>13
    <3> QED
      BY <2>1, <3>1 DEF Grown
  <2>3. N(g) \in g.sk /\ g.rc[k + 1] < N(g) /\ g.sn[k - 1] = N(g)
    BY <1>3, <1>5, <1>7, <1>8
  <2>4. BypassRun(Q(k - 1, k + 1)', g, k)
    BY <1>15, <2>2, <2>3, BypassSet
  <2>5. skipTarget' = k
    BY <1>2 DEF skipTarget
  <2> QED
    BY <2>4, <2>5 DEF BypassAt, Q
<1>17. WorkerAt(g, w)'
  <2>1. Written(g, w)' = Written(g, w)
    BY <1>1 DEF Written
  <2>2. WorkerOK("ctrl", ctrl[w], g.h, g.rd[w], g.rc[w], g.sn[w], Written(g, w))
    BY <1>0, <1>1, <1>7 DEF WorkerAt, WorkerOK, WorkerPcs
  <2> QED
    BY <1>1, <1>9, <2>1, <2>2 DEF WorkerAt
<1>18. SkipAt(g, w)'
  BY <1>9 DEF SkipAt, SkipOK
<1>19. Pace(g)'
  BY <1>0, PaceKept
<1>20. Ends(g)'
  <2>1. \A s \in Stages : why'[s] = why[s] /\ (pc'[s] = "over" <=> pc[s] = "over")
    BY <1>1, <1>9
  <2> QED
    BY <1>0, <1>1, <2>1, EndsKept
<1>21. ASSUME NEW v \in Workers, v >= 2 PROVE LinkAt(g, v)'
  <2>1. v \in Stages /\ v - 1 \in Stages /\ v \in Nat
    BY StageFacts
  <2>2. v - 1 # w \/ v # k + 1
    BY <1>4, <1>5, <2>1
  <2>3. Q(0, v)' = Q(0, v) /\ Q(v - 1, v)' = Q(v - 1, v)
    BY <1>4, <1>13, <2>1, <2>2
  <2>4. LinkAt(g, v)
    BY <1>0, <1>21 DEF Links
  <2> QED
    BY <1>1, <2>3, <2>4, LinkKept
<1>22. FirstAt(g)'
  <2>1. Q(0, 1)' = Q(0, 1)
    BY <1>4, <1>13, StageFacts
  <2> QED
    BY <1>0, <1>1, <2>1, FirstKept DEF Links
<1>23. Moved(g, g, w, k + 1, w)
  BY <1>0, <1>1, <1>4, <1>5, <1>9, <1>13 DEF Moved
<1>24. ASSUME NEW v \in Workers, v # w, pc[v] = "bypass" PROVE FALSE
  <2>1. v + 1 = k /\ v \in Nat
    BY <1>0, <1>2, <1>24, StageFacts DEF SkipAt, SkipOK
  <2> QED
    BY <1>3, <1>4, <1>24, <2>1
<1>25. Owed(g, w, k + 1, w, k)
  BY <1>4, <1>5, <1>14, <1>16, <1>17, <1>18, <1>19, <1>20, <1>21, <1>22, <1>24 DEF Owed
<1> QED
  BY <1>2, <1>4, <1>6, <1>23, <1>25, FlowStep

\* The next message of the root to a worker that looks for a packet is the packet
\* behind those it has read.
LEMMA CtrlHead ==
    ASSUME TypeInv, NEW g, NEW g2, Flow(g), NEW w \in Workers, pc[w] = "ctrl", GRead(g, g2, w),
           Shrunk(Q(0, w), Q(0, w)'), session' = session, toWrite' = toWrite,
           w >= 2 => Q(w - 1, w)' = Q(w - 1, w)
    PROVE  /\ Q(0, w)[1] = Control(g.h[g.rd[w] + 1]) /\ g.rd[w] + 1 <= Written(g, w)
           /\ g.rd[w] + 1 \in 1..N(g) /\ g.rd[w] \in Nat
           /\ w >= 2 => LinkAt(g2, w)'
           /\ w = 1 => FirstAt(g2)'
<1>0. g \in Ghosts /\ RootAt(g) /\ WorkerAt(g, w) /\ Links(g)
  BY DEF Flow
<1>1. /\ g.rd[w] \in Nat /\ g.rc[w] \in Nat /\ g.sn[w] <= g.rc[w] /\ g.rc[w] <= g.rd[w] /\ g.sn[w] \in Nat
      /\ Written(g, w) \in Nat /\ g.rd[w] <= Written(g, w) /\ Written(g, w) <= N(g) /\ N(g) \in Nat
      /\ Written(g, w) >= N(g) - 1
  BY <1>0, WorkerBounds
<1>2. g.sn[w] = g.rd[w]
  BY <1>0 DEF WorkerAt, WorkerOK
<1>3. g.rc[w] = g.rd[w]
  BY <1>1, <1>2
<1>4. /\ g2.h = g.h /\ g2.sk = g.sk /\ g2.sn = g.sn /\ g2.rc = g.rc /\ N(g2) = N(g)
      /\ g2.rd[w] = g.rd[w] + 1
  BY <1>0, ReadValues
<1>5. Written(g2, w)' = Written(g, w)
  BY <1>4 DEF Written
<1>6. CASE w >= 2
  <2>1. CtrlRun(Q(0, w), g.h, g.rd[w], Written(g, w))
    BY <1>0, <1>6 DEF Links, LinkAt
  <2>2. /\ CtrlRun(Q(0, w)', g.h, g.rd[w] + 1, Written(g, w)) /\ Q(0, w)[1] = Control(g.h[g.rd[w] + 1])
        /\ g.rd[w] + 1 <= Written(g, w)
    BY <1>1, <2>1, CtrlRunShrinks
  <2>3. ActRun(Q(w - 1, w), g.h, g.rc[w], Upto(g, w, skipTarget), Marks(g, w, skipTarget))
    BY <1>0, <1>6 DEF Links, LinkAt
  <2>4. Upto(g2, w, skipTarget) = Upto(g, w, skipTarget) /\ Marks(g2, w, skipTarget) = Marks(g, w, skipTarget)
    BY <1>4, Zenon DEF Upto, Marks
  <2>5. skipTarget' = skipTarget
    BY DEF skipTarget
  <2>6. LinkAt(g2, w)'
    BY <1>4, <1>5, <1>6, <2>2, <2>3, <2>4, <2>5 DEF LinkAt
  <2>7. g.rd[w] + 1 \in 1..N(g) /\ w # 1
    BY <1>1, <1>6, <2>2
  <2> QED
    BY <1>1, <2>2, <2>6, <2>7
<1>7. CASE w = 1
  <2>1. PICK r \in Nat : r = g.rd[1]
    BY <1>1, <1>7
  <2>2. g.sn[0] \in Nat /\ g.sn[0] <= N(g) /\ (toWrite # {} => g.sn[0] = N(g) - 1)
    BY <1>0, RootFacts
  <2>3. FirstRun(Q(0, 1), g.h, r + r, Written(g, 1) + g.sn[0])
    BY <1>0, <1>3, <1>7, <2>1 DEF Links, FirstAt
  <2>4. r + r \in Nat /\ Written(g, 1) + g.sn[0] \in Nat
    BY <1>1, <1>7, <2>2
  <2>5. /\ FirstRun(Q(0, 1)', g.h, (r + r) + 1, Written(g, 1) + g.sn[0])
        /\ FirstMsg(Q(0, 1)[1], (r + r) + 1, g.h) /\ (r + r) + 1 <= Written(g, 1) + g.sn[0]
    BY <1>7, <2>3, <2>4, FirstRunShrinks
  <2>6. Written(g, 1) = N(g) \/ g.sn[0] = N(g) - 1
    BY <2>2 DEF Written
  <2>7. r + 1 <= Written(g, 1)
    BY <1>1, <1>7, <2>1, <2>2, <2>5, <2>6
  <2>8. r + 1 \in 1..N(g) /\ (r + r) + 1 = 2 * (r + 1) - 1 /\ (r + 1) + r = (r + r) + 1
    BY <1>1, <1>7, <2>7
  <2>9. Q(0, 1)[1] = Control(g.h[r + 1])
    <3>1. FirstMsg(Q(0, 1)[1], 2 * (r + 1) - 1, g.h)
      BY <2>5, <2>8
    <3>2. Len(g.h) \in Nat /\ r + 1 \in 1..Len(g.h)
      BY <1>1, <2>8 DEF N
    <3> QED
      BY <3>1, <3>2, FirstMessages
  <2>10. FirstAt(g2)'
    <3>1. g2.rd[1] + g2.rc[1] = (r + r) + 1
      BY <1>3, <1>4, <1>7, <2>1, <2>8
    <3> QED
      BY <1>4, <1>5, <1>7, <2>5, <3>1 DEF FirstAt
  <2> QED
    BY <1>7, <2>1, <2>7, <2>8, <2>9, <2>10
<1> QED
  BY <1>6, <1>7, StageFacts

\* A worker reads the next control packet.
LEMMA FlowReadControl ==
    ASSUME TypeInv, NEW g, NEW g2, Flow(g), NEW w \in Workers, ReadControl(w), session' = session,
           GRead(g, g2, w)
    PROVE  Flow(g2)'
<1>0. /\ g \in Ghosts /\ RootAt(g) /\ (\A v \in Workers : WorkerAt(g, v) /\ SkipAt(g, v))
      /\ Links(g) /\ Chains /\ Pace(g) /\ Quiet(g) /\ Ends(g)
  BY DEF Flow
<1>1. /\ pc[w] = "ctrl" /\ Incoming(0, w) /\ Drop(0, w)
      /\ UNCHANGED <<sent, got, toWrite, request, pos, waves, faults>>
  BY DEF ReadControl, rootVars, bases
<1>2. PICK k : k = skipTarget
  OBVIOUS
<1>3. w \in Stages /\ w \in Nat /\ w >= 1 /\ 0 \in Stages /\ w # 0 /\ ~(w < 0)
  BY StageFacts
<1>4. /\ Shrunk(Q(0, w), Q(0, w)')
      /\ \A a, b \in Stages : a # 0 \/ b # w => Q(a, b)' = Q(a, b)
  BY <1>1, <1>3, DroppedShrinks
<1>5. w >= 2 => w - 1 \in Stages /\ w - 1 # 0
  BY StageFacts
<1>6. w >= 2 => Q(w - 1, w)' = Q(w - 1, w)
  BY <1>3, <1>4, <1>5
<1>7. /\ Q(0, w)[1] = Control(g.h[g.rd[w] + 1]) /\ g.rd[w] + 1 <= Written(g, w)
      /\ g.rd[w] + 1 \in 1..N(g) /\ g.rd[w] \in Nat
      /\ w >= 2 => LinkAt(g2, w)'
      /\ w = 1 => FirstAt(g2)'
  BY <1>1, <1>4, <1>6, CtrlHead
<1>8. PICK p \in Packet : p = g.h[g.rd[w] + 1]
  BY <1>0, <1>7, GhostTypes
<1>9. Head(sock[<<0, w>>]) = Control(p)
  BY <1>7, <1>8 DEF Q
<1>10. Control(p).kind = "ctrl" /\ Control(p).packet = p
  BY DEF Control
<1>11. /\ g2 \in Ghosts /\ g2.h = g.h /\ g2.sk = g.sk /\ g2.sn = g.sn /\ g2.rc = g.rc /\ N(g2) = N(g)
       /\ g2.rd[w] = g.rd[w] + 1
       /\ \A t \in Workers : t # w => g2.rd[t] = g.rd[t]
  BY <1>0, ReadValues
<1>12. Chains'
  <2>1. Q(0, w)[1].kind # "act"
    BY <1>7, <1>8, <1>10
  <2> QED
    BY <1>0, <1>1, <1>3, <2>1, ChainsReceived
<1>13. Pace(g2)'
  <2>1. PaceOK(g2, skipTarget, useWave)
    BY <1>0, PaceRead DEF Pace
  <2> QED
    BY <2>1 DEF Pace, skipTarget, useWave
<1>14. /\ g.sn[w] = g.rd[w] /\ g.rc[w] = g.rd[w] /\ g.rc[w] \in Nat /\ g.sn[w] \in Nat
       /\ Written(g, w) \in Nat
  <2>1. g.sn[w] = g.rd[w]
    BY <1>0, <1>1 DEF WorkerAt, WorkerOK
  <2>2. g.rc[w] \in Nat /\ g.sn[w] \in Nat /\ g.sn[w] <= g.rc[w] /\ g.rc[w] <= g.rd[w] /\ Written(g, w) \in Nat
    BY <1>0, WorkerBounds
  <2> QED
    BY <1>7, <2>1, <2>2
<1>15. Written(g2, w)' = Written(g, w)
  BY <1>1, <1>11 DEF Written
<1>16. /\ \A t \in Stages : t # w => pc'[t] = pc[t] /\ ctrl'[t] = ctrl[t]
       /\ WorkerAt(g2, w)' /\ SkipAt(g2, w)' /\ Ends(g2)'
  <2>0. ctrl \in [Stages -> Packet] /\ pc \in [Stages -> {"prefill", "decode", "write", "forward", "send", "recv",
                          "drain", "ctrl", "decide", "marker", "bypass", "over"}]
    BY DEF TypeInv, TypeOK
  <2>1. CASE p.batchSize > 0
    <3>1. ctrl' = [ctrl EXCEPT ![w] = p] /\ Goto(w, "recv") /\ why' = why
      BY <1>9, <1>10, <2>1 DEF ReadControl
    <3>2. pc'[w] = "recv" /\ \A t \in Stages : t # w => pc'[t] = pc[t]
      BY <1>3, <3>1, GotoPcs
    <3>3. ctrl'[w] = p /\ \A t \in Stages : t # w => ctrl'[t] = ctrl[t]
      BY <1>3, <2>0, <3>1
    <3>4. ~Stop(g.h[g.rd[w] + 1])
      BY <1>8, <2>1 DEF Stop
    <3>5. WorkerOK("recv", p, g.h, g.rd[w] + 1, g.rc[w], g.sn[w], Written(g, w))
      BY <1>7, <1>8, <1>14, <3>4 DEF WorkerOK, WorkerPcs
    <3>6. WorkerAt(g2, w)'
      BY <1>11, <1>15, <3>2, <3>3, <3>5 DEF WorkerAt
    <3>7. SkipAt(g2, w)'
      BY <3>2 DEF SkipAt, SkipOK
    <3>8. \A s \in Stages : why'[s] = why[s] /\ (pc'[s] = "over" <=> pc[s] = "over")
      BY <1>1, <3>1, <3>2
    <3>9. \A s \in Stages : s # 0 /\ pc[s] = "over" => g2.rd[s] = g.rd[s]
      BY <1>1, <1>11, StageFacts
    <3>10. Ends(g2)'
      BY <1>0, <1>1, <1>11, <3>8, <3>9, EndsKept
    <3> QED
      BY <3>2, <3>3, <3>6, <3>7, <3>10
  <2>2. CASE ~(p.batchSize > 0)
    <3>1. End(w, "stop") /\ ctrl' = ctrl
      BY <1>9, <1>10, <2>2 DEF ReadControl
    <3>2. /\ pc'[w] = "over" /\ why'[w] = "stop"
          /\ \A t \in Stages : t # w => pc'[t] = pc[t] /\ why'[t] = why[t]
      BY <1>3, <3>1, EndedPcs
    <3>3. p.batchSize \in Nat
      BY DEF Packet
    <3>4. Stop(g.h[g.rd[w] + 1])
      BY <1>8, <2>2, <3>3 DEF Stop
    <3>5. g.rd[w] + 1 = N(g) /\ N(g) > 0
      BY <1>0, <1>7, <3>4, RootFacts
    <3>6. WorkerOK("over", ctrl[w], g.h, g.rd[w] + 1, g.rc[w], g.sn[w], Written(g, w))
      BY <1>7, <1>14 DEF WorkerOK, WorkerPcs
    <3>7. WorkerAt(g2, w)'
      BY <1>11, <1>15, <3>1, <3>2, <3>6 DEF WorkerAt
    <3>8. SkipAt(g2, w)'
      BY <3>2 DEF SkipAt, SkipOK
    <3>9. Ends(g2)'
      <4>1. /\ \A s \in Stages : why[s] # "protocol"
            /\ why[0] = "assert" => pc[0] = "over"
            /\ faults = 0 /\ PositionsInRange => \A s \in Stages : EndOK(g, s)
        BY <1>0 DEF Ends
      <4>2. (faults = 0 /\ PositionsInRange)' => faults = 0 /\ PositionsInRange
        BY <1>1, <1>3, <3>2 DEF PositionsInRange
      <4>3. ASSUME faults = 0, PositionsInRange, NEW s \in Stages PROVE EndOK(g2, s)'
        <5>1. CASE s = w
          BY <1>3, <1>11, <3>2, <3>4, <3>5, <5>1 DEF EndOK
        <5>2. CASE s # w
          <6>1. s # 0 => g2.rd[s] = g.rd[s]
            BY <1>11, <5>2, StageFacts
          <6>2. EndOK(g, s)
            BY <4>1, <4>3
          <6>3. pc'[s] = pc[s] /\ why'[s] = why[s]
            BY <3>2, <5>2
          <6> QED
            BY <1>1, <1>11, <6>1, <6>2, <6>3 DEF EndOK
        <5> QED
          BY <5>1, <5>2
      <4> QED
        BY <1>3, <3>2, <4>1, <4>2, <4>3 DEF Ends
    <3> QED
      BY <3>1, <3>2, <3>7, <3>8, <3>9
  <2> QED
    BY <2>1, <2>2
<1>17. Moved(g, g2, 0, w, w)
  BY <1>1, <1>3, <1>4, <1>11, <1>16 DEF Moved
<1>18. ASSUME NEW v \in Workers, v >= 2 PROVE LinkAt(g2, v)'
  <2>1. CASE v = w
    BY <1>7, <1>18, <2>1
  <2>2. CASE v # w
    <3>1. v \in Stages /\ v - 1 \in Stages
      BY StageFacts
    <3>2. Q(0, v)' = Q(0, v) /\ Q(v - 1, v)' = Q(v - 1, v)
      BY <1>3, <1>4, <2>2, <3>1
    <3>3. LinkAt(g, v)
      BY <1>0, <1>18 DEF Links
    <3> QED
      BY <1>1, <1>11, <2>2, <3>2, <3>3, LinkKept
  <2> QED
    BY <2>1, <2>2
<1>19. BypassAt(g2)'
  <2>1. k >= 2 => k - 1 \in Stages /\ k + 1 \in Stages /\ k - 1 # 0
    BY <1>2, TargetFacts
  <2>2. k >= 2 => Q(k - 1, k + 1)' = Q(k - 1, k + 1)
    BY <1>4, <2>1
  <2> QED
    BY <1>0, <1>2, <1>11, <2>2, BypassKept DEF Links
<1>20. LastStage \in Stages /\ LastStage # 0
  BY StageFacts
<1>21. Q(LastStage, 0)' = Q(LastStage, 0)
  BY <1>3, <1>4, <1>20
<1>22. LogitsAt(g2)'
  BY <1>0, <1>11, <1>21, LogitsKept DEF Links
<1>23. Quiet(g2)'
  <2>1. pc'[0] = pc[0]
    BY <1>3, <1>16
  <2> QED
    BY <1>0, <1>11, <1>21, <2>1, QuietKept
<1>24. ASSUME NEW v \in Workers, v # w, pc[v] = "bypass", w = v + 2 \/ (0 = v /\ w = v + 2)
       PROVE  SkipAt(g2, v)'
  <2>1. v \in Nat /\ v \in Stages /\ v # 0 /\ v + 2 \in Stages
    BY <1>3, <1>24, StageFacts
  <2>2. Q(v, v + 2)' = Q(v, v + 2) /\ pc'[v] = pc[v] /\ ctrl'[v] = ctrl[v]
    BY <1>4, <1>16, <1>24, <2>1
  <2> QED
    BY <1>0, <1>11, <1>24, <2>2, SkipKept
<1>25. Owed(g2, 0, w, w, k)
  BY <1>3, <1>7, <1>12, <1>13, <1>16, <1>18, <1>19, <1>22, <1>23, <1>24, <1>20 DEF Owed
<1> QED
  BY <1>2, <1>3, <1>17, <1>25, FlowStep

-----------------------------------------------------------------------------
\* What stage v has completed, the stages before it have completed.
LEMMA Upstream ==
    ASSUME TypeInv, NEW g \in Ghosts, RootAt(g), \A w \in Workers : WorkerAt(g, w), Pace(g),
           NEW v \in Stages, NEW n \in Nat, n <= g.sn[v], NEW k, k = skipTarget
    PROVE  \A i \in Stages : i <= v /\ ~(k # 0 /\ i = k /\ i # v) => n <= g.sn[i]
<1>1. ASSUME NEW i \in Stages, i < v, ~(k # 0 /\ i = k) PROVE n <= g.sn[i]
  <2>1. v \in Workers /\ g.sn[i] \in Nat
    BY <1>1, StageFacts, GhostTypes
  <2>2. g.sn[v] <= g.rc[v] /\ g.sn[v] \in Nat /\ g.rc[v] \in Nat
    BY <2>1, WorkerBounds
  <2>3. g.rc[v] <= g.sn[i]
    BY <1>1, <2>1 DEF Pace, PaceOK, Order
  <2> QED
    BY <2>1, <2>2, <2>3
<1>2. \A i \in Stages : i <= v => i = v \/ i < v
  BY StageFacts
<1> QED
  BY <1>1, <1>2

\* The next rows for a worker that waits for them: those of its packet, or the
\* marker.
LEMMA ActHead ==
    ASSUME TypeInv, NEW g, NEW g2, Flow(g), NEW w \in Workers, pc[w] = "recv",
           Shrunk(Q(w - 1, w), Q(w - 1, w)'), session' = session, toWrite' = toWrite,
           w >= 2 => Q(0, w)' = Q(0, w), NEW k, k = skipTarget,
           g2.h = g.h, g2.rd = g.rd, g2.sk = g.sk, g2.rc[w] = g.rc[w] + 1, g2.sn[w - 1] = g.sn[w - 1]
    PROVE  /\ RowsFor(Q(w - 1, w)[1], ctrl[w], g.rd[w] \in Marks(g, w, k) /\ w >= 2)
           /\ g.rd[w] <= g.sn[w - 1]
           /\ w >= 2 => LinkAt(g2, w)'
           /\ w >= 2 => ~(k # 0 /\ w = k + 1 /\ N(g) \in g.sk)
           /\ w = 1 => FirstAt(g2)'
<1>0. g \in Ghosts /\ RootAt(g) /\ WorkerAt(g, w) /\ Links(g)
  BY DEF Flow
<1>1. /\ g.rd[w] \in Nat /\ g.rc[w] \in Nat /\ N(g) \in Nat /\ g.rc[w] = g.rd[w] - 1
      /\ g.rd[w] \in 1..N(g) /\ ctrl[w] = g.h[g.rd[w]]
  BY <1>0, Working
<1>2. Written(g, w) \in Nat /\ Written(g, w) <= N(g) /\ g.rd[w] <= Written(g, w)
  BY <1>0, WorkerBounds
<1>3. w \in Nat /\ w - 1 \in Stages
  BY StageFacts
<1>4. g.sn[w - 1] \in Nat
  BY <1>0, <1>3, GhostTypes
<1>5. g.rc[w] + 1 = g.rd[w]
  BY <1>1
<1>6. N(g2) = N(g)
  BY DEF N
<1>7. Written(g2, w)' = Written(g, w)
  BY <1>6 DEF Written
<1>8. CASE w >= 2
  <2>1. ActRun(Q(w - 1, w), g.h, g.rc[w], Upto(g, w, k), Marks(g, w, k))
    BY <1>0, <1>8 DEF Links, LinkAt
  <2>2. Upto(g, w, k) \in Nat
    BY <1>1, <1>4 DEF Upto
  <2>3. /\ ActRun(Q(w - 1, w)', g.h, g.rc[w] + 1, Upto(g, w, k), Marks(g, w, k))
        /\ RowsFor(Q(w - 1, w)[1], g.h[g.rc[w] + 1], g.rc[w] + 1 \in Marks(g, w, k))
        /\ g.rc[w] + 1 <= Upto(g, w, k)
    BY <1>1, <2>1, <2>2, ActRunShrinks
  <2>4. /\ ~(k # 0 /\ w = k + 1 /\ N(g) \in g.sk) /\ g.rc[w] + 1 <= g.sn[w - 1]
        /\ Upto(g, w, k) = g.sn[w - 1]
    BY <1>1, <1>4, <2>3 DEF Upto
  <2>5. Upto(g2, w, k) = g.sn[w - 1]
    BY <1>1, <1>4, <1>6, <2>4 DEF Upto
  <2>6. Marks(g2, w, k) = Marks(g, w, k)
    BY DEF Marks
  <2>7. CtrlRun(Q(0, w), g.h, g.rd[w], Written(g, w))
    BY <1>0, <1>8 DEF Links, LinkAt
  <2>8. skipTarget' = k
    BY DEF skipTarget
  <2>9. LinkAt(g2, w)'
    BY <1>7, <1>8, <2>3, <2>4, <2>5, <2>6, <2>7, <2>8 DEF LinkAt
  <2>10. w # 1
    BY <1>8
  <2> QED
    BY <1>1, <1>5, <1>8, <2>3, <2>4, <2>9, <2>10
<1>9. CASE w = 1
  <2>1. PICK r \in Nat : r = g.rd[1]
    BY <1>1, <1>9
  <2>2. g.sn[0] \in Nat /\ g.sn[0] <= N(g) /\ g.sn[0] >= N(g) - 1
    BY <1>0, RootFacts
  <2>3. r >= 1 /\ g.rd[1] + g.rc[1] = r + (r - 1) /\ r + (r - 1) \in Nat
    BY <1>1, <1>9, <2>1
  <2>4. FirstRun(Q(0, 1), g.h, r + (r - 1), Written(g, 1) + g.sn[0])
    BY <1>0, <2>3 DEF Links, FirstAt
  <2>5. Written(g, 1) + g.sn[0] \in Nat
    BY <1>2, <1>9, <2>2
  <2>6. Shrunk(Q(0, 1), Q(0, 1)')
    <3>1. w - 1 = 0
      BY <1>9
    <3> QED
      BY <1>9, <3>1
  <2>7. /\ FirstRun(Q(0, 1)', g.h, (r + (r - 1)) + 1, Written(g, 1) + g.sn[0])
        /\ FirstMsg(Q(0, 1)[1], (r + (r - 1)) + 1, g.h) /\ (r + (r - 1)) + 1 <= Written(g, 1) + g.sn[0]
    BY <2>3, <2>4, <2>5, <2>6, FirstRunShrinks
  <2>8. (r + (r - 1)) + 1 = 2 * r
    BY <2>3
  <2>9. r <= g.sn[0]
    BY <1>1, <1>2, <1>9, <2>1, <2>2, <2>7, <2>8
  <2>10. RowsFor(Q(0, 1)[1], g.h[r], FALSE)
    <3>1. FirstMsg(Q(0, 1)[1], 2 * r, g.h)
      BY <2>7, <2>8
    <3>2. Len(g.h) \in Nat /\ r \in 1..Len(g.h)
      BY <1>1, <1>9, <2>1 DEF N
    <3> QED
      BY <3>1, <3>2, FirstMessages
  <2>11. FirstAt(g2)'
    <3>1. g2.rd[1] + g2.rc[1] = (r + (r - 1)) + 1
      BY <1>1, <1>9, <2>1, <2>3
    <3>2. g2.sn[0] = g.sn[0]
      BY <1>9
    <3> QED
      BY <1>7, <1>9, <2>7, <3>1, <3>2 DEF FirstAt
  <2>12. w - 1 = 0 /\ ~(w >= 2)
    BY <1>9
  <2> QED
    BY <1>1, <1>9, <2>1, <2>9, <2>10, <2>11, <2>12
<1>10. w = 1 \/ w >= 2
  BY StageFacts
<1> QED
  BY <1>8, <1>9, <1>10

\* The stage before the target holds the packet at which it skips, and the stage
\* behind waits for its rows: it is the last one.
LEMMA BypassIsLast ==
    ASSUME TypeInv, NEW g, Flow(g), NEW v \in Workers, pc[v] = "bypass"
    PROVE  g.rd[v] = N(g) /\ N(g) \in g.sk /\ v + 1 = skipTarget /\ Len(Q(v, v + 2)) = 0
<1>0. /\ g \in Ghosts /\ RootAt(g) /\ (\A u \in Workers : WorkerAt(g, u) /\ SkipAt(g, u)) /\ Pace(g)
  BY DEF Flow
<1>1. /\ v + 1 = skipTarget /\ g.rd[v] \in g.sk /\ Len(Q(v, v + 2)) = 0 /\ g.rc[v + 2] < g.rd[v]
  BY <1>0 DEF SkipAt, SkipOK
<1>2. g.rd[v] \in 1..N(g) /\ g.h[g.rd[v]].phase = "decode"
  BY <1>0, <1>1, SkippedFacts
<1>3. v \in Nat /\ v + 2 = skipTarget + 1 /\ skipTarget # 0 /\ v + 2 # skipTarget
  <2>1. v \in Nat
    BY StageFacts
  <2>2. \A t : v + 1 = t => v + 2 = t + 1 /\ t # 0 /\ v + 2 # t
    BY <2>1
  <2> QED
    BY <1>1, <2>1, <2>2, Zenon
<1>4. v + 2 \in Workers /\ v + 2 \in Stages
  BY <1>3, TargetFacts
<1>5. g.sn[v + 2] >= N(g) - 1
  BY <1>0, <1>2, <1>3, <1>4, Settled
<1>6. g.sn[v + 2] <= g.rc[v + 2] /\ g.sn[v + 2] \in Nat /\ g.rc[v + 2] \in Nat /\ N(g) \in Nat
  BY <1>0, <1>4, WorkerBounds
<1>7. g.rd[v] = N(g)
  BY <1>1, <1>2, <1>5, <1>6
<1> QED
  BY <1>1, <1>7

\* The target reads the marker.
LEMMA FlowSkipForward ==
    ASSUME TypeInv, NEW g, NEW g2, Flow(g), NEW w \in Workers, NEW src \in Stages, SkipForward(w, src),
           session' = session, GSkip(g, g2, w)
    PROVE  Flow(g2)' /\ g.rd[w] \in g.sk
<1>0. /\ g \in Ghosts /\ RootAt(g) /\ (\A v \in Workers : WorkerAt(g, v) /\ SkipAt(g, v))
      /\ Links(g) /\ Chains /\ Pace(g) /\ Ends(g)
  BY DEF Flow
<1>1. /\ pc[w] = "recv" /\ Incoming(src, w) /\ RecvRows(src, w, ctrl[w].batchSize) /\ Goto(w, "ctrl")
      /\ UNCHANGED <<why, ctrl, toWrite, request, pos, waves, faults>> /\ src \in Sources(w)
      /\ IsMarker(w, Q(src, w)[1])
  BY DEF SkipForward, rootVars, Q
<1>2. PICK k : k = skipTarget
  OBVIOUS
<1>3. w = k /\ k # 0 /\ Q(src, w)[1].bypass
  BY <1>1, <1>2 DEF IsMarker, TargetStage, SkipEnabled
<1>4. /\ k \in Nat /\ k \in Workers /\ k \in Stages /\ k + 1 \in Workers /\ k + 1 \in Stages /\ k # LastStage
      /\ k - 1 \in Stages /\ k # k + 1 /\ k - 1 # k /\ 0 \in Stages /\ k - 1 < k
  BY <1>2, <1>3, TargetFacts, StageFacts
<1>5. src = w - 1
  BY <1>1, <1>2, <1>3, <1>4 DEF Sources, Polls, PostTargetStage
<1>6. Drop(w - 1, w) /\ Incoming(w - 1, w)
  BY <1>1, <1>5 DEF RecvRows
<1>7. /\ Shrunk(Q(w - 1, w), Q(w - 1, w)')
      /\ \A a, b \in Stages : a # w - 1 \/ b # w => Q(a, b)' = Q(a, b)
  BY <1>3, <1>4, <1>6, DroppedShrinks
<1>8. w >= 2 => Q(0, w)' = Q(0, w)
  <2>1. w >= 2 => 0 # w - 1
    BY <1>3, <1>4
  <2> QED
    BY <1>3, <1>4, <1>7, <2>1
<1>9. /\ g2 \in Ghosts /\ g2.h = g.h /\ g2.sk = g.sk /\ g2.rd = g.rd /\ N(g2) = N(g)
      /\ g2.rc[w] = g.rc[w] + 1 /\ g.rc[w] \in Nat
      /\ \A t \in Workers : t # w => g2.rc[t] = g.rc[t]
      /\ g2.sn[w] = g.sn[w] + 1 /\ g.sn[w] \in Nat
      /\ \A t \in Stages : t # w => g2.sn[t] = g.sn[t]
  BY <1>0, SkipValues
<1>10. g2.sn[w - 1] = g.sn[w - 1]
  BY <1>3, <1>4, <1>9
<1>11. /\ RowsFor(Q(w - 1, w)[1], ctrl[w], g.rd[w] \in Marks(g, w, k) /\ w >= 2)
       /\ g.rd[w] <= g.sn[w - 1]
       /\ w >= 2 => LinkAt(g2, w)'
  BY <1>1, <1>2, <1>7, <1>8, <1>9, <1>10, ActHead
<1>12. w >= 2 /\ g.rd[w] \in g.sk /\ IsAct(Q(w - 1, w)[1], ctrl[w], 0, TRUE)
  <2>1. Q(w - 1, w)[1].bypass
    BY <1>3, <1>5
  <2>2. g.rd[w] \in Marks(g, w, k) /\ w >= 2
    BY <1>11, <2>1 DEF RowsFor, IsAct
  <2> QED
    BY <1>3, <1>11, <2>2 DEF RowsFor, Marks
<1>13. /\ g.rd[w] \in Nat /\ g.rc[w] = g.rd[w] - 1 /\ g.sn[w] = g.rd[w] - 1 /\ N(g) \in Nat
       /\ g.rd[w] \in 1..N(g) /\ ctrl[w] = g.h[g.rd[w]]
  BY <1>0, <1>1, Working
<1>14. Chains'
  <2>1. ctrl[w].batchSize \in Nat /\ 0 <= ctrl[w].batchSize
    <3>1. ctrl[w].batchSize \in Nat
      BY <1>3, <1>4 DEF TypeInv, TypeOK, Packet
    <3> QED
      BY <3>1
  <2>2. PICK n \in Nat : n = ctrl[w].batchSize
    BY <2>1
  <2>3. RecvRows(w - 1, w, n) /\ 0 <= n
    BY <1>1, <1>5, <2>1, <2>2
  <2> QED
    BY <1>0, <1>3, <1>4, <1>6, <1>12, <2>3, RowsDecode
<1>15. pc'[w] = "ctrl" /\ \A t \in Stages : t # w => pc'[t] = pc[t]
  BY <1>1, <1>3, <1>4, GotoPcs
<1>16. WorkerAt(g2, w)'
  <2>1. Written(g2, w)' = Written(g, w)
    BY <1>1, <1>9 DEF Written
  <2>2. WorkerOK("ctrl", ctrl[w], g.h, g.rd[w], g.rc[w] + 1, g.sn[w] + 1, Written(g, w))
    BY <1>0, <1>1, <1>13 DEF WorkerAt, WorkerOK, WorkerPcs
  <2> QED
    BY <1>1, <1>9, <1>15, <2>1, <2>2 DEF WorkerAt
<1>17. SkipAt(g2, w)'
  BY <1>15 DEF SkipAt, SkipOK
<1>18. LinkAt(g2, k + 1)'
  <2>1. Q(k, k + 1)' = Q(k, k + 1) /\ Q(0, k + 1)' = Q(0, k + 1)
    BY <1>3, <1>4, <1>7
  <2>2. k + 1 >= 2 /\ (k + 1) - 1 = k
    BY <1>4, StageFacts
  <2>3. LinkAt(g, k + 1)
    BY <1>0, <1>4, <2>2 DEF Links
  <2>4. g2.rc[k + 1] = g.rc[k + 1] /\ g.rc[k + 1] \in Nat
    BY <1>0, <1>3, <1>4, <1>9, GhostTypes
  <2>5. N(g) \in g.sk \/ g.sn[k] + 1 <= g.rc[k + 1]
    <3>1. g.h[g.rd[w]].phase = "decode"
      BY <1>0, <1>12, SkippedFacts
    <3>2. g.sn[k + 1] >= N(g) - 1
      BY <1>0, <1>2, <1>4, <1>13, <3>1, Settled
    <3>3. g.sn[k + 1] <= g.rc[k + 1] /\ g.sn[k + 1] \in Nat
      BY <1>0, <1>4, WorkerBounds
    <3>4. ASSUME N(g) \notin g.sk PROVE g.sn[k] + 1 <= g.rc[k + 1]
      <4>1. g.rd[w] # N(g)
        BY <1>12, <3>4
      <4>2. g.sn[k] + 1 = g.rd[w]
        BY <1>3, <1>13
      <4> QED
        BY <1>13, <2>4, <3>2, <3>3, <4>1, <4>2
    <3> QED
      BY <3>4
  <2>6. Upto(g2, k + 1, k) = g.rc[k + 1] /\ Upto(g, k + 1, k) = g.rc[k + 1]
    <3>1. g2.sn[k] = g.sn[k] + 1 /\ g.sn[k] \in Nat /\ g2.sk = g.sk
      BY <1>3, <1>9
    <3>2. g.sn[k] + 1 <= g.rc[k + 1] => g.sn[k] <= g.rc[k + 1] /\ g2.sn[k] <= g.rc[k + 1]
      BY <2>4, <3>1
    <3> QED
      BY <1>3, <1>9, <2>2, <2>4, <2>5, <3>2 DEF Upto
  <2>7. Marks(g2, k + 1, k) = Marks(g, k + 1, k)
    BY <1>9 DEF Marks
  <2>8. skipTarget' = k
    BY <1>2 DEF skipTarget
  <2>9. Written(g2, k + 1)' = Written(g, k + 1)
    BY <1>1, <1>9 DEF Written
  <2>10. /\ CtrlRun(Q(0, k + 1), g.h, g.rd[k + 1], Written(g, k + 1))
         /\ ActRun(Q(k, k + 1), g.h, g.rc[k + 1], Upto(g, k + 1, k), Marks(g, k + 1, k))
    BY <1>2, <2>2, <2>3 DEF LinkAt
  <2>11. /\ CtrlRun(Q(0, k + 1)', g2.h, g2.rd[k + 1], Written(g2, k + 1)')
         /\ ActRun(Q(k, k + 1)', g2.h, g2.rc[k + 1], Upto(g2, k + 1, k), Marks(g2, k + 1, k))
    BY <1>9, <2>1, <2>4, <2>6, <2>7, <2>9, <2>10
  <2> QED
    BY <2>2, <2>8, <2>11 DEF LinkAt
<1>19. Pace(g2)'
  <2>1. \A i \in Stages : i < w => g.rc[w] + 1 <= g.sn[i]
    <3>1. \A i \in Stages : i <= k - 1 /\ ~(k # 0 /\ i = k /\ i # k - 1) => g.rd[w] <= g.sn[i]
      <4>1. PICK i \in Stages, n \in Nat : i = k - 1 /\ n = g.rd[w] /\ n <= g.sn[i]
        BY <1>3, <1>4, <1>11, <1>13, StageFacts
      <4>2. \A j \in Stages : j <= i /\ ~(k # 0 /\ j = k /\ j # i) => n <= g.sn[j]
        BY <1>0, <1>2, <4>1, Upstream
      <4> QED
        BY <4>1, <4>2
    <3>2. \A i \in Stages : i < w => i <= k - 1 /\ i # k
      BY <1>3, <1>4, StageFacts
    <3>3. g.rc[w] + 1 = g.rd[w]
      BY <1>13
    <3> QED
      BY <3>1, <3>2, <3>3
  <2>2. k >= 2 => k - 1 \in Workers
    BY <1>2, TargetFacts
  <2>3. PaceOK(g, k, useWave)
    BY <1>0, <1>2 DEF Pace
  <2>4. PaceOK(g2, k, useWave)
    BY <1>0, <1>3, <1>4, <2>1, <2>2, <2>3, PaceSkip
  <2> QED
    BY <1>2, <2>4 DEF Pace, skipTarget, useWave
<1>20. Ends(g2)'
  <2>1. \A s \in Stages : why'[s] = why[s] /\ (pc'[s] = "over" <=> pc[s] = "over")
    BY <1>1, <1>15
  <2> QED
    BY <1>0, <1>1, <1>9, <2>1, EndsKept
<1>21. Moved(g, g2, w - 1, w, w)
  BY <1>1, <1>3, <1>4, <1>7, <1>9, <1>15 DEF Moved
<1>22. ASSUME NEW v \in Workers, pc[v] = "bypass", w = v + 2 \/ (w - 1 = v /\ w = v + 2) PROVE FALSE
  <2>1. v + 1 = k /\ v \in Nat
    BY <1>2, <1>22, BypassIsLast, StageFacts
  <2> QED
    BY <1>3, <1>4, <1>22, <2>1
<1>23. ASSUME NEW v \in Workers, v - 1 = w PROVE v = k + 1
  BY <1>3, <1>4, <1>23, StageFacts
<1>24. w # 0 /\ w # 1 /\ k # k - 1
  BY <1>3, <1>4, <1>12
<1>25. ASSUME NEW v \in Workers, v >= 2,
              (w - 1 = 0 /\ w = v) \/ (w - 1 = v - 1 /\ w = v) \/ v = w \/ v - 1 = w
       PROVE  LinkAt(g2, v)'
  BY <1>11, <1>12, <1>18, <1>23, <1>25
<1>26. Owed(g2, w - 1, w, w, k)
  BY <1>3, <1>4, <1>14, <1>16, <1>17, <1>19, <1>20, <1>22, <1>24, <1>25 DEF Owed
<1>27. Flow(g2)'
  BY <1>2, <1>3, <1>4, <1>21, <1>26, FlowStep
<1> QED
  BY <1>12, <1>27

\* A worker has received the rows of its packet, and what is then left to show.
RecvOwed(g, g2, w, src, k) ==
    /\ src < w /\ pc[w] = "recv" /\ Goto(w, "forward")
    /\ UNCHANGED <<why, ctrl, toWrite, request, pos, waves, faults>>
    /\ \A a, b \in Stages : a # src \/ b # w => Q(a, b)' = Q(a, b)
    /\ Chains'
    /\ \A i \in Stages : i < w /\ ~(k # 0 /\ i = k) => g.rd[w] <= g.sn[i]
    /\ k # 0 /\ w = k + 1 /\ g.sn[k] < g.rd[w] => g.rd[w] \in g.sk
    /\ k # 0 /\ w = k => g.rd[w] \notin g.sk
    /\ w >= 2 => LinkAt(g2, w)'
    /\ w = 1 => FirstAt(g2)'
    /\ k >= 2 /\ w = k + 1 => BypassAt(g2)'
    /\ \A v \in Workers : pc[v] = "bypass" => w # v + 2

\* A worker received the rows of its packet, from the stage before it or around the target.
LEMMA FlowRecvd ==
    ASSUME TypeInv, NEW g, NEW g2, Flow(g), NEW w \in Workers, NEW src \in Stages,
           session' = session, GRecv(g, g2, w), NEW k, k = skipTarget, RecvOwed(g, g2, w, src, k)
    PROVE  Flow(g2)'
<1> USE DEF RecvOwed
<1>0. /\ g \in Ghosts /\ RootAt(g) /\ (\A v \in Workers : WorkerAt(g, v) /\ SkipAt(g, v))
      /\ Links(g) /\ Pace(g) /\ Quiet(g) /\ Ends(g)
  BY DEF Flow
<1>1. /\ w \in Stages /\ w \in Nat /\ w >= 1 /\ 0 \in Stages /\ w # 0 /\ ~(w < src) /\ w # 0
      /\ LastStage \in Stages /\ src \in Nat
  BY StageFacts
<1>2. /\ k \in Nat /\ (k # 0 => k \in Stages /\ k + 1 \in Workers /\ k + 1 \in Stages)
      /\ (k >= 2 => k - 1 \in Workers /\ k - 1 \in Stages)
  BY TargetFacts
<1>3. /\ g2 \in Ghosts /\ g2.h = g.h /\ g2.sk = g.sk /\ g2.sn = g.sn /\ g2.rd = g.rd /\ N(g2) = N(g)
      /\ g2.rc[w] = g.rc[w] + 1 /\ g.rc[w] \in Nat
      /\ \A t \in Workers : t # w => g2.rc[t] = g.rc[t]
  BY <1>0, RecvValues
<1>4. /\ g.rd[w] \in Nat /\ g.rc[w] = g.rd[w] - 1 /\ g.sn[w] = g.rd[w] - 1 /\ g.rd[w] >= 1
      /\ ~Stop(g.h[g.rd[w]])
  BY <1>0, Working
<1>5. g.rc[w] + 1 = g.rd[w]
  BY <1>4
<1>6. pc'[w] = "forward" /\ \A t \in Stages : t # w => pc'[t] = pc[t]
  BY <1>1, GotoPcs
<1>7. WorkerAt(g2, w)'
  <2>1. Written(g2, w)' = Written(g, w)
    BY <1>3 DEF Written
  <2>2. WorkerOK("forward", ctrl[w], g.h, g.rd[w], g.rc[w] + 1, g.sn[w], Written(g, w))
    BY <1>0, <1>4 DEF WorkerAt, WorkerOK, WorkerPcs
  <2> QED
    BY <1>3, <1>6, <2>1, <2>2 DEF WorkerAt
<1>8. SkipAt(g2, w)'
  <2>1. w + 1 = k => g.rd[w] \notin g.sk
    <3>1. ASSUME w + 1 = k, g.rd[w] \in g.sk PROVE FALSE
      <4>1. k - 1 = w
        BY <1>1, <3>1
      <4>2. g.rd[w] <= g.rc[w]
        BY <1>0, <3>1, <4>1, SkippedFacts
      <4> QED
        BY <1>4, <4>2
    <3> QED
      BY <3>1
  <2>2. w = k => g.rd[w] \notin g.sk
    BY <1>1
  <2>3. skipTarget' = k
    BY DEF skipTarget
  <2>4. SkipOK("forward", ctrl[w], w, g2, k, Len(Q(w, w + 2)'))
    BY <1>3, <2>1, <2>2 DEF SkipOK
  <2> QED
    BY <1>6, <2>3, <2>4 DEF SkipAt
<1>9. Pace(g2)'
  <2>1. /\ \A i \in Stages : i < w /\ ~(k # 0 /\ i = k) => g.rc[w] + 1 <= g.sn[i]
        /\ k # 0 /\ w = k + 1 /\ g.sn[k] < g.rc[w] + 1 => g.rc[w] + 1 \in g.sk
    BY <1>5
  <2>2. PaceOK(g, k, useWave)
    BY <1>0 DEF Pace
  <2>3. PaceOK(g2, k, useWave)
    BY <1>0, <1>2, <2>1, <2>2, PaceRecv
  <2> QED
    BY <2>3 DEF Pace, skipTarget, useWave
<1>10. Ends(g2)'
  <2>1. \A s \in Stages : why'[s] = why[s] /\ (pc'[s] = "over" <=> pc[s] = "over")
    BY <1>6
  <2> QED
    BY <1>0, <1>3, <2>1, EndsKept
<1>11. ASSUME NEW v \in Workers, v >= 2, v # w PROVE LinkAt(g2, v)'
  <2>1. v \in Stages /\ v - 1 \in Stages
    BY StageFacts
  <2>2. Q(0, v)' = Q(0, v) /\ Q(v - 1, v)' = Q(v - 1, v)
    BY <1>1, <1>11, <2>1
  <2>3. LinkAt(g, v)
    BY <1>0, <1>11 DEF Links
  <2> QED
    BY <1>3, <1>11, <2>2, <2>3, LinkKept
<1>12. Q(LastStage, 0)' = Q(LastStage, 0)
  BY <1>1
<1>13. LogitsAt(g2)'
  BY <1>0, <1>3, <1>12, LogitsKept DEF Links
<1>14. Quiet(g2)'
  <2>1. pc'[0] = pc[0]
    BY <1>1, <1>6
  <2> QED
    BY <1>0, <1>3, <1>12, <2>1, QuietKept
<1>15. k >= 2 => BypassAt(g2)'
  <2>1. CASE w = k + 1
    BY <2>1
  <2>2. CASE w # k + 1 /\ k >= 2
    <3>1. Q(k - 1, k + 1)' = Q(k - 1, k + 1) /\ g2.rc[k + 1] = g.rc[k + 1]
      BY <1>2, <1>3, <2>2
    <3> QED
      BY <1>0, <1>3, <3>1, BypassKept DEF Links
  <2> QED
    BY <2>1, <2>2
<1>16. (src = 0 /\ w = 1) \/ w = 1 => FirstAt(g2)'
  OBVIOUS
<1>17. Moved(g, g2, src, w, w)
  BY <1>1, <1>3, <1>6 DEF Moved
<1>18. \A v \in Workers : v >= 2 => LinkAt(g2, v)'
  BY <1>11
<1>19. \A v \in Workers : v # w /\ pc[v] = "bypass" /\ (w = v + 2 \/ (src = v /\ w = v + 2)) => SkipAt(g2, v)'
  OBVIOUS
<1>20. Owed(g2, src, w, w, k)
  BY <1>1, <1>7, <1>8, <1>9, <1>10, <1>13, <1>14, <1>15, <1>16, <1>18, <1>19 DEF Owed
<1> QED
  BY <1>1, <1>17, <1>20, FlowStep

\* What decodes with the position of the packet is accepted.
LEMMA Accepted ==
    ASSUME TypeInv, Chains, NEW w \in Workers, NEW src \in Stages, RecvActivation(w, src),
           NEW rows \in Nat, NEW bypass, IsAct(Q(src, w)[1], ctrl[w], rows, bypass), rows <= ctrl[w].batchSize
    PROVE  Goto(w, "forward") /\ why' = why /\ Chains'
<1>1. w \in Stages
  BY StageFacts
<1>2. ctrl[w].batchSize \in Nat
  BY <1>1 DEF TypeInv, TypeOK, Packet
<1>3. PICK n \in Nat : n = ctrl[w].batchSize
  BY <1>2
<1>4. Incoming(src, w) /\ RecvRows(src, w, n) /\ rows <= n
  BY <1>3 DEF RecvActivation
<1>5. Decodes(src, w, n) /\ Chains'
  BY <1>1, <1>4, RowsDecode
<1>6. Head(sock[<<src, w>>]).data.position = ctrl[w].position
  BY DEF IsAct, Q
<1> QED
  BY <1>3, <1>5, <1>6 DEF RecvActivation

\* The rows come from the stage before.
LEMMA FlowRecvNear ==
    ASSUME TypeInv, NEW g, NEW g2, Flow(g), NEW w \in Workers, RecvActivation(w, w - 1),
           session' = session, GRecv(g, g2, w)
    PROVE  Flow(g2)'
<1>0. /\ g \in Ghosts /\ RootAt(g) /\ (\A v \in Workers : WorkerAt(g, v) /\ SkipAt(g, v))
      /\ Links(g) /\ Chains /\ Pace(g)
  BY DEF Flow
<1>1. /\ pc[w] = "recv" /\ Incoming(w - 1, w) /\ Drop(w - 1, w) /\ ~IsMarker(w, Q(w - 1, w)[1])
      /\ UNCHANGED <<ctrl, toWrite, request, pos, waves, faults>>
  BY DEF RecvActivation, RecvRows, rootVars, Q
<1>2. PICK k : k = skipTarget
  OBVIOUS
<1>3. /\ w \in Stages /\ w \in Nat /\ w >= 1 /\ 0 \in Stages /\ w - 1 \in Stages /\ w - 1 < w
      /\ (w >= 2 => w - 1 # 0) /\ w # 0
  BY StageFacts
<1>4. /\ Shrunk(Q(w - 1, w), Q(w - 1, w)')
      /\ \A a, b \in Stages : a # w - 1 \/ b # w => Q(a, b)' = Q(a, b)
  BY <1>1, <1>3, DroppedShrinks
<1>5. w >= 2 => Q(0, w)' = Q(0, w)
  BY <1>3, <1>4
<1>6. /\ g2 \in Ghosts /\ g2.h = g.h /\ g2.sk = g.sk /\ g2.sn = g.sn /\ g2.rd = g.rd /\ N(g2) = N(g)
      /\ g2.rc[w] = g.rc[w] + 1 /\ g.rc[w] \in Nat
  BY <1>0, RecvValues
<1>7. /\ RowsFor(Q(w - 1, w)[1], ctrl[w], g.rd[w] \in Marks(g, w, k) /\ w >= 2)
      /\ g.rd[w] <= g.sn[w - 1]
      /\ w >= 2 => LinkAt(g2, w)'
      /\ w >= 2 => ~(k # 0 /\ w = k + 1 /\ N(g) \in g.sk)
      /\ w = 1 => FirstAt(g2)'
  BY <1>1, <1>2, <1>4, <1>5, <1>6, ActHead
<1>8. /\ g.rd[w] \in Nat /\ g.rd[w] \in 1..N(g) /\ ctrl[w] = g.h[g.rd[w]]
  BY <1>0, <1>1, Working
<1>9. ~(g.rd[w] \in Marks(g, w, k) /\ w >= 2)
  <2>1. ASSUME g.rd[w] \in Marks(g, w, k), w >= 2 PROVE FALSE
    <3>1. w = k /\ g.rd[w] \in g.sk
      BY <2>1 DEF Marks
    <3>2. ctrl[w].phase = "decode" /\ ctrl[w].batchSize = 1
      BY <1>0, <1>8, <3>1, SkippedFacts
    <3>3. IsAct(Q(w - 1, w)[1], ctrl[w], 0, TRUE)
      BY <1>7, <2>1 DEF RowsFor
    <3>4. IsMarker(w, Q(w - 1, w)[1])
      BY <1>2, <1>3, <3>1, <3>2, <3>3 DEF IsAct, IsMarker, TargetStage, SkipEnabled, DecodeSingle
    <3> QED
      BY <1>1, <3>4
  <2> QED
    BY <2>1
<1>10. IsAct(Q(w - 1, w)[1], ctrl[w], ctrl[w].batchSize, FALSE)
  BY <1>7, <1>9 DEF RowsFor
<1>11. PICK rows \in Nat : rows = ctrl[w].batchSize
  BY <1>3 DEF TypeInv, TypeOK, Packet
<1>12. Goto(w, "forward") /\ why' = why /\ Chains'
  <2>1. rows <= ctrl[w].batchSize
    BY <1>11
  <2>2. IsAct(Q(w - 1, w)[1], ctrl[w], rows, FALSE)
    BY <1>10, <1>11, Zenon
  <2> QED
    BY <1>0, <1>3, <2>1, <2>2, Accepted
<1>13. \A i \in Stages : i < w /\ ~(k # 0 /\ i = k) => g.rd[w] <= g.sn[i]
  <2>1. \A i \in Stages : i <= w - 1 /\ ~(k # 0 /\ i = k /\ i # w - 1) => g.rd[w] <= g.sn[i]
    BY <1>0, <1>2, <1>3, <1>7, <1>8, Upstream
  <2>2. \A i \in Stages : i < w => i <= w - 1
    BY <1>3, StageFacts
  <2> QED
    BY <2>1, <2>2
<1>14. k # 0 /\ w = k + 1 /\ g.sn[k] < g.rd[w] => g.rd[w] \in g.sk
  <2>1. ASSUME k # 0, w = k + 1, g.sn[k] < g.rd[w] PROVE FALSE
    <3>1. w - 1 = k /\ k \in Stages
      BY <1>2, <2>1, TargetFacts
    <3>2. g.sn[k] \in Nat
      BY <1>0, <3>1, GhostTypes
    <3> QED
      BY <1>7, <1>8, <2>1, <3>1, <3>2
  <2> QED
    BY <2>1
<1>15. k # 0 /\ w = k => g.rd[w] \notin g.sk
  <2>1. ASSUME k # 0, w = k, g.rd[w] \in g.sk PROVE FALSE
    <3>1. k >= 2
      BY <1>0, <1>2, <2>1, SkippedFacts
    <3> QED
      BY <1>9, <2>1, <3>1 DEF Marks
  <2> QED
    BY <2>1
<1>16. k >= 2 /\ w = k + 1 => BypassAt(g2)'
  <2>1. ASSUME k >= 2, w = k + 1 PROVE BypassAt(g2)'
    <3>1. N(g) \notin g.sk /\ k \in Nat
      BY <1>2, <1>3, <1>7, <2>1, TargetFacts
    <3>2. Len(Q(k - 1, k + 1)) = 0
      BY <1>0, <1>2, <2>1, <3>1, BypassCases DEF Links
    <3>3. k - 1 \in Stages /\ k + 1 \in Stages /\ k - 1 # w - 1
      BY <1>2, <2>1, TargetFacts
    <3>4. Q(k - 1, k + 1)' = Q(k - 1, k + 1)
      BY <1>4, <3>3
    <3>5. BypassRun(Q(k - 1, k + 1)', g2, k)
      BY <3>2, <3>4, BypassSet
    <3>6. skipTarget' = k
      BY <1>2 DEF skipTarget
    <3> QED
      BY <3>5, <3>6 DEF BypassAt, Q
  <2> QED
    BY <2>1
<1>17. ASSUME NEW v \in Workers, pc[v] = "bypass", w = v + 2 PROVE FALSE
  <2>1. N(g) \in g.sk /\ v + 1 = k
    BY <1>2, <1>17, BypassIsLast
  <2>2. v \in Nat
    BY StageFacts
  <2>3. w = k + 1 /\ k # 0 /\ w >= 2
    BY <1>17, <2>1, <2>2
  <2> QED
    BY <1>7, <2>1, <2>3
<1>19. UNCHANGED <<why, ctrl, toWrite, request, pos, waves, faults>>
  BY <1>1, <1>12
<1>20. \A v \in Workers : pc[v] = "bypass" => w # v + 2
  BY <1>17
<1>21. RecvOwed(g, g2, w, w - 1, k)
  BY <1>1, <1>3, <1>4, <1>7, <1>12, <1>13, <1>14, <1>15, <1>16, <1>19, <1>20 DEF RecvOwed
<1> QED
  BY <1>2, <1>3, <1>21, FlowRecvd

\* The stage behind the target receives rows that have bypassed the target.
LEMMA FlowRecvFar ==
    ASSUME TypeInv, NEW g, NEW g2, Flow(g), NEW w \in Workers, NEW src \in Stages, RecvActivation(w, src),
           src # w - 1, session' = session, GRecv(g, g2, w)
    PROVE  Flow(g2)'
<1>0. /\ g \in Ghosts /\ RootAt(g) /\ (\A v \in Workers : WorkerAt(g, v) /\ SkipAt(g, v))
      /\ Links(g) /\ Chains /\ Pace(g)
  BY DEF Flow
<1>1. /\ pc[w] = "recv" /\ Incoming(src, w) /\ Drop(src, w) /\ src \in Sources(w)
      /\ UNCHANGED <<ctrl, toWrite, request, pos, waves, faults>>
  BY DEF RecvActivation, RecvRows, rootVars
<1>2. PICK k : k = skipTarget
  OBVIOUS
<1>3. k # 0 /\ w = k + 1 /\ (src = k - 1 \/ src = k) /\ ctrl[w].phase = "decode" /\ ctrl[w].batchSize = 1
  BY <1>1, <1>2 DEF Sources, PolledSources, Polls, PostTargetStage, SkipEnabled, DecodeSingle
<1>4. /\ k \in Nat /\ k \in Workers /\ k + 1 \in Stages /\ k + 1 \in Workers
  BY <1>2, <1>3, TargetFacts
<1>5. src = k - 1 /\ w - 1 = k /\ w # k /\ w - 1 # src /\ w \in Stages /\ 0 \in Stages /\ src < w /\ k \in Stages
  BY <1>3, <1>4, StageFacts
<1>6. /\ g.rd[w] \in Nat /\ g.rc[w] = g.rd[w] - 1 /\ g.sn[w] = g.rd[w] - 1 /\ N(g) \in Nat /\ g.rc[w] \in Nat
      /\ g.rd[w] \in 1..N(g) /\ ctrl[w] = g.h[g.rd[w]]
  BY <1>0, <1>1, Working
<1>7. g.rd[w] = N(g)
  <2>1. g.sn[w] >= N(g) - 1
    BY <1>0, <1>2, <1>3, <1>5, <1>6, Settled
  <2> QED
    BY <1>6, <2>1
<1>8. Len(Q(src, w)) \in Nat /\ Len(Q(src, w)) >= 1
  BY <1>1, <1>5, DroppedShrinks DEF Shrunk
<1>9. k >= 2
  <2>1. ASSUME k = 1 PROVE FALSE
    <3>1. src = 0 /\ w >= 2
      BY <1>3, <1>5, <2>1
    <3>2. CtrlRun(Q(0, w), g.h, g.rd[w], Written(g, w))
      BY <1>0, <3>1 DEF Links, LinkAt
    <3>3. Written(g, w) <= N(g) /\ Written(g, w) \in Nat
      BY <1>0, WorkerBounds
    <3>4. Len(Q(0, w)) = Written(g, w) - g.rd[w]
      BY <3>2 DEF CtrlRun
    <3>5. Written(g, w) - g.rd[w] >= 1
      BY <1>8, <3>1, <3>4
    <3> QED
      BY <1>6, <1>7, <3>3, <3>5
  <2> QED
    BY <1>3, <1>4, <2>1
<1>10. /\ Len(Q(src, w)) = 1 /\ N(g) \in g.sk /\ g.sn[k - 1] = N(g) /\ IsAct(Q(src, w)[1], g.h[N(g)], 1, TRUE)
  <2>1. Len(Q(k - 1, k + 1)) # 0
    BY <1>3, <1>5, <1>8
  <2> QED
    BY <1>0, <1>2, <1>3, <1>5, <1>9, <2>1, BypassCases DEF Links
<1>11. IsAct(Q(src, w)[1], ctrl[w], 1, TRUE) /\ 1 <= ctrl[w].batchSize
  <2>1. ctrl[w] = g.h[N(g)]
    BY <1>6, <1>7
  <2>2. IsAct(Q(src, w)[1], ctrl[w], 1, TRUE)
    BY <1>10, <2>1, Zenon
  <2>3. 1 <= ctrl[w].batchSize
    BY <1>3
  <2> QED
    BY <2>2, <2>3, Zenon
<1>12. Goto(w, "forward") /\ why' = why /\ Chains'
  BY <1>0, <1>11, Accepted
<1>13. /\ Shrunk(Q(src, w), Q(src, w)')
       /\ \A a, b \in Stages : a # src \/ b # w => Q(a, b)' = Q(a, b)
  BY <1>1, <1>5, DroppedShrinks
<1>14. /\ g2.h = g.h /\ g2.sk = g.sk /\ g2.sn = g.sn /\ g2.rd = g.rd /\ N(g2) = N(g)
       /\ g2.rc[w] = g.rc[w] + 1
  BY <1>0, RecvValues
<1>15. \A i \in Stages : i < w /\ ~(k # 0 /\ i = k) => g.rd[w] <= g.sn[i]
  <2>1. k - 1 \in Stages /\ g.rd[w] <= g.sn[k - 1]
    BY <1>5, <1>6, <1>7, <1>10
  <2>2. \A i \in Stages : i <= k - 1 /\ ~(k # 0 /\ i = k /\ i # k - 1) => g.rd[w] <= g.sn[i]
    BY <1>0, <1>2, <1>6, <2>1, Upstream
  <2>3. \A i \in Stages : i < w /\ i # k => i <= k - 1
    BY <1>3, <1>4, StageFacts
  <2> QED
    BY <1>3, <2>2, <2>3
<1>16. LinkAt(g2, w)'
  <2>1. Q(0, w)' = Q(0, w) /\ Q(w - 1, w)' = Q(w - 1, w)
    <3>1. src # 0
      BY <1>4, <1>5, <1>9
    <3> QED
      BY <1>5, <1>13, <3>1
  <2>2. w >= 2
    BY <1>3, <1>4, <1>9
  <2>3. /\ CtrlRun(Q(0, w), g.h, g.rd[w], Written(g, w))
        /\ ActRun(Q(w - 1, w), g.h, g.rc[w], Upto(g, w, k), Marks(g, w, k))
    BY <1>0, <1>2, <2>2 DEF Links, LinkAt
  <2>4. Upto(g, w, k) = g.rc[w] /\ Upto(g2, w, k) = g.rc[w] + 1
    BY <1>3, <1>10, <1>14 DEF Upto
  <2>5. Len(Q(w - 1, w)) = 0
    BY <1>6, <2>3, <2>4 DEF ActRun
  <2>6. ActRun(Q(w - 1, w), g.h, g.rc[w] + 1, g.rc[w] + 1, Marks(g2, w, k))
    BY <1>6, <2>5 DEF ActRun
  <2>7. Written(g2, w)' = Written(g, w)
    BY <1>1, <1>14 DEF Written
  <2>8. skipTarget' = k
    BY <1>2 DEF skipTarget
  <2>9. /\ CtrlRun(Q(0, w)', g2.h, g2.rd[w], Written(g2, w)')
        /\ ActRun(Q(w - 1, w)', g2.h, g2.rc[w], Upto(g2, w, k), Marks(g2, w, k))
    BY <1>14, <2>1, <2>3, <2>4, <2>6, <2>7
  <2> QED
    BY <2>8, <2>9 DEF LinkAt
<1>17. BypassAt(g2)'
  <2>1. Len(Q(src, w)') = 0
    BY <1>10, <1>13 DEF Shrunk
  <2>2. Len(Q(k - 1, k + 1)') = 0
    BY <1>3, <1>5, <2>1
  <2>3. BypassRun(Q(k - 1, k + 1)', g2, k)
    BY <2>2, BypassSet
  <2>4. skipTarget' = k
    BY <1>2 DEF skipTarget
  <2> QED
    BY <2>3, <2>4 DEF BypassAt, Q
<1>18. ASSUME NEW v \in Workers, pc[v] = "bypass", w = v + 2 PROVE FALSE
  <2>1. v + 1 = k /\ Len(Q(v, v + 2)) = 0
    BY <1>2, <1>18, BypassIsLast
  <2>2. v \in Nat
    BY StageFacts
  <2>3. v = src
    BY <1>4, <1>5, <2>1, <2>2
  <2>4. Q(v, v + 2) = Q(src, w)
    BY <1>18, <2>3
  <2>5. Len(Q(src, w)) = 1
    BY <1>10, Zenon
  <2>6. 0 = 1
    BY <2>1, <2>4, <2>5, Zenon
  <2> QED
    BY <2>6
<1>19. \A v \in Workers : pc[v] = "bypass" => w # v + 2
  BY <1>18
<1>20. UNCHANGED <<why, ctrl, toWrite, request, pos, waves, faults>>
  BY <1>1, <1>12
<1>21. w # 1 /\ (g.sn[k] < g.rd[w] => g.rd[w] \in g.sk)
  BY <1>3, <1>4, <1>7, <1>9, <1>10
<1>22. RecvOwed(g, g2, w, src, k)
  BY <1>1, <1>5, <1>12, <1>13, <1>15, <1>16, <1>17, <1>19, <1>20, <1>21 DEF RecvOwed
<1> QED
  BY <1>2, <1>22, FlowRecvd

\* RecvActivation leaves what the previous lemma asks for, whichever source was ready.
LEMMA FlowRecvActivation ==
    ASSUME TypeInv, NEW g, NEW g2, Flow(g), NEW w \in Workers, NEW src \in Stages, RecvActivation(w, src),
           session' = session, GRecv(g, g2, w)
    PROVE  Flow(g2)'
BY FlowRecvNear, FlowRecvFar

-----------------------------------------------------------------------------
\* The decision stage decides to skip the target at its packet.
LEMMA FlowAccept ==
    ASSUME TypeInv, NEW g, NEW g2, Flow(g), NEW w \in Workers, NEW close, EvaluateSkip(w, close),
           pc'[w] = "marker", session' = session, GMark(g, g2, g.rd[w])
    PROVE  Flow(g2)'
<1>0. /\ g \in Ghosts /\ RootAt(g) /\ (\A v \in Workers : WorkerAt(g, v) /\ SkipAt(g, v))
      /\ Links(g) /\ Chains /\ Pace(g) /\ Quiet(g) /\ Wave(g) /\ Ends(g)
  BY DEF Flow
<1>1. /\ pc[w] = "decide" /\ Goto(w, "marker")
      /\ UNCHANGED <<sock, sent, got, why, ctrl, toWrite, request, pos, waves, faults>>
  <2>1. PICK to : Goto(w, to)
    BY DEF EvaluateSkip
  <2>2. w \in Stages
    BY StageFacts
  <2>3. to = "marker"
    BY <2>1, <2>2, GotoPcs
  <2> QED
    BY <2>1, <2>3 DEF EvaluateSkip, rootVars, bases
<1>2. PICK k : k = skipTarget
  OBVIOUS
<1>3. w + 1 = k /\ ctrl[w].phase = "decode" /\ ctrl[w].batchSize = 1
  BY <1>0, <1>1, <1>2 DEF SkipAt, SkipOK
<1>4. /\ w \in Stages /\ w \in Nat /\ w >= 1 /\ 0 \in Stages /\ w # 0
  <2>1. w \in Stages /\ w \in Nat /\ w >= 1 /\ 0 \in Stages
    BY StageFacts
  <2> QED
    BY <2>1
<1>5. k \in Nat /\ k >= 2 /\ k - 1 = w /\ k # w /\ k # 0
  BY <1>3, <1>4
<1>6. k \in Workers /\ k \in Stages /\ k + 1 \in Workers /\ k + 1 \in Stages
  BY <1>2, <1>5, TargetFacts
<1>7. /\ g.rd[w] \in Nat /\ N(g) \in Nat /\ g.rc[w] = g.rd[w] /\ g.sn[w] = g.rd[w] - 1
      /\ g.rd[w] \in 1..N(g) /\ ctrl[w] = g.h[g.rd[w]]
  BY <1>0, <1>1, Working
<1>8. PICK n \in Nat : n = g.rd[w]
  BY <1>7
<1>9. n = N(g)
  <2>1. g.sn[w] >= N(g) - 1
    BY <1>0, <1>2, <1>3, <1>4, <1>5, <1>7, Settled
  <2> QED
    BY <1>7, <1>8, <2>1
<1>10. /\ g2 \in Ghosts /\ g2.h = g.h /\ g2.rd = g.rd /\ g2.rc = g.rc /\ g2.sn = g.sn
       /\ g2.sk = g.sk \cup {n} /\ N(g2) = N(g)
  BY <1>8 DEF GMark, N
<1>11. pc'[w] = "marker" /\ \A t \in Stages : t # w => pc'[t] = pc[t]
  BY <1>1, <1>4, GotoPcs
<1>12. skipTarget' = k /\ useWave' = useWave
  BY <1>2 DEF skipTarget, useWave
<1>13. \A a, b \in Stages : Q(a, b)' = Q(a, b)
  BY <1>1 DEF Q
<1>14. RootAt(g2)'
  <2>1. pc'[0] = pc[0]
    BY <1>4, <1>11
  <2> QED
    BY <1>0, <1>1, <1>10, <2>1, RootKept
<1>15. ASSUME NEW v \in Workers PROVE WorkerAt(g2, v)' /\ SkipAt(g2, v)'
  <2>0. v \in Stages /\ v \in Nat
    BY StageFacts
  <2>1. CASE v = w
    <3>1. Written(g2, w)' = Written(g, w)
      BY <1>1, <1>10 DEF Written
    <3>2. WorkerOK("marker", ctrl[w], g.h, g.rd[w], g.rc[w], g.sn[w], Written(g, w))
      BY <1>0, <1>1 DEF WorkerAt, WorkerOK, WorkerPcs
    <3>3. WorkerAt(g2, w)'
      BY <1>1, <1>10, <1>11, <3>1, <3>2 DEF WorkerAt
    <3>4. g2.rd[w] \in g2.sk
      BY <1>8, <1>10
    <3>5. SkipOK("marker", ctrl[w], w, g2, k, Len(Q(w, w + 2)'))
      BY <1>3, <3>4 DEF SkipOK
    <3>6. SkipAt(g2, w)'
      BY <1>1, <1>11, <1>12, <3>5 DEF SkipAt
    <3> QED
      BY <2>1, <3>3, <3>6
  <2>2. CASE v # w
    <3>1. pc'[v] = pc[v] /\ ctrl'[v] = ctrl[v]
      BY <1>1, <1>11, <2>0, <2>2
    <3>2. WorkerAt(g2, v)'
      BY <1>0, <1>1, <1>10, <3>1, WorkerKept
    <3>3. SkipOK(pc[v], ctrl[v], v, g, k, Len(Q(v, v + 2)))
      BY <1>0, <1>2 DEF SkipAt
    <3>4. v + 1 # k
      BY <1>3, <1>4, <2>0, <2>2
    <3>5. v = k /\ pc[v] \in {"forward", "decide", "send"} => g.rd[v] # n
      <4>1. ASSUME v = k, pc[v] \in {"forward", "decide", "send"}, g.rd[v] = n PROVE FALSE
        <5>1. g.rc[v] = g.rd[v]
          BY <1>0, <4>1, Working
        <5>2. g.rc[v] <= g.sn[w]
          <6>1. w < v /\ ~(k # 0 /\ w = k)
            BY <1>4, <1>5, <4>1
          <6> QED
            BY <1>0, <1>2, <1>4, <6>1 DEF Pace, PaceOK, Order
        <5> QED
          BY <1>7, <1>8, <4>1, <5>1, <5>2
      <4> QED
        BY <4>1
    <3>6. SkipOK(pc[v], ctrl[v], v, g2, k, Len(Q(v, v + 2)))
      BY <1>10, <3>3, <3>4, <3>5 DEF SkipOK
    <3>7. Q(v, v + 2)' = Q(v, v + 2)
      BY <1>1 DEF Q
    <3>8. SkipAt(g2, v)'
      BY <1>12, <3>1, <3>6, <3>7 DEF SkipAt
    <3> QED
      BY <3>2, <3>8
  <2> QED
    BY <2>1, <2>2
<1>16. ASSUME NEW v \in Workers, v >= 2 PROVE LinkAt(g2, v)'
  <2>0. v \in Stages /\ v - 1 \in Stages /\ v \in Nat
    BY StageFacts
  <2>1. /\ CtrlRun(Q(0, v), g.h, g.rd[v], Written(g, v))
        /\ ActRun(Q(v - 1, v), g.h, g.rc[v], Upto(g, v, k), Marks(g, v, k))
    BY <1>0, <1>2, <1>16 DEF Links, LinkAt
  <2>2. Written(g2, v)' = Written(g, v)
    BY <1>1, <1>10 DEF Written
  <2>3. g.rc[v] \in Nat /\ g.sn[v - 1] \in Nat /\ Len(Q(v - 1, v)) \in Nat
    <3>1. Q(v - 1, v) \in Seq(Message)
      BY <2>0 DEF TypeInv, TypeOK, Q
    <3> QED
      BY <1>0, <2>0, <3>1, GhostTypes
  <2>4. Upto(g2, v, k) = Upto(g, v, k)
    <3>1. CASE v = k + 1
      <4>1. g.sn[k] <= g.rc[k + 1]
        <5>1. \A m \in Nat : g.sn[k] < m /\ m <= N(g) - 1 => m \in g.sk
          BY <1>0, <1>2, <1>3, <1>5, <1>7, Settled
        <5>2. g.sn[k + 1] >= N(g) - 1
          <6>1. k + 1 # k
            BY <1>5
          <6> QED
            BY <1>0, <1>2, <1>3, <1>5, <1>6, <1>7, <6>1, Settled
        <5>3. g.sn[k + 1] <= g.rc[k + 1] /\ g.sn[k + 1] \in Nat /\ g.rc[k + 1] \in Nat
          BY <1>0, <1>6, WorkerBounds
        <5>4. g.sn[k] <= g.rc[k] /\ g.sn[k] \in Nat /\ g.rc[k] \in Nat
          BY <1>0, <1>6, WorkerBounds
        <5>5. g.rc[k] <= g.sn[w]
          <6>1. w < k
            BY <1>4, <1>5
          <6> QED
            BY <1>0, <1>2, <1>4, <1>5, <1>6, <6>1 DEF Pace, PaceOK, Order
        <5> QED
          BY <1>7, <1>8, <1>9, <5>2, <5>3, <5>4, <5>5
      <4>2. v - 1 = k
        BY <1>5, <3>1
      <4> QED
        BY <1>10, <3>1, <4>1, <4>2 DEF Upto
    <3>2. CASE v # k + 1
      BY <1>10, <3>2 DEF Upto
    <3> QED
      BY <3>1, <3>2
  <2>5. ActRun(Q(v - 1, v), g.h, g.rc[v], Upto(g, v, k), Marks(g2, v, k))
    <3>1. CASE v = k
      <4>1. v - 1 = w /\ Upto(g, v, k) \in Nat /\ (Upto(g, v, k) = g.rc[v] \/ Upto(g, v, k) = g.sn[w])
        BY <1>5, <2>3, <3>1 DEF Upto
      <4>2. g.rc[v] <= g.sn[w]
        <5>1. w < v
          BY <1>4, <1>5, <3>1
        <5> QED
          BY <1>0, <1>2, <1>4, <1>5, <5>1 DEF Pace, PaceOK, Order
      <4>3. Upto(g, v, k) < n
        BY <1>7, <1>8, <2>3, <4>1, <4>2
      <4>4. Marks(g, v, k) = g.sk /\ Marks(g2, v, k) = g.sk \cup {n}
        BY <1>10, <3>1 DEF Marks
      <4>5. \A m \in (g.rc[v] + 1)..Upto(g, v, k) : m \in Marks(g2, v, k) <=> m \in Marks(g, v, k)
        <5>1. ASSUME NEW m \in (g.rc[v] + 1)..Upto(g, v, k) PROVE m # n
          BY <2>3, <4>1, <4>3
        <5> QED
          BY <4>4, <5>1
      <4> QED
        BY <2>1, <2>3, <4>1, <4>5, ActRunMarked
    <3>2. CASE v # k
      <4>1. Marks(g2, v, k) = Marks(g, v, k)
        BY <3>2 DEF Marks
      <4> QED
        BY <2>1, <4>1
    <3> QED
      BY <3>1, <3>2
  <2>6. Q(0, v)' = Q(0, v) /\ Q(v - 1, v)' = Q(v - 1, v)
    BY <1>1 DEF Q
  <2>7. /\ CtrlRun(Q(0, v)', g2.h, g2.rd[v], Written(g2, v)')
        /\ ActRun(Q(v - 1, v)', g2.h, g2.rc[v], Upto(g2, v, k), Marks(g2, v, k))
    BY <1>10, <2>1, <2>2, <2>4, <2>5, <2>6
  <2> QED
    BY <1>12, <2>7 DEF LinkAt
<1>17. FirstAt(g2)'
  <2>1. Q(0, 1)' = Q(0, 1)
    BY <1>1 DEF Q
  <2> QED
    BY <1>0, <1>1, <1>10, <2>1, FirstKept DEF Links
<1>18. BypassAt(g2)'
  <2>1. g.sn[k - 1] # N(g)
    BY <1>5, <1>7, <1>8, <1>9
  <2>2. Len(Q(k - 1, k + 1)) = 0
    BY <1>0, <1>2, <1>5, <2>1, BypassCases DEF Links
  <2>3. Q(k - 1, k + 1)' = Q(k - 1, k + 1)
    BY <1>1 DEF Q
  <2>4. BypassRun(Q(k - 1, k + 1)', g2, k)
    BY <2>2, <2>3, BypassSet
  <2> QED
    BY <1>12, <2>4 DEF BypassAt, Q
<1>19. Q(LastStage, 0)' = Q(LastStage, 0)
  BY <1>1 DEF Q
<1>20. LogitsAt(g2)'
  BY <1>0, <1>10, <1>19, LogitsKept DEF Links
<1>21. BackLinks'
  BY <1>0, <1>13, BackKept DEF Links
<1>22. Chains'
  BY <1>0, <1>1 DEF Chains, Q
<1>23. Pace(g2)'
  <2>1. PaceOK(g, k, useWave)
    BY <1>0, <1>2 DEF Pace
  <2>2. n >= 1 /\ n <= g.rc[k - 1] /\ g.h[n].phase = "decode" /\ g.h[n].batchSize = 1
    BY <1>3, <1>5, <1>7, <1>8
  <2>3. GMark(g, g2, n)
    BY <1>8
  <2>4. PaceOK(g2, k, useWave)
    BY <1>0, <1>5, <2>1, <2>2, <2>3, PaceMark
  <2> QED
    BY <1>12, <2>4 DEF Pace
<1>24. Quiet(g2)' /\ Wave(g2)'
  <2>1. pc'[0] = pc[0] /\ ctrl'[0] = ctrl[0]
    BY <1>1, <1>4, <1>11
  <2>2. Quiet(g2)'
    BY <1>0, <1>10, <1>19, <2>1, QuietKept
  <2>3. Wave(g2)'
    BY <1>0, <1>1, <1>10, <2>1, WaveKept
  <2> QED
    BY <2>2, <2>3
<1>25. Ends(g2)'
  <2>1. \A s \in Stages : why'[s] = why[s] /\ (pc'[s] = "over" <=> pc[s] = "over")
    BY <1>1, <1>11
  <2> QED
    BY <1>0, <1>1, <1>10, <2>1, EndsKept
<1>26. Links(g2)'
  BY <1>16, <1>17, <1>18, <1>20, <1>21 DEF Links
<1> QED
  BY <1>10, <1>14, <1>15, <1>22, <1>23, <1>24, <1>25, <1>26 DEF Flow

-----------------------------------------------------------------------------
(* The root broadcasts.                                                    *)

\* The root writes the control packet to one more worker.
LEMMA FlowWriteControl ==
    ASSUME TypeInv, NEW g, Flow(g), NEW w \in Workers, WriteControl(w), session' = session
    PROVE  Flow(g)'
<1>0. /\ g \in Ghosts /\ RootAt(g) /\ (\A v \in Workers : WorkerAt(g, v) /\ SkipAt(g, v))
      /\ Links(g) /\ Chains /\ Pace(g) /\ Quiet(g) /\ Wave(g) /\ Ends(g)
  BY DEF Flow
<1>1. /\ pc[0] = "write" /\ w \in toWrite /\ Send(0, w, Control(ctrl[0])) /\ toWrite' = toWrite \ {w}
      /\ UNCHANGED <<sent, got, pc, why, ctrl, request, pos, waves, faults>>
  BY DEF WriteControl, bases
<1>2. PICK k : k = skipTarget
  OBVIOUS
<1>3. w \in Stages /\ w \in Nat /\ w >= 1 /\ 0 \in Stages
  BY StageFacts
<1>4. w # 0 /\ ~(w < 0)
  BY <1>3
<1>5. N(g) \in Nat /\ N(g) >= 1 /\ g.sn[0] = N(g) - 1 /\ ctrl[0] = g.h[N(g)]
  BY <1>0, <1>1, RootFacts
<1>6. PICK p \in Packet : p = ctrl[0]
  BY <1>3 DEF TypeInv, TypeOK
<1>7. Control(p) \in Message /\ Send(0, w, Control(p)) /\ p = g.h[N(g)]
  BY <1>1, <1>5, <1>6, MessageKinds
<1>8. /\ Grown(Q(0, w), Q(0, w)', Control(p))
      /\ \A a, b \in Stages : a # 0 \/ b # w => Q(a, b)' = Q(a, b)
  BY <1>3, <1>7, SentGrows
<1>9. Chains'
  BY <1>0, <1>1, <1>3, <1>7, ChainsWritten
<1>10. Written(g, w) = N(g) - 1 /\ Written(g, w)' = N(g)
  BY <1>1 DEF Written
<1>11. \A v \in Workers : v # w => (v \in toWrite' <=> v \in toWrite)
  BY <1>1
<1>12. RootAt(g)'
  <2>1. RootOK("write", ctrl[0], toWrite \ {w}, g)
    BY <1>0, <1>1, <1>5 DEF RootAt, RootOK
  <2> QED
    BY <1>1, <2>1 DEF RootAt
<1>13. ASSUME NEW v \in Workers PROVE WorkerAt(g, v)' /\ SkipAt(g, v)'
  <2>1. WorkerAt(g, v)'
    <3>1. CASE v = w
      <4>1. WorkerOK(pc[w], ctrl[w], g.h, g.rd[w], g.rc[w], g.sn[w], N(g) - 1)
        BY <1>0, <1>10 DEF WorkerAt
      <4>2. g.rd[w] \in Nat
        BY <1>0, GhostTypes
      <4>3. WorkerOK(pc[w], ctrl[w], g.h, g.rd[w], g.rc[w], g.sn[w], N(g))
        BY <1>5, <4>1, <4>2 DEF WorkerOK
      <4> QED
        BY <1>1, <1>10, <3>1, <4>3 DEF WorkerAt
    <3>2. CASE v # w
      BY <1>0, <1>1, <1>11, <3>2, WorkerKept
    <3> QED
      BY <3>1, <3>2
  <2>2. pc[v] = "bypass" => Q(v, v + 2)' = Q(v, v + 2)
    <3>1. v # 0 /\ v \in Stages
      BY StageFacts
    <3>2. ASSUME pc[v] = "bypass" PROVE v + 2 \in Stages
      <4>1. v + 1 = skipTarget /\ v \in Nat
        BY <1>0, <3>2, StageFacts DEF SkipAt, SkipOK
      <4>2. skipTarget # 0 /\ v + 2 = skipTarget + 1
        BY <4>1
      <4> QED
        BY <4>2, TargetFacts
    <3> QED
      BY <1>8, <3>1, <3>2
  <2>3. SkipAt(g, v)'
    BY <1>0, <1>1, <2>2, SkipKept
  <2> QED
    BY <2>1, <2>3
<1>14. ASSUME NEW v \in Workers, v >= 2 PROVE LinkAt(g, v)'
  <2>0. v \in Stages /\ v - 1 \in Stages /\ v - 1 # 0
    BY <1>14, StageFacts
  <2>1. Q(v - 1, v)' = Q(v - 1, v)
    BY <1>8, <2>0
  <2>2. LinkAt(g, v)
    BY <1>0, <1>14 DEF Links
  <2>3. CASE v = w
    <3>1. CtrlRun(Q(0, w), g.h, g.rd[w], N(g) - 1)
      BY <1>10, <2>2, <2>3 DEF LinkAt
    <3>2. g.rd[w] \in Nat /\ N(g) - 1 \in Nat /\ (N(g) - 1) + 1 = N(g)
      BY <1>0, <1>5, GhostTypes
    <3>3. CtrlRun(Q(0, w)', g.h, g.rd[w], N(g))
      BY <1>7, <1>8, <3>1, <3>2, CtrlRunGrows
    <3>4. ActRun(Q(w - 1, w), g.h, g.rc[w], Upto(g, w, skipTarget), Marks(g, w, skipTarget))
      BY <2>2, <2>3 DEF LinkAt
    <3>5. skipTarget' = skipTarget
      BY DEF skipTarget
    <3> QED
      BY <1>10, <2>1, <2>3, <3>3, <3>4, <3>5 DEF LinkAt
  <2>4. CASE v # w
    <3>1. Q(0, v)' = Q(0, v)
      BY <1>3, <1>8, <2>0, <2>4
    <3> QED
      BY <1>11, <2>1, <2>2, <2>4, <3>1, LinkKept
  <2> QED
    BY <2>3, <2>4
<1>15. FirstAt(g)'
  <2>1. CASE w = 1
    <3>1. FirstRun(Q(0, 1), g.h, g.rd[1] + g.rc[1], (N(g) - 1) + (N(g) - 1))
      BY <1>0, <1>5, <1>10, <2>1 DEF Links, FirstAt
    <3>2. /\ g.rd[1] + g.rc[1] \in Nat /\ (N(g) - 1) + (N(g) - 1) \in Nat
          /\ ((N(g) - 1) + (N(g) - 1)) + 1 = 2 * N(g) - 1 /\ N(g) \in 1..N(g)
      <4>1. g.rd[1] \in Nat /\ g.rc[1] \in Nat
        BY <1>0, <2>1, GhostTypes
      <4> QED
        BY <1>5, <4>1
    <3>3. FirstMsg(Control(p), 2 * N(g) - 1, g.h)
      <4>1. Len(g.h) \in Nat /\ N(g) \in 1..Len(g.h)
        BY <1>5, <3>2 DEF N
      <4>2. Control(p) = Control(g.h[N(g)])
        BY <1>7
      <4> QED
        BY <4>1, <4>2, FirstMessages
    <3>4. FirstRun(Q(0, 1)', g.h, g.rd[1] + g.rc[1], ((N(g) - 1) + (N(g) - 1)) + 1)
      <4>1. FirstMsg(Control(p), ((N(g) - 1) + (N(g) - 1)) + 1, g.h)
        BY <3>2, <3>3
      <4>2. Grown(Q(0, 1), Q(0, 1)', Control(p))
        BY <1>8, <2>1
      <4> QED
        BY <3>1, <3>2, <4>1, <4>2, FirstRunGrows
    <3>5. Written(g, 1)' + g.sn[0] = ((N(g) - 1) + (N(g) - 1)) + 1
      BY <1>5, <1>10, <2>1
    <3> QED
      BY <3>4, <3>5 DEF FirstAt
  <2>2. CASE w # 1
    <3>1. 1 \in Workers /\ 1 \in Stages
      BY StageFacts
    <3>2. Q(0, 1)' = Q(0, 1)
      BY <1>3, <1>8, <2>2, <3>1
    <3>3. 1 \in toWrite' <=> 1 \in toWrite
      BY <1>11, <2>2, <3>1
    <3> QED
      BY <1>0, <3>2, <3>3, FirstKept DEF Links
  <2> QED
    BY <2>1, <2>2
<1>16. BypassAt(g)'
  <2>1. k >= 2 => k - 1 \in Stages /\ k + 1 \in Stages /\ k - 1 # 0
    BY <1>2, TargetFacts
  <2>2. k >= 2 => Q(k - 1, k + 1)' = Q(k - 1, k + 1)
    BY <1>8, <2>1
  <2> QED
    BY <1>0, <1>2, <2>2, BypassKept DEF Links
<1>17. LastStage \in Stages /\ LastStage # 0
  BY StageFacts
<1>18. Q(LastStage, 0)' = Q(LastStage, 0)
  BY <1>3, <1>8, <1>17
<1>19. LogitsAt(g)'
  BY <1>0, <1>18, LogitsKept DEF Links
<1>20. BackLinks'
  <2>1. \A i, j \in Stages : j < i /\ ~(i = LastStage /\ j = 0) => Q(i, j)' = Q(i, j)
    BY <1>4, <1>8
  <2> QED
    BY <1>0, <2>1, BackKept DEF Links
<1>21. Pace(g)' /\ Quiet(g)' /\ Wave(g)'
  <2>1. Pace(g)'
    BY <1>0, PaceKept
  <2>2. Quiet(g)'
    BY <1>0, <1>1, <1>18, QuietKept
  <2>3. Wave(g)'
    BY <1>0, <1>1, WaveKept
  <2> QED
    BY <2>1, <2>2, <2>3
<1>22. Ends(g)'
  <2>1. \A s \in Stages : why'[s] = why[s] /\ (pc'[s] = "over" <=> pc[s] = "over")
    BY <1>1
  <2>2. pc[0] = "over" => toWrite' = toWrite
    BY <1>1
  <2> QED
    BY <1>0, <1>1, <2>1, <2>2, EndsKept
<1>23. Links(g)'
  BY <1>14, <1>15, <1>16, <1>19, <1>20 DEF Links
<1> QED
  BY <1>0, <1>9, <1>12, <1>13, <1>21, <1>22, <1>23 DEF Flow

\* When the root broadcasts, nothing is on its way to it, and no rows bypass the
\* target.
LEMMA BeforeCast ==
    ASSUME TypeInv, NEW g, Flow(g), pc[0] \in {"prefill", "decode"}, pc[0] = "prefill" => pos < schedTotal,
           NEW k, k = skipTarget
    PROVE  /\ Len(Q(LastStage, 0)) = 0
           /\ k >= 2 => Len(Q(k - 1, k + 1)) = 0
           /\ k # 0 /\ N(g) \in g.sk => g.sn[k] <= g.rc[k + 1]
           /\ toWrite = {} /\ g.sn[0] = N(g) /\ N(g) \in Nat
           /\ \A m \in 1..N(g) : ~Stop(g.h[m])
           /\ pc[0] = "decode" \/ ~useWave => g.sn[LastStage] = N(g)
           /\ pc[0] = "prefill" /\ useWave /\ N(g) > 0 =>
                g.h[N(g)].phase = "prefill" /\ ~g.h[N(g)].isLastPrefillChunk
<1>0. /\ g \in Ghosts /\ RootAt(g) /\ (\A v \in Workers : WorkerAt(g, v)) /\ LogitsAt(g) /\ BypassAt(g)
      /\ Pace(g) /\ Quiet(g) /\ Wave(g)
  BY DEF Flow, Links
<1>1. /\ toWrite = {} /\ g.sn[0] = N(g) /\ N(g) \in Nat /\ \A m \in 1..N(g) : ~Stop(g.h[m])
  BY <1>0, RootFacts
<1>2. CASE pc[0] = "decode" \/ ~useWave
  <2>1. g.sn[LastStage] = N(g) /\ Len(Q(LastStage, 0)) = 0
    BY <1>0, <1>2 DEF Quiet
  <2>2. k # 0 => g.rc[k + 1] >= N(g)
    BY <1>0, <2>1, AllDone
  <2>3. k # 0 => k \in Workers /\ k + 1 \in Workers
    BY TargetFacts
  <2>4. k # 0 => g.rc[k + 1] \in Nat /\ g.sn[k] \in Nat /\ g.sn[k] <= N(g)
    <3>1. ASSUME k # 0 PROVE g.rc[k + 1] \in Nat /\ g.sn[k] \in Nat /\ g.sn[k] <= N(g)
      <4>1. g.rc[k + 1] \in Nat
        BY <1>0, <2>3, <3>1, GhostTypes
      <4>2. /\ g.sn[k] \in Nat /\ g.rc[k] \in Nat /\ g.rd[k] \in Nat /\ Written(g, k) \in Nat /\ g.sn[k] <= g.rc[k]
            /\ g.rc[k] <= g.rd[k] /\ g.rd[k] <= Written(g, k) /\ Written(g, k) <= N(g)
        BY <1>0, <2>3, <3>1, WorkerBounds
      <4> QED
        BY <1>1, <4>1, <4>2
    <3> QED
      BY <3>1
  <2>5. k >= 2 => Len(Q(k - 1, k + 1)) = 0
    <3>1. ASSUME k >= 2 PROVE Len(Q(k - 1, k + 1)) = 0
      <4>1. ~(g.rc[k + 1] < N(g))
        <5>1. k # 0
          BY <3>1
        <5> QED
          BY <1>1, <2>2, <2>4, <5>1
      <4> QED
        BY <1>0, <3>1, <4>1, BypassCases
    <3> QED
      BY <3>1
  <2>6. k # 0 => g.sn[k] <= g.rc[k + 1]
    BY <1>1, <2>2, <2>4
  <2> QED
    BY <1>1, <1>2, <2>1, <2>5, <2>6
<1>3. CASE ~(pc[0] = "decode" \/ ~useWave)
  <2>0. pc[0] = "prefill" /\ useWave
    BY <1>3
  <2>1. ~(pos >= schedTotal)
    <3>1. pos \in Nat /\ schedTotal \in Nat
      BY Totals DEF TypeInv, TypeOK
    <3> QED
      BY <2>0, <3>1
  <2>2. N(g) > 0 => g.h[N(g)].phase = "prefill" /\ ~g.h[N(g)].isLastPrefillChunk
    BY <1>0, <2>0, <2>1 DEF Wave
  <2>3. N(g) \notin g.sk
    <3>1. ASSUME N(g) \in g.sk PROVE FALSE
      <4>1. N(g) \in 1..N(g) /\ g.h[N(g)].phase = "decode"
        BY <1>0, <3>1, SkippedFacts
      <4> QED
        BY <1>1, <2>2, <4>1
    <3> QED
      BY <3>1
  <2>4. Len(Q(LastStage, 0)) = 0
    BY <1>0, <1>1, <2>2, LogitsCases DEF Answers
  <2>5. k >= 2 => Len(Q(k - 1, k + 1)) = 0
    BY <1>0, <2>3, BypassCases
  <2> QED
    BY <1>1, <1>3, <2>0, <2>2, <2>3, <2>4, <2>5
<1> QED
  BY <1>2, <1>3

\* Pace, when packet p is broadcast.
LEMMA PaceCast ==
    ASSUME TypeInv, NEW g, NEW g2, Flow(g), NEW p \in Packet, GCast(g, g2, p),
           \/ g.sn[LastStage] = N(g)
           \/ useWave /\ p.phase = "prefill" /\ ~Stop(p),
           WaveOnly(g2, useWave)
    PROVE  PaceOK(g2, skipTarget, useWave)
<1>0. g \in Ghosts /\ RootAt(g) /\ (\A v \in Workers : WorkerAt(g, v)) /\ Pace(g)
  BY DEF Flow
<1>1. /\ N(g2) = N(g) + 1 /\ g2.h[N(g) + 1] = p /\ \A m \in 1..N(g) : g2.h[m] = g.h[m]
  BY <1>0, CastHistory
<1>2. g2.rd = g.rd /\ g2.rc = g.rc /\ g2.sn = g.sn /\ g2.sk = g.sk /\ N(g) \in Nat
  BY <1>0, GhostTypes DEF GCast
<1>3. Skips(g2, skipTarget)
  <2>1. ASSUME NEW n \in g.sk
        PROVE  /\ skipTarget >= 2 /\ n >= 1 /\ n <= g.rc[skipTarget - 1]
               /\ g2.h[n].phase = "decode" /\ g2.h[n].batchSize = 1
    <3>1. /\ skipTarget >= 2 /\ n >= 1 /\ n <= g.rc[skipTarget - 1] /\ n \in 1..N(g)
          /\ g.h[n].phase = "decode" /\ g.h[n].batchSize = 1
      BY <1>0, <2>1, SkippedFacts
    <3> QED
      BY <1>1, <3>1
  <2> QED
    BY <1>2, <2>1 DEF Skips
<1>4. Order(g2, skipTarget)
  BY <1>0, <1>2 DEF Pace, PaceOK, Order
<1>5. OneAtATime(g2, skipTarget, useWave)
  <2>1. CASE useWave /\ p.phase = "prefill" /\ ~Stop(p)
    <3>1. Streaming(g2, useWave)
      BY <1>1, <1>2, <2>1 DEF Streaming
    <3> QED
      BY <3>1 DEF OneAtATime
  <2>2. CASE g.sn[LastStage] = N(g)
    <3>1. /\ \A i \in Stages : ~(skipTarget # 0 /\ i = skipTarget) => g.sn[i] >= N(g)
          /\ skipTarget # 0 => \A m \in Nat : g.sn[skipTarget] < m /\ m <= N(g) => m \in g.sk
      BY <1>0, <2>2, AllDone
    <3>2. N(g2) - 1 = N(g)
      BY <1>1, <1>2
    <3> QED
      BY <1>2, <3>1, <3>2 DEF OneAtATime
  <2> QED
    BY <2>1, <2>2
<1> QED
  BY <1>3, <1>4, <1>5 DEF PaceOK

\* Broadcasting a packet starts the next entry of the history.
LEMMA FlowCast ==
    ASSUME TypeInv, NEW g, NEW g2, Flow(g), NEW p \in Packet, GCast(g, g2, p), Broadcast(p),
           session' = session, pc[0] \in {"prefill", "decode"}, pc[0] = "prefill" => pos < schedTotal,
           UNCHANGED <<sock, sent, got, why, faults>>,
           \/ g.sn[LastStage] = N(g)
           \/ useWave /\ p.phase = "prefill" /\ ~Stop(p),
           WaveOnly(g2, useWave), Wave(g2)'
    PROVE  Flow(g2)'
<1>0. /\ g \in Ghosts /\ RootAt(g) /\ (\A v \in Workers : WorkerAt(g, v) /\ SkipAt(g, v))
      /\ Links(g) /\ Chains /\ Pace(g) /\ Ends(g)
  BY DEF Flow
<1>1. PICK k : k = skipTarget
  OBVIOUS
<1>2. /\ Len(Q(LastStage, 0)) = 0
      /\ k >= 2 => Len(Q(k - 1, k + 1)) = 0
      /\ k # 0 /\ N(g) \in g.sk => g.sn[k] <= g.rc[k + 1]
      /\ toWrite = {} /\ g.sn[0] = N(g) /\ N(g) \in Nat
      /\ \A m \in 1..N(g) : ~Stop(g.h[m])
  BY <1>1, BeforeCast
<1>3. /\ N(g2) = N(g) + 1 /\ g2.h[N(g) + 1] = p /\ Extends(g2.h, g.h)
      /\ \A m \in 1..N(g) : g2.h[m] = g.h[m]
  BY <1>0, CastHistory
<1>4. g2 \in Ghosts /\ g2.rd = g.rd /\ g2.rc = g.rc /\ g2.sn = g.sn /\ g2.sk = g.sk
  BY DEF GCast
<1>5. /\ 0 \in Stages /\ pc'[0] = "write" /\ ctrl'[0] = p /\ toWrite' = Workers
      /\ \A t \in Stages : t # 0 => pc'[t] = pc[t] /\ ctrl'[t] = ctrl[t]
  BY StageFacts DEF Broadcast, Goto, TypeInv, TypeOK
<1>6. skipTarget' = k /\ useWave' = useWave
  BY <1>1 DEF skipTarget, useWave
<1>7. RootAt(g2)'
  <2>1. ASSUME NEW m \in 1..(N(g) + 1), Stop(g2.h[m]) PROVE m = N(g) + 1
    <3>1. CASE m \in 1..N(g)
      BY <1>2, <1>3, <2>1, <3>1
    <3>2. CASE m \notin 1..N(g)
      BY <1>2, <3>2
    <3> QED
      BY <3>1, <3>2
  <2>2. g2.sn[0] = N(g) /\ N(g2) = N(g) + 1 /\ N(g2) - 1 = N(g) /\ N(g2) > 0 /\ g2.h[N(g2)] = p
    BY <1>2, <1>3, <1>4
  <2>3. \A m \in 1..N(g2) : Stop(g2.h[m]) => m = N(g2)
    BY <2>1, <2>2
  <2>4. RootOK("write", p, Workers, g2)
    BY <2>2, <2>3 DEF RootOK, RootPcs
  <2> QED
    BY <1>5, <2>4 DEF RootAt
<1>8. \A v \in Workers : Written(g2, v)' = N(g) /\ Written(g, v) = N(g)
  BY <1>2, <1>3, <1>5 DEF Written
<1>9. ASSUME NEW v \in Workers PROVE WorkerAt(g2, v)' /\ SkipAt(g2, v)'
  <2>1. pc'[v] = pc[v] /\ ctrl'[v] = ctrl[v]
    BY <1>5, StageFacts
  <2>2. WorkerOK(pc[v], ctrl[v], g.h, g.rd[v], g.rc[v], g.sn[v], N(g))
    BY <1>0, <1>8 DEF WorkerAt
  <2>3. g.rd[v] \in Nat
    BY <1>0, GhostTypes
  <2>4. g.rd[v] > 0 => g2.h[g.rd[v]] = g.h[g.rd[v]]
    BY <1>2, <1>3, <2>2, <2>3 DEF WorkerOK
  <2>5. WorkerOK(pc[v], ctrl[v], g2.h, g.rd[v], g.rc[v], g.sn[v], N(g))
    <3>1. CASE g.rd[v] = 0
      BY <2>2, <3>1 DEF WorkerOK
    <3>2. CASE g.rd[v] > 0
      <4>1. g2.h[g.rd[v]] = g.h[g.rd[v]]
        BY <2>4, <3>2
      <4> QED
        BY <2>2, <4>1 DEF WorkerOK
    <3> QED
      BY <2>3, <3>1, <3>2
  <2>6. WorkerAt(g2, v)'
    BY <1>4, <1>8, <2>1, <2>5 DEF WorkerAt
  <2>7. Q(v, v + 2)' = Q(v, v + 2)
    BY DEF Q
  <2>8. SkipAt(g2, v)'
    BY <1>0, <1>4, <2>1, <2>7, SkipKept
  <2> QED
    BY <2>6, <2>8
<1>10. ASSUME NEW v \in Workers, v >= 2 PROVE LinkAt(g2, v)'
  <2>0. v \in Stages /\ v - 1 \in Stages /\ v \in Nat /\ 0 \in Stages
    BY StageFacts
  <2>1. /\ CtrlRun(Q(0, v), g.h, g.rd[v], N(g))
        /\ ActRun(Q(v - 1, v), g.h, g.rc[v], Upto(g, v, k), Marks(g, v, k))
    BY <1>0, <1>1, <1>8, <1>10 DEF Links, LinkAt
  <2>2. g.rd[v] \in Nat /\ g.rc[v] \in Nat /\ g.sn[v - 1] \in Nat /\ N(g) = Len(g.h)
    BY <1>0, <2>0, GhostTypes DEF N
  <2>3. Len(Q(0, v)) \in Nat /\ Len(Q(v - 1, v)) \in Nat
    <3>1. Q(v - 1, v) \in Seq(Message) /\ Q(0, v) \in Seq(Message)
      BY <2>0 DEF TypeInv, TypeOK, Q
    <3> QED
      BY <3>1
  <2>4. CtrlRun(Q(0, v), g2.h, g.rd[v], N(g))
    BY <1>2, <1>3, <2>1, <2>2, <2>3, CtrlRunExtends
  <2>5. Upto(g, v, k) \in Nat /\ Upto(g, v, k) <= N(g)
    <3>1. g.rc[v] <= N(g)
      <4>1. /\ g.rc[v] <= g.rd[v] /\ g.rd[v] <= Written(g, v)
        BY <1>0, WorkerBounds
      <4> QED
        BY <1>2, <1>8, <2>2, <4>1
    <3>2. g.sn[v - 1] <= N(g)
      <4>1. CASE v - 1 = 0
        BY <1>2, <4>1
      <4>2. CASE v - 1 # 0
        <5>1. v - 1 \in Workers
          BY <2>0, <4>2, StageFacts
        <5>2. /\ g.rc[v - 1] \in Nat /\ g.rd[v - 1] \in Nat /\ g.sn[v - 1] <= g.rc[v - 1]
              /\ g.rc[v - 1] <= g.rd[v - 1] /\ g.rd[v - 1] <= Written(g, v - 1)
          BY <1>0, <5>1, WorkerBounds
        <5> QED
          BY <1>2, <1>8, <2>2, <5>1, <5>2
      <4> QED
        BY <4>1, <4>2
    <3> QED
      BY <2>2, <3>1, <3>2 DEF Upto
  <2>6. ActRun(Q(v - 1, v), g2.h, g.rc[v], Upto(g, v, k), Marks(g, v, k))
    BY <1>3, <2>1, <2>2, <2>3, <2>5, ActRunExtends
  <2>7. N(g2) \notin g.sk
    <3>1. ASSUME N(g2) \in g.sk PROVE FALSE
      <4>1. N(g2) \in 1..N(g)
        BY <1>0, <3>1, SkippedFacts
      <4> QED
        BY <1>2, <1>3, <4>1
    <3> QED
      BY <3>1
  <2>8. Upto(g2, v, k) = Upto(g, v, k)
    <3>1. CASE k # 0 /\ v = k + 1 /\ N(g) \in g.sk
      <4>1. v - 1 = k /\ g.sn[k] <= g.rc[v]
        BY <1>1, <1>2, <3>1, TargetFacts
      <4> QED
        BY <1>4, <3>1, <4>1 DEF Upto
    <3>2. CASE ~(k # 0 /\ v = k + 1 /\ N(g) \in g.sk)
      BY <1>4, <2>7, <3>2 DEF Upto
    <3> QED
      BY <3>1, <3>2
  <2>9. Marks(g2, v, k) = Marks(g, v, k)
    BY <1>4 DEF Marks
  <2>10. Q(0, v)' = Q(0, v) /\ Q(v - 1, v)' = Q(v - 1, v)
    BY DEF Q
  <2>11. /\ CtrlRun(Q(0, v)', g2.h, g2.rd[v], Written(g2, v)')
         /\ ActRun(Q(v - 1, v)', g2.h, g2.rc[v], Upto(g2, v, k), Marks(g2, v, k))
    BY <1>4, <1>8, <2>4, <2>6, <2>8, <2>9, <2>10
  <2> QED
    BY <1>6, <2>11 DEF LinkAt
<1>11. FirstAt(g2)'
  <2>0. 1 \in Workers /\ 1 \in Stages /\ 0 \in Stages
    BY StageFacts
  <2>1. FirstRun(Q(0, 1), g.h, g.rd[1] + g.rc[1], N(g) + N(g))
    BY <1>0, <1>2, <1>8, <2>0 DEF Links, FirstAt
  <2>2. g.rd[1] + g.rc[1] \in Nat /\ N(g) + N(g) \in Nat /\ N(g) + N(g) <= 2 * N(g) /\ N(g) = Len(g.h)
    <3>1. g.rd[1] \in Nat /\ g.rc[1] \in Nat /\ N(g) = Len(g.h)
      BY <1>0, <2>0, GhostTypes DEF N
    <3> QED
      BY <1>2, <3>1, SMTT(30)
  <2>3. Len(Q(0, 1)) \in Nat /\ Q(0, 1)' = Q(0, 1)
    <3>1. Q(0, 1) \in Seq(Message)
      BY <2>0 DEF TypeInv, TypeOK, Q
    <3> QED
      BY <3>1 DEF Q
  <2>4. FirstRun(Q(0, 1), g2.h, g.rd[1] + g.rc[1], N(g) + N(g))
    BY <1>3, <2>1, <2>2, <2>3, FirstRunExtends
  <2> QED
    BY <1>2, <1>4, <1>8, <2>0, <2>3, <2>4 DEF FirstAt
<1>12. BypassAt(g2)'
  <2>1. k >= 2 => BypassRun(Q(k - 1, k + 1), g2, k)
    BY <1>2, BypassSet
  <2> QED
    BY <1>6, <2>1 DEF BypassAt, Q
<1>13. LogitsAt(g2)'
  <2>1. LogitsRun(Q(LastStage, 0), g2)
    BY <1>2, LogitsSet
  <2> QED
    BY <2>1 DEF LogitsAt, Q
<1>14. BackLinks' /\ Chains'
  BY <1>0 DEF Links, BackLinks, Chains, Q
<1>15. Pace(g2)'
  <2>1. PaceOK(g2, skipTarget, useWave)
    BY PaceCast
  <2> QED
    BY <1>1, <1>6, <2>1 DEF Pace
<1>16. Quiet(g2)'
  BY <1>5 DEF Quiet
<1>17. Ends(g2)'
  <2>1. /\ \A s \in Stages : why[s] # "protocol"
        /\ why[0] = "assert" => pc[0] = "over"
        /\ faults = 0 /\ PositionsInRange => \A s \in Stages : EndOK(g, s)
    BY <1>0 DEF Ends
  <2>2. ASSUME faults = 0, PositionsInRange, NEW s \in Stages PROVE EndOK(g2, s)'
    <3>1. EndOK(g, s)
      BY <2>1, <2>2
    <3>2. pc[s] # "over"
      <4>1. ASSUME pc[s] = "over" PROVE FALSE
        <5>1. N(g) > 0 /\ Stop(g.h[N(g)])
          BY <3>1, <4>1 DEF EndOK
        <5> QED
          BY <1>2, <5>1
      <4> QED
        BY <4>1
    <3>3. pc'[s] # "over" /\ why[s] = "running"
      BY <1>5, <3>1, <3>2 DEF EndOK
    <3> QED
      BY <3>3 DEF EndOK
  <2>3. why[0] # "assert"
    BY <2>1
  <2> QED
    BY <2>1, <2>2, <2>3 DEF Ends, PositionsInRange
<1>18. Links(g2)'
  BY <1>10, <1>11, <1>12, <1>13, <1>14 DEF Links
<1> QED
  BY <1>4, <1>7, <1>9, <1>14, <1>15, <1>16, <1>17, <1>18 DEF Flow

\* The packet of a chunk.
LEMMA ChunkCast ==
    ASSUME TypeInv, PrefillChunk, pc'[0] # "over"
    PROVE  /\ Broadcast(ctrl'[0]) /\ ctrl'[0] \in Packet /\ ctrl'[0].phase = "prefill" /\ ~Stop(ctrl'[0])
           /\ ctrl'[0].isLastPrefillChunk <=> (~useWave \/ pos + ctrl'[0].batchSize >= schedTotal)
           /\ ctrl'[0].position = pos /\ ctrl'[0].request = request
           /\ ctrl'[0].batchSize <= schedTotal - pos /\ pos + ctrl'[0].batchSize <= seqLen
           /\ why' = why
<1>0. /\ pos \in Nat /\ schedTotal \in Nat /\ prefillBatchCap \in Nat /\ prefillBatchCap >= 1
      /\ useWave \in BOOLEAN /\ request \in Nat /\ pos < schedTotal /\ 0 \in Stages /\ seqLen \in Nat
  <2>1. session \in Sessions /\ request \in DOMAIN session.prompts /\ pos \in Nat
    BY DEF TypeInv, TypeOK
  <2>2. schedTotal \in Nat
    BY <2>1, Totals
  <2>3. prefillBatchCap \in Nat /\ prefillBatchCap >= 1 /\ useWave \in BOOLEAN /\ request \in Nat /\ seqLen \in Nat
    BY <2>1, SessionFacts
  <2> QED
    BY <2>1, <2>2, <2>3, StageFacts DEF PrefillChunk
<1>1. PICK size : size = Smaller(schedTotal - pos, prefillBatchCap)
  OBVIOUS
<1>2. size \in Nat /\ size >= 1 /\ size <= schedTotal - pos
  BY <1>0, <1>1 DEF Smaller
<1>3. CASE ~(pos + size - 1 < seqLen)
  <2>1. End(0, "assert")
    BY <1>1, <1>3 DEF PrefillChunk
  <2>2. pc'[0] = "over"
    BY <1>0, <2>1, EndedPcs
  <2> QED
    BY <2>2
<1>4. CASE pos + size - 1 < seqLen
  <2>1. PICK p : p = [phase |-> "prefill", position |-> pos, batchSize |-> size, request |-> request,
                      isLastPrefillChunk |-> ~useWave \/ pos + size >= schedTotal]
    OBVIOUS
  <2>2. Broadcast(p) /\ why' = why
    BY <1>1, <1>4, <2>1 DEF PrefillChunk
  <2>3. ctrl'[0] = p
    BY <1>0, <2>2 DEF Broadcast, TypeInv, TypeOK
  <2>4. /\ p \in Packet /\ p.phase = "prefill" /\ p.batchSize = size /\ p.position = pos
        /\ p.request = request
    BY <1>0, <1>2, <2>1 DEF Packet
  <2>5. p.isLastPrefillChunk <=> (~useWave \/ pos + size >= schedTotal)
    BY <2>1
  <2>6. ~Stop(p) /\ pos + size <= seqLen
    BY <1>0, <1>2, <1>4, <2>4 DEF Stop
  <2> QED
    BY <1>2, <2>2, <2>3, <2>4, <2>5, <2>6
<1> QED
  BY <1>3, <1>4

\* The root broadcasts a chunk of the prompt.
LEMMA FlowPrefillChunk ==
    ASSUME TypeInv, NEW g, NEW g2, Flow(g), PrefillChunk, pc'[0] # "over", session' = session,
           GCast(g, g2, ctrl'[0])
    PROVE  Flow(g2)'
<1>0. g \in Ghosts /\ Wave(g) /\ Pace(g)
  BY DEF Flow
<1>1. PICK p : p = ctrl'[0]
  OBVIOUS
<1>2. /\ Broadcast(p) /\ p \in Packet /\ p.phase = "prefill" /\ ~Stop(p) /\ why' = why
      /\ p.isLastPrefillChunk <=> (~useWave \/ pos + p.batchSize >= schedTotal)
  BY <1>1, ChunkCast
<1>3. /\ pc[0] = "prefill" /\ pos < schedTotal
      /\ UNCHANGED <<sock, sent, got, request, pos, waves, faults>>
  BY DEF PrefillChunk, bases
<1>4. /\ N(g) \in Nat /\ (~useWave => g.sn[LastStage] = N(g)) /\ \A m \in 1..N(g) : ~Stop(g.h[m])
      /\ useWave /\ N(g) > 0 => g.h[N(g)].phase = "prefill" /\ ~g.h[N(g)].isLastPrefillChunk
  BY <1>3, BeforeCast
<1>5. GCast(g, g2, p)
  BY <1>1
<1>6. /\ N(g2) = N(g) + 1 /\ g2.h[N(g) + 1] = p /\ \A m \in 1..N(g) : g2.h[m] = g.h[m]
  BY <1>0, <1>2, <1>5, CastHistory
<1>7. WaveOnly(g2, useWave)
  <2>1. ASSUME useWave, NEW m \in 1..N(g2)
        PROVE  g2.h[m].phase = "prefill" /\ (m < N(g2) => ~g2.h[m].isLastPrefillChunk)
    <3>1. CASE m = N(g2)
      <4>1. ~(m < N(g2)) /\ g2.h[m] = p
        BY <1>4, <1>6, <3>1
      <4> QED
        BY <1>2, <4>1
    <3>2. CASE m # N(g2)
      <4>1. m \in 1..N(g) /\ N(g) > 0
        BY <1>4, <1>6, <3>2
      <4>2. g.h[N(g)].phase = "prefill" /\ ~g.h[N(g)].isLastPrefillChunk /\ ~Stop(g.h[N(g)])
        BY <1>4, <2>1, <4>1
      <4>3. g.h[m].phase = "prefill" /\ (m < N(g) => ~g.h[m].isLastPrefillChunk)
        BY <1>0, <2>1, <4>1, <4>2 DEF Pace, PaceOK, WaveOnly
      <4>4. m < N(g) \/ m = N(g)
        BY <1>4, <4>1
      <4> QED
        BY <1>6, <4>1, <4>2, <4>3, <4>4
    <3> QED
      BY <3>1, <3>2
  <2> QED
    BY <2>1 DEF WaveOnly
<1>8. pc'[0] = "write"
  BY <1>2, StageFacts DEF Broadcast, Goto, TypeInv, TypeOK
<1>9. Wave(g2)'
  <2>1. g2.h[N(g2)] = p /\ useWave' = useWave /\ schedTotal' = schedTotal /\ pos' = pos
    BY <1>3, <1>6 DEF useWave, schedTotal, realTotal, RealTotal
  <2> QED
    BY <1>2, <1>8, <2>1 DEF Wave
<1> QED
  BY <1>2, <1>3, <1>4, <1>5, <1>7, <1>9, FlowCast

\* The packet of a decode step.
LEMMA DecodeCast ==
    ASSUME TypeInv, DecodeToken
    PROVE  /\ Broadcast(ctrl'[0]) /\ ctrl'[0] \in Packet /\ ctrl'[0].phase = "decode" /\ ctrl'[0].batchSize = 1
           /\ ctrl'[0].position = pos /\ ctrl'[0].request = request
<1>0. pos \in Nat /\ request \in Nat /\ 0 \in Stages
  <2>1. session \in Sessions /\ request \in DOMAIN session.prompts /\ pos \in Nat
    BY DEF TypeInv, TypeOK
  <2>2. request \in Nat
    BY <2>1, SessionFacts
  <2> QED
    BY <2>1, <2>2, StageFacts
<1>1. PICK p : p = [phase |-> "decode", position |-> pos, batchSize |-> 1, request |-> request,
                    isLastPrefillChunk |-> TRUE]
  OBVIOUS
<1>2. Broadcast(p)
  BY <1>1 DEF DecodeToken
<1>3. ctrl'[0] = p
  BY <1>0, <1>2 DEF Broadcast, TypeInv, TypeOK
<1>4. p \in Packet /\ p.phase = "decode" /\ p.batchSize = 1 /\ p.position = pos /\ p.request = request
  BY <1>0, <1>1 DEF Packet
<1> QED
  BY <1>2, <1>3, <1>4

\* The root broadcasts a decode step.
LEMMA FlowDecodeToken ==
    ASSUME TypeInv, NEW g, NEW g2, Flow(g), DecodeToken, session' = session, GCast(g, g2, ctrl'[0])
    PROVE  Flow(g2)'
<1>0. g \in Ghosts
  BY DEF Flow
<1>1. PICK p : p = ctrl'[0]
  OBVIOUS
<1>2. Broadcast(p) /\ p \in Packet /\ p.phase = "decode" /\ GCast(g, g2, p)
  BY <1>1, DecodeCast
<1>3. pc[0] = "decode" /\ UNCHANGED <<sock, sent, got, why, request, pos, waves, faults>>
  BY DEF DecodeToken, bases
<1>4. N(g) \in Nat /\ g.sn[LastStage] = N(g)
  BY <1>3, BeforeCast
<1>5. N(g2) = N(g) + 1 /\ g2.h[N(g) + 1] = p
  BY <1>0, <1>2, CastHistory
<1>6. g2.h[N(g2)].phase = "decode"
  BY <1>2, <1>5
<1>7. WaveOnly(g2, useWave)
  BY <1>6 DEF WaveOnly
<1>8. pc'[0] = "write"
  BY <1>2, StageFacts DEF Broadcast, Goto, TypeInv, TypeOK
<1>9. Wave(g2)'
  BY <1>6, <1>8 DEF Wave
<1> QED
  BY <1>2, <1>3, <1>4, <1>7, <1>9, FlowCast

\* The packet that stops the workers.
LEMMA FinishCast ==
    ASSUME TypeInv, Finish
    PROVE  /\ Broadcast(ctrl'[0]) /\ ctrl'[0] \in Packet /\ ctrl'[0].phase = ctrl[0].phase /\ Stop(ctrl'[0])
           /\ ctrl'[0].position = ctrl[0].position /\ ctrl'[0].request = ctrl[0].request
           /\ ctrl'[0].isLastPrefillChunk = ctrl[0].isLastPrefillChunk
<1>0. 0 \in Stages /\ ctrl[0] \in Packet
  BY StageFacts DEF TypeInv, TypeOK
<1>1. PICK p : p = [ctrl[0] EXCEPT !.batchSize = 0]
  OBVIOUS
<1>2. Broadcast(p)
  BY <1>1 DEF Finish
<1>3. ctrl'[0] = p
  BY <1>0, <1>2 DEF Broadcast, TypeInv, TypeOK
<1>4. /\ p \in Packet /\ p.phase = ctrl[0].phase /\ p.batchSize = 0 /\ p.position = ctrl[0].position
      /\ p.request = ctrl[0].request /\ p.isLastPrefillChunk = ctrl[0].isLastPrefillChunk
  BY <1>0, <1>1 DEF Packet
<1> QED
  BY <1>2, <1>3, <1>4 DEF Stop

\* The root broadcasts the stop packet.
LEMMA FlowFinish ==
    ASSUME TypeInv, NEW g, NEW g2, Flow(g), Finish, session' = session, GCast(g, g2, ctrl'[0])
    PROVE  Flow(g2)'
<1>0. g \in Ghosts /\ RootAt(g) /\ Pace(g)
  BY DEF Flow
<1>1. PICK p : p = ctrl'[0]
  OBVIOUS
<1>2. Broadcast(p) /\ p \in Packet /\ p.phase = ctrl[0].phase /\ Stop(p) /\ GCast(g, g2, p)
  BY <1>1, FinishCast
<1>3. pc[0] = "decode" /\ UNCHANGED <<sock, sent, got, why, request, pos, waves, faults>>
  BY DEF Finish, bases
<1>4. N(g) \in Nat /\ g.sn[LastStage] = N(g)
  BY <1>3, BeforeCast
<1>5. N(g2) = N(g) + 1 /\ g2.h[N(g) + 1] = p /\ \A m \in 1..N(g) : g2.h[m] = g.h[m]
  BY <1>0, <1>2, CastHistory
<1>6. WaveOnly(g2, useWave)
  <2>1. ASSUME useWave, g2.h[N(g2)].phase = "prefill", NEW m \in 1..N(g2) PROVE g2.h[m].phase = "prefill"
    <3>1. CASE m = N(g2)
      BY <2>1, <3>1
    <3>2. CASE m # N(g2)
      <4>1. m \in 1..N(g) /\ N(g) > 0 /\ N(g) >= 1
        BY <1>4, <1>5, <3>2
      <4>2. g.h[N(g)].phase = "prefill"
        BY <1>0, <1>2, <1>5, <2>1, <4>1, RootFacts
      <4>3. g.h[m].phase = "prefill"
        BY <1>0, <2>1, <4>1, <4>2 DEF Pace, PaceOK, WaveOnly
      <4> QED
        BY <1>5, <4>1, <4>3
    <3> QED
      BY <3>1, <3>2
  <2>2. Stop(g2.h[N(g2)])
    BY <1>2, <1>5
  <2> QED
    BY <2>1, <2>2 DEF WaveOnly
<1>7. pc'[0] = "write"
  BY <1>2, StageFacts DEF Broadcast, Goto, TypeInv, TypeOK
<1>8. Wave(g2)'
  <2>1. Stop(g2.h[N(g2)])
    BY <1>2, <1>5
  <2> QED
    BY <1>7, <2>1 DEF Wave
<1> QED
  BY <1>2, <1>3, <1>4, <1>6, <1>8, FlowCast

-----------------------------------------------------------------------------
\* Nothing has been broadcast when a session starts.
LEMMA FlowInit ==
    ASSUME Init
    PROVE  \E g : Flow(g) /\ g.h = <<>> /\ g.sk = {} /\ N(g) = 0 /\ \A w \in Workers : g.rc[w] = 0
<1>1. /\ session \in Sessions /\ toWrite = {} /\ request = 1 /\ pos = 0 /\ waves = 0 /\ faults = 0
      /\ \A i, j \in Stages : Q(i, j) = <<>> /\ sent[<<i, j>>] = NoRows /\ got[<<i, j>>] = NoRows
      /\ pc[0] = "prefill" /\ \A w \in Workers : pc[w] = "ctrl"
      /\ \A s \in Stages : why[s] = "running" /\ ctrl[s] = NoPacket /\ pc[s] # "over"
  BY StageFacts DEF Init, Q
<1>2. PICK g : g = [h |-> <<>>, rd |-> [w \in Workers |-> 0], rc |-> [w \in Workers |-> 0],
                    sn |-> [s \in Stages |-> 0], sk |-> {}]
  OBVIOUS
<1>3. g \in Ghosts
  BY <1>2 DEF Ghosts
<1>4. /\ g.h = <<>> /\ N(g) = 0 /\ g.sk = {} /\ (\A w \in Workers : g.rd[w] = 0 /\ g.rc[w] = 0 /\ g.sn[w] = 0)
      /\ \A s \in Stages : g.sn[s] = 0
  BY <1>2, StageFacts DEF N
<1>5. 0 \in Stages /\ LastStage \in Stages /\ LastStage \in Workers /\ 1 \in Workers /\ 1 \in Stages
  BY StageFacts
<1>6. \A w \in Workers : Written(g, w) = 0
  BY <1>1, <1>4 DEF Written
<1>7. RootAt(g)
  BY <1>1, <1>4, <1>5 DEF RootAt, RootOK, RootPcs
<1>8. ASSUME NEW w \in Workers PROVE WorkerAt(g, w) /\ SkipAt(g, w)
  <2>1. w \in Stages
    BY StageFacts
  <2> QED
    BY <1>1, <1>4, <1>6, <2>1 DEF WorkerAt, WorkerOK, WorkerPcs, SkipAt, SkipOK
<1>9. \A i, j \in Stages : Len(Q(i, j)) = 0
  <2>1. Len(<<>>) = 0
    OBVIOUS
  <2> QED
    BY <1>1, <2>1, Zenon
<1>10. ASSUME NEW w \in Workers, w >= 2 PROVE LinkAt(g, w)
  <2>1. w \in Stages /\ w - 1 \in Stages
    BY StageFacts
  <2>2. Upto(g, w, skipTarget) = 0
    BY <1>4, <2>1 DEF Upto
  <2> QED
    BY <1>4, <1>5, <1>6, <1>9, <2>1, <2>2 DEF LinkAt, CtrlRun, ActRun
<1>11. FirstAt(g)
  BY <1>4, <1>5, <1>6, <1>9 DEF FirstAt, FirstRun
<1>12. BypassAt(g)
  <2>1. ASSUME skipTarget >= 2 PROVE BypassRun(Q(skipTarget - 1, skipTarget + 1), g, skipTarget)
    <3>1. skipTarget - 1 \in Stages /\ skipTarget + 1 \in Stages
      <4>1. skipTarget \in Nat /\ (skipTarget # 0 => skipTarget <= ppSize - 2)
        BY <1>1, PipelineAssumption DEF skipTarget
      <4> QED
        BY <2>1, <4>1, PipelineAssumption DEF Stages
    <3>2. Len(Q(skipTarget - 1, skipTarget + 1)) = 0
      BY <1>9, <3>1
    <3> QED
      BY <3>2, BypassSet
  <2> QED
    BY <2>1 DEF BypassAt
<1>13. LogitsAt(g)
  BY <1>5, <1>9, LogitsSet DEF LogitsAt
<1>14. BackLinks
  BY <1>9 DEF BackLinks
<1>15. Chains
  <2>1. NoRows \in RowsOf
    BY DEF NoRows, RowsOf
  <2>2. ASSUME NEW i \in Stages, NEW j \in Stages PROVE Chain(Q(i, j), got[<<i, j>>], sent[<<i, j>>])
    <3>1. PICK b : b = [m \in 1..1 |-> NoRows]
      OBVIOUS
    <3>2. b \in [1..1 -> RowsOf] /\ b[1] = NoRows
      BY <2>1, <3>1
    <3>3. Len(Q(i, j)) = 0 /\ Len(Q(i, j)) + 1 = 1
      BY <1>9
    <3>4. ChainOK(Q(i, j), NoRows, NoRows, b)
      BY <3>2, <3>3 DEF ChainOK
    <3> QED
      BY <1>1, <3>2, <3>3, <3>4 DEF Chain
  <2> QED
    BY <2>2 DEF Chains
<1>16. Pace(g)
  <2>1. PICK k : k = skipTarget
    OBVIOUS
  <2>2. k \in Nat /\ (k # 0 => k \in Stages /\ k + 1 \in Workers)
    <3>1. k \in Nat /\ (k # 0 => k <= ppSize - 2)
      BY <1>1, <2>1, PipelineAssumption DEF skipTarget
    <3> QED
      BY <3>1, PipelineAssumption DEF Stages, Workers
  <2>3. Skips(g, k)
    BY <1>4 DEF Skips
  <2>4. Order(g, k)
    BY <1>4, <2>2 DEF Order
  <2>5. OneAtATime(g, k, useWave)
    BY <1>4, <2>2 DEF OneAtATime
  <2>6. WaveOnly(g, useWave)
    BY <1>4 DEF WaveOnly
  <2> QED
    BY <2>1, <2>3, <2>4, <2>5, <2>6 DEF Pace, PaceOK
<1>17. Quiet(g) /\ Wave(g)
  <2>1. Quiet(g)
    BY <1>4, <1>5, <1>9 DEF Quiet
  <2>2. Wave(g)
    BY <1>1, <1>4 DEF Wave
  <2> QED
    BY <2>1, <2>2
<1>18. Ends(g)
  BY <1>1, <1>5 DEF Ends, EndOK
<1>19. Links(g)
  BY <1>10, <1>11, <1>12, <1>13, <1>14 DEF Links
<1>20. Flow(g)
  BY <1>3, <1>7, <1>8, <1>15, <1>16, <1>17, <1>18, <1>19 DEF Flow
<1> QED
  BY <1>4, <1>20

\* A stuttering step keeps the flow, and so does a poll that turns to its other peer.
LEMMA FlowStutter ==
    ASSUME TypeInv, NEW g, Flow(g),
           UNCHANGED <<session, sock, bases, pc, why, ctrl, rootVars, faults>>
    PROVE  Flow(g)'
<1>1. UNCHANGED <<session, sock, sent, got, pc, why, ctrl, toWrite, request, pos, waves, faults>>
  BY DEF bases, rootVars
<1>2. RootAt(g) /\ Quiet(g) /\ Wave(g) /\ Ends(g)
  BY DEF Flow
<1>3. Q(LastStage, 0)' = Q(LastStage, 0)
  BY <1>1 DEF Q
<1>4. RootAt(g)'
  BY <1>1, <1>2, RootKept
<1>5. Quiet(g)'
  BY <1>1, <1>2, <1>3, QuietKept
<1>6. Wave(g)'
  BY <1>1, <1>2, WaveKept
<1>7. Ends(g)'
  BY <1>1, <1>2, EndsKept
<1> QED
  BY <1>1, <1>4, <1>5, <1>6, <1>7, FlowLocal, StageFacts

\* Every step extends the history.
LEMMA FlowRootStep ==
    ASSUME TypeInv, TypeInv', NEW g, Flow(g), RootStep
    PROVE  \E g2 : Flow(g2)'
<1>0. session' = session /\ g \in Ghosts /\ 0 \in Stages
  BY StageFacts DEF RootStep, Flow
<1>1. ctrl'[0] \in Packet
  BY <1>0 DEF TypeInv, TypeOK
<1>2. PICK g2 : GCast(g, g2, ctrl'[0])
  BY <1>0, <1>1, CastMove
<1>3. PICK g3 : GSent(g, g3, 0)
  BY <1>0, SentMove
<1>4. CASE PrefillChunk
  BY <1>0, <1>2, <1>4, FlowAssert, FlowPrefillChunk
<1>5. CASE DecodeToken
  BY <1>0, <1>2, <1>5, FlowDecodeToken
<1>6. CASE Finish
  BY <1>0, <1>2, <1>6, FlowFinish
<1>7. CASE RootSend
  BY <1>0, <1>3, <1>7, FlowRootSend
<1>8. CASE PrefillDone \/ NextRequest
  BY <1>0, <1>8, FlowPrefillDone, FlowNextRequest
<1>9. CASE \E w \in Workers : WriteControl(w)
  BY <1>0, <1>9, FlowWriteControl
<1>10. CASE ControlWritten \/ RootForward
  BY <1>0, <1>10, FlowControlWritten, FlowRootForward
<1>11. CASE RootRecvLogits \/ DrainLogits \/ RootPeerClosed
  BY <1>0, <1>11, FlowRootRecvLogits, FlowDrainLogits, FlowRootPeerClosed
<1> QED
  BY <1>4, <1>5, <1>6, <1>7, <1>8, <1>9, <1>10, <1>11 DEF RootStep

\* Every step of a worker keeps the flow.
LEMMA FlowWorkerStep ==
    ASSUME TypeInv, NEW g, Flow(g), NEW w \in Workers, WorkerStep(w)
    PROVE  \E g2 : Flow(g2)'
<1>0. session' = session /\ g \in Ghosts /\ w \in Stages
  BY StageFacts DEF WorkerStep, Flow
<1>1. PICK g2 : GRead(g, g2, w)
  BY <1>0, ReadMove
<1>2. PICK g3 : GSent(g, g3, w)
  BY <1>0, SentMove
<1>3. PICK g4 : GRecv(g, g4, w)
  BY <1>0, RecvMove
<1>4. PICK g5 : GSkip(g, g5, w)
  BY <1>0, SkipMove
<1>5. PICK g6 : GMark(g, g6, g.rd[w])
  BY <1>0, MarkMove, GhostTypes
<1>6. CASE ReadControl(w)
  BY <1>0, <1>1, <1>6, FlowReadControl
<1>7. CASE \E src \in Stages : SkipForward(w, src)
  BY <1>0, <1>4, <1>7, FlowSkipForward
<1>8. CASE \E src \in Stages : RecvActivation(w, src)
  BY <1>0, <1>3, <1>8, FlowRecvActivation
<1>9. CASE \E close \in BOOLEAN : EvaluateSkip(w, close)
  BY <1>0, <1>5, <1>9, FlowAccept, FlowReject
<1>10. CASE SendMarker(w) \/ SendActivation(w) \/ SendLogits(w)
  BY <1>0, <1>2, <1>10, FlowSendMarker, FlowSendActivation, FlowSendLogits
<1>11. CASE WorkerForward(w) \/ SendBypass(w)
  BY <1>0, <1>11, FlowWorkerForward, FlowSendBypass
<1>12. CASE WorkerPeerClosed(w) \/ PollTimeout(w)
  BY <1>0, <1>12, FlowWorkerPeerClosed, FlowPollTimeout
<1>13. CASE NextSource(w)
  BY <1>0, <1>13, FlowStutter DEF NextSource
<1> QED
  BY <1>6, <1>7, <1>8, <1>9, <1>10, <1>11, <1>12, <1>13 DEF WorkerStep

FlowInv == TypeInv /\ \E g : Flow(g)

\* Every step of the pipeline keeps the flow.
LEMMA FlowNext ==
    ASSUME FlowInv, TypeInv', [Next]_vars
    PROVE  FlowInv'
<1>1. PICK g : Flow(g)
  BY DEF FlowInv
<1>2. TypeInv
  BY DEF FlowInv
<1>3. CASE RootStep
  BY <1>1, <1>2, <1>3, FlowRootStep DEF FlowInv
<1>4. CASE \E w \in Workers : WorkerStep(w)
  BY <1>1, <1>2, <1>4, FlowWorkerStep DEF FlowInv
<1>5. CASE \E s \in Stages : Fault(s)
  BY <1>1, <1>2, <1>5, FlowFault DEF FlowInv
<1>6. CASE UNCHANGED vars
  BY <1>1, <1>2, <1>6, FlowStutter DEF FlowInv, vars
<1> QED
  BY <1>3, <1>4, <1>5, <1>6 DEF Next

\* A session whose root has aborted: it was padded beyond the sequence.
Overrun == why[0] = "assert" => pc[0] = "over" /\ session.tileAligned /\ schedTotal > seqLen

\* Whether the positions have run past the context depends on the root and its session only.
LEMMA OverrunKept ==
    ASSUME TypeInv, Overrun, pc'[0] = pc[0], why'[0] = why[0], session' = session, request' = request
    PROVE  Overrun'
BY DEF Overrun, schedTotal, realTotal, RealTotal, seqLen

\* Chunks leave the sequence only by padding.
LEMMA OverrunChunk ==
    ASSUME TypeInv, Overrun, PrefillChunk, session' = session
    PROVE  Overrun'
<1>0. /\ pos \in Nat /\ schedTotal \in Nat /\ realTotal \in Nat /\ 0 \in Stages /\ seqLen \in Nat
      /\ pc[0] = "prefill" /\ prefillBatchCap \in Nat
  <2>1. session \in Sessions /\ request \in DOMAIN session.prompts /\ pos \in Nat
    BY DEF TypeInv, TypeOK
  <2>2. schedTotal \in Nat /\ realTotal \in Nat
    BY <2>1, Totals
  <2>3. seqLen \in Nat /\ prefillBatchCap \in Nat
    BY <2>1, SessionFacts
  <2> QED
    BY <2>1, <2>2, <2>3, StageFacts DEF PrefillChunk
<1>1. why[0] # "assert"
  BY <1>0 DEF Overrun
<1>2. CASE pc'[0] # "over"
  <2>1. why' = why
    BY <1>2, ChunkCast
  <2> QED
    BY <1>1, <2>1 DEF Overrun
<1>3. CASE pc'[0] = "over"
  <2>1. PICK size : size = Smaller(schedTotal - pos, prefillBatchCap)
    OBVIOUS
  <2>2. size <= schedTotal - pos /\ size \in Int
    BY <1>0, <2>1 DEF Smaller
  <2>3. ~(pos + size - 1 < seqLen)
    <3>1. ASSUME pos + size - 1 < seqLen PROVE FALSE
      <4>1. Goto(0, "write")
        BY <2>1, <3>1 DEF PrefillChunk, Broadcast
      <4> QED
        BY <1>0, <1>3, <4>1, GotoPcs
    <3> QED
      BY <3>1
  <2>4. schedTotal > seqLen
    BY <1>0, <2>2, <2>3
  <2>5. realTotal <= seqLen
    <3>1. session \in Sessions /\ request \in DOMAIN session.prompts
      BY DEF TypeInv, TypeOK
    <3>2. session.prompts[request] <= seqLen /\ session.prompts[request] \in Nat
      BY <3>1, PipelineAssumption, SessionFacts DEF seqLen
    <3> QED
      BY <1>0, <3>2 DEF realTotal, RealTotal
  <2>6. session.tileAligned
    BY <1>0, <2>4, <2>5 DEF schedTotal
  <2>7. schedTotal' = schedTotal /\ seqLen' = seqLen /\ session'.tileAligned = session.tileAligned
    BY DEF PrefillChunk, schedTotal, realTotal, RealTotal, seqLen
  <2> QED
    BY <1>3, <2>4, <2>6, <2>7 DEF Overrun
<1> QED
  BY <1>2, <1>3

\* Without tile alignment no step of the root overruns the context.
LEMMA OverrunRoot ==
    ASSUME TypeInv, Overrun, RootStep
    PROVE  Overrun'
<1>0. 0 \in Stages /\ session' = session
  BY StageFacts DEF RootStep
<1>1. pc[0] # "over"
  BY DEF RootStep, PrefillChunk, PrefillDone, DecodeToken, NextRequest, Finish, WriteControl, ControlWritten,
         RootForward, RootSend, RootRecvLogits, DrainLogits, RootPeerClosed
<1>2. why[0] # "assert"
  BY <1>1 DEF Overrun
<1>3. CASE PrefillChunk
  BY <1>0, <1>3, OverrunChunk
<1>4. CASE ~PrefillChunk
  <2>1. why' = why \/ \E r \in {"stop", "protocol", "peer"} : End(0, r)
    BY <1>4 DEF RootStep, PrefillDone, DecodeToken, NextRequest, Finish, WriteControl, ControlWritten,
         RootForward, RootSend, RootRecvLogits, DrainLogits, RootPeerClosed
  <2>2. why'[0] # "assert"
    BY <1>0, <1>2, <2>1, EndedPcs
  <2> QED
    BY <2>2 DEF Overrun
<1> QED
  BY <1>3, <1>4

\* Steps of a worker, or a failure.
LEMMA OverrunOther ==
    ASSUME TypeInv, Overrun, (\E w \in Workers : WorkerStep(w)) \/ (\E s \in Stages : Fault(s))
    PROVE  Overrun'
<1>0. 0 \in Stages
  BY StageFacts
<1>1. ASSUME NEW w \in Workers, WorkerStep(w) PROVE Overrun'
  <2>0. w \in Stages /\ w # 0
    BY StageFacts
  <2>1. session' = session /\ request' = request
    BY <1>1 DEF WorkerStep, ReadControl, SkipForward, RecvActivation, WorkerForward, EvaluateSkip, SendMarker,
       SendBypass, SendActivation, SendLogits, WorkerPeerClosed, PollTimeout,
       NextSource, rootVars
  <2>2. (\E to : Goto(w, to)) \/ pc' = pc
    BY <1>1 DEF WorkerStep, ReadControl, SkipForward, RecvActivation, WorkerForward, EvaluateSkip, SendMarker,
       SendBypass, SendActivation, SendLogits, WorkerPeerClosed, PollTimeout,
       NextSource, End
  <2>3. why' = why \/ \E r : End(w, r)
    BY <1>1 DEF WorkerStep, ReadControl, SkipForward, RecvActivation, WorkerForward, EvaluateSkip, SendMarker,
       SendBypass, SendActivation, SendLogits, WorkerPeerClosed, PollTimeout,
       NextSource
  <2>4. pc'[0] = pc[0]
    BY <1>0, <2>0, <2>2, GotoPcs
  <2>5. why'[0] = why[0]
    BY <1>0, <2>0, <2>3, EndedPcs
  <2> QED
    BY <2>1, <2>4, <2>5, OverrunKept
<1>2. ASSUME NEW s \in Stages, Fault(s) PROVE Overrun'
  <2>1. pc[s] # "over" /\ End(s, "fault") /\ session' = session /\ request' = request
    BY <1>2 DEF Fault, rootVars
  <2>2. CASE s = 0
    <3>1. why'[0] = "fault"
      BY <1>0, <2>1, <2>2, EndedPcs
    <3> QED
      BY <3>1 DEF Overrun
  <2>3. CASE s # 0
    <3>1. pc'[0] = pc[0] /\ why'[0] = why[0]
      BY <1>0, <2>1, <2>3, EndedPcs
    <3> QED
      BY <2>1, <3>1, OverrunKept
  <2> QED
    BY <2>2, <2>3
<1> QED
  BY <1>1, <1>2

\* Nor does any other step.
LEMMA OverrunNext ==
    ASSUME TypeInv, Overrun, [Next]_vars
    PROVE  Overrun'
<1>1. CASE UNCHANGED vars
  BY <1>1, OverrunKept DEF vars, rootVars
<1>2. CASE Next
  BY <1>2, OverrunRoot, OverrunOther DEF Next
<1> QED
  BY <1>1, <1>2

-----------------------------------------------------------------------------
\* There is always a history that explains what the nodes and the sockets hold.
THEOREM FlowHolds == Spec => []FlowInv
<1>1. Init => FlowInv
  BY TypeInit, FlowInit DEF FlowInv
<1>2. FlowInv /\ TypeInv' /\ [Next]_vars => FlowInv'
  BY FlowNext
<1>3. TypeInv /\ [Next]_vars => TypeInv'
  BY TypeNext
<1>4. FlowInv => TypeInv
  BY DEF FlowInv
<1> QED
  BY <1>1, <1>2, <1>3, <1>4, PTL DEF Spec

\* DeltaMeetsItsBase: the next message of every socket, if it is a difference, was
\* taken from the rows that its receiver has last decoded from this socket.
THEOREM DeltaHolds == Spec => []DeltaMeetsItsBase
<1>1. FlowInv => DeltaMeetsItsBase
  <2> SUFFICES ASSUME FlowInv, NEW i \in Stages, NEW j \in Stages, sock[<<i, j>>] # <<>>,
                      Head(sock[<<i, j>>]).kind = "act", Head(sock[<<i, j>>]).base # NoRows
               PROVE  got[<<i, j>>] = Head(sock[<<i, j>>]).base
    BY DEF DeltaMeetsItsBase
  <2>1. PICK g : Flow(g)
    BY DEF FlowInv
  <2>2. Chain(Q(i, j), got[<<i, j>>], sent[<<i, j>>])
    BY <2>1 DEF Flow, Chains
  <2>3. Q(i, j) \in Seq(Message)
    BY DEF FlowInv, TypeInv, TypeOK, Q
  <2>4. Len(Q(i, j)) \in Nat /\ Len(Q(i, j)) >= 1 /\ Head(sock[<<i, j>>]) = Q(i, j)[1]
    BY <2>3 DEF Q
  <2>5. Q(i, j)[1].kind = "act" /\ Q(i, j)[1].base # NoRows
    BY <2>4
  <2>6. Q(i, j)[1].base = got[<<i, j>>]
    BY <2>2, <2>4, <2>5, ChainHead
  <2> QED
    BY <2>4, <2>6
<1> QED
  BY <1>1, FlowHolds, PTL

\* CleanSession: as long as no node fails by itself, nobody reads anything but what
\* it expects and nobody finds a socket closed; the assertion on positions, which
\* counts as a failure of the root, is the only exception.
THEOREM CleanHolds == Spec => [](PositionsInRange => CleanSession)
<1>1. FlowInv => (PositionsInRange => CleanSession)
  <2> SUFFICES ASSUME FlowInv, PositionsInRange, faults = 0, NEW s \in Stages
               PROVE  why[s] \notin {"peer", "protocol", "timeout"}
    BY DEF CleanSession
  <2>1. PICK g : Flow(g)
    BY DEF FlowInv
  <2>2. EndOK(g, s)
    BY <2>1 DEF Flow, Ends
  <2> QED
    BY <2>2 DEF EndOK
<1> QED
  BY <1>1, FlowHolds, PTL

\* That exception needs a prompt whose padding leaves the sequence: without tile
\* alignment, setPosition's assertion holds and the session is clean.
THEOREM UnpaddedHolds == Spec => [](~session.tileAligned => PositionsInRange /\ CleanSession)
<1>1. Init => Overrun
  BY StageFacts DEF Init, Overrun
<1>2. TypeInv /\ Overrun /\ [Next]_vars => Overrun'
  BY OverrunNext
<1>3. Overrun => (~session.tileAligned => PositionsInRange)
  BY DEF Overrun, PositionsInRange
<1>4. (~session.tileAligned => PositionsInRange) /\ (PositionsInRange => CleanSession)
        => (~session.tileAligned => PositionsInRange /\ CleanSession)
  OBVIOUS
<1> QED
  BY <1>1, <1>2, <1>3, <1>4, TypeInit, TypeNext, CleanHolds, PTL DEF Spec
=============================================================================
