---------------------------- MODULE PipelineTypes ---------------------------
(***************************************************************************)
(* Type correctness of Pipeline, for every number of stages and every       *)
(* session, with the facts about packets, sockets and positions that the    *)
(* other proofs about the pipeline rest on; then the history of a session   *)
(* and Flow, which says how a state looks at a history.  PipelineFlow       *)
(* proves that every step of the pipeline keeps Flow.                       *)
(***************************************************************************)
EXTENDS Pipeline, SequenceTheorems, TLAPS

\* The bytes between stages i and j.
Q(i, j) == sock[<<i, j>>]

-----------------------------------------------------------------------------
(* Types.                                                                  *)

\* What a session of the command line gives: at least one prompt, none longer than the
\* context, and a skip target with a stage on either side of it.
LEMMA SessionFacts ==
    ASSUME session \in Sessions
    PROVE  /\ session.prompts \in Seq(Nat \ {0}) /\ Len(session.prompts) \in Nat
           /\ DOMAIN session.prompts = 1..Len(session.prompts) /\ Len(session.prompts) >= 1
           /\ \A r \in 1..Len(session.prompts) :
                /\ session.prompts[r] \in Nat /\ session.prompts[r] >= 1
                /\ session.prompts[r] <= seqLen
           /\ seqLen \in Nat /\ steps \in Nat /\ session.maxNewTokens \in Nat
           /\ prefillBatchCap \in Nat /\ prefillBatchCap >= 1
           /\ useWave \in BOOLEAN /\ session.tileAligned \in BOOLEAN
           /\ session.delta \in BOOLEAN /\ session.deltaMinRows \in Nat
           /\ maxConsecutive \in Nat /\ maxConsecutive >= 1 /\ session.maxFaults \in Nat
           /\ skipTarget \in Nat /\ (skipTarget # 0 => skipTarget <= ppSize - 2)
           /\ useWave => Len(session.prompts) = 1
<1>1. /\ session.prompts \in Seq(Nat \ {0}) /\ session.prompts # <<>>
      /\ seqLen \in Nat /\ steps \in Nat /\ session.maxNewTokens \in Nat
      /\ prefillBatchCap \in Nat /\ prefillBatchCap >= 1
      /\ useWave \in BOOLEAN /\ session.tileAligned \in BOOLEAN
      /\ session.delta \in BOOLEAN /\ session.deltaMinRows \in Nat
      /\ maxConsecutive \in Nat /\ maxConsecutive >= 1 /\ session.maxFaults \in Nat
      /\ skipTarget \in Nat /\ (skipTarget # 0 => skipTarget <= ppSize - 2)
      /\ useWave => Len(session.prompts) = 1
      /\ \A r \in DOMAIN session.prompts : session.prompts[r] <= session.seqLen
  BY PipelineAssumption DEF seqLen, steps, prefillBatchCap, useWave, skipTarget, maxConsecutive
<1>2. Len(session.prompts) \in Nat /\ DOMAIN session.prompts = 1..Len(session.prompts)
  BY <1>1, LenProperties
<1>3. Len(session.prompts) >= 1
  BY <1>1, <1>2, EmptySeq
<1>4. \A r \in 1..Len(session.prompts) :
        session.prompts[r] \in Nat /\ session.prompts[r] >= 1 /\ session.prompts[r] <= seqLen
  BY <1>1, <1>2, ElementOfSeq DEF seqLen
<1> QED
  BY <1>1, <1>2, <1>3, <1>4

\* The stages are 0..ppSize-1, with at least one worker.
LEMMA StageFacts ==
    /\ ppSize \in Nat /\ ppSize >= 2 /\ LastStage \in Workers /\ LastStage = ppSize - 1
    /\ 0 \in Stages /\ 1 \in Workers
    /\ \A w \in Workers : w \in Stages /\ w \in Nat /\ w >= 1 /\ w - 1 \in Stages
    /\ \A w \in Workers : w # LastStage => w + 1 \in Workers
    /\ \A s \in Stages : s \in Nat /\ (s # 0 => s \in Workers)
BY PipelineAssumption DEF LastStage, Stages, Workers

\* A message is a control packet or rows.
LEMMA MessageKinds ==
    /\ \A m \in Message : \/ m.kind = "ctrl" /\ m.packet \in Packet
                          \/ m.kind = "act" /\ m.data \in RowsOf /\ m.base \in RowsOf
                                            /\ m.bypass \in BOOLEAN
    /\ \A p \in Packet : Control(p) \in Message /\ Control(p).kind = "ctrl" /\ Control(p).packet = p
    /\ \A x \in RowsOf, y \in RowsOf, b \in BOOLEAN :
         [kind |-> "act", data |-> x, base |-> y, bypass |-> b] \in Message
    /\ NoRows \in RowsOf /\ NoRows.rows = 0
    /\ \A x \in RowsOf : x.rows \in Nat /\ x.position \in Nat
BY DEF Message, Control, NoRows, RowsOf

\* The fields of a control packet.
LEMMA PacketFields ==
    /\ NoPacket \in Packet
    /\ \A p \in Packet : /\ p.phase \in {"prefill", "decode"} /\ p.position \in Nat /\ p.batchSize \in Nat
                         /\ p.isLastPrefillChunk \in BOOLEAN /\ p.request \in Nat
BY DEF NoPacket, Packet

LinkType == sock \in [Stages \X Stages -> Seq(Message)]

\* A socket holds a sequence of messages.
LEMMA LinkSeq ==
    ASSUME LinkType, NEW i \in Stages, NEW j \in Stages
    PROVE  /\ Q(i, j) \in Seq(Message) /\ Len(Q(i, j)) \in Nat
           /\ \A m \in 1..Len(Q(i, j)) : Q(i, j)[m] \in Message
           /\ Incoming(i, j) <=> Len(Q(i, j)) >= 1
           /\ Incoming(i, j) => Head(sock[<<i, j>>]) = Q(i, j)[1] /\ Q(i, j)[1] \in Message
<1>1. Q(i, j) \in Seq(Message)
  BY DEF LinkType, Q
<1>2. Len(Q(i, j)) \in Nat /\ \A m \in 1..Len(Q(i, j)) : Q(i, j)[m] \in Message
  BY <1>1, LenProperties, ElementOfSeq
<1>3. Incoming(i, j) <=> Q(i, j) # <<>>
  BY DEF Incoming, Q
<1>4. Q(i, j) # <<>> <=> Len(Q(i, j)) >= 1
  BY <1>1, <1>2, EmptySeq
<1>5. Q(i, j) # <<>> => Head(Q(i, j)) = Q(i, j)[1]
  BY <1>1, HeadTailProperties
<1> QED
  BY <1>1, <1>2, <1>3, <1>4, <1>5 DEF Q

\* What a socket holds after a message was put into it, or taken from it.
LEMMA LinkSend ==
    ASSUME LinkType, NEW i \in Stages, NEW j \in Stages, NEW m \in Message, Send(i, j, m)
    PROVE  /\ LinkType'
           /\ Len(Q(i, j)') = Len(Q(i, j)) + 1 /\ Q(i, j)'[Len(Q(i, j)) + 1] = m
           /\ \A p \in 1..Len(Q(i, j)) : Q(i, j)'[p] = Q(i, j)[p]
           /\ \A a, b \in Stages : a # i \/ b # j => Q(a, b)' = Q(a, b)
<1>1. Q(i, j) \in Seq(Message)
  BY LinkSeq
<1>2. Q(i, j)' = Append(Q(i, j), m)
  BY DEF LinkType, Send, Q
<1>3. \A a, b \in Stages : a # i \/ b # j => Q(a, b)' = Q(a, b)
  BY DEF LinkType, Send, Q
<1>4. LinkType'
  BY <1>1, AppendProperties DEF LinkType, Send, Q
<1> QED
  BY <1>1, <1>2, <1>3, <1>4, AppendProperties

\* Reading removes the head of one socket and leaves the others alone.
LEMMA LinkDrop ==
    ASSUME LinkType, NEW i \in Stages, NEW j \in Stages, Incoming(i, j), Drop(i, j)
    PROVE  /\ LinkType'
           /\ Len(Q(i, j)') = Len(Q(i, j)) - 1
           /\ \A p \in 1..(Len(Q(i, j)) - 1) : Q(i, j)'[p] = Q(i, j)[p + 1]
           /\ \A a, b \in Stages : a # i \/ b # j => Q(a, b)' = Q(a, b)
<1>1. Q(i, j) \in Seq(Message) /\ Q(i, j) # <<>>
  BY LinkSeq DEF Incoming, Q
<1>2. Q(i, j)' = Tail(Q(i, j))
  BY DEF LinkType, Drop, Q
<1>3. \A a, b \in Stages : a # i \/ b # j => Q(a, b)' = Q(a, b)
  BY DEF LinkType, Drop, Q
<1>4. Tail(Q(i, j)) \in Seq(Message)
  BY <1>1, HeadTailProperties
<1>5. LinkType'
  BY <1>4 DEF LinkType, Drop, Q
<1>6. /\ Len(Tail(Q(i, j))) = Len(Q(i, j)) - 1
      /\ \A p \in 1..Len(Tail(Q(i, j))) : Tail(Q(i, j))[p] = Q(i, j)[p + 1]
  BY <1>1, HeadTailProperties
<1> QED
  BY <1>2, <1>3, <1>5, <1>6

\* What sendActivation puts on the wire, and what it remembers.
SentMessage(m, i, j, rows, bypass) ==
    /\ m \in Message /\ m.kind = "act" /\ m.data \in RowsOf /\ m.base \in RowsOf
    /\ m.bypass = bypass /\ m.data.position = ctrl[i].position /\ m.data.rows = rows
    /\ Send(i, j, m)
    /\ m.base = NoRows \/ (m.base = sent[<<i, j>>] /\ m.base.rows = rows /\ rows > 0)
    /\ sent' = IF rows = 0 THEN sent ELSE [sent EXCEPT ![<<i, j>>] = m.data]

\* Sending rows keeps the types of the socket and of the sender's delta base.
LEMMA SentRows ==
    ASSUME TypeOK, NEW i \in Stages, NEW j \in Stages, NEW rows \in Nat, NEW bypass \in BOOLEAN,
           SendRows(i, j, rows, bypass)
    PROVE  /\ LinkType' /\ sent' \in [Stages \X Stages -> RowsOf] /\ got' = got
           /\ \E m \in Message : SentMessage(m, i, j, rows, bypass)
<1> DEFINE data == [phase |-> ctrl[i].phase, position |-> ctrl[i].position, rows |-> rows]
           base == IF (session.delta /\ rows >= session.deltaMinRows /\ rows > 0)
                        /\ sent[<<i, j>>].rows = rows THEN sent[<<i, j>>] ELSE NoRows
           m == [kind |-> "act", data |-> data, base |-> base, bypass |-> bypass]
<1>1. /\ Send(i, j, m) /\ got' = got
      /\ sent' = IF rows = 0 THEN sent ELSE [sent EXCEPT ![<<i, j>>] = data]
  BY DEF SendRows
<1>2. /\ data \in RowsOf /\ data.position = ctrl[i].position /\ data.rows = rows
      /\ <<i, j>> \in Stages \X Stages /\ sent[<<i, j>>] \in RowsOf
  BY DEF TypeOK, RowsOf, Packet
<1>3. base \in RowsOf /\ (base = NoRows \/ (base = sent[<<i, j>>] /\ base.rows = rows /\ rows > 0))
  BY <1>2, MessageKinds
<1>4. m \in Message /\ m.kind = "act" /\ m.data = data /\ m.base = base /\ m.bypass = bypass
  BY <1>2, <1>3, MessageKinds
<1>5. LinkType'
  BY <1>1, <1>4, LinkSend DEF TypeOK, LinkType
<1>6. sent' \in [Stages \X Stages -> RowsOf]
  BY <1>1, <1>2 DEF TypeOK
<1>7. SentMessage(m, i, j, rows, bypass)
  BY <1>1, <1>2, <1>3, <1>4 DEF SentMessage
<1> QED
  BY <1>1, <1>4, <1>5, <1>6, <1>7

\* Receiving rows keeps the types of the socket and of the receiver's delta base.
LEMMA ReceivedRows ==
    ASSUME TypeOK, NEW i \in Stages, NEW j \in Stages, NEW rows, Incoming(i, j),
           RecvRows(i, j, rows)
    PROVE  /\ LinkType' /\ got' \in [Stages \X Stages -> RowsOf] /\ sent' = sent /\ Drop(i, j)
           /\ Decodes(i, j, rows) <=> /\ Q(i, j)[1].kind = "act" /\ Q(i, j)[1].data.rows <= rows
                                      /\ Q(i, j)[1].base # NoRows =>
                                           got[<<i, j>>].rows = Q(i, j)[1].data.rows
           /\ got' = IF Decodes(i, j, rows) /\ Q(i, j)[1].data.rows > 0
                       THEN [got EXCEPT ![<<i, j>>] = Q(i, j)[1].data] ELSE got
<1>1. LinkType /\ Head(sock[<<i, j>>]) = Q(i, j)[1] /\ Q(i, j)[1] \in Message
  BY LinkSeq DEF TypeOK, LinkType
<1>2. /\ Drop(i, j) /\ sent' = sent
      /\ got' = IF Decodes(i, j, rows) /\ Q(i, j)[1].data.rows > 0
                  THEN [got EXCEPT ![<<i, j>>] = Q(i, j)[1].data] ELSE got
  BY <1>1 DEF RecvRows
<1>3. Decodes(i, j, rows) <=> /\ Q(i, j)[1].kind = "act" /\ Q(i, j)[1].data.rows <= rows
                              /\ Q(i, j)[1].base # NoRows =>
                                   got[<<i, j>>].rows = Q(i, j)[1].data.rows
  BY <1>1 DEF Decodes
<1>4. Decodes(i, j, rows) => Q(i, j)[1].data \in RowsOf
  BY <1>1, <1>3, MessageKinds
<1>5. got' \in [Stages \X Stages -> RowsOf]
  BY <1>2, <1>4 DEF TypeOK
<1>6. LinkType'
  BY <1>1, <1>2, LinkDrop
<1> QED
  BY <1>2, <1>3, <1>5, <1>6

-----------------------------------------------------------------------------
\* Packets are about a prompt there is.
Requests ==
    /\ \A s \in Stages : ctrl[s].request \in 1..Len(session.prompts)
    /\ \A i, j \in Stages : \A m \in 1..Len(Q(i, j)) :
         Q(i, j)[m].kind = "ctrl" => Q(i, j)[m].packet.request \in 1..Len(session.prompts)

TypeInv == TypeOK /\ Requests

\* Steps that put nothing into a socket but rows.
LEMMA RequestsSent ==
    ASSUME TypeInv, NEW i \in Stages, NEW j \in Stages, NEW m \in Message, Send(i, j, m),
           m.kind = "ctrl" => m.packet.request \in 1..Len(session.prompts),
           UNCHANGED <<session, ctrl>>
    PROVE  Requests'
<1>1. LinkType /\ Requests /\ Len(Q(i, j)) \in Nat
  BY LinkSeq DEF TypeInv, TypeOK, LinkType
<1>2. /\ Len(Q(i, j)') = Len(Q(i, j)) + 1 /\ Q(i, j)'[Len(Q(i, j)) + 1] = m
      /\ \A p \in 1..Len(Q(i, j)) : Q(i, j)'[p] = Q(i, j)[p]
      /\ \A a, b \in Stages : a # i \/ b # j => Q(a, b)' = Q(a, b)
  BY <1>1, LinkSend
<1>3. ASSUME NEW a \in Stages, NEW b \in Stages, NEW p \in 1..Len(Q(a, b)'), Q(a, b)'[p].kind = "ctrl"
      PROVE  Q(a, b)'[p].packet.request \in 1..Len(session.prompts)
  <2>1. CASE a # i \/ b # j
    <3>1. Q(a, b)' = Q(a, b)
      BY <1>2, <2>1
    <3> QED
      BY <1>1, <1>3, <3>1 DEF Requests
  <2>2. CASE a = i /\ b = j
    <3>1. CASE p = Len(Q(i, j)) + 1
      BY <1>2, <1>3, <2>2, <3>1
    <3>2. CASE p # Len(Q(i, j)) + 1
      <4>1. p \in 1..Len(Q(i, j))
        BY <1>1, <1>2, <1>3, <2>2, <3>2
      <4> QED
        BY <1>1, <1>2, <1>3, <2>2, <4>1 DEF Requests
    <3> QED
      BY <3>1, <3>2
  <2> QED
    BY <2>1, <2>2
<1> QED
  BY <1>1, <1>3 DEF Requests

\* Reading a message keeps every packet and row within the requests of the session.
LEMMA RequestsReceived ==
    ASSUME TypeInv, NEW i \in Stages, NEW j \in Stages, Incoming(i, j), Drop(i, j),
           UNCHANGED session, \A s \in Stages : ctrl'[s].request \in 1..Len(session.prompts)
    PROVE  Requests'
<1>1. LinkType /\ Requests /\ Len(Q(i, j)) \in Nat
  BY LinkSeq DEF TypeInv, TypeOK, LinkType
<1>2. /\ Len(Q(i, j)') = Len(Q(i, j)) - 1
      /\ \A p \in 1..(Len(Q(i, j)) - 1) : Q(i, j)'[p] = Q(i, j)[p + 1]
      /\ \A a, b \in Stages : a # i \/ b # j => Q(a, b)' = Q(a, b)
  BY <1>1, LinkDrop
<1>3. ASSUME NEW a \in Stages, NEW b \in Stages, NEW p \in 1..Len(Q(a, b)'), Q(a, b)'[p].kind = "ctrl"
      PROVE  Q(a, b)'[p].packet.request \in 1..Len(session.prompts)
  <2>1. CASE a # i \/ b # j
    <3>1. Q(a, b)' = Q(a, b)
      BY <1>2, <2>1
    <3> QED
      BY <1>1, <1>3, <3>1 DEF Requests
  <2>2. CASE a = i /\ b = j
    <3>1. p \in 1..(Len(Q(i, j)) - 1) /\ p + 1 \in 1..Len(Q(i, j)) /\ Q(i, j)'[p] = Q(i, j)[p + 1]
      BY <1>1, <1>2, <1>3, <2>2
    <3> QED
      BY <1>1, <1>3, <2>2, <3>1 DEF Requests
  <2> QED
    BY <2>1, <2>2
<1> QED
  BY <1>1, <1>3 DEF Requests

\* The prompt lengths the prefill loop works with are naturals.
LEMMA Totals ==
    ASSUME session \in Sessions, request \in DOMAIN session.prompts
    PROVE  /\ realTotal \in Nat /\ schedTotal \in Nat /\ maxPos \in Nat /\ maxPos <= seqLen
           /\ nInputTokens \in Nat
<1>1. /\ session.prompts[request] \in Nat /\ session.prompts[request] >= 1
      /\ seqLen \in Nat /\ steps \in Nat /\ session.maxNewTokens \in Nat
  BY SessionFacts
<1>2. realTotal \in Nat
  BY <1>1 DEF realTotal, RealTotal
<1>3. schedTotal \in Nat
  <2>1. PICK r \in Nat : r = realTotal
    BY <1>2
  <2>2. (r + 4 - 1) \div 4 \in Nat
    BY <2>1
  <2> QED
    BY <2>1, <2>2 DEF schedTotal, kGemmTileRows
<1> QED
  BY <1>1, <1>2, <1>3 DEF maxPos, Smaller, nInputTokens

\* So does a step that leaves the sockets alone.
LEMMA RequestsKept ==
    ASSUME TypeInv, UNCHANGED <<session, sock>>,
           \A s \in Stages : ctrl'[s].request \in 1..Len(session.prompts)
    PROVE  Requests'
BY DEF TypeInv, Requests, Q

\* Running a packet writes its own request into the KV cache.
LEMMA StoredKv ==
    ASSUME TypeInv, NEW s \in Stages, StoreKv(s), UNCHANGED session
    PROVE  kv' \in [Stages -> [Positions -> -1..Len(session.prompts)]]
<1>1. ctrl[s].request \in 1..Len(session.prompts) /\ Len(session.prompts) \in Nat
  BY SessionFacts DEF TypeInv, TypeOK, Requests
<1>2. kv \in [Stages -> [Positions -> -1..Len(session.prompts)]]
  BY DEF TypeInv, TypeOK
<1>3. ctrl[s].request \in -1..Len(session.prompts) /\ 0 \in -1..Len(session.prompts)
  BY <1>1
<1> QED
  BY <1>2, <1>3 DEF StoreKv

\* A step of a node that changes neither sockets nor packets.
LEMMA TypeLocal ==
    ASSUME TypeInv, secondSource' \in BOOLEAN, UNCHANGED <<session, sock, bases, ctrl>>,
           pc' \in [Stages -> {"prefill", "decode", "write", "forward", "send", "recv",
                               "drain", "ctrl", "decide", "marker", "bypass", "over"}],
           why' \in [Stages -> {"running", "stop", "peer", "timeout", "fault", "protocol",
                                "assert"}],
           toWrite' \in SUBSET Workers, request' \in DOMAIN session.prompts, pos' \in Nat,
           waves' \in Nat, logits' \in Int,
           skip' \in [hasPrev : BOOLEAN, hasDelta : BOOLEAN, accepts : Nat, rejects : Nat],
           kv' \in [Stages -> [Positions -> -1..Len(session.prompts)]],
           skipped' \in SUBSET (Nat \X Nat), faults' \in 0..session.maxFaults
    PROVE  TypeInv'
<1>1. Requests'
  BY RequestsKept DEF TypeInv, Requests
<1>2. TypeOK'
  BY DEF TypeInv, TypeOK, bases, Positions, seqLen
<1> QED
  BY <1>1, <1>2 DEF TypeInv

\* A broadcast.
LEMMA TypeBroadcast ==
    ASSUME TypeInv, secondSource' \in BOOLEAN, NEW p \in Packet, Broadcast(p), p.request \in 1..Len(session.prompts),
           UNCHANGED <<session, sock, bases, why, request, pos, waves, logits, skip, kv, skipped, faults>>
    PROVE  TypeInv'
<1>1. ctrl' \in [Stages -> Packet] /\ toWrite' = Workers
      /\ \A s \in Stages : ctrl'[s].request \in 1..Len(session.prompts)
  BY StageFacts DEF TypeInv, TypeOK, Requests, Broadcast
<1>2. pc' \in [Stages -> {"prefill", "decode", "write", "forward", "send", "recv",
                          "drain", "ctrl", "decide", "marker", "bypass", "over"}]
  BY DEF TypeInv, TypeOK, Broadcast, Goto
<1>3. Requests'
  BY <1>1, RequestsKept
<1> QED
  BY <1>1, <1>2, <1>3 DEF TypeInv, TypeOK, bases, Positions, seqLen

\* The prefill and decode loops of the root keep the types.
LEMMA TypeRootLoops ==
    ASSUME TypeInv, secondSource' \in BOOLEAN, UNCHANGED session,
           PrefillChunk \/ PrefillDone \/ DecodeToken \/ NextRequest \/ Finish
    PROVE  TypeInv'
<1>0. /\ TypeOK /\ request \in DOMAIN session.prompts /\ session \in Sessions /\ pos \in Nat
      /\ DOMAIN session.prompts = 1..Len(session.prompts) /\ Len(session.prompts) \in Nat
      /\ realTotal \in Nat /\ schedTotal \in Nat /\ maxPos \in Nat
      /\ prefillBatchCap \in Nat /\ prefillBatchCap >= 1 /\ useWave \in BOOLEAN
      /\ request \in Nat /\ ctrl[0] \in Packet /\ ctrl[0].request \in 1..Len(session.prompts)
  <2>1. /\ TypeOK /\ request \in DOMAIN session.prompts /\ session \in Sessions /\ pos \in Nat
        /\ ctrl[0] \in Packet /\ ctrl[0].request \in 1..Len(session.prompts)
    BY StageFacts DEF TypeInv, TypeOK, Requests
  <2>2. /\ DOMAIN session.prompts = 1..Len(session.prompts) /\ Len(session.prompts) \in Nat
        /\ prefillBatchCap \in Nat /\ prefillBatchCap >= 1 /\ useWave \in BOOLEAN
    BY <2>1, SessionFacts
  <2>3. realTotal \in Nat /\ schedTotal \in Nat /\ maxPos \in Nat
    BY <2>1, Totals
  <2> QED
    BY <2>1, <2>2, <2>3
<1>1. CASE PrefillChunk
  <2> DEFINE size == Smaller(schedTotal - pos, prefillBatchCap)
             p == [phase |-> "prefill", position |-> pos, batchSize |-> size, request |-> request,
                   isLastPrefillChunk |-> ~useWave \/ pos + size >= schedTotal]
  <2>1. size \in Nat /\ pos < schedTotal
    BY <1>0, <1>1 DEF PrefillChunk, Smaller
  <2>2. p \in Packet /\ p.request \in 1..Len(session.prompts)
    BY <1>0, <2>1 DEF Packet
  <2>3. CASE pos + size - 1 < seqLen
    <3>1. Broadcast(p)
      BY <1>1, <2>3 DEF PrefillChunk
    <3>2. UNCHANGED <<sock, bases, why, request, pos, waves, logits, skip, kv, skipped, faults>>
      BY <1>1, <2>3 DEF PrefillChunk
    <3> QED
      BY <2>2, <3>1, <3>2, TypeBroadcast
  <2>4. CASE ~(pos + size - 1 < seqLen)
    <3>1. /\ End(0, "assert")
          /\ UNCHANGED <<sock, bases, ctrl, toWrite, request, pos, waves, logits, skip, kv, skipped, faults>>
      BY <1>1, <2>4 DEF PrefillChunk
    <3> QED
      BY <3>1, <1>0, TypeLocal DEF TypeOK, End, Goto
  <2> QED
    BY <2>3, <2>4
<1>2. CASE PrefillDone
  <2>1. Smaller(pos, realTotal) \in Nat
    BY <1>0 DEF Smaller
  <2> QED
    BY <1>0, <1>2, <2>1, TypeLocal DEF PrefillDone, TypeOK, Goto
<1>3. CASE DecodeToken
  <2> DEFINE p == [phase |-> "decode", position |-> pos, batchSize |-> 1, request |-> request,
                   isLastPrefillChunk |-> TRUE]
  <2>1. p \in Packet /\ p.request \in 1..Len(session.prompts)
    BY <1>0 DEF Packet
  <2> QED
    BY <1>3, <2>1, TypeBroadcast DEF DecodeToken
<1>4. CASE NextRequest
  <2>1. request + 1 \in DOMAIN session.prompts
    BY <1>0, <1>4 DEF NextRequest
  <2> QED
    BY <1>0, <1>4, <2>1, TypeLocal DEF NextRequest, TypeOK, Goto
<1>5. CASE Finish
  <2>1. PICK p : p = [ctrl[0] EXCEPT !.batchSize = 0]
    OBVIOUS
  <2>2. p \in Packet /\ p.request \in 1..Len(session.prompts)
    BY <1>0, <2>1 DEF Packet
  <2> QED
    BY <1>5, <2>1, <2>2, TypeBroadcast DEF Finish
<1> QED
  BY <1>1, <1>2, <1>3, <1>4, <1>5

\* Steps that send or receive.
LEMMA TypeSends ==
    ASSUME TypeInv, secondSource' \in BOOLEAN, NEW i \in Stages, NEW j \in Stages, NEW rows \in Nat, NEW bypass \in BOOLEAN,
           SendRows(i, j, rows, bypass),
           UNCHANGED <<session, why, ctrl, toWrite, request, logits, skip, kv, skipped, faults>>,
           pc' \in [Stages -> {"prefill", "decode", "write", "forward", "send", "recv",
                               "drain", "ctrl", "decide", "marker", "bypass", "over"}],
           pos' \in Nat, waves' \in Nat
    PROVE  TypeInv'
<1>1. LinkType' /\ sent' \in [Stages \X Stages -> RowsOf] /\ got' = got
  BY SentRows DEF TypeInv
<1>2. PICK m \in Message : SentMessage(m, i, j, rows, bypass)
  BY SentRows DEF TypeInv
<1>3. Requests'
  BY <1>2, RequestsSent DEF SentMessage
<1> QED
  BY <1>1, <1>3 DEF TypeInv, TypeOK, LinkType, Positions, seqLen

\* Receiving logits or activations keeps the types.
LEMMA TypeReceives ==
    ASSUME TypeInv, secondSource' \in BOOLEAN, NEW i \in Stages, NEW j \in Stages, NEW rows, Incoming(i, j),
           RecvRows(i, j, rows),
           UNCHANGED <<session, ctrl, toWrite, request, waves, kv, faults>>,
           pc' \in [Stages -> {"prefill", "decode", "write", "forward", "send", "recv",
                               "drain", "ctrl", "decide", "marker", "bypass", "over"}],
           why' \in [Stages -> {"running", "stop", "peer", "timeout", "fault", "protocol",
                                "assert"}],
           pos' \in Nat, logits' \in Int, skipped' \in SUBSET (Nat \X Nat),
           skip' \in [hasPrev : BOOLEAN, hasDelta : BOOLEAN, accepts : Nat, rejects : Nat]
    PROVE  TypeInv'
<1>1. LinkType' /\ got' \in [Stages \X Stages -> RowsOf] /\ sent' = sent /\ Drop(i, j)
  BY ReceivedRows DEF TypeInv
<1>2. Requests'
  BY <1>1, RequestsReceived DEF TypeInv, Requests
<1> QED
  BY <1>1, <1>2 DEF TypeInv, TypeOK, LinkType, Positions, seqLen

\* So do the root's other steps.
LEMMA TypeRootRest ==
    ASSUME TypeInv, secondSource' \in BOOLEAN, UNCHANGED session,
           (\E w \in Workers : WriteControl(w)) \/ ControlWritten \/ RootForward \/ RootSend
             \/ RootRecvLogits \/ DrainLogits \/ RootPeerClosed
    PROVE  TypeInv'
<1>0. /\ TypeOK /\ session \in Sessions /\ pos \in Nat /\ waves \in Nat /\ 0 \in Stages
      /\ ctrl[0] \in Packet /\ ctrl[0].request \in 1..Len(session.prompts)
      /\ ctrl[0].batchSize \in Nat
      /\ LinkType /\ LastStage \in Stages /\ 1 \in Stages
  BY StageFacts, PacketFields DEF TypeInv, TypeOK, Requests, LinkType
<1>1. ASSUME NEW w \in Workers, WriteControl(w) PROVE TypeInv'
  <2>1. PICK m \in Message : m = Control(ctrl[0]) /\ m.kind = "ctrl" /\ m.packet = ctrl[0]
    BY <1>0, MessageKinds
  <2>2. w \in Stages /\ Send(0, w, m) /\ toWrite' \in SUBSET Workers
    BY <1>0, <1>1, <2>1, StageFacts DEF WriteControl, TypeOK
  <2>3. UNCHANGED <<bases, pc, why, ctrl, request, pos, waves, logits, skip, kv, skipped, faults>>
    BY <1>1 DEF WriteControl
  <2>4. LinkType'
    BY <1>0, <2>2, LinkSend
  <2>5. Requests'
    BY <1>0, <2>1, <2>2, <2>3, RequestsSent
  <2> QED
    BY <1>0, <2>2, <2>3, <2>4, <2>5 DEF TypeInv, TypeOK, LinkType, Positions, seqLen, bases
<1>2. CASE ControlWritten
  BY <1>0, <1>2, TypeLocal DEF ControlWritten, TypeOK, End, Goto, rootVars
<1>3. CASE RootForward
  <2>1. kv' \in [Stages -> [Positions -> -1..Len(session.prompts)]]
    BY <1>0, <1>3, StoredKv DEF RootForward
  <2> QED
    BY <1>0, <1>3, <2>1, TypeLocal DEF RootForward, TypeOK, Goto, rootVars
<1>4. CASE RootSend
  <2>1. /\ SendRows(0, 1, ctrl[0].batchSize, FALSE)
        /\ UNCHANGED <<session, why, ctrl, toWrite, request, logits, skip, kv, skipped, faults>>
        /\ pc' \in [Stages -> {"prefill", "decode", "write", "forward", "send", "recv",
                               "drain", "ctrl", "decide", "marker", "bypass", "over"}]
        /\ pos' \in Nat /\ waves' \in Nat
    <3>1. /\ SendRows(0, 1, ctrl[0].batchSize, FALSE)
          /\ UNCHANGED <<session, why, ctrl, toWrite, request, logits, skip, kv, skipped, faults>>
      BY <1>4 DEF RootSend
    <3>2. CASE InWave
      <4>1. pc' = [pc EXCEPT ![0] = "prefill"] /\ pos' = pos + ctrl[0].batchSize /\ waves' = waves + 1
        BY <1>4, <3>2 DEF RootSend, Goto
      <4>2. pos' \in Nat /\ waves' \in Nat
        BY <1>0, <4>1
      <4> QED
        BY <1>0, <3>1, <4>1, <4>2 DEF TypeOK
    <3>3. CASE ~InWave
      <4>1. pc' = [pc EXCEPT ![0] = "recv"] /\ pos' = pos /\ waves' = waves
        BY <1>4, <3>3 DEF RootSend, Goto
      <4> QED
        BY <1>0, <3>1, <4>1 DEF TypeOK
    <3> QED
      BY <3>2, <3>3
  <2> QED
    BY <1>0, <2>1, TypeSends
<1>5. CASE RootRecvLogits
  <2>1. Decodes(LastStage, 0, 1) => Head(sock[<<LastStage, 0>>]).data.position \in Int
    BY <1>0, <1>5, LinkSeq, MessageKinds DEF RootRecvLogits, Decodes
  <2>2. /\ RecvRows(LastStage, 0, 1) /\ Incoming(LastStage, 0)
        /\ UNCHANGED <<session, ctrl, toWrite, request, waves, kv, faults, skip, skipped>>
    BY <1>5 DEF RootRecvLogits
  <2>3. /\ pc' \in [Stages -> {"prefill", "decode", "write", "forward", "send", "recv",
                               "drain", "ctrl", "decide", "marker", "bypass", "over"}]
        /\ why' \in [Stages -> {"running", "stop", "peer", "timeout", "fault", "protocol",
                                "assert"}]
        /\ pos' \in Nat /\ logits' \in Int
    <3>1. CASE Decodes(LastStage, 0, 1)
      <4>1. /\ pc' = [pc EXCEPT ![0] = LoopHead] /\ why' = why /\ pos' = pos + ctrl[0].batchSize
            /\ logits' = Head(sock[<<LastStage, 0>>]).data.position
        BY <1>5, <3>1 DEF RootRecvLogits, Goto
      <4>2. LoopHead \in {"prefill", "decode"}
        BY DEF LoopHead
      <4> QED
        <5>1. pos' \in Nat /\ logits' \in Int
          BY <1>0, <2>1, <3>1, <4>1
        <5>2. PICK x \in {"prefill", "decode"} : x = LoopHead
          BY <4>2
        <5> QED
          BY <1>0, <4>1, <5>1, <5>2 DEF TypeOK
    <3>2. CASE ~Decodes(LastStage, 0, 1)
      BY <1>0, <1>5, <3>2 DEF RootRecvLogits, Goto, End, TypeOK
    <3> QED
      BY <3>1, <3>2
  <2>4. /\ skipped' \in SUBSET (Nat \X Nat)
        /\ skip' \in [hasPrev : BOOLEAN, hasDelta : BOOLEAN, accepts : Nat, rejects : Nat]
    BY <1>0, <2>2 DEF TypeOK
  <2> QED
    BY <1>0, <2>2, <2>3, <2>4, TypeReceives
<1>6. CASE DrainLogits
  <2>1. Decodes(LastStage, 0, prefillBatchCap) => Head(sock[<<LastStage, 0>>]).data.position \in Int
    BY <1>0, <1>6, LinkSeq, MessageKinds DEF DrainLogits, Decodes
  <2>2. /\ RecvRows(LastStage, 0, prefillBatchCap) /\ Incoming(LastStage, 0)
        /\ UNCHANGED <<session, ctrl, toWrite, request, pos, waves, kv, faults, skip, skipped>>
    BY <1>6 DEF DrainLogits
  <2>3. /\ pc' \in [Stages -> {"prefill", "decode", "write", "forward", "send", "recv",
                               "drain", "ctrl", "decide", "marker", "bypass", "over"}]
        /\ why' \in [Stages -> {"running", "stop", "peer", "timeout", "fault", "protocol",
                                "assert"}]
        /\ pos' \in Nat /\ logits' \in Int
    BY <1>0, <1>6, <2>1 DEF DrainLogits, Goto, End, TypeOK
  <2>4. /\ skipped' \in SUBSET (Nat \X Nat)
        /\ skip' \in [hasPrev : BOOLEAN, hasDelta : BOOLEAN, accepts : Nat, rejects : Nat]
    BY <1>0, <2>2 DEF TypeOK
  <2> QED
    BY <1>0, <2>2, <2>3, <2>4, TypeReceives
<1>7. CASE RootPeerClosed
  BY <1>0, <1>7, TypeLocal DEF RootPeerClosed, TypeOK, End, Goto, rootVars
<1> QED
  BY <1>1, <1>2, <1>3, <1>4, <1>5, <1>6, <1>7

\* So do the steps of a worker.
LEMMA TypeWorker ==
    ASSUME TypeInv, secondSource' \in BOOLEAN, UNCHANGED session, NEW w \in Workers, WorkerStep(w)
    PROVE  TypeInv'
<1> DEFINE Pcs == {"prefill", "decode", "write", "forward", "send", "recv",
                   "drain", "ctrl", "decide", "marker", "bypass", "over"}
           Reasons == {"running", "stop", "peer", "timeout", "fault", "protocol", "assert"}
           SkipStates == [hasPrev : BOOLEAN, hasDelta : BOOLEAN, accepts : Nat, rejects : Nat]
<1>0. /\ TypeOK /\ session \in Sessions /\ 0 \in Stages /\ w \in Stages /\ w \in Nat
      /\ ctrl[w] \in Packet /\ ctrl[w].request \in 1..Len(session.prompts)
      /\ ctrl[w].batchSize \in Nat /\ ctrl[w].position \in Nat /\ ctrl[w].request \in Nat
      /\ LinkType /\ pc \in [Stages -> Pcs] /\ why \in [Stages -> Reasons]
      /\ skip \in SkipStates /\ NoSkipState \in SkipStates
      /\ skipped \in SUBSET (Nat \X Nat)
  BY StageFacts, PacketFields DEF TypeInv, TypeOK, Requests, LinkType, NoSkipState
<1>1. CASE ReadControl(w)
  <2>1. /\ Incoming(0, w) /\ Drop(0, w) /\ LinkType' /\ Q(0, w)[1] \in Message
        /\ Head(sock[<<0, w>>]) = Q(0, w)[1] /\ Len(Q(0, w)) >= 1 /\ Len(Q(0, w)) \in Nat
    BY <1>0, <1>1, LinkSeq, LinkDrop DEF ReadControl
  <2>2. Q(0, w)[1].kind = "ctrl" =>
          Q(0, w)[1].packet \in Packet /\ Q(0, w)[1].packet.request \in 1..Len(session.prompts)
    <3>1. 1 \in 1..Len(Q(0, w))
      BY <2>1
    <3> QED
      BY <1>0, <2>1, <3>1, MessageKinds DEF TypeInv, Requests
  <2>3. /\ UNCHANGED <<bases, rootVars, kv, skipped, faults>>
        /\ pc' \in [Stages -> Pcs] /\ why' \in [Stages -> Reasons] /\ skip' \in SkipStates
        /\ ctrl' \in [Stages -> Packet]
        /\ \A s \in Stages : ctrl'[s].request \in 1..Len(session.prompts)
    <3>0. /\ UNCHANGED <<bases, rootVars, kv, skipped, faults>>
          /\ ctrl \in [Stages -> Packet]
          /\ \A s \in Stages : ctrl[s].request \in 1..Len(session.prompts)
      BY <1>0, <1>1 DEF ReadControl, TypeInv, TypeOK, Requests
    <3>1. CASE Q(0, w)[1].kind = "ctrl" /\ Q(0, w)[1].packet.batchSize > 0
      <4>1. /\ pc' = [pc EXCEPT ![w] = "recv"] /\ why' = why
            /\ ctrl' = [ctrl EXCEPT ![w] = Q(0, w)[1].packet]
            /\ skip' = skip \/ skip' = NoSkipState
        BY <1>1, <2>1, <3>1 DEF ReadControl, Goto
      <4> QED
        BY <1>0, <2>2, <3>0, <3>1, <4>1
    <3>2. CASE ~(Q(0, w)[1].kind = "ctrl" /\ Q(0, w)[1].packet.batchSize > 0)
      <4>1. /\ pc' = [pc EXCEPT ![w] = "over"] /\ ctrl' = ctrl /\ skip' = skip
            /\ why' = [why EXCEPT ![w] = IF Q(0, w)[1].kind = "ctrl" THEN "stop" ELSE "protocol"]
        BY <1>1, <2>1, <3>2 DEF ReadControl, Goto, End
      <4> QED
        BY <1>0, <3>0, <4>1
    <3> QED
      BY <3>1, <3>2
  <2>4. Requests'
    BY <1>0, <2>1, <2>3, RequestsReceived
  <2> QED
    BY <1>0, <2>1, <2>3, <2>4 DEF TypeInv, TypeOK, LinkType, Positions, seqLen, bases, rootVars
<1>2. ASSUME NEW src \in Stages, SkipForward(w, src) PROVE TypeInv'
  <2>1. /\ Incoming(src, w) /\ RecvRows(src, w, ctrl[w].batchSize)
        /\ UNCHANGED <<session, ctrl, toWrite, request, waves, pos, logits, why, kv, faults, skip>>
        /\ pc' \in [Stages -> Pcs] /\ skipped' \in SUBSET (Nat \X Nat)
    BY <1>0, <1>2 DEF SkipForward, Goto, rootVars
  <2>2. why' \in [Stages -> Reasons] /\ pos' \in Nat /\ logits' \in Int /\ skip' \in SkipStates
    BY <1>0, <2>1 DEF TypeOK
  <2> QED
    BY <1>0, <2>1, <2>2, TypeReceives
<1>3. ASSUME NEW src \in Stages, RecvActivation(w, src) PROVE TypeInv'
  <2>1. /\ Incoming(src, w) /\ RecvRows(src, w, ctrl[w].batchSize)
        /\ UNCHANGED <<session, ctrl, toWrite, request, waves, pos, logits, kv, faults, skipped>>
    BY <1>3 DEF RecvActivation, rootVars
  <2>2. \/ pc' = pc /\ why' = why /\ skip' = skip
        \/ pc' = [pc EXCEPT ![w] = "over"] /\ why' = [why EXCEPT ![w] = "protocol"] /\ skip' = skip
        \/ /\ pc' = [pc EXCEPT ![w] = "forward"] /\ why' = why
           /\ \/ skip' = skip
              \/ skip' = [skip EXCEPT !.hasDelta = skip.hasPrev, !.hasPrev = TRUE]
    BY <1>3 DEF RecvActivation, Goto, End
  <2>3. pc' \in [Stages -> Pcs] /\ why' \in [Stages -> Reasons] /\ skip' \in SkipStates
    BY <1>0, <2>2
  <2>4. pos' \in Nat /\ logits' \in Int /\ skipped' \in SUBSET (Nat \X Nat)
    BY <1>0, <2>1 DEF TypeOK
  <2> QED
    BY <1>0, <2>1, <2>3, <2>4, TypeReceives
<1>4. CASE WorkerForward(w)
  <2>1. kv' \in [Stages -> [Positions -> -1..Len(session.prompts)]]
    BY <1>0, <1>4, StoredKv DEF WorkerForward
  <2>2. pc' = [pc EXCEPT ![w] = "decide"] \/ pc' = [pc EXCEPT ![w] = "send"]
    BY <1>4 DEF WorkerForward, Goto
  <2>3. pc' \in [Stages -> Pcs]
    BY <1>0, <2>2
  <2> QED
    BY <1>0, <1>4, <2>1, <2>3, TypeLocal DEF WorkerForward, TypeOK, rootVars
<1>5. ASSUME NEW close \in BOOLEAN, EvaluateSkip(w, close) PROVE TypeInv'
  <2>1. PICK acc \in BOOLEAN, forced \in BOOLEAN :
          /\ skip' = [skip EXCEPT !.accepts = IF acc THEN @ + 1 ELSE 0,
                                  !.rejects = IF acc \/ forced THEN 0 ELSE @ + 1]
          /\ pc' = [pc EXCEPT ![w] = IF acc THEN "marker" ELSE "send"]
    BY <1>5 DEF EvaluateSkip, Goto
  <2>2. skip' \in SkipStates /\ pc' \in [Stages -> Pcs]
    <3>1. PICK a, b : a \in Nat /\ b \in Nat /\ skip' = [skip EXCEPT !.accepts = a, !.rejects = b]
      <4>1. skip.accepts + 1 \in Nat /\ skip.rejects + 1 \in Nat /\ 0 \in Nat
        BY <1>0
      <4> QED
        BY <2>1, <4>1
    <3>2. PICK to \in Pcs : pc' = [pc EXCEPT ![w] = to]
      BY <2>1
    <3> QED
      BY <1>0, <3>1, <3>2
  <2> QED
    BY <1>0, <1>5, <2>2, TypeLocal DEF EvaluateSkip, TypeOK, rootVars
<1>6. ASSUME NEW to \in Stages, NEW rows \in Nat, NEW byp \in BOOLEAN, NEW next \in Pcs,
             SendRows(w, to, rows, byp), Goto(w, next),
             UNCHANGED <<why, ctrl, rootVars, skip, kv, skipped, faults>>
      PROVE  TypeInv'
  <2>1. pc' \in [Stages -> Pcs] /\ pos' \in Nat /\ waves' \in Nat
    BY <1>0, <1>6 DEF TypeOK, Goto, rootVars
  <2> QED
    BY <1>0, <1>6, <2>1, TypeSends DEF rootVars
<1>7. CASE SendMarker(w)
  <2>1. skipTarget \in Stages
    <3>1. skipTarget \in Nat /\ (skipTarget # 0 => skipTarget <= ppSize - 2)
      BY <1>0, SessionFacts
    <3> QED
      BY <3>1, StageFacts DEF Stages
  <2> QED
    BY <1>6, <1>7, <2>1 DEF SendMarker
<1>8. CASE SendBypass(w)
  <2>1. skipTarget + 1 \in Stages
    <3>1. skipTarget \in Nat /\ (skipTarget # 0 => skipTarget <= ppSize - 2)
      BY <1>0, SessionFacts
    <3> QED
      BY <3>1, StageFacts DEF Stages
  <2> QED
    BY <1>0, <1>6, <1>8, <2>1 DEF SendBypass
<1>9. CASE SendActivation(w)
  <2>1. w + 1 \in Stages
    BY <1>9, StageFacts DEF SendActivation
  <2> QED
    BY <1>0, <1>6, <1>9, <2>1 DEF SendActivation
<1>10. CASE SendLogits(w)
  <2>1. CASE SendsLogits(w)
    BY <1>0, <1>6, <1>10, <2>1 DEF SendLogits
  <2>2. CASE ~SendsLogits(w)
    BY <1>0, <1>10, <2>2, TypeLocal DEF SendLogits, TypeOK, rootVars, Goto
  <2> QED
    BY <2>1, <2>2
<1>11. CASE WorkerPeerClosed(w)
  BY <1>0, <1>11, TypeLocal DEF WorkerPeerClosed, TypeOK, End, Goto, rootVars
<1>12. CASE PollTimeout(w)
  BY <1>0, <1>12, TypeLocal DEF PollTimeout, TypeOK, End, Goto, rootVars
<1>13. CASE NextSource(w)
  BY <1>0, <1>13, TypeLocal DEF NextSource, TypeOK, rootVars
<1> QED
  BY <1>1, <1>2, <1>3, <1>4, <1>5, <1>7, <1>8, <1>9, <1>10, <1>11, <1>12, <1>13 DEF WorkerStep

\* The poll is at one of its two peers.
LEMMA TypeSecondSource ==
    ASSUME TypeInv, [Next]_vars
    PROVE  secondSource' \in BOOLEAN
<1>0. secondSource \in BOOLEAN
  BY DEF TypeInv, TypeOK
<1>1. ASSUME NEW w, NEW received, PollGoesOn(w, received) PROVE secondSource' \in BOOLEAN
  BY <1>0, <1>1 DEF PollGoesOn
<1>2. ASSUME NEW w \in Workers, WorkerStep(w) PROVE secondSource' \in BOOLEAN
  BY <1>0, <1>1, <1>2 DEF WorkerStep, RecvActivation, NextSource
<1> QED
  BY <1>0, <1>2 DEF Next, vars, RootStep, Fault

\* Sessions start with values of the right types.
LEMMA TypeInit == Init => TypeInv
<1> SUFFICES ASSUME Init PROVE TypeInv
  OBVIOUS
<1>1. 1 \in 1..Len(session.prompts) /\ DOMAIN session.prompts = 1..Len(session.prompts)
      /\ Len(session.prompts) \in Nat /\ session.maxFaults \in Nat
  BY SessionFacts DEF Init
<1>2. sock \in [Stages \X Stages -> Seq(Message)]
  BY EmptySeq DEF Init
<1>3. \A i, j \in Stages : Len(Q(i, j)) = 0
  BY DEF Init, Q
<1>4. Requests
  BY <1>1, <1>3 DEF Init, Requests, NoPacket
<1>5. /\ sent \in [Stages \X Stages -> RowsOf] /\ got \in [Stages \X Stages -> RowsOf]
      /\ ctrl \in [Stages -> Packet]
  BY MessageKinds, PacketFields DEF Init
<1>6. kv \in [Stages -> [Positions -> -1..Len(session.prompts)]]
  BY <1>1 DEF Init
<1>7. TypeOK
  <2>1. secondSource \in BOOLEAN
    BY DEF Init
  <2>2. /\ session \in Sessions /\ toWrite \in SUBSET Workers
        /\ request \in DOMAIN session.prompts /\ pos \in Nat /\ waves \in Nat /\ logits \in Int
        /\ skipped \in SUBSET (Nat \X Nat) /\ faults \in 0..session.maxFaults
        /\ skip \in [hasPrev : BOOLEAN, hasDelta : BOOLEAN, accepts : Nat, rejects : Nat]
    BY <1>1 DEF Init, NoSkipState
  <2>3. /\ pc \in [Stages -> {"prefill", "decode", "write", "forward", "send", "recv",
                               "drain", "ctrl", "decide", "marker", "bypass", "over"}]
        /\ why \in [Stages -> {"running", "stop", "peer", "timeout", "fault", "protocol",
                                "assert"}]
    BY DEF Init
  <2> QED
    BY <1>2, <1>5, <1>6, <2>1, <2>2, <2>3 DEF TypeOK
<1> QED
  BY <1>4, <1>7 DEF TypeInv

\* Every step keeps the types.
LEMMA TypeNext == TypeInv /\ [Next]_vars => TypeInv'
<1> SUFFICES ASSUME TypeInv, [Next]_vars PROVE TypeInv'
  OBVIOUS
<1>0. secondSource' \in BOOLEAN
  BY TypeSecondSource
<1>1. CASE RootStep
  BY <1>0, <1>1, TypeRootLoops, TypeRootRest DEF RootStep
<1>2. ASSUME NEW w \in Workers, WorkerStep(w) PROVE TypeInv'
  BY <1>0, <1>2, TypeWorker DEF WorkerStep
<1>3. ASSUME NEW s \in Stages, Fault(s) PROVE TypeInv'
  <2>1. faults' \in 0..session.maxFaults
    BY <1>3, SessionFacts, SMTT(30) DEF Fault, TypeInv, TypeOK
  <2> QED
    BY <1>0, <1>3, <2>1, TypeLocal DEF Fault, TypeInv, TypeOK, End, Goto, rootVars
<1>4. CASE UNCHANGED vars
  <2>1. UNCHANGED <<session, sock, bases, ctrl, pc, why, toWrite, request, pos, waves, logits,
                    skip, kv, skipped, faults>>
    BY <1>4 DEF vars, rootVars
  <2> QED
    BY <1>0, <2>1, TypeLocal DEF TypeInv, TypeOK
<1> QED
  BY <1>1, <1>2, <1>3, <1>4 DEF Next

\* TypeOK: sockets, packets, counters and caches stay within their types, for every
\* number of stages and every session.
THEOREM PipelineTypeHolds == Spec => []TypeOK
<1>1. TypeInv => TypeOK
  BY DEF TypeInv
<1> QED
  BY <1>1, TypeInit, TypeNext, PTL DEF Spec

-----------------------------------------------------------------------------
(* The history of a session: the control packets the root has broadcast,   *)
(* and how far every stage has come in them.  No stage knows it, but every *)
(* program counter, packet and socket is determined by it as Flow says.    *)
(* Below Flow are the facts about what a message that is sent or read does *)
(* to a socket that holds a stretch of the history.                        *)

\* What has happened so far: the packets that were broadcast, and for every stage
\* how many of them it has read, received the rows of, and completed; and the
\* numbers of the packets at which the target is skipped.
Ghosts == [h : Seq(Packet), rd : [Workers -> Nat], rc : [Workers -> Nat],
           sn : [Stages -> Nat], sk : SUBSET Nat]

N(g) == Len(g.h)

Stop(c) == c.batchSize = 0
Answers(c) == c.phase = "decode" \/ c.isLastPrefillChunk
Streaming(g, wave) == wave /\ N(g) > 0 /\ g.h[N(g)].phase = "prefill" /\ ~Stop(g.h[N(g)])
Written(g, w) == IF w \in toWrite THEN N(g) - 1 ELSE N(g)

RootPcs == {"prefill", "decode", "write", "forward", "send", "recv", "drain", "over"}
WorkerPcs == {"ctrl", "recv", "forward", "decide", "send", "marker", "bypass", "over"}

\* The root: p is where it is, c its packet, w the workers it has still to write to.
RootOK(p, c, w, g) ==
    /\ p \in RootPcs
    /\ c = IF N(g) = 0 THEN NoPacket ELSE g.h[N(g)]
    /\ g.sn[0] = N(g) \/ (N(g) > 0 /\ g.sn[0] = N(g) - 1)
    /\ p \in {"write", "forward", "send"} => g.sn[0] = N(g) - 1
    /\ p \in {"prefill", "decode", "recv", "drain"} => g.sn[0] = N(g)
    /\ w # {} => g.sn[0] = N(g) - 1 /\ p \in {"write", "over"}
    /\ \A m \in 1..N(g) : Stop(g.h[m]) =>
         m = N(g) /\ g.sn[0] = N(g) - 1 /\ p \in {"write", "over"}

RootAt(g) == RootOK(pc[0], ctrl[0], toWrite, g)

\* A worker at p with packet c: it has read rd packets of the wr that were written
\* to it, received the rows of rc, and completed sn.
WorkerOK(p, c, h, rd, rc, sn, wr) ==
    /\ p \in WorkerPcs
    /\ sn <= rc /\ rc <= rd /\ rd <= sn + 1 /\ rd <= wr
    /\ p \in {"ctrl", "bypass"} => sn = rd
    /\ p = "recv" => rc = rd - 1
    /\ p \in {"forward", "decide", "send", "marker"} => rc = rd /\ sn = rd - 1
    /\ p # "over" => c = IF rd = 0 THEN NoPacket ELSE h[rd]
    /\ p = "over" \/ rd = 0 \/ ~Stop(h[rd])
    /\ rd > 0 /\ Stop(h[rd]) => rc = rd - 1

WorkerAt(g, w) == WorkerOK(pc[w], ctrl[w], g.h, g.rd[w], g.rc[w], g.sn[w], Written(g, w))

\* The decision stage and the target k; n: rows on their way to the stage after next.
SkipOK(p, c, w, g, k, n) ==
    /\ p \in {"decide", "marker", "bypass"} => w + 1 = k /\ c.phase = "decode" /\ c.batchSize = 1
    /\ p \in {"marker", "bypass"} => g.rd[w] \in g.sk
    /\ p \in {"forward", "decide", "send"} /\ (w + 1 = k \/ w = k) => g.rd[w] \notin g.sk
    /\ p = "bypass" => n = 0 /\ g.rc[w + 2] < g.rd[w]

SkipAt(g, w) == SkipOK(pc[w], ctrl[w], w, g, skipTarget, Len(Q(w, w + 2)))

-----------------------------------------------------------------------------
\* The sockets.  q holds the control packets behind number a up to b.
CtrlRun(q, h, a, b) ==
    /\ Len(q) = b - a
    /\ \A m \in 1..Len(q) : q[m] = Control(h[a + m])

IsAct(m, c, rows, bypass) ==
    /\ m.kind = "act" /\ m.bypass = bypass
    /\ m.data.position = c.position /\ m.data.rows = rows

\* The rows of packet c, or the marker.
RowsFor(m, c, mark) == IF mark THEN IsAct(m, c, 0, TRUE) ELSE IsAct(m, c, c.batchSize, FALSE)

\* q holds the rows of the packets behind number a up to b.
ActRun(q, h, a, b, marks) ==
    /\ Len(q) = b - a
    /\ \A m \in 1..Len(q) : RowsFor(q[m], h[a + m], a + m \in marks)

\* Packets and rows take turns on the socket from the root to stage 1: m is its
\* i-th message, and q holds those behind number a up to b.
FirstMsg(m, i, h) ==
    \A j \in 1..Len(h) : /\ i = 2 * j - 1 => m = Control(h[j])
                         /\ i = 2 * j => RowsFor(m, h[j], FALSE)

FirstRun(q, h, a, b) ==
    /\ Len(q) = b - a
    /\ \A m \in 1..Len(q) : FirstMsg(q[m], a + m, h)

\* The number of the last packet whose rows are on their way from w - 1 to w.
Upto(g, w, k) ==
    IF g.sn[w - 1] <= g.rc[w] \/ (k # 0 /\ w = k + 1 /\ N(g) \in g.sk) THEN g.rc[w]
    ELSE g.sn[w - 1]
Marks(g, w, k) == IF w = k THEN g.sk ELSE {}

BypassRun(q, g, k) ==
    /\ Len(q) <= 1
    /\ Len(q) = 1 => /\ N(g) \in g.sk /\ g.rc[k + 1] < N(g) /\ g.sn[k - 1] = N(g)
                     /\ IsAct(q[1], g.h[N(g)], 1, TRUE)

LogitsRun(q, g) ==
    /\ Len(q) <= 1
    /\ Len(q) = 1 => /\ N(g) > 0 /\ g.sn[LastStage] = N(g) /\ Answers(g.h[N(g)])
                     /\ IsAct(q[1], g.h[N(g)], 1, FALSE)

LinkAt(g, w) ==
    /\ CtrlRun(Q(0, w), g.h, g.rd[w], Written(g, w))
    /\ ActRun(Q(w - 1, w), g.h, g.rc[w], Upto(g, w, skipTarget), Marks(g, w, skipTarget))

FirstAt(g) == FirstRun(Q(0, 1), g.h, g.rd[1] + g.rc[1], Written(g, 1) + g.sn[0])
BypassAt(g) == skipTarget >= 2 => BypassRun(Q(skipTarget - 1, skipTarget + 1), g, skipTarget)
LogitsAt(g) == LogitsRun(Q(LastStage, 0), g)
BackLinks == \A i, j \in Stages : j < i /\ ~(i = LastStage /\ j = 0) => Len(Q(i, j)) = 0

Links(g) ==
    /\ \A w \in Workers : w >= 2 => LinkAt(g, w)
    /\ FirstAt(g) /\ BypassAt(g) /\ LogitsAt(g) /\ BackLinks

\* The differences on a socket: b[m] is what its receiver will have decoded before
\* message m.
ChainOK(q, first, last, b) ==
    /\ b[1] = first /\ b[Len(q) + 1] = last
    /\ \A m \in 1..Len(q) :
         /\ b[m + 1] = IF q[m].kind = "act" /\ q[m].data.rows > 0 THEN q[m].data ELSE b[m]
         /\ q[m].kind = "act" /\ q[m].base # NoRows =>
              q[m].base = b[m] /\ b[m].rows = q[m].data.rows

Chain(q, first, last) == \E b \in [1..(Len(q) + 1) -> RowsOf] : ChainOK(q, first, last, b)

Chains == \A i, j \in Stages : Chain(Q(i, j), got[<<i, j>>], sent[<<i, j>>])

-----------------------------------------------------------------------------
Skips(g, k) ==
    \A n \in g.sk : /\ k >= 2 /\ n >= 1 /\ n <= g.rc[k - 1]
                    /\ g.h[n].phase = "decode" /\ g.h[n].batchSize = 1

\* A stage has not received what an earlier one has not sent; the target may
\* be behind its successor by packets at which it is skipped.
Order(g, k) ==
    /\ \A i \in Stages, j \in Workers : i < j /\ ~(k # 0 /\ i = k) => g.rc[j] <= g.sn[i]
    /\ k # 0 => \A m \in Nat : g.sn[k] < m /\ m <= g.rc[k + 1] => m \in g.sk

\* Unless the root is streaming chunks, at most one packet is in the pipeline.
OneAtATime(g, k, wave) ==
    ~Streaming(g, wave) =>
      /\ \A s \in Stages : ~(k # 0 /\ s = k) => g.sn[s] >= N(g) - 1
      /\ k # 0 => \A m \in Nat : g.sn[k] < m /\ m <= N(g) - 1 => m \in g.sk

WaveOnly(g, wave) ==
    wave /\ N(g) > 0 /\ g.h[N(g)].phase = "prefill" =>
      \A m \in 1..N(g) : /\ g.h[m].phase = "prefill"
                         /\ m < N(g) /\ ~Stop(g.h[N(g)]) => ~g.h[m].isLastPrefillChunk

PaceOK(g, k, wave) == Skips(g, k) /\ Order(g, k) /\ OneAtATime(g, k, wave) /\ WaveOnly(g, wave)
Pace(g) == PaceOK(g, skipTarget, useWave)

\* When the root is at the head of a loop (but the one of a wave), the packets
\* so far have been answered.
Quiet(g) ==
    pc[0] = "decode" \/ (pc[0] = "prefill" /\ ~useWave) =>
      g.sn[LastStage] = N(g) /\ Len(Q(LastStage, 0)) = 0

Wave(g) ==
    /\ pc[0] = "recv" => ~InWave
    /\ useWave /\ pc[0] = "prefill" /\ N(g) > 0 =>
         /\ waves > 0 /\ g.h[N(g)].phase = "prefill"
         /\ g.h[N(g)].isLastPrefillChunk => pos >= schedTotal
    /\ useWave /\ pc[0] \in {"write", "forward", "send"} /\ g.h[N(g)].phase = "prefill" =>
         (g.h[N(g)].isLastPrefillChunk => Stop(g.h[N(g)]) \/ pos + g.h[N(g)].batchSize >= schedTotal)

\* Why node s has ended, as long as nothing has failed.
EndOK(g, s) ==
    IF pc[s] = "over"
      THEN /\ why[s] = "stop" /\ N(g) > 0 /\ Stop(g.h[N(g)])
           /\ IF s = 0 THEN toWrite = {} ELSE g.rd[s] = N(g)
      ELSE why[s] = "running"

Ends(g) ==
    /\ \A s \in Stages : why[s] # "protocol"
    /\ why[0] = "assert" => pc[0] = "over"
    /\ faults = 0 /\ PositionsInRange => \A s \in Stages : EndOK(g, s)

Flow(g) ==
    /\ g \in Ghosts
    /\ RootAt(g) /\ (\A w \in Workers : WorkerAt(g, w) /\ SkipAt(g, w))
    /\ Links(g) /\ Chains
    /\ Pace(g) /\ Quiet(g) /\ Wave(g) /\ Ends(g)

-----------------------------------------------------------------------------
(* Sockets that grow and shrink.                                           *)

Grown(q, q2, m) ==
    /\ Len(q) \in Nat /\ Len(q2) = Len(q) + 1 /\ q2[Len(q) + 1] = m
    /\ \A p \in 1..Len(q) : q2[p] = q[p]

Shrunk(q, q2) ==
    /\ Len(q) \in Nat /\ Len(q) >= 1 /\ Len(q2) = Len(q) - 1
    /\ \A p \in 1..(Len(q) - 1) : q2[p] = q[p + 1]

\* The packets of h are the first ones of h2.
Extends(h2, h) ==
    /\ Len(h) \in Nat /\ Len(h2) \in Nat /\ Len(h) <= Len(h2)
    /\ \A m \in 1..Len(h) : h2[m] = h[m]

\* Writing the next control packet lengthens the run of a socket.
LEMMA CtrlRunGrows ==
    ASSUME NEW q, NEW q2, NEW m, NEW h, NEW a \in Nat, NEW b \in Nat,
           CtrlRun(q, h, a, b), Grown(q, q2, m), m = Control(h[b + 1])
    PROVE  CtrlRun(q2, h, a, b + 1)
<1>1. PICK n \in Nat : n = Len(q)
  BY DEF Grown
<1>2. n = b - a /\ Len(q2) = n + 1 /\ a + (n + 1) = b + 1 /\ q2[n + 1] = m
  BY <1>1 DEF Grown, CtrlRun
<1>3. ASSUME NEW p \in 1..(n + 1) PROVE q2[p] = Control(h[a + p])
  <2>1. CASE p = n + 1
    BY <1>2, <2>1
  <2>2. CASE p # n + 1
    <3>1. p \in 1..n
      BY <2>2
    <3> QED
      BY <1>1, <3>1 DEF Grown, CtrlRun
  <2> QED
    BY <2>1, <2>2
<1> QED
  BY <1>2, <1>3 DEF CtrlRun

\* The packet at the head of the run is the next one of the history.
LEMMA CtrlRunShrinks ==
    ASSUME NEW q, NEW q2, NEW h, NEW a \in Nat, NEW b \in Nat,
           CtrlRun(q, h, a, b), Shrunk(q, q2)
    PROVE  CtrlRun(q2, h, a + 1, b) /\ q[1] = Control(h[a + 1]) /\ a + 1 <= b
<1>1. PICK n \in Nat : n = Len(q)
  BY DEF Shrunk
<1>2. n = b - a /\ n >= 1 /\ Len(q2) = n - 1
  BY <1>1 DEF Shrunk, CtrlRun
<1>3. ASSUME NEW p \in 1..(n - 1) PROVE q2[p] = Control(h[(a + 1) + p])
  <2>1. p + 1 \in 1..n /\ a + (p + 1) = (a + 1) + p /\ q2[p] = q[p + 1]
    BY <1>1 DEF Shrunk
  <2>2. q[p + 1] = Control(h[a + (p + 1)])
    BY <1>1, <2>1 DEF CtrlRun
  <2> QED
    BY <2>1, <2>2
<1>4. q[1] = Control(h[a + 1])
  BY <1>1, <1>2 DEF CtrlRun
<1> QED
  BY <1>2, <1>3, <1>4 DEF CtrlRun

\* A longer history leaves the run alone.
LEMMA CtrlRunExtends ==
    ASSUME NEW q, NEW h, NEW h2, NEW a \in Nat, NEW b \in Nat, Len(q) \in Nat,
           CtrlRun(q, h, a, b), Extends(h2, h), b <= Len(h)
    PROVE  CtrlRun(q, h2, a, b)
<1>1. ASSUME NEW m \in 1..Len(q) PROVE q[m] = Control(h2[a + m])
  <2>1. a + m \in 1..Len(h)
    BY DEF CtrlRun, Extends
  <2> QED
    BY <2>1 DEF CtrlRun, Extends
<1> QED
  BY <1>1 DEF CtrlRun

\* The same three facts for a socket that carries rows.
LEMMA ActRunGrows ==
    ASSUME NEW q, NEW q2, NEW m, NEW h, NEW a \in Nat, NEW b \in Nat, NEW M,
           ActRun(q, h, a, b, M), Grown(q, q2, m), RowsFor(m, h[b + 1], b + 1 \in M)
    PROVE  ActRun(q2, h, a, b + 1, M)
<1>1. PICK n \in Nat : n = Len(q)
  BY DEF Grown
<1>2. n = b - a /\ Len(q2) = n + 1 /\ a + (n + 1) = b + 1 /\ q2[n + 1] = m
  BY <1>1 DEF Grown, ActRun
<1>3. ASSUME NEW p \in 1..(n + 1) PROVE RowsFor(q2[p], h[a + p], a + p \in M)
  <2>1. CASE p = n + 1
    BY <1>2, <2>1
  <2>2. CASE p # n + 1
    <3>1. p \in 1..n
      BY <2>2
    <3>2. q2[p] = q[p]
      BY <1>1, <3>1 DEF Grown
    <3> QED
      BY <1>1, <3>1, <3>2 DEF ActRun
  <2> QED
    BY <2>1, <2>2
<1> QED
  BY <1>2, <1>3 DEF ActRun

\* The rows at the head are those of the next packet, a marker where it is skipped.
LEMMA ActRunShrinks ==
    ASSUME NEW q, NEW q2, NEW h, NEW a \in Nat, NEW b \in Nat, NEW M,
           ActRun(q, h, a, b, M), Shrunk(q, q2)
    PROVE  ActRun(q2, h, a + 1, b, M) /\ RowsFor(q[1], h[a + 1], a + 1 \in M) /\ a + 1 <= b
<1>1. PICK n \in Nat : n = Len(q)
  BY DEF Shrunk
<1>2. n = b - a /\ n >= 1 /\ Len(q2) = n - 1
  BY <1>1 DEF Shrunk, ActRun
<1>3. ASSUME NEW p \in 1..(n - 1) PROVE RowsFor(q2[p], h[(a + 1) + p], (a + 1) + p \in M)
  <2>1. p + 1 \in 1..n /\ a + (p + 1) = (a + 1) + p /\ q2[p] = q[p + 1]
    BY <1>1 DEF Shrunk
  <2>2. RowsFor(q[p + 1], h[a + (p + 1)], a + (p + 1) \in M)
    BY <1>1, <2>1 DEF ActRun
  <2> QED
    BY <2>1, <2>2
<1>4. RowsFor(q[1], h[a + 1], a + 1 \in M)
  BY <1>1, <1>2 DEF ActRun
<1> QED
  BY <1>2, <1>3, <1>4 DEF ActRun

\* A longer history leaves the rows in a socket alone.
LEMMA ActRunExtends ==
    ASSUME NEW q, NEW h, NEW h2, NEW a \in Nat, NEW b \in Nat, NEW M, Len(q) \in Nat,
           ActRun(q, h, a, b, M), Extends(h2, h), b <= Len(h)
    PROVE  ActRun(q, h2, a, b, M)
<1>1. ASSUME NEW m \in 1..Len(q) PROVE RowsFor(q[m], h2[a + m], a + m \in M)
  <2>1. a + m \in 1..Len(h)
    BY DEF ActRun, Extends
  <2>2. h2[a + m] = h[a + m]
    BY <2>1 DEF Extends
  <2> QED
    BY <2>2 DEF ActRun
<1> QED
  BY <1>1 DEF ActRun

\* More marks, none of them among the packets of the run.
LEMMA ActRunMarked ==
    ASSUME NEW q, NEW h, NEW a \in Nat, NEW b \in Nat, NEW M, NEW M2, Len(q) \in Nat,
           ActRun(q, h, a, b, M), \A n \in (a + 1)..b : n \in M2 <=> n \in M
    PROVE  ActRun(q, h, a, b, M2)
<1>1. ASSUME NEW m \in 1..Len(q) PROVE RowsFor(q[m], h[a + m], a + m \in M2)
  <2>1. a + m \in (a + 1)..b
    BY DEF ActRun
  <2>2. a + m \in M2 <=> a + m \in M
    BY <2>1
  <2>3. RowsFor(q[m], h[a + m], a + m \in M)
    BY DEF ActRun
  <2> QED
    BY <2>2, <2>3 DEF RowsFor
<1> QED
  BY <1>1 DEF ActRun

\* Messages of the first link alternate: packet j is its message 2j-1, the rows of
\* packet j its message 2j.
LEMMA FirstMessages ==
    ASSUME NEW h, Len(h) \in Nat, NEW j \in 1..Len(h), NEW m
    PROVE  /\ m = Control(h[j]) <=> FirstMsg(m, 2 * j - 1, h)
           /\ RowsFor(m, h[j], FALSE) <=> FirstMsg(m, 2 * j, h)
<1>1. \A i \in 1..Len(h) : /\ 2 * j - 1 = 2 * i - 1 <=> i = j
                           /\ 2 * j = 2 * i <=> i = j
                           /\ 2 * j - 1 # 2 * i /\ 2 * j # 2 * i - 1
  OBVIOUS
<1>2. m = Control(h[j]) <=> FirstMsg(m, 2 * j - 1, h)
  BY <1>1 DEF FirstMsg
<1>3. RowsFor(m, h[j], FALSE) <=> FirstMsg(m, 2 * j, h)
  BY <1>1 DEF FirstMsg
<1> QED
  BY <1>2, <1>3

\* And for the first link, which carries control packets and rows in turn.
LEMMA FirstRunGrows ==
    ASSUME NEW q, NEW q2, NEW m, NEW h, NEW a \in Nat, NEW b \in Nat,
           FirstRun(q, h, a, b), Grown(q, q2, m), FirstMsg(m, b + 1, h)
    PROVE  FirstRun(q2, h, a, b + 1)
<1>1. PICK n \in Nat : n = Len(q)
  BY DEF Grown
<1>2. n = b - a /\ Len(q2) = n + 1 /\ a + (n + 1) = b + 1 /\ q2[n + 1] = m
  BY <1>1 DEF Grown, FirstRun
<1>3. ASSUME NEW p \in 1..(n + 1) PROVE FirstMsg(q2[p], a + p, h)
  <2>1. CASE p = n + 1
    BY <1>2, <2>1
  <2>2. CASE p # n + 1
    <3>1. p \in 1..n
      BY <2>2
    <3>2. q2[p] = q[p]
      BY <1>1, <3>1 DEF Grown
    <3> QED
      BY <1>1, <3>1, <3>2 DEF FirstRun
  <2> QED
    BY <2>1, <2>2
<1> QED
  BY <1>2, <1>3 DEF FirstRun

\* The head of the first link is the next message in that order.
LEMMA FirstRunShrinks ==
    ASSUME NEW q, NEW q2, NEW h, NEW a \in Nat, NEW b \in Nat,
           FirstRun(q, h, a, b), Shrunk(q, q2)
    PROVE  FirstRun(q2, h, a + 1, b) /\ FirstMsg(q[1], a + 1, h) /\ a + 1 <= b
<1>1. PICK n \in Nat : n = Len(q)
  BY DEF Shrunk
<1>2. n = b - a /\ n >= 1 /\ Len(q2) = n - 1
  BY <1>1 DEF Shrunk, FirstRun
<1>3. ASSUME NEW p \in 1..(n - 1) PROVE FirstMsg(q2[p], (a + 1) + p, h)
  <2>1. p + 1 \in 1..n /\ a + (p + 1) = (a + 1) + p /\ q2[p] = q[p + 1]
    BY <1>1 DEF Shrunk
  <2>2. FirstMsg(q[p + 1], a + (p + 1), h)
    BY <1>1, <2>1 DEF FirstRun
  <2> QED
    BY <2>1, <2>2
<1>4. FirstMsg(q[1], a + 1, h)
  BY <1>1, <1>2 DEF FirstRun
<1> QED
  BY <1>2, <1>3, <1>4 DEF FirstRun

\* A longer history leaves the first link alone.
LEMMA FirstRunExtends ==
    ASSUME NEW q, NEW h, NEW h2, NEW a \in Nat, NEW b \in Nat, Len(q) \in Nat,
           FirstRun(q, h, a, b), Extends(h2, h), b <= 2 * Len(h)
    PROVE  FirstRun(q, h2, a, b)
<1>1. ASSUME NEW m \in 1..Len(q) PROVE FirstMsg(q[m], a + m, h2)
  <2>1. a + m <= 2 * Len(h) /\ FirstMsg(q[m], a + m, h)
    BY DEF FirstRun, Extends
  <2>2. \A j \in 1..Len(h2) : a + m = 2 * j - 1 \/ a + m = 2 * j => j \in 1..Len(h)
    BY <2>1 DEF Extends
  <2>3. \A j \in 1..Len(h) : h2[j] = h[j]
    BY DEF Extends
  <2> QED
    BY <2>1, <2>2, <2>3 DEF FirstMsg
<1> QED
  BY <1>1 DEF FirstRun

\* A message is added to the differences of a socket, or taken from it.
LEMMA ChainGrows ==
    ASSUME NEW q, NEW q2, NEW m, NEW f, NEW l, NEW l2 \in RowsOf, Chain(q, f, l), Grown(q, q2, m),
           l2 = IF m.kind = "act" /\ m.data.rows > 0 THEN m.data ELSE l,
           m.kind = "act" /\ m.base # NoRows => m.base = l /\ l.rows = m.data.rows
    PROVE  Chain(q2, f, l2)
<1>1. PICK n \in Nat : n = Len(q)
  BY DEF Grown
<1>2. PICK b \in [1..(n + 1) -> RowsOf] : ChainOK(q, f, l, b)
  BY <1>1 DEF Chain
<1>3. Len(q2) = n + 1 /\ q2[n + 1] = m /\ \A p \in 1..n : q2[p] = q[p]
  BY <1>1 DEF Grown
<1> DEFINE b2 == [p \in 1..((n + 1) + 1) |-> IF p = n + 2 THEN l2 ELSE b[p]]
<1>4. b2 \in [1..((n + 1) + 1) -> RowsOf]
  BY <1>2
<1>5. b2[1] = f /\ b2[n + 1] = l /\ b2[(n + 1) + 1] = l2 /\ \A p \in 1..(n + 1) : b2[p] = b[p]
  <2>1. b[1] = f /\ b[n + 1] = l
    BY <1>1, <1>2 DEF ChainOK
  <2>2. 1 \in 1..(n + 1) /\ n + 1 \in 1..(n + 1) /\ (n + 1) + 1 = n + 2
    BY <1>1
  <2>3. \A p \in 1..(n + 1) : b2[p] = b[p]
    BY <1>1
  <2> QED
    BY <2>1, <2>2, <2>3
<1>6. ASSUME NEW p \in 1..(n + 1)
      PROVE  /\ b2[p + 1] = IF q2[p].kind = "act" /\ q2[p].data.rows > 0 THEN q2[p].data ELSE b2[p]
             /\ q2[p].kind = "act" /\ q2[p].base # NoRows =>
                  q2[p].base = b2[p] /\ b2[p].rows = q2[p].data.rows
  <2>1. CASE p = n + 1
    BY <1>3, <1>5, <2>1
  <2>2. CASE p # n + 1
    <3>1. p \in 1..n /\ p + 1 \in 1..(n + 1)
      BY <2>2
    <3>2. /\ b[p + 1] = IF q[p].kind = "act" /\ q[p].data.rows > 0 THEN q[p].data ELSE b[p]
          /\ q[p].kind = "act" /\ q[p].base # NoRows => q[p].base = b[p] /\ b[p].rows = q[p].data.rows
      BY <1>1, <1>2, <3>1 DEF ChainOK
    <3>3. b2[p + 1] = b[p + 1] /\ b2[p] = b[p] /\ q2[p] = q[p]
      BY <1>3, <1>5, <3>1
    <3> QED
      BY <3>2, <3>3
  <2> QED
    BY <2>1, <2>2
<1>7. ChainOK(q2, f, l2, b2)
  BY <1>3, <1>5, <1>6 DEF ChainOK
<1> QED
  BY <1>3, <1>4, <1>7 DEF Chain

\* The receiver moves its base along the chain of deltas.
LEMMA ChainShrinks ==
    ASSUME NEW q, NEW q2, NEW f, NEW f2, NEW l, Chain(q, f, l), Shrunk(q, q2),
           f2 = IF q[1].kind = "act" /\ q[1].data.rows > 0 THEN q[1].data ELSE f
    PROVE  Chain(q2, f2, l)
<1>1. PICK n \in Nat : n = Len(q) /\ n >= 1
  BY DEF Shrunk
<1>2. PICK b \in [1..(n + 1) -> RowsOf] : ChainOK(q, f, l, b)
  BY <1>1 DEF Chain
<1>3. Len(q2) = n - 1 /\ \A p \in 1..(n - 1) : q2[p] = q[p + 1]
  BY <1>1 DEF Shrunk
<1> DEFINE b2 == [p \in 1..((n - 1) + 1) |-> b[p + 1]]
<1>4. b2 \in [1..((n - 1) + 1) -> RowsOf]
  BY <1>1, <1>2
<1>5. b2[1] = f2 /\ b2[(n - 1) + 1] = l /\ \A p \in 1..n : b2[p] = b[p + 1]
  <2>1. b[1] = f /\ b[n + 1] = l /\ b[1 + 1] = f2
    BY <1>1, <1>2 DEF ChainOK
  <2>2. 1 \in 1..((n - 1) + 1) /\ n \in 1..((n - 1) + 1) /\ (n - 1) + 1 = n
    BY <1>1
  <2> QED
    BY <2>1, <2>2
<1>6. ASSUME NEW p \in 1..(n - 1)
      PROVE  /\ b2[p + 1] = IF q2[p].kind = "act" /\ q2[p].data.rows > 0 THEN q2[p].data ELSE b2[p]
             /\ q2[p].kind = "act" /\ q2[p].base # NoRows =>
                  q2[p].base = b2[p] /\ b2[p].rows = q2[p].data.rows
  <2>1. p \in 1..n /\ p + 1 \in 1..n
    OBVIOUS
  <2>2. LET i == p + 1
        IN  /\ b[i + 1] = IF q[i].kind = "act" /\ q[i].data.rows > 0 THEN q[i].data ELSE b[i]
            /\ q[i].kind = "act" /\ q[i].base # NoRows => q[i].base = b[i] /\ b[i].rows = q[i].data.rows
    BY <1>1, <1>2, <2>1 DEF ChainOK
  <2>3. b2[p + 1] = b[(p + 1) + 1] /\ b2[p] = b[p + 1] /\ q2[p] = q[p + 1]
    BY <1>3, <1>5, <2>1
  <2> QED
    BY <2>2, <2>3
<1>7. ChainOK(q2, f2, l, b2)
  BY <1>3, <1>5, <1>6 DEF ChainOK
<1> QED
  BY <1>3, <1>4, <1>7 DEF Chain

\* A difference meets its base.
LEMMA ChainHead ==
    ASSUME NEW q, NEW f, NEW l, Chain(q, f, l), Len(q) \in Nat, Len(q) >= 1,
           q[1].kind = "act", q[1].base # NoRows
    PROVE  q[1].base = f /\ f.rows = q[1].data.rows
<1>1. PICK b \in [1..(Len(q) + 1) -> RowsOf] : ChainOK(q, f, l, b)
  BY DEF Chain
<1> QED
  BY <1>1 DEF ChainOK

-----------------------------------------------------------------------------
(* How the history grows.                                                  *)

GRead(g, g2, w) ==
    /\ g2 \in Ghosts /\ g2.h = g.h /\ g2.rc = g.rc /\ g2.sn = g.sn /\ g2.sk = g.sk
    /\ g2.rd = [g.rd EXCEPT ![w] = @ + 1]

GRecv(g, g2, w) ==
    /\ g2 \in Ghosts /\ g2.h = g.h /\ g2.rd = g.rd /\ g2.sn = g.sn /\ g2.sk = g.sk
    /\ g2.rc = [g.rc EXCEPT ![w] = @ + 1]

GSent(g, g2, s) ==
    /\ g2 \in Ghosts /\ g2.h = g.h /\ g2.rd = g.rd /\ g2.rc = g.rc /\ g2.sk = g.sk
    /\ g2.sn = [g.sn EXCEPT ![s] = @ + 1]

GSkip(g, g2, w) ==
    /\ g2 \in Ghosts /\ g2.h = g.h /\ g2.rd = g.rd /\ g2.sk = g.sk
    /\ g2.rc = [g.rc EXCEPT ![w] = @ + 1] /\ g2.sn = [g.sn EXCEPT ![w] = @ + 1]

GMark(g, g2, n) ==
    /\ g2 \in Ghosts /\ g2.h = g.h /\ g2.rd = g.rd /\ g2.rc = g.rc /\ g2.sn = g.sn
    /\ g2.sk = g.sk \cup {n}

GCast(g, g2, p) ==
    /\ g2 \in Ghosts /\ g2.rd = g.rd /\ g2.rc = g.rc /\ g2.sn = g.sn /\ g2.sk = g.sk
    /\ g2.h = Append(g.h, p)

\* The parts of a history have their types.
LEMMA GhostTypes ==
    ASSUME NEW g \in Ghosts
    PROVE  /\ g.h \in Seq(Packet) /\ N(g) \in Nat /\ Len(g.h) \in Nat
           /\ \A m \in 1..N(g) : g.h[m] \in Packet
           /\ \A w \in Workers : g.rd[w] \in Nat /\ g.rc[w] \in Nat /\ g.sn[w] \in Nat
           /\ \A s \in Stages : g.sn[s] \in Nat
           /\ g.sn[0] \in Nat /\ g.sk \in SUBSET Nat
           /\ g.rd \in [Workers -> Nat] /\ g.rc \in [Workers -> Nat] /\ g.sn \in [Stages -> Nat]
<1>1. /\ g.h \in Seq(Packet) /\ g.rd \in [Workers -> Nat] /\ g.rc \in [Workers -> Nat]
      /\ g.sn \in [Stages -> Nat] /\ g.sk \in SUBSET Nat
  BY DEF Ghosts
<1>2. Len(g.h) \in Nat /\ \A m \in 1..Len(g.h) : g.h[m] \in Packet
  BY <1>1, LenProperties, ElementOfSeq
<1> QED
  BY <1>1, <1>2, StageFacts DEF N

\* A counter of one stage can be raised.
LEMMA CountsUp ==
    ASSUME NEW S, NEW f \in [S -> Nat], NEW w \in S
    PROVE  \E e \in [S -> Nat] : e = [f EXCEPT ![w] = @ + 1]
<1>1. f[w] + 1 \in Nat
  OBVIOUS
<1>2. [f EXCEPT ![w] = @ + 1] \in [S -> Nat]
  BY <1>1
<1> QED
  BY <1>2

\* After a worker read a packet there is a history that says so.
LEMMA ReadMove ==
    ASSUME NEW g \in Ghosts, NEW w \in Workers
    PROVE  \E g2 : GRead(g, g2, w)
<1>1. /\ g.h \in Seq(Packet) /\ g.rd \in [Workers -> Nat] /\ g.rc \in [Workers -> Nat]
      /\ g.sn \in [Stages -> Nat] /\ g.sk \in SUBSET Nat
  BY GhostTypes
<1>2. PICK f0 \in [Workers -> Nat] : g.rd = f0
  BY <1>1
<1>3. PICK f \in [Workers -> Nat] : f = [f0 EXCEPT ![w] = @ + 1]
  BY CountsUp
<1>4. PICK g2 : g2 = [h |-> g.h, rd |-> f, rc |-> g.rc, sn |-> g.sn, sk |-> g.sk]
  OBVIOUS
<1>5. g2 \in Ghosts /\ g2.h = g.h /\ g2.rd = f /\ g2.rc = g.rc /\ g2.sn = g.sn /\ g2.sk = g.sk
  BY <1>1, <1>4 DEF Ghosts
<1> QED
  BY <1>2, <1>3, <1>5 DEF GRead

\* There is one that says a worker received rows,
LEMMA RecvMove ==
    ASSUME NEW g \in Ghosts, NEW w \in Workers
    PROVE  \E g2 : GRecv(g, g2, w)
<1>1. /\ g.h \in Seq(Packet) /\ g.rd \in [Workers -> Nat] /\ g.rc \in [Workers -> Nat]
      /\ g.sn \in [Stages -> Nat] /\ g.sk \in SUBSET Nat
  BY GhostTypes
<1>2. PICK f0 \in [Workers -> Nat] : g.rc = f0
  BY <1>1
<1>3. PICK f \in [Workers -> Nat] : f = [f0 EXCEPT ![w] = @ + 1]
  BY CountsUp
<1>4. PICK g2 : g2 = [h |-> g.h, rd |-> g.rd, rc |-> f, sn |-> g.sn, sk |-> g.sk]
  OBVIOUS
<1>5. g2 \in Ghosts /\ g2.h = g.h /\ g2.rd = g.rd /\ g2.rc = f /\ g2.sn = g.sn /\ g2.sk = g.sk
  BY <1>1, <1>4 DEF Ghosts
<1> QED
  BY <1>2, <1>3, <1>5 DEF GRecv

\* one that says a stage completed a packet,
LEMMA SentMove ==
    ASSUME NEW g \in Ghosts, NEW s \in Stages
    PROVE  \E g2 : GSent(g, g2, s)
<1>1. /\ g.h \in Seq(Packet) /\ g.rd \in [Workers -> Nat] /\ g.rc \in [Workers -> Nat]
      /\ g.sn \in [Stages -> Nat] /\ g.sk \in SUBSET Nat
  BY GhostTypes
<1>2. PICK f0 \in [Stages -> Nat] : g.sn = f0
  BY <1>1
<1>3. PICK f \in [Stages -> Nat] : f = [f0 EXCEPT ![s] = @ + 1]
  BY CountsUp
<1>4. PICK g2 : g2 = [h |-> g.h, rd |-> g.rd, rc |-> g.rc, sn |-> f, sk |-> g.sk]
  OBVIOUS
<1>5. g2 \in Ghosts /\ g2.h = g.h /\ g2.rd = g.rd /\ g2.rc = g.rc /\ g2.sn = f /\ g2.sk = g.sk
  BY <1>1, <1>4 DEF Ghosts
<1> QED
  BY <1>2, <1>3, <1>5 DEF GSent

\* one that says the target passed a packet over,
LEMMA SkipMove ==
    ASSUME NEW g \in Ghosts, NEW w \in Workers
    PROVE  \E g2 : GSkip(g, g2, w)
<1>1. /\ g.h \in Seq(Packet) /\ g.rd \in [Workers -> Nat] /\ g.rc \in [Workers -> Nat]
      /\ g.sn \in [Stages -> Nat] /\ g.sk \in SUBSET Nat
  BY GhostTypes
<1>2. PICK f0 \in [Workers -> Nat] : g.rc = f0
  BY <1>1
<1>3. PICK f \in [Workers -> Nat] : f = [f0 EXCEPT ![w] = @ + 1]
  BY CountsUp
<1>0. w \in Stages
  BY StageFacts
<1>4. PICK e0 \in [Stages -> Nat] : g.sn = e0
  BY <1>1
<1>5. PICK e \in [Stages -> Nat] : e = [e0 EXCEPT ![w] = @ + 1]
  <2>1. PICK v \in Stages : v = w
    BY <1>0
  <2>2. \E e \in [Stages -> Nat] : e = [e0 EXCEPT ![v] = @ + 1]
    BY CountsUp
  <2> QED
    BY <2>1, <2>2
<1>6. PICK g2 : g2 = [h |-> g.h, rd |-> g.rd, rc |-> f, sn |-> e, sk |-> g.sk]
  OBVIOUS
<1>7. g2 \in Ghosts /\ g2.h = g.h /\ g2.rd = g.rd /\ g2.rc = f /\ g2.sn = e /\ g2.sk = g.sk
  BY <1>1, <1>6 DEF Ghosts
<1> QED
  BY <1>2, <1>3, <1>4, <1>5, <1>7 DEF GSkip

\* one that says a packet is to be skipped,
LEMMA MarkMove ==
    ASSUME NEW g \in Ghosts, NEW n \in Nat
    PROVE  \E g2 : GMark(g, g2, n)
<1>1. /\ g.h \in Seq(Packet) /\ g.rd \in [Workers -> Nat] /\ g.rc \in [Workers -> Nat]
      /\ g.sn \in [Stages -> Nat] /\ g.sk \in SUBSET Nat
  BY GhostTypes
<1>2. PICK f0 \in SUBSET Nat : g.sk = f0
  BY <1>1
<1>3. PICK f \in SUBSET Nat : f = f0 \cup {n}
  OBVIOUS
<1>4. PICK g2 : g2 = [h |-> g.h, rd |-> g.rd, rc |-> g.rc, sn |-> g.sn, sk |-> f]
  OBVIOUS
<1>5. g2 \in Ghosts /\ g2.h = g.h /\ g2.rd = g.rd /\ g2.rc = g.rc /\ g2.sn = g.sn /\ g2.sk = f
  BY <1>1, <1>4 DEF Ghosts
<1> QED
  BY <1>2, <1>3, <1>5 DEF GMark

\* and one that says a packet was broadcast.
LEMMA CastMove ==
    ASSUME NEW g \in Ghosts, NEW p \in Packet
    PROVE  \E g2 : GCast(g, g2, p)
<1>1. /\ g.h \in Seq(Packet) /\ g.rd \in [Workers -> Nat] /\ g.rc \in [Workers -> Nat]
      /\ g.sn \in [Stages -> Nat] /\ g.sk \in SUBSET Nat
  BY GhostTypes
<1>2. PICK f0 \in Seq(Packet) : g.h = f0
  BY <1>1
<1>3. PICK f \in Seq(Packet) : f = Append(f0, p)
  BY AppendProperties
<1>4. PICK g2 : g2 = [h |-> f, rd |-> g.rd, rc |-> g.rc, sn |-> g.sn, sk |-> g.sk]
  OBVIOUS
<1>5. g2 \in Ghosts /\ g2.h = f /\ g2.rd = g.rd /\ g2.rc = g.rc /\ g2.sn = g.sn /\ g2.sk = g.sk
  BY <1>1, <1>4 DEF Ghosts
<1> QED
  BY <1>2, <1>3, <1>5 DEF GCast

\* The new packet is the last one.
LEMMA CastHistory ==
    ASSUME NEW g \in Ghosts, NEW g2, NEW p \in Packet, GCast(g, g2, p)
    PROVE  /\ N(g2) = N(g) + 1 /\ g2.h[N(g) + 1] = p /\ Extends(g2.h, g.h)
           /\ \A m \in 1..N(g) : g2.h[m] = g.h[m]
<1>1. g.h \in Seq(Packet) /\ g2.h = Append(g.h, p) /\ Len(g.h) \in Nat
  BY GhostTypes DEF GCast
<1>2. /\ Len(Append(g.h, p)) = Len(g.h) + 1
      /\ \A i \in 1..Len(g.h) : Append(g.h, p)[i] = g.h[i]
      /\ Append(g.h, p)[Len(g.h) + 1] = p
  BY <1>1, AppendProperties
<1> QED
  BY <1>1, <1>2 DEF N, Extends

-----------------------------------------------------------------------------
\* Pace, for each of these moves.
LEMMA PaceSent ==
    ASSUME NEW g \in Ghosts, NEW g2, NEW s \in Stages, GSent(g, g2, s), NEW k \in Nat, NEW wave,
           PaceOK(g, k, wave), k # 0 => k \in Stages
    PROVE  PaceOK(g2, k, wave)
<1>1. /\ \A i \in Stages : g2.sn[i] \in Nat /\ g.sn[i] \in Nat /\ g2.sn[i] >= g.sn[i]
      /\ \A j \in Workers : g.rc[j] \in Nat
      /\ g2.h = g.h /\ g2.rc = g.rc /\ g2.sk = g.sk /\ N(g2) = N(g) /\ N(g) \in Nat
  BY GhostTypes DEF GSent, N
<1>2. Skips(g2, k)
  BY <1>1 DEF PaceOK, Skips
<1>3. Order(g2, k)
  BY <1>1 DEF PaceOK, Order
<1>4. OneAtATime(g2, k, wave)
  BY <1>1 DEF PaceOK, OneAtATime, Streaming
<1>5. WaveOnly(g2, wave)
  BY <1>1 DEF PaceOK, WaveOnly
<1> QED
  BY <1>2, <1>3, <1>4, <1>5 DEF PaceOK

\* Reading a control packet does not change how far the stages are apart.
LEMMA PaceRead ==
    ASSUME NEW g, NEW g2, NEW w, GRead(g, g2, w), NEW k, NEW wave, PaceOK(g, k, wave)
    PROVE  PaceOK(g2, k, wave)
BY DEF GRead, PaceOK, Skips, Order, OneAtATime, WaveOnly, Streaming, N

\* Receiving rows keeps the pace when the stages before have completed the packet.
LEMMA PaceRecv ==
    ASSUME NEW g \in Ghosts, NEW g2, NEW w \in Workers, GRecv(g, g2, w), NEW k \in Nat, NEW wave,
           PaceOK(g, k, wave), k # 0 => k + 1 \in Workers, k >= 2 => k - 1 \in Workers,
           \A i \in Stages : i < w /\ ~(k # 0 /\ i = k) => g.rc[w] + 1 <= g.sn[i],
           k # 0 /\ w = k + 1 /\ g.sn[k] < g.rc[w] + 1 => g.rc[w] + 1 \in g.sk
    PROVE  PaceOK(g2, k, wave)
<1>1. /\ \A j \in Workers : g.rc[j] \in Nat /\ g2.rc[j] \in Nat /\ g2.rc[j] >= g.rc[j]
      /\ \A j \in Workers : j # w => g2.rc[j] = g.rc[j]
      /\ g2.rc[w] = g.rc[w] + 1
      /\ \A s \in Stages : g.sn[s] \in Nat
      /\ g2.h = g.h /\ g2.sn = g.sn /\ g2.sk = g.sk /\ N(g2) = N(g) /\ N(g) \in Nat
      /\ g.sk \in SUBSET Nat
  BY GhostTypes DEF GRecv, N
<1>2. Skips(g2, k)
  BY <1>1 DEF PaceOK, Skips
<1>3. Order(g2, k)
  <2>1. ASSUME NEW i \in Stages, NEW j \in Workers, i < j, ~(k # 0 /\ i = k) PROVE g2.rc[j] <= g2.sn[i]
    BY <1>1, <2>1 DEF PaceOK, Order
  <2>2. ASSUME k # 0, NEW m \in Nat, g2.sn[k] < m, m <= g2.rc[k + 1] PROVE m \in g2.sk
    <3>1. CASE w = k + 1 /\ m = g.rc[w] + 1
      BY <1>1, <2>2, <3>1
    <3>2. CASE ~(w = k + 1 /\ m = g.rc[w] + 1)
      <4>1. m <= g.rc[k + 1]
        BY <1>1, <2>2, <3>2
      <4> QED
        BY <1>1, <2>2, <4>1 DEF PaceOK, Order
    <3> QED
      BY <3>1, <3>2
  <2> QED
    BY <2>1, <2>2 DEF Order
<1>4. OneAtATime(g2, k, wave) /\ WaveOnly(g2, wave)
  BY <1>1 DEF PaceOK, OneAtATime, Streaming, WaveOnly
<1> QED
  BY <1>2, <1>3, <1>4 DEF PaceOK

\* So does a packet the target passes over.
LEMMA PaceSkip ==
    ASSUME NEW g \in Ghosts, NEW g2, NEW w \in Workers, GSkip(g, g2, w), NEW k \in Nat, NEW wave,
           PaceOK(g, k, wave), w = k, k + 1 \in Workers, k >= 2 => k - 1 \in Workers,
           \A i \in Stages : i < w => g.rc[w] + 1 <= g.sn[i]
    PROVE  PaceOK(g2, k, wave)
<1>a. g.rc \in [Workers -> Nat] /\ g.sn \in [Stages -> Nat] /\ N(g) \in Nat /\ w \in Stages
  BY GhostTypes, StageFacts
<1>b. /\ \A j \in Workers : g.rc[j] \in Nat /\ g2.rc[j] \in Nat /\ g2.rc[j] >= g.rc[j]
      /\ \A j \in Workers : j # w => g2.rc[j] = g.rc[j]
      /\ g2.rc[w] = g.rc[w] + 1
  BY <1>a DEF GSkip
<1>c. \A s \in Stages : g.sn[s] \in Nat /\ g2.sn[s] \in Nat /\ g2.sn[s] >= g.sn[s]
  BY <1>a DEF GSkip
<1>d. g2.h = g.h /\ g2.sk = g.sk /\ N(g2) = N(g) /\ N(g) \in Nat /\ k \in Stages
  BY <1>a DEF GSkip, N
<1>e. g2.rc[k + 1] = g.rc[k + 1]
  BY <1>b
<1>1. /\ \A j \in Workers : g.rc[j] \in Nat /\ g2.rc[j] \in Nat /\ g2.rc[j] >= g.rc[j]
      /\ \A j \in Workers : j # w => g2.rc[j] = g.rc[j]
      /\ g2.rc[w] = g.rc[w] + 1 /\ g2.rc[k + 1] = g.rc[k + 1]
      /\ \A s \in Stages : g.sn[s] \in Nat /\ g2.sn[s] \in Nat /\ g2.sn[s] >= g.sn[s]
      /\ g2.h = g.h /\ g2.sk = g.sk /\ N(g2) = N(g) /\ N(g) \in Nat /\ k \in Stages
  BY <1>b, <1>c, <1>d, <1>e
<1>2. Skips(g2, k)
  BY <1>1 DEF PaceOK, Skips
<1>3. Order(g2, k)
  <2>1. ASSUME NEW i \in Stages, NEW j \in Workers, i < j, ~(k # 0 /\ i = k) PROVE g2.rc[j] <= g2.sn[i]
    BY <1>1, <2>1 DEF PaceOK, Order
  <2>2. ASSUME k # 0, NEW m \in Nat, g2.sn[k] < m, m <= g2.rc[k + 1] PROVE m \in g2.sk
    BY <1>1, <2>2 DEF PaceOK, Order
  <2> QED
    BY <2>1, <2>2 DEF Order
<1>4. OneAtATime(g2, k, wave)
  BY <1>1 DEF PaceOK, OneAtATime, Streaming
<1>5. WaveOnly(g2, wave)
  BY <1>1 DEF PaceOK, WaveOnly
<1> QED
  BY <1>2, <1>3, <1>4, <1>5 DEF PaceOK

\* A packet is marked as skipped only once the stage before the target holds it.
LEMMA PaceMark ==
    ASSUME NEW g \in Ghosts, NEW g2, NEW n \in Nat, GMark(g, g2, n), NEW k \in Nat, NEW wave,
           PaceOK(g, k, wave), k >= 2, n >= 1, n <= g.rc[k - 1],
           g.h[n].phase = "decode", g.h[n].batchSize = 1
    PROVE  PaceOK(g2, k, wave)
<1>1. /\ g2.h = g.h /\ g2.rc = g.rc /\ g2.sn = g.sn /\ N(g2) = N(g)
      /\ g2.sk = g.sk \cup {n}
  BY DEF GMark, N
<1>2. Skips(g2, k)
  BY <1>1 DEF PaceOK, Skips
<1>3. Order(g2, k)
  BY <1>1 DEF PaceOK, Order
<1>4. OneAtATime(g2, k, wave)
  BY <1>1 DEF PaceOK, OneAtATime, Streaming
<1>5. WaveOnly(g2, wave)
  BY <1>1 DEF PaceOK, WaveOnly
<1> QED
  BY <1>2, <1>3, <1>4, <1>5 DEF PaceOK
=============================================================================
