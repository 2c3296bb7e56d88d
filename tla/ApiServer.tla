------------------------------ MODULE ApiServer -----------------------------
(***************************************************************************)
(* The HTTP API servers behind the gateway (src/src/dllama-api.cpp): one   *)
(* thread accepts a connection, answers it and accepts the next one.  A    *)
(* chat completion continues the KV cache of the previous one when its     *)
(* messages extend the cached ones (NaiveCache).                           *)
(*                                                                         *)
(* A message is one token; a rendered prompt is its messages, the header   *)
(* of the answer and, at position 0, the BOS token.  kv[b][p] is the       *)
(* message list of the request that computed row p of b's KV cache, <<>>   *)
(* when no request did.                                                    *)
(*                                                                         *)
(* How a request can end early: the client's connection breaks (caught,    *)
(* the loop goes on), a cluster socket breaks while the control packet is  *)
(* written (the same exception type, so caught in the same place), a step  *)
(* of the executor fails (rethrown; main starts over in three seconds), or *)
(* anything else throws std::runtime_error (nobody catches it).            *)
(***************************************************************************)
EXTENDS Connections, FiniteSets

CONSTANTS Workloads,        \* what the clients ask for, one request each
          Contents,         \* what a message can say
          Answers,          \* contents an assistant message can have
          seqLen,
          prefillBatchCap   \* resolvePrefillChunkBatchSize

\* A request is [messages, stream, max_tokens]; max_tokens -1 stands for no
\* limit, and an empty message list for a route that is answered in one write.
ASSUME ApiAssumption ==
    /\ seqLen \in Nat \ {0}
    /\ prefillBatchCap \in Nat \ {0}
    /\ Answers \subseteq Contents
    /\ Workloads \subseteq [Clients -> [messages : Seq(Contents), stream : BOOLEAN,
                                       max_tokens : (Nat \ {0}) \cup {-1}]]

VARIABLES
    request,     \* request[c]: what client c asked for
    server,      \* server[b]: where the serving loop is
    serving,     \* serving[b]: the client whose connection is open
    cache,       \* cache[b]: the NaiveCache
    kv,
    local,       \* local[b]: pos and promptEndPos of complete(), and base, the
                 \* number of cached messages the request builds on
    clusterLost, \* clusterLost[b]: a worker of b's cluster is gone
    backed       \* ghost: leading cache entries of requests that ran to their end

promptVars == <<cache, kv, backed>>
loopVars == <<server, serving, local>>
apiVars == <<request, loopVars, promptVars, clusterLost>>

Positions == 0..(seqLen - 1)
NoClient == 0
NoRow == <<>>
NoLocal == [pos |-> 0, promptEndPos |-> 0, base |-> 0]

ApiInit ==
    /\ request \in Workloads
    /\ server = [b \in Backends |-> "accept"]
    /\ serving = [b \in Backends |-> NoClient]
    /\ cache = [b \in Backends |-> <<>>]
    /\ kv = [b \in Backends |-> [p \in Positions |-> NoRow]]
    /\ local = [b \in Backends |-> NoLocal]
    /\ clusterLost = [b \in Backends |-> FALSE]
    /\ backed = [b \in Backends |-> 0]

Min2(x, y) == IF x < y THEN x ELSE y
Rest(s, n) == SubSeq(s, n + 1, Len(s))

ServerMoves(b, from, to) ==
    /\ server[b] = from
    /\ server' = [server EXCEPT ![b] = to]

\* NnSocket's destructor closes the connection; complete() and its locals end.
EndRequest(b, to) ==
    /\ server' = [server EXCEPT ![b] = to]
    /\ serving' = [serving EXCEPT ![b] = NoClient]
    /\ local' = [local EXCEPT ![b] = NoLocal]

-----------------------------------------------------------------------------
(* One request.                                                            *)

\* acceptSocket.
ApiAccept(b) ==
    /\ ServerMoves(b, "accept", "read")
    /\ backlog[b] # <<>>
    /\ serving' = [serving EXCEPT ![b] = Head(backlog[b])]
    /\ backlog' = [backlog EXCEPT ![b] = Tail(@)]
    /\ UNCHANGED <<request, local, promptVars, clusterLost, link, listening>>

\* The whole request is in the socket.
RequestRead(b) == link[serving[b]] \in {"sent", "closed"}

\* HttpRequest::read and a route that is answered in one write.
AnswerPlain(b) ==
    /\ server[b] = "read" /\ RequestRead(b)
    /\ request[serving[b]].messages = <<>>
    /\ link' = [link EXCEPT ![serving[b]] = ClosedByServer(Answered(@))]
    /\ EndRequest(b, "accept")
    /\ UNCHANGED <<request, promptVars, clusterLost, backlog, listening>>

\* NaiveCache::resolveDeltaPrompt: the cached messages are a proper prefix.
CacheHit(b, messages) ==
    /\ cache[b] # <<>>
    /\ Len(messages) > Len(cache[b])
    /\ \A i \in DOMAIN cache[b] : cache[b][i].message = messages[i]

\* Mutant of Reused: the contents of the last message are not compared.
MutReusedByLength(b, messages) ==
    IF /\ cache[b] # <<>>
       /\ Len(messages) > Len(cache[b])
       /\ \A i \in 1..(Len(cache[b]) - 1) : cache[b][i].message = messages[i]
      THEN Len(cache[b]) ELSE 0

\* How many cached messages the request keeps; otherwise the cache is cleared.
Reused(b, messages) == IF CacheHit(b, messages) THEN Len(cache[b]) ELSE 0

maxPredPos(b, promptEndPos) ==
    LET limit == request[serving[b]].max_tokens IN
    IF limit > 0 THEN Min2(promptEndPos + limit, seqLen) ELSE seqLen

\* Which loop of complete() a request at position pos is in.  When the prefill
\* loop ends, the token fed at promptEndPos is promptTokens[n], one past the last
\* one encode() wrote, and not the last token of the prompt.
Phase(b, pos, promptEndPos) ==
    IF pos < promptEndPos THEN "prefill"
    ELSE IF pos < maxPredPos(b, promptEndPos) THEN "decode" ELSE "finish"

\* complete() up to the first forward(): resolve the cache, render and encode
\* what is new, enter the new messages, and start the stream.  ok: the first
\* write of a streamed answer succeeds.
BeginCompletion(b, ok) ==
    LET c == serving[b]
        messages == request[c].messages
        n == Reused(b, messages)
        startPos == IF n = 0 THEN 0 ELSE cache[b][n].endPos
        delta == Rest(messages, n)
        nPromptTokens == Len(delta) + 1 + (IF startPos = 0 THEN 1 ELSE 0)
        endPos == Min2(startPos + nPromptTokens - 1, seqLen)
        entries == [i \in DOMAIN delta |-> [endPos |-> endPos, message |-> delta[i]]]
    IN /\ server[b] = "read" /\ RequestRead(b) /\ messages # <<>>
       /\ ok \/ (request[c].stream /\ PeerGone(c))
       /\ cache' = [cache EXCEPT ![b] = SubSeq(@, 1, n) \o entries]
       /\ backed' = [backed EXCEPT ![b] = Min2(@, n)]
       /\ IF ok
            THEN /\ ServerMoves(b, "read", Phase(b, startPos, endPos))
                 /\ link' = [link EXCEPT ![c] = IF request[c].stream THEN Answered(@) ELSE @]
                 /\ local' = [local EXCEPT ![b] =
                                [pos |-> startPos, promptEndPos |-> endPos, base |-> n]]
                 /\ UNCHANGED serving
            ELSE EndRequest(b, "accept") /\ UNCHANGED link
       /\ UNCHANGED <<request, kv, clusterLost, backlog, listening>>

\* An exception leaves server(): every socket of the process closes.
LeaveServer(b, to) ==
    /\ EndRequest(b, to)
    /\ listening' = [listening EXCEPT ![b] = FALSE]
    /\ link' = ResetBacklog([link EXCEPT ![serving[b]] = ClosedByServer(@)], b)
    /\ backlog' = [backlog EXCEPT ![b] = <<>>]

\* readHttpRequest: the connection ends before the request does; nobody catches
\* the std::runtime_error.
ApiReadFails(b) ==
    /\ server[b] = "read" /\ link[serving[b]] = "cut"
    /\ LeaveServer(b, "down")
    /\ UNCHANGED <<request, promptVars, clusterLost>>

-----------------------------------------------------------------------------
(* forward() and what it can throw.                                        *)

InForward(b) == server[b] \in {"prefill", "decode"}

Rows(b, from, to) ==
    [p \in Positions |-> IF p \in from..(to - 1) THEN request[serving[b]].messages ELSE kv[b][p]]

\* One chunk of the prompt.
PrefillChunk(b) ==
    LET pos == local[b].pos
        next == pos + Min2(prefillBatchCap, local[b].promptEndPos - pos)
    IN /\ server[b] = "prefill" /\ ~clusterLost[b]
       /\ kv' = [kv EXCEPT ![b] = Rows(b, pos, next)]
       /\ local' = [local EXCEPT ![b].pos = next]
       /\ server' = [server EXCEPT ![b] = Phase(b, next, local[b].promptEndPos)]
       /\ UNCHANGED <<request, serving, cache, backed, clusterLost, connectionVars>>

\* One token is computed and sampled; ok: its text, if it has any, is written
\* (a stream only).  The position advances after the write.
DecodeToken(b, eos, ok) ==
    LET c == serving[b]
        pos == local[b].pos
    IN /\ server[b] = "decode" /\ ~clusterLost[b]
       /\ ok \/ (request[c].stream /\ PeerGone(c))
       /\ kv' = [kv EXCEPT ![b] = Rows(b, pos, pos + 1)]
       /\ IF ok
            THEN /\ local' = [local EXCEPT ![b].pos = pos + 1]
                 /\ server' = [server EXCEPT ![b] =
                                 IF eos THEN "finish" ELSE Phase(b, pos + 1, local[b].promptEndPos)]
                 /\ UNCHANGED serving
            ELSE EndRequest(b, "accept")
       /\ UNCHANGED <<request, cache, backed, clusterLost, connectionVars>>

\* Mutant of ControlWriteFails: the error path leaves the client's socket open.
MutControlWriteLeaks(b) ==
    /\ InForward(b) /\ clusterLost[b]
    /\ EndRequest(b, "accept")
    /\ UNCHANGED <<request, promptVars, clusterLost, connectionVars>>

\* A cluster without one of its workers: the control packet cannot be written.
\* The exception is the one of a client's socket, and the loop goes on.
ControlWriteFails(b) ==
    /\ InForward(b) /\ clusterLost[b]
    /\ EndRequest(b, "accept")
    /\ link' = [link EXCEPT ![serving[b]] = ClosedByServer(@)]
    /\ UNCHANGED <<request, promptVars, clusterLost, backlog, listening>>

\* A step of the executor fails: server() rethrows, its sockets close, and main
\* sleeps before it runs the application again.
ExecutorFails(b) ==
    /\ InForward(b) /\ clusterLost[b]
    /\ LeaveServer(b, "retry")
    /\ UNCHANGED <<request, promptVars, clusterLost>>

\* The pipeline cannot send or receive: std::runtime_error.
PipelineFails(b) ==
    /\ InForward(b) /\ clusterLost[b]
    /\ LeaveServer(b, "down")
    /\ UNCHANGED <<request, promptVars, clusterLost>>

\* runInferenceApp again: a new connection to the workers, a new executor with
\* empty buffers, a new ApiServer.
RunAgain(b) ==
    /\ ServerMoves(b, "retry", "accept")
    /\ listening' = [listening EXCEPT ![b] = TRUE]
    /\ clusterLost' = [clusterLost EXCEPT ![b] = FALSE]
    /\ cache' = [cache EXCEPT ![b] = <<>>]
    /\ kv' = [kv EXCEPT ![b] = [p \in Positions |-> NoRow]]
    /\ backed' = [backed EXCEPT ![b] = 0]
    /\ UNCHANGED <<request, serving, local, link, backlog>>

-----------------------------------------------------------------------------
(* The end of a completion.                                                *)

\* Entries of a request count as backed when those it built on were.
BackedAfter(b, items) == IF backed[b] = local[b].base THEN Len(items) ELSE Min2(backed[b], Len(items))

\* The answer enters the cache, or a full context empties it; the last write
\* may fail, which changes nothing any more.
FinishCompletion(b, answer) ==
    LET items == IF local[b].pos = seqLen
                   THEN <<>>
                   ELSE Append(cache[b], [endPos |-> local[b].pos, message |-> answer])
    IN /\ server[b] = "finish"
       /\ cache' = [cache EXCEPT ![b] = items]
       /\ backed' = [backed EXCEPT ![b] = BackedAfter(b, items)]
       /\ link' = [link EXCEPT ![serving[b]] = ClosedByServer(Answered(@))]
       /\ EndRequest(b, "accept")
       /\ UNCHANGED <<request, kv, clusterLost, backlog, listening>>

ServerStep(b) ==
    \/ ApiAccept(b) \/ AnswerPlain(b) \/ ApiReadFails(b)
    \/ \E ok \in BOOLEAN : BeginCompletion(b, ok)
    \/ PrefillChunk(b)
    \/ \E eos, ok \in BOOLEAN : DecodeToken(b, eos, ok)
    \/ ControlWriteFails(b) \/ ExecutorFails(b) \/ PipelineFails(b) \/ RunAgain(b)
    \/ \E answer \in Answers : FinishCompletion(b, answer)

\* A worker of b's cluster dies or hangs; it shows in a forward().
WorkerLost(b) ==
    /\ ~clusterLost[b] /\ InForward(b)
    /\ clusterLost' = [clusterLost EXCEPT ![b] = TRUE]
    /\ UNCHANGED <<request, loopVars, promptVars, connectionVars>>

ServerStates == {"accept", "read", "prefill", "decode", "finish", "retry", "down"}
=============================================================================
