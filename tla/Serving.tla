------------------------------- MODULE Serving ------------------------------
(***************************************************************************)
(* The gateway in front of its API servers: the two programs meet in the   *)
(* connections, and each sees of the other only what a socket shows.       *)
(***************************************************************************)
EXTENDS Gateway, ApiServer

vars == <<gatewayVars, apiVars, connectionVars>>

Init == GatewayInit /\ ApiInit /\ ConnectionsInit

Next ==
    \/ GatewayNext /\ UNCHANGED apiVars
    \/ \E b \in Backends : (ServerStep(b) \/ WorkerLost(b)) /\ UNCHANGED gatewayVars

Spec == Init /\ [][Next]_vars

\* Threads of the gateway and the loops of the API servers keep running; a
\* client sends its request or goes away (neither program has a timeout on
\* it); the retry of main comes after its three seconds.
Fairness ==
    /\ \A c \in Clients : WF_vars(HandlerStep(c) /\ UNCHANGED apiVars)
    /\ \A b \in Backends : WF_vars(ServerStep(b) /\ UNCHANGED gatewayVars)

FairSpec == Spec /\ Fairness

-----------------------------------------------------------------------------
\* Types: the state each program keeps, and the connections between them.
TypeOK ==
    /\ up \in BOOLEAN /\ handler \in [Clients -> HandlerStates]
    /\ backendIndex \in [Clients -> Backends \cup {NoBackend}]
    /\ backendFailed \in [Clients -> BOOLEAN]
    /\ activeRequests \in Int /\ doubled \in Nat
    /\ inflight \in [Backends -> Nat] /\ unhealthy \in [Backends -> BOOLEAN]
    /\ rrCursor \in Backends
    /\ link \in [Clients -> LinkStates] /\ listening \in [Backends -> BOOLEAN]
    /\ \A b \in Backends : \A i \in DOMAIN backlog[b] : backlog[b][i] \in Clients
    /\ server \in [Backends -> ServerStates]
    /\ serving \in [Backends -> Clients \cup {NoClient}]
    /\ \A b \in Backends :
         /\ local[b].pos \in 0..seqLen /\ local[b].promptEndPos \in 0..seqLen
         /\ backed[b] \in 0..Len(cache[b])

\* inflight[b] is the number of handlers between selectBackendAndAcquire and
\* releaseBackend, on every path (answer, failed connect, lost client, lost
\* server), and never above maxInflightPerBackend; so the test inflight > 0 in
\* releaseBackend never hides a missing acquire.
InflightExact ==
    \A b \in Backends :
      /\ inflight[b] = Cardinality({c \in Clients : Holds(c, b)})
      /\ inflight[b] <= maxInflightPerBackend

\* activeRequests counts the handlers on every path, but for those whose 429
\* could not be written: each of them takes one away for good.
ActiveExact == activeRequests = Cardinality({c \in Clients : Counted(c)}) - doubled

\* The queue bound: no more handlers get past it than maxQueue, plus one for
\* every count that was given back twice.
AdmissionBound == Cardinality({c \in Clients : Admitted(c)}) <= maxQueue + doubled

\* The connections a server has been given and must still answer to someone are
\* covered by the gateway's count for it; a connection beyond that count is one
\* whose client is gone and that the server finds out about when it writes.
LoadIsCounted ==
    up => \A b \in Backends :
            Cardinality({c \in Clients : /\ backendIndex[c] = b
                                         /\ link[c] \in {"open", "sent", "data"}})
              <= inflight[b]

\* The prompt cache speaks for the KV cache: between requests, every row below
\* the end position of an entry was computed, by a request whose messages are a
\* prefix of the cached ones.  It holds for the entries of requests that ran to
\* their end on top of such entries (backed); an entry made by a request that
\* failed half-way stays in the cache and has no such guarantee.
CacheBacked ==
    \A b \in Backends : \A i \in 1..backed[b] :
      server[b] \in {"accept", "read"} =>
        \A p \in 0..(cache[b][i].endPos - 1) :
          /\ p \in Positions
          /\ kv[b][p] # NoRow
          /\ LET row == kv[b][p] IN
             /\ Len(row) <= Len(cache[b])
             /\ \A k \in DOMAIN row : row[k] = cache[b][k].message

\* Every client that got a thread gets an end: an answer, an error, a closed
\* connection.  The exception is the end of the process itself.
EveryClientLeaves ==
    \A c \in Clients : handler[c] # "none" ~> (handler[c] = "done" \/ ~up)
=============================================================================
