------------------------------- MODULE Gateway ------------------------------
(***************************************************************************)
(* The gateway in front of several API servers (src/src/dllama-gateway.cpp)*)
(*                                                                         *)
(* Every accepted client gets a detached thread that runs processClient:   *)
(* it counts itself in the atomic activeRequests, reads the request, takes *)
(* the least loaded healthy backend under a mutex, copies the answer and   *)
(* gives the backend back.  Steps of different threads interleave; what    *)
(* happens under the mutex, and each change of the atomic, is one step.    *)
(*                                                                         *)
(* No exception leaves processClient but one: the 429 of a full queue is   *)
(* written outside its try block, and an exception that leaves a thread    *)
(* ends the process.                                                       *)
(***************************************************************************)
EXTENDS Connections, FiniteSets

CONSTANTS maxQueue, maxInflightPerBackend

ASSUME GatewayAssumption ==
    /\ maxQueue \in Nat \ {0}
    /\ maxInflightPerBackend \in Nat \ {0}

VARIABLES
    up,             \* the process runs
    handler,        \* handler[c]: where client c's processClient is
    backendIndex,   \* backendIndex[c]
    backendFailed,  \* backendFailed[c]
    activeRequests,
    inflight,       \* inflight[b]
    unhealthy,      \* unhealthy[b]: unhealthyUntil lies in the future
    rrCursor,
    doubled         \* ghost: requests that gave their count back twice

countVars == <<activeRequests, doubled>>
poolVars == <<inflight, unhealthy, rrCursor>>
gatewayVars == <<up, handler, backendIndex, backendFailed, countVars, poolVars>>

NoBackend == -1

GatewayInit ==
    /\ up = TRUE
    /\ handler = [c \in Clients |-> "none"]
    /\ backendIndex = [c \in Clients |-> NoBackend]
    /\ backendFailed = [c \in Clients |-> FALSE]
    /\ activeRequests = 0 /\ doubled = 0
    /\ inflight = [b \in Backends |-> 0]
    /\ unhealthy = [b \in Backends |-> FALSE]
    /\ rrCursor = 0

HandlerMoves(c, from, to) ==
    /\ up /\ handler[c] = from
    /\ handler' = [handler EXCEPT ![c] = to]

\* An exception inside the try block: the 502 is attempted, its failure
\* swallowed, and the thread goes on to releaseBackend.
Catch(c, from) ==
    /\ HandlerMoves(c, from, "release")
    /\ backendFailed' = [backendFailed EXCEPT ![c] = TRUE]

-----------------------------------------------------------------------------
(* Admission.                                                              *)

\* Mutant of Enter: the bound is compared with the count before the increment.
MutEnterOldCount(c) ==
    /\ \A d \in 1..(c - 1) : handler[d] # "none"
    /\ HandlerMoves(c, "none", IF activeRequests > maxQueue THEN "full" ELSE "read")
    /\ activeRequests' = activeRequests + 1
    /\ UNCHANGED <<up, backendIndex, backendFailed, doubled, poolVars, connectionVars>>

\* main accepts a client and starts a thread, whose first step is
\* activeNow = ++activeRequests.  Clients are numbered in the order of that step.
Enter(c) ==
    /\ \A d \in 1..(c - 1) : handler[d] # "none"
    /\ HandlerMoves(c, "none", IF activeRequests + 1 > maxQueue THEN "full" ELSE "read")
    /\ activeRequests' = activeRequests + 1
    /\ UNCHANGED <<up, backendIndex, backendFailed, doubled, poolVars, connectionVars>>

\* Mutant of RejectFull: the count is only given back on the normal path.
MutRejectFullKeepsCount(c) ==
    /\ HandlerMoves(c, "full", "refuse")
    /\ UNCHANGED <<up, backendIndex, backendFailed, countVars, poolVars, connectionVars>>

RejectFull(c) ==
    /\ HandlerMoves(c, "full", "refuse")
    /\ activeRequests' = activeRequests - 1
    /\ UNCHANGED <<up, backendIndex, backendFailed, doubled, poolVars, connectionVars>>

\* The 429 is written outside the try block: when the client is gone the
\* exception ends the process, and the kernel closes all its connections.
Refuse(c, ok) ==
    /\ HandlerMoves(c, "refuse", "done")
    /\ up' = ok
    /\ link' = IF ok THEN link ELSE [d \in Clients |-> ClosedByGateway(link[d])]
    /\ UNCHANGED <<backendIndex, backendFailed, countVars, poolVars, backlog, listening>>

\* readHttpRequestRaw: a client that leaves or sends too much raises.
ReadFails(c) ==
    /\ Catch(c, "read")
    /\ UNCHANGED <<up, backendIndex, countVars, poolVars, connectionVars>>

-----------------------------------------------------------------------------
(* The backend pool.                                                       *)

Eligible == {b \in Backends : ~unhealthy[b] /\ inflight[b] < maxInflightPerBackend}

\* Distance of b from the cursor in the order in which the loop visits.
FromCursor(b) == (b - rrCursor + nBackends) % nBackends

\* The first backend the loop meets among the least loaded ones.
Selected(b) ==
    /\ b \in Eligible
    /\ \A o \in Eligible \ {b} :
         \/ inflight[b] < inflight[o]
         \/ inflight[b] = inflight[o] /\ FromCursor(b) < FromCursor(o)

\* Mutant of SelectBackend: the load of a backend is not looked at.
MutSelectIgnoresLoad(c) ==
    /\ HandlerMoves(c, "read", "connect")
    /\ \E b \in Backends :
         /\ ~unhealthy[b]
         /\ inflight' = [inflight EXCEPT ![b] = @ + 1]
         /\ rrCursor' = (b + 1) % nBackends
         /\ backendIndex' = [backendIndex EXCEPT ![c] = b]
    /\ UNCHANGED <<up, backendFailed, countVars, unhealthy, connectionVars>>

\* Mutant of SelectBackend: the cursor is not wrapped around.
MutSelectCursorRunsOn(c) ==
    /\ HandlerMoves(c, "read", IF Eligible = {} THEN "busy" ELSE "connect")
    /\ IF Eligible = {}
         THEN UNCHANGED <<inflight, rrCursor, backendIndex>>
         ELSE \E b \in Backends :
                /\ Selected(b)
                /\ inflight' = [inflight EXCEPT ![b] = @ + 1]
                /\ rrCursor' = b + 1
                /\ backendIndex' = [backendIndex EXCEPT ![c] = b]
    /\ UNCHANGED <<up, backendFailed, countVars, unhealthy, connectionVars>>

\* readHttpRequestRaw, then selectBackendAndAcquire under the mutex.
SelectBackend(c) ==
    /\ HandlerMoves(c, "read", IF Eligible = {} THEN "busy" ELSE "connect")
    /\ IF Eligible = {}
         THEN UNCHANGED <<inflight, rrCursor, backendIndex>>
         ELSE \E b \in Backends :
                /\ Selected(b)
                /\ inflight' = [inflight EXCEPT ![b] = @ + 1]
                /\ rrCursor' = (b + 1) % nBackends
                /\ backendIndex' = [backendIndex EXCEPT ![c] = b]
    /\ UNCHANGED <<up, backendFailed, countVars, unhealthy, connectionVars>>

RejectBusy(c) ==
    /\ HandlerMoves(c, "busy", "deny")
    /\ activeRequests' = activeRequests - 1
    /\ UNCHANGED <<up, backendIndex, backendFailed, doubled, poolVars, connectionVars>>

\* This 429 is written inside the try block: when the client is gone the
\* thread falls through to the second decrement of activeRequests.
Deny(c, ok) ==
    /\ IF ok THEN HandlerMoves(c, "deny", "done") /\ UNCHANGED <<backendFailed, doubled>>
             ELSE Catch(c, "deny") /\ doubled' = doubled + 1
    /\ UNCHANGED <<up, backendIndex, activeRequests, poolVars, connectionVars>>

\* connectToBackend.
Connect(c) ==
    LET b == backendIndex[c] IN
    /\ handler[c] = "connect"
    /\ IF listening[b]
         THEN /\ HandlerMoves(c, "connect", "send")
              /\ link' = [link EXCEPT ![c] = "open"]
              /\ backlog' = [backlog EXCEPT ![b] = Append(@, c)]
              /\ UNCHANGED backendFailed
         ELSE Catch(c, "connect") /\ UNCHANGED <<link, backlog>>
    /\ UNCHANGED <<up, backendIndex, countVars, poolVars, listening>>

\* writeSocket of the whole request.
SendRequest(c) ==
    /\ IF link[c] = "open"
         THEN HandlerMoves(c, "send", "proxy") /\ link' = [link EXCEPT ![c] = "sent"]
                                               /\ UNCHANGED backendFailed
         ELSE Catch(c, "send") /\ UNCHANGED link
    /\ UNCHANGED <<up, backendIndex, countVars, poolVars, backlog, listening>>

\* proxyResponse ends: recv returned 0, whatever was received before, or failed.
ProxyEnds(c) ==
    /\ IF link[c] \in {"eof", "empty"}
         THEN HandlerMoves(c, "proxy", "release") /\ UNCHANGED backendFailed
         ELSE link[c] = "reset" /\ Catch(c, "proxy")
    /\ UNCHANGED <<up, backendIndex, countVars, poolVars, connectionVars>>

\* Mutant of ClientLost: the connection to the backend is not closed.
MutClientLostLeaks(c) ==
    /\ link[c] \in {"data", "eof"}
    /\ Catch(c, "proxy")
    /\ UNCHANGED <<up, backendIndex, countVars, poolVars, connectionVars>>

\* proxyResponse: the client is gone when answer bytes are copied to it.  The
\* destructor of backendSocket closes the connection to the backend.
ClientLost(c) ==
    /\ link[c] \in {"data", "eof"}
    /\ Catch(c, "proxy")
    /\ link' = [link EXCEPT ![c] = ClosedByGateway(@)]
    /\ UNCHANGED <<up, backendIndex, countVars, poolVars, backlog, listening>>

\* releaseBackend, under the mutex.  A failure on the client's side counts
\* against the backend as well.
Release(c) ==
    LET b == backendIndex[c] IN
    /\ HandlerMoves(c, "release", "leave")
    /\ IF b = NoBackend
         THEN UNCHANGED <<inflight, unhealthy>>
         ELSE /\ inflight' = [inflight EXCEPT ![b] = IF @ > 0 THEN @ - 1 ELSE @]
              /\ unhealthy' = [unhealthy EXCEPT ![b] = @ \/ backendFailed[c]]
    /\ UNCHANGED <<up, backendIndex, backendFailed, countVars, rrCursor, connectionVars>>

\* The last decrement.
Leave(c) ==
    /\ HandlerMoves(c, "leave", "done")
    /\ activeRequests' = activeRequests - 1
    /\ UNCHANGED <<up, backendIndex, backendFailed, doubled, poolVars, connectionVars>>

\* healthRetryMs pass: unhealthyUntil is not in the future any more.
HealthRetry(b) ==
    /\ up /\ unhealthy[b]
    /\ unhealthy' = [unhealthy EXCEPT ![b] = FALSE]
    /\ UNCHANGED <<up, handler, backendIndex, backendFailed, countVars, inflight, rrCursor,
                   connectionVars>>

HandlerStep(c) ==
    \/ RejectFull(c) \/ (\E ok \in BOOLEAN : Refuse(c, ok))
    \/ ReadFails(c) \/ SelectBackend(c) \/ RejectBusy(c) \/ (\E ok \in BOOLEAN : Deny(c, ok))
    \/ Connect(c) \/ SendRequest(c) \/ ProxyEnds(c) \/ ClientLost(c)
    \/ Release(c) \/ Leave(c)

GatewayNext ==
    \/ \E c \in Clients : Enter(c) \/ HandlerStep(c)
    \/ \E b \in Backends : HealthRetry(b)

-----------------------------------------------------------------------------
HandlerStates == {"none", "full", "refuse", "read", "busy", "deny",
                  "connect", "send", "proxy", "release", "leave", "done"}

\* The handler has taken backend b and not given it back.
Holds(c, b) == backendIndex[c] = b /\ handler[c] \in {"connect", "send", "proxy", "release"}

\* The handler has counted itself and not given the count back.
Counted(c) == handler[c] \in {"full", "read", "busy", "connect", "send", "proxy",
                              "release", "leave"}

\* The handler got past the queue bound and is not about to be turned away.
Admitted(c) == Counted(c) /\ handler[c] # "full"
=============================================================================
