----------------------------- MODULE Connections ----------------------------
(***************************************************************************)
(* The TCP connections between the gateway (dllama-gateway.cpp) and the    *)
(* API servers it fronts (dllama-api.cpp).  External: modelled from how    *)
(* the two programs use connect, send, recv and close.                     *)
(*                                                                         *)
(* A client c of the gateway causes at most one connection to a backend;   *)
(* link[c] is its state:                                                   *)
(*   "none"    not made            "open"    made, no request on it yet    *)
(*   "sent"    request written     "data"    answer bytes on the way back  *)
(*   "eof"     closed by the server after answer bytes                     *)
(*   "empty"   closed by the server before the first answer byte           *)
(*   "reset"   thrown away by the server's kernel                          *)
(*   "closed"  closed by the gateway after the request was written         *)
(*   "cut"     closed by the gateway before that                           *)
(***************************************************************************)
EXTENDS Integers, Sequences

CONSTANTS nClients,  \* how many clients connect to the gateway (a bound)
          nBackends

ASSUME ConnectionsAssumption ==
    /\ nClients \in Nat \ {0}
    /\ nBackends \in Nat \ {0}

VARIABLES link,
          backlog,   \* backlog[b]: connections b's kernel accepted and b did not
          listening  \* listening[b]: b's server socket exists

connectionVars == <<link, backlog, listening>>

Clients == 1..nClients
Backends == 0..(nBackends - 1)

LinkStates == {"none", "open", "sent", "data", "eof", "empty", "reset", "closed", "cut"}

ConnectionsInit ==
    /\ link = [c \in Clients |-> "none"]
    /\ backlog = [b \in Backends |-> <<>>]
    /\ listening = [b \in Backends |-> TRUE]

\* What the gateway's close() of a connection leaves to the server.
ClosedByGateway(state) ==
    CASE state = "open" -> "cut"
      [] state \in {"sent", "data"} -> "closed"
      [] OTHER -> state

\* What the server's close() leaves to the gateway: every request has been
\* read by then, so the peer sees the end of the stream and not a reset.
ClosedByServer(state) ==
    CASE state = "sent" -> "empty"
      [] state = "data" -> "eof"
      [] OTHER -> state

\* The server writes answer bytes.  The first bytes written to a peer that is
\* gone are lost without an error.
Answered(state) == IF state = "sent" THEN "data" ELSE state

PeerGone(c) == link[c] \in {"closed", "cut"}

\* The server socket goes away: the kernel resets what was not accepted.
ResetBacklog(l, b) ==
    [c \in Clients |->
        IF \E i \in DOMAIN backlog[b] : backlog[b][i] = c
          THEN IF l[c] \in {"open", "sent"} THEN "reset" ELSE l[c]
          ELSE l[c]]
=============================================================================
