----------------------------- MODULE Handshake ------------------------------
(***************************************************************************)
(* How a cluster is wired, and wired again: NnNetwork::connect on the      *)
(* root, NnNetwork::serve on every worker and the loop of runWorkerApp     *)
(* around it (src/src/nn/nn-network.cpp, src/src/app.cpp).                 *)
(*                                                                         *)
(* The root connects to the workers one after the other, tells each one    *)
(* its index and its peers and waits for its ACK; when it has all ACKs it  *)
(* sends "root ready".  Then every pair of workers sets up one connection: *)
(* the lower index connects, the higher one accepts.  An accepted          *)
(* connection does not say who is at the other end: the worker files it    *)
(* under the peer it is waiting for.                                       *)
(*                                                                         *)
(* Processes die.  A root that loses a worker ends and is started again by *)
(* its operator; a worker whose session ends closes everything and listens *)
(* again.  A worker that waits in accept() notices nothing.                *)
(*                                                                         *)
(* sockets[w][k] is the node that is really at the other end of the        *)
(* connection worker w keeps under socket index k, GONE once that end is   *)
(* closed; backlog[w] holds the connections the kernel has completed and w *)
(* has not accepted.                                                       *)
(***************************************************************************)
EXTENDS Integers, Sequences

CONSTANTS nWorkers,
          maxCrashes  \* bound: processes that die of themselves

ASSUME HandshakeAssumption == nWorkers \in Nat \ {0} /\ maxCrashes \in Nat

VARIABLES rootPc,      \* "connect", "ack", "ready", "done", "failed", then Startup's
          rootAt,      \* the worker the root is busy with
          rootSockets, \* rootSockets[w]: the root's end of its connection to w
          acks,        \* workers with an ACK the root has not read
          fromRoot,    \* fromRoot[w]: what w has not read of its root's messages
          pc, peer,    \* peer[w]: loop index i of serve()
          connecting,  \* connection requests <<from, to>> on their way
          backlog, sockets,
          crashes

rootVars == <<rootPc, rootAt>>
netVars == <<rootSockets, connecting, backlog, sockets>>
vars == <<rootVars, netVars, acks, fromRoot, pc, peer, crashes>>

Workers == 1..nWorkers
Nodes == 0..nWorkers
ROOT == 0
NoNode == -1
GONE == -2
nOtherWorkers == nWorkers - 1
SocketIndexes == 0..(nWorkers - 1)

Init ==
    /\ rootPc = "connect" /\ rootAt = 1
    /\ rootSockets = [w \in Workers |-> NoNode]
    /\ acks = {}
    /\ fromRoot = [w \in Workers |-> <<>>]
    /\ pc = [w \in Workers |-> "starting"]
    /\ peer = [w \in Workers |-> 0]
    /\ connecting = {}
    /\ backlog = [w \in Workers |-> <<>>]
    /\ sockets = [w \in Workers |-> [k \in SocketIndexes |-> NoNode]]
    /\ crashes = 0

Goto(w, to) == pc' = [pc EXCEPT ![w] = to]
Send(w, m) ==
    fromRoot' = IF rootSockets[w] = w THEN [fromRoot EXCEPT ![w] = Append(@, m)]
                                      ELSE fromRoot
WriteAck(w) == acks' = IF sockets[w][0] = ROOT THEN acks \cup {w} ELSE acks
Waiting(w) == {backlog[w][i] : i \in DOMAIN backlog[w]}

\* serve() is running with its server socket open.
Listening(w) == pc[w] \in {"listen", "config", "ready", "peers"}

\* The peer of loop index i, and its place in the socket table.
OtherWorkerIndex(w, i) == IF i < w - 1 THEN i + 1 ELSE i + 2
SocketIndex(w, other) == IF other < w THEN other ELSE other - 1

-----------------------------------------------------------------------------
(* Connections.                                                            *)

\* connectSocket starts a non-blocking connect() and returns the socket while
\* it is in progress (EINPROGRESS takes the branch of success).
ConnectSocket(from, to) == connecting' = connecting \cup {<<from, to>>}

\* The ends that the nodes of S keep of their connections to w are dead.
LoseEnds(S, w) ==
    /\ rootSockets' = [rootSockets EXCEPT ![w] = IF ROOT \in S /\ @ = w THEN GONE ELSE @]
    /\ sockets' = [v \in Workers |-> [k \in SocketIndexes |->
                     IF v \in S /\ sockets[v][k] = w THEN GONE ELSE sockets[v][k]]]

\* The kernel completes or refuses a connection, in any order.
ConnectionArrives(from, to) ==
    /\ <<from, to>> \in connecting
    /\ connecting' = connecting \ {<<from, to>>}
    /\ IF Listening(to)
         THEN backlog' = [backlog EXCEPT ![to] = Append(@, from)]
              /\ UNCHANGED <<rootSockets, sockets>>
         ELSE LoseEnds({from}, to) /\ UNCHANGED backlog
    /\ UNCHANGED <<rootVars, acks, fromRoot, pc, peer, crashes>>

\* Worker w closes all its sockets: who is connected to it has a dead end, who
\* is still connecting has not.
HangUp(w) ==
    /\ connecting' = {c \in connecting : c[1] # w}
    /\ backlog' = [v \in Workers |-> IF v = w THEN <<>>
                     ELSE [i \in DOMAIN backlog[v] |->
                             IF backlog[v][i] = w THEN GONE ELSE backlog[v][i]]]
    /\ rootSockets' = [rootSockets EXCEPT ![w] =
                         IF @ = w /\ <<ROOT, w>> \notin connecting THEN GONE ELSE @]
    /\ sockets' = [v \in Workers |-> [k \in SocketIndexes |->
                     IF v = w THEN NoNode
                     ELSE IF sockets[v][k] = w /\ <<v, w>> \notin connecting THEN GONE
                     ELSE sockets[v][k]]]

\* The root's process ends.
RootHangUp ==
    /\ rootPc' = "failed"
    /\ connecting' = {c \in connecting : c[1] # ROOT}
    /\ backlog' = [v \in Workers |-> [i \in DOMAIN backlog[v] |->
                     IF backlog[v][i] = ROOT THEN GONE ELSE backlog[v][i]]]
    /\ rootSockets' = [w \in Workers |-> NoNode]
    /\ sockets' = [v \in Workers |-> [k \in SocketIndexes |->
                     IF sockets[v][k] = ROOT THEN GONE ELSE sockets[v][k]]]
    /\ acks' = {}

-----------------------------------------------------------------------------
(* The root.                                                               *)

\* connectSocket; the worker's index and peers are written right behind it.
RootConnect ==
    /\ rootPc = "connect"
    /\ ConnectSocket(ROOT, rootAt)
    /\ rootSockets' = [rootSockets EXCEPT ![rootAt] = rootAt]
    /\ rootPc' = "ack"
    /\ UNCHANGED <<rootAt, acks, fromRoot, pc, peer, backlog, sockets, crashes>>

\* readAckPacket of the worker the root is busy with.
ReadAck == rootAt \in acks /\ acks' = acks \ {rootAt}

\* The ACK, then the next worker or the broadcast.
RootReadAck ==
    /\ rootPc = "ack" /\ ReadAck
    /\ IF rootAt < nWorkers
         THEN rootAt' = rootAt + 1 /\ rootPc' = "connect"
         ELSE rootAt' = 1 /\ rootPc' = "ready"
    /\ UNCHANGED <<netVars, fromRoot, pc, peer, crashes>>

\* Mutant of RootSendReady: the loop runs once too often.
MutReadyPastEnd ==
    /\ rootPc = "ready"
    /\ fromRoot' = [w \in Workers |-> IF w = rootAt THEN Append(fromRoot[w], [kind |-> "ready"])
                                      ELSE fromRoot[w]]
    /\ IF rootAt <= nWorkers
         THEN rootAt' = rootAt + 1 /\ UNCHANGED rootPc
         ELSE rootAt' = 1 /\ rootPc' = "done"
    /\ UNCHANGED <<netVars, acks, pc, peer, crashes>>

RootSendReady ==
    /\ rootPc = "ready"
    /\ Send(rootAt, [kind |-> "ready"])
    /\ IF rootAt < nWorkers
         THEN rootAt' = rootAt + 1 /\ UNCHANGED rootPc
         ELSE rootAt' = 1 /\ rootPc' = "done"
    /\ UNCHANGED <<netVars, acks, pc, peer, crashes>>

\* The workers a transfer of the present phase may talk to.
RootTalksTo == IF rootPc \in {"load", "running"} THEN Workers ELSE {rootAt}

\* A transfer over a dead connection throws and the program ends.  (A write
\* may also go into the void, and an ACK that has arrived may still be read.)
RootFails ==
    /\ \E w \in RootTalksTo : rootSockets[w] = GONE
    /\ RootHangUp
    /\ UNCHANGED <<rootAt, fromRoot, pc, peer, crashes>>

\* The program is killed, or ends for a reason of its own.
RootCrash ==
    /\ rootPc # "failed" /\ crashes < maxCrashes
    /\ crashes' = crashes + 1
    /\ RootHangUp
    /\ UNCHANGED <<rootAt, fromRoot, pc, peer>>

\* The operator starts the root again.
RootRestart ==
    /\ rootPc = "failed"
    /\ rootPc' = "connect" /\ rootAt' = 1
    /\ UNCHANGED <<netVars, acks, fromRoot, pc, peer, crashes>>

-----------------------------------------------------------------------------
(* A worker.                                                               *)

StartListening(w) ==
    /\ pc[w] = "starting"
    /\ Goto(w, "listen")
    /\ UNCHANGED <<rootVars, netVars, acks, fromRoot, peer, crashes>>

\* acceptSocket: the oldest completed connection is filed under index k.
Accept(w, k) ==
    /\ backlog[w] # <<>>
    /\ sockets' = [sockets EXCEPT ![w][k] = Head(backlog[w])]
    /\ backlog' = [backlog EXCEPT ![w] = Tail(@)]
    /\ UNCHANGED <<rootSockets, connecting>>

AcceptRoot(w) ==
    /\ pc[w] = "listen"
    /\ Accept(w, 0)
    /\ Goto(w, "config")
    /\ UNCHANGED <<rootVars, acks, fromRoot, peer, crashes>>

\* Read index and peers, write the ACK; only the root ever writes them.
ReadConfig(w) ==
    /\ pc[w] = "config" /\ sockets[w][0] = ROOT
    /\ WriteAck(w)
    /\ Goto(w, "ready")
    /\ UNCHANGED <<rootVars, netVars, fromRoot, peer, crashes>>

\* The next message on the root's socket is of the given kind, and is read.
Receive(w, kind) ==
    /\ fromRoot[w] # <<>> /\ Head(fromRoot[w]).kind = kind
    /\ fromRoot' = [fromRoot EXCEPT ![w] = Tail(@)]

ReadReady(w) ==
    /\ pc[w] = "ready" /\ Receive(w, "ready")
    /\ Goto(w, "peers")
    /\ UNCHANGED <<rootVars, netVars, acks, peer, crashes>>

AcceptPeer(w) ==
    /\ pc[w] = "peers" /\ peer[w] < nOtherWorkers
    /\ LET other == OtherWorkerIndex(w, peer[w])
       IN  other < w /\ Accept(w, SocketIndex(w, other))
    /\ peer' = [peer EXCEPT ![w] = @ + 1]
    /\ UNCHANGED <<rootVars, acks, fromRoot, pc, crashes>>

ConnectPeer(w) ==
    /\ pc[w] = "peers" /\ peer[w] < nOtherWorkers
    /\ LET other == OtherWorkerIndex(w, peer[w])
       IN  /\ other > w
           /\ ConnectSocket(w, other)
           /\ sockets' = [sockets EXCEPT ![w][SocketIndex(w, other)] = other]
    /\ peer' = [peer EXCEPT ![w] = @ + 1]
    /\ UNCHANGED <<rootVars, rootSockets, backlog, acks, fromRoot, pc, crashes>>

\* Mutant of Serve: the loop over the other workers runs once too few.
MutServeOneShort(w) ==
    /\ pc[w] = "peers" /\ peer[w] >= nOtherWorkers - 1
    /\ Goto(w, "served")
    /\ LoseEnds(Waiting(w), w)
    /\ backlog' = [backlog EXCEPT ![w] = <<>>]
    /\ UNCHANGED <<rootVars, connecting, acks, fromRoot, peer, crashes>>

\* serve() returns the network; the server socket is closed, and with it every
\* connection that nobody accepted.
Serve(w) ==
    /\ pc[w] = "peers" /\ peer[w] = nOtherWorkers
    /\ Goto(w, "served")
    /\ LoseEnds(Waiting(w), w)
    /\ backlog' = [backlog EXCEPT ![w] = <<>>]
    /\ UNCHANGED <<rootVars, connecting, acks, fromRoot, peer, crashes>>

\* runWorkerApp goes round its loop: the network is destroyed.
Relisten(w) ==
    /\ Goto(w, "starting")
    /\ HangUp(w)
    /\ peer' = [peer EXCEPT ![w] = 0]
    /\ fromRoot' = [fromRoot EXCEPT ![w] = <<>>]

\* Mutant of SessionEnds: the end of the root is looked for only in serve().
MutSessionEndsInServe(w) ==
    /\ pc[w] \in {"config", "ready"}
    /\ sockets[w][0] = GONE
    /\ Relisten(w)
    /\ UNCHANGED <<rootVars, acks, crashes>>

\* A read of the socket that is taken for the root's fails.  (What has arrived
\* before the end may be read first or be lost.)
SessionEnds(w) ==
    /\ pc[w] \notin {"starting", "listen", "peers"}
    /\ sockets[w][0] = GONE
    /\ Relisten(w)
    /\ UNCHANGED <<rootVars, acks, crashes>>

\* A worker's process dies and is started again.
WorkerCrash(w) ==
    /\ pc[w] # "starting" /\ crashes < maxCrashes
    /\ crashes' = crashes + 1
    /\ Relisten(w)
    /\ UNCHANGED <<rootVars, acks>>

-----------------------------------------------------------------------------
RootStep == RootConnect \/ RootReadAck \/ RootSendReady \/ RootFails \/ RootRestart

WorkerStep(w) ==
    \/ StartListening(w) \/ AcceptRoot(w) \/ ReadConfig(w) \/ ReadReady(w)
    \/ AcceptPeer(w) \/ ConnectPeer(w) \/ Serve(w)

NetStep == \E from \in Nodes, to \in Workers : ConnectionArrives(from, to)

Next ==
    \/ RootStep \/ RootCrash \/ NetStep
    \/ \E w \in Workers : WorkerStep(w) \/ SessionEnds(w) \/ WorkerCrash(w)

Spec == Init /\ [][Next]_vars

-----------------------------------------------------------------------------
\* serve() has returned.
Served(w) == pc[w] \notin {"starting", "listen", "config", "ready", "peers"}

\* Once the root has everybody's ACK, and while its connections are alive, a
\* cluster whose workers have all left serve() is fully wired: every worker has
\* one live connection to every other node, none is missing, none is kept twice
\* and none is left over from an earlier session.  Nobody would notice before
\* the first transfer: serve() neither waits for its connections nor asks who is
\* at the other end.
MeshComplete ==
    rootPc \notin {"connect", "ack"} /\ (\A w \in Workers : rootSockets[w] = w /\ Served(w)) =>
        \A w \in Workers : {sockets[w][k] : k \in SocketIndexes} = Nodes \ {w}

\* "peer node=%d mapped to socketIndex=%d": what getSocketIndexForNode and the
\* pipeline rely on.
PeersAreWhereMapped ==
    \A w \in Workers : pc[w] = "served" =>
        \A v \in Workers \ {w} : sockets[w][SocketIndex(w, v)] = v
=============================================================================
