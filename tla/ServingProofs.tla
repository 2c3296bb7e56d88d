--------------------------- MODULE ServingProofs ----------------------------
(***************************************************************************)
(* Proofs about Serving for every number of clients and backends, every    *)
(* queue bound, every context length and every set of workloads.           *)
(*                                                                         *)
(* Three invariants, each inductive beside the ones before it:             *)
(*   GatewayInv  the gateway's counts are cardinalities of sets of         *)
(*               handlers; it speaks of the gateway's state alone;         *)
(*   LinkInv     a connection that can still carry an answer has a         *)
(*               handler that waits for it;                                *)
(*   ApiInv      what each server's prompt cache says of its KV cache,     *)
(*               while a completion runs (RunOK) and between two of them   *)
(*               (CacheOK); it speaks of the servers' state, and needs of  *)
(*               the others only that a backlog holds clients.             *)
(***************************************************************************)
EXTENDS Serving, FiniteSetTheorems, SequenceTheorems, TLAPS

-----------------------------------------------------------------------------
(* The gateway's counts.                                                   *)

HoldStates == {"connect", "send", "proxy", "release"}
AdmittedStates == {"read", "busy", "connect", "send", "proxy", "release", "leave"}
CountedStates == AdmittedStates \cup {"full"}

CountedSet == {c \in Clients : Counted(c)}
AdmittedSet == {c \in Clients : Admitted(c)}
Holders(b) == {c \in Clients : Holds(c, b)}

GatewayType ==
    /\ up \in BOOLEAN /\ handler \in [Clients -> HandlerStates]
    /\ backendIndex \in [Clients -> Backends \cup {NoBackend}]
    /\ backendFailed \in [Clients -> BOOLEAN]
    /\ activeRequests \in Int /\ doubled \in Nat
    /\ inflight \in [Backends -> Nat] /\ unhealthy \in [Backends -> BOOLEAN]
    /\ rrCursor \in Backends

\* A handler has a backend from selectBackendAndAcquire on, and not before.
IndexInv ==
    \A c \in Clients :
        /\ handler[c] \in {"connect", "send", "proxy"} => backendIndex[c] # NoBackend
        /\ handler[c] \in {"none", "full", "refuse", "read", "busy", "deny"} =>
             backendIndex[c] = NoBackend

GatewayInv == GatewayType /\ IndexInv /\ InflightExact /\ ActiveExact /\ AdmissionBound

\* Clients and backends, and the constants of the gateway.
LEMMA ServingConstants ==
    /\ nClients \in Nat \ {0} /\ nBackends \in Nat \ {0}
    /\ maxQueue \in Nat \ {0} /\ maxInflightPerBackend \in Nat \ {0}
    /\ NoBackend \notin Backends /\ Backends \subseteq Int /\ 0 \in Backends
    /\ NoClient \notin Clients
    /\ IsFiniteSet(Clients)
<1>1. IsFiniteSet(Clients)
  BY ConnectionsAssumption, FS_Interval DEF Clients
<1> QED
  BY <1>1, ConnectionsAssumption, GatewayAssumption DEF NoBackend, Backends, Clients, NoClient

\* Sets of clients are finite, and their sizes follow one client's coming and going.
LEMMA ClientSets ==
    ASSUME NEW S, S \in SUBSET Clients, NEW c
    PROVE  /\ Cardinality(S) \in Nat
           /\ Cardinality(S \cup {c}) = Cardinality(S) + (IF c \in S THEN 0 ELSE 1)
           /\ Cardinality(S \ {c}) = Cardinality(S) - (IF c \in S THEN 1 ELSE 0)
           /\ c \in S => Cardinality(S) > 0
<1>1. IsFiniteSet(S)
  BY ServingConstants, FS_Subset
<1>2. Cardinality(S) \in Nat
  BY <1>1, FS_CardinalityType
<1>3. Cardinality(S \cup {c}) = Cardinality(S) + (IF c \in S THEN 0 ELSE 1)
  BY <1>1, <1>2, FS_AddElement, SMTT(30)
<1>4. Cardinality(S \ {c}) = Cardinality(S) - (IF c \in S THEN 1 ELSE 0)
  BY <1>1, <1>2, FS_RemoveElement
<1>5. c \in S => Cardinality(S) > 0
  BY <1>1, <1>2, FS_EmptySet
<1> QED
  BY <1>2, <1>3, <1>4, <1>5

\* What one handler's move does to the number of counted and of admitted handlers.
LEMMA MoveCounts ==
    ASSUME GatewayType, NEW c \in Clients, NEW to \in HandlerStates,
           handler' = [handler EXCEPT ![c] = to]
    PROVE  /\ Cardinality(CountedSet)' =
                Cardinality(CountedSet) + (IF to \in CountedStates THEN 1 ELSE 0)
                                        - (IF handler[c] \in CountedStates THEN 1 ELSE 0)
           /\ Cardinality(AdmittedSet)' =
                Cardinality(AdmittedSet) + (IF to \in AdmittedStates THEN 1 ELSE 0)
                                         - (IF handler[c] \in AdmittedStates THEN 1 ELSE 0)
           /\ Cardinality(CountedSet) \in Nat /\ Cardinality(AdmittedSet) \in Nat
<1>1. /\ CountedSet \in SUBSET Clients /\ AdmittedSet \in SUBSET Clients
      /\ c \in CountedSet <=> handler[c] \in CountedStates
      /\ c \in AdmittedSet <=> handler[c] \in AdmittedStates
  BY DEF CountedSet, AdmittedSet, Counted, Admitted, CountedStates, AdmittedStates
<1>2. /\ CountedSet' = IF to \in CountedStates THEN CountedSet \cup {c} ELSE CountedSet \ {c}
      /\ AdmittedSet' = IF to \in AdmittedStates THEN AdmittedSet \cup {c} ELSE AdmittedSet \ {c}
  BY DEF GatewayType, CountedSet, AdmittedSet, Counted, Admitted, CountedStates, AdmittedStates
<1>3. /\ Cardinality(CountedSet) \in Nat
      /\ Cardinality(CountedSet)' =
           Cardinality(CountedSet) + (IF to \in CountedStates THEN 1 ELSE 0)
                                   - (IF handler[c] \in CountedStates THEN 1 ELSE 0)
  <2>1. /\ Cardinality(CountedSet) \in Nat
        /\ Cardinality(CountedSet \cup {c}) = Cardinality(CountedSet) + (IF c \in CountedSet THEN 0 ELSE 1)
        /\ Cardinality(CountedSet \ {c}) = Cardinality(CountedSet) - (IF c \in CountedSet THEN 1 ELSE 0)
    BY <1>1, ClientSets, Zenon
  <2>2. CASE to \in CountedStates
    BY <1>1, <1>2, <2>1, <2>2
  <2>3. CASE to \notin CountedStates
    BY <1>1, <1>2, <2>1, <2>3
  <2> QED
    BY <2>2, <2>3
<1>4. /\ Cardinality(AdmittedSet) \in Nat
      /\ Cardinality(AdmittedSet)' =
           Cardinality(AdmittedSet) + (IF to \in AdmittedStates THEN 1 ELSE 0)
                                    - (IF handler[c] \in AdmittedStates THEN 1 ELSE 0)
  <2>1. /\ Cardinality(AdmittedSet) \in Nat
        /\ Cardinality(AdmittedSet \cup {c}) = Cardinality(AdmittedSet) + (IF c \in AdmittedSet THEN 0 ELSE 1)
        /\ Cardinality(AdmittedSet \ {c}) = Cardinality(AdmittedSet) - (IF c \in AdmittedSet THEN 1 ELSE 0)
    BY <1>1, ClientSets, Zenon
  <2>2. CASE to \in AdmittedStates
    BY <1>1, <1>2, <2>1, <2>2
  <2>3. CASE to \notin AdmittedStates
    BY <1>1, <1>2, <2>1, <2>3
  <2> QED
    BY <2>2, <2>3
<1> QED
  BY <1>3, <1>4

\* What it does to the number of holders of a backend; the handler may take one.
LEMMA MoveHolders ==
    ASSUME GatewayType, NEW c \in Clients, NEW to \in HandlerStates,
           handler' = [handler EXCEPT ![c] = to],
           NEW x \in Backends \cup {NoBackend},
           backendIndex' = [backendIndex EXCEPT ![c] = x],
           NEW b \in Backends
    PROVE  /\ Cardinality(Holders(b))' =
                Cardinality(Holders(b))
                  + (IF to \in HoldStates /\ x = b THEN 1 ELSE 0)
                  - (IF handler[c] \in HoldStates /\ backendIndex[c] = b THEN 1 ELSE 0)
           /\ Cardinality(Holders(b)) \in Nat
           /\ handler[c] \in HoldStates /\ backendIndex[c] = b => Cardinality(Holders(b)) > 0
<1>1. /\ Holders(b) \in SUBSET Clients
      /\ c \in Holders(b) <=> handler[c] \in HoldStates /\ backendIndex[c] = b
  BY DEF Holders, Holds, HoldStates
<1>2. Holders(b)' = IF to \in HoldStates /\ x = b THEN Holders(b) \cup {c} ELSE Holders(b) \ {c}
  BY DEF GatewayType, Holders, Holds, HoldStates
<1>3. /\ Cardinality(Holders(b)) \in Nat
      /\ c \in Holders(b) => Cardinality(Holders(b)) > 0
      /\ Cardinality(Holders(b) \cup {c}) = Cardinality(Holders(b)) + (IF c \in Holders(b) THEN 0 ELSE 1)
      /\ Cardinality(Holders(b) \ {c}) = Cardinality(Holders(b)) - (IF c \in Holders(b) THEN 1 ELSE 0)
  BY <1>1, ClientSets, Zenon
<1>4. CASE to \in HoldStates /\ x = b
  BY <1>1, <1>2, <1>3, <1>4
<1>5. CASE ~(to \in HoldStates /\ x = b)
  BY <1>1, <1>2, <1>3, <1>5
<1> QED
  BY <1>4, <1>5

\* The invariants in terms of the sets above, now and after a step.
LEMMA CountDefs ==
    /\ ActiveExact <=> activeRequests = Cardinality(CountedSet) - doubled
    /\ ActiveExact' <=> activeRequests' = Cardinality(CountedSet)' - doubled'
    /\ AdmissionBound <=> Cardinality(AdmittedSet) <= maxQueue + doubled
    /\ AdmissionBound' <=> Cardinality(AdmittedSet)' <= maxQueue + doubled'
    /\ InflightExact <=> \A b \in Backends : /\ inflight[b] = Cardinality(Holders(b))
                                              /\ inflight[b] <= maxInflightPerBackend
    /\ InflightExact' <=> \A b \in Backends : /\ inflight'[b] = Cardinality(Holders(b))'
                                               /\ inflight'[b] <= maxInflightPerBackend
BY DEF ActiveExact, AdmissionBound, InflightExact, CountedSet, AdmittedSet, Holders

\* Whoever is admitted is counted.
LEMMA AdmittedAreCounted ==
    /\ Cardinality(AdmittedSet) <= Cardinality(CountedSet)
    /\ Cardinality(AdmittedSet)' <= Cardinality(CountedSet)'
<1>1. ASSUME NEW S, NEW T, S \in SUBSET T, T \in SUBSET Clients
      PROVE  Cardinality(S) <= Cardinality(T)
  <2>1. IsFiniteSet(T)
    BY <1>1, ServingConstants, FS_Subset, Zenon
  <2> QED
    BY <1>1, <2>1, FS_Subset, Zenon
<1>2. AdmittedSet \in SUBSET CountedSet /\ CountedSet \in SUBSET Clients
  BY DEF AdmittedSet, CountedSet, Admitted
<1>3. AdmittedSet' \in SUBSET CountedSet' /\ CountedSet' \in SUBSET Clients
  BY DEF AdmittedSet, CountedSet, Admitted
<1>4. Cardinality(AdmittedSet) <= Cardinality(CountedSet)
  BY <1>1, <1>2, Zenon
<1>5. Cardinality(AdmittedSet') <= Cardinality(CountedSet')
  BY <1>1, <1>3, Zenon
<1> QED
  BY <1>4, <1>5

\* A handler's move that keeps the balance of the counts: a handler that becomes
\* counted adds one to activeRequests or to doubled, and one that becomes
\* admitted had the bound checked or leaves one more in doubled.
KeepsCounts(c, to) ==
    /\ to \in HandlerStates /\ handler' = [handler EXCEPT ![c] = to]
    /\ activeRequests' \in Int /\ doubled' \in Nat /\ doubled' >= doubled
    /\ activeRequests' + doubled' =
         activeRequests + doubled + (IF to \in CountedStates THEN 1 ELSE 0)
                                  - (IF handler[c] \in CountedStates THEN 1 ELSE 0)
    /\ to \in AdmittedStates /\ handler[c] \notin AdmittedStates =>
         doubled' > doubled \/ activeRequests' <= maxQueue

\* One that does not change whether the handler holds a backend.
KeepsBackend(c, to) ==
    /\ to \in HandlerStates /\ handler' = [handler EXCEPT ![c] = to]
    /\ backendIndex' = backendIndex /\ inflight' = inflight
    /\ backendIndex[c] # NoBackend => (to \in HoldStates <=> handler[c] \in HoldStates)

\* A move that keeps the balance keeps activeRequests exact and the queue bounded.
LEMMA CountMove ==
    ASSUME GatewayInv, NEW c \in Clients, NEW to, KeepsCounts(c, to)
    PROVE  ActiveExact' /\ AdmissionBound'
<1> USE DEF GatewayInv, KeepsCounts
<1>1. /\ Cardinality(CountedSet) \in Nat /\ Cardinality(AdmittedSet) \in Nat
      /\ Cardinality(CountedSet)' =
           Cardinality(CountedSet) + (IF to \in CountedStates THEN 1 ELSE 0)
                                   - (IF handler[c] \in CountedStates THEN 1 ELSE 0)
      /\ Cardinality(AdmittedSet)' =
           Cardinality(AdmittedSet) + (IF to \in AdmittedStates THEN 1 ELSE 0)
                                    - (IF handler[c] \in AdmittedStates THEN 1 ELSE 0)
  BY MoveCounts, Zenon
<1>2. activeRequests \in Int /\ doubled \in Nat /\ maxQueue \in Nat
  BY ServingConstants DEF GatewayType
<1>3. activeRequests' = Cardinality(CountedSet)' - doubled'
  BY <1>1, <1>2, CountDefs
<1>4. Cardinality(AdmittedSet)' <= maxQueue + doubled'
  BY <1>1, <1>2, <1>3, CountDefs, AdmittedAreCounted
<1> QED
  BY <1>3, <1>4, CountDefs

\* A move that neither takes nor gives back a backend keeps inflight exact.
LEMMA BackendMove ==
    ASSUME GatewayInv, NEW c \in Clients, NEW to, KeepsBackend(c, to)
    PROVE  InflightExact'
<1> USE DEF GatewayInv, KeepsBackend
<1>1. ASSUME NEW b \in Backends
      PROVE  inflight'[b] = Cardinality(Holders(b))' /\ inflight'[b] <= maxInflightPerBackend
  <2>1. /\ backendIndex' = [backendIndex EXCEPT ![c] = backendIndex[c]]
        /\ backendIndex[c] \in Backends \cup {NoBackend}
    BY DEF GatewayType
  <2>2. /\ Cardinality(Holders(b)) \in Nat
        /\ Cardinality(Holders(b))' =
             Cardinality(Holders(b))
               + (IF to \in HoldStates /\ backendIndex[c] = b THEN 1 ELSE 0)
               - (IF handler[c] \in HoldStates /\ backendIndex[c] = b THEN 1 ELSE 0)
    BY <2>1, MoveHolders, Zenon
  <2> QED
    BY <2>2, CountDefs, ServingConstants
<1> QED
  BY <1>1, CountDefs

\* Every step of the gateway keeps the counts.
LEMMA GatewayStep ==
    ASSUME GatewayInv, GatewayNext
    PROVE  GatewayInv'
<1> USE DEF HandlerMoves, Catch, HandlerStates, countVars, poolVars
<1>0. GatewayType /\ IndexInv /\ maxQueue \in Nat /\ NoBackend \notin Backends
  BY ServingConstants DEF GatewayInv
<1>1. ASSUME NEW c \in Clients, Enter(c) PROVE GatewayInv'
  <2>1. GatewayType' /\ IndexInv'
    BY <1>0, <1>1 DEF Enter, GatewayType, IndexInv
  <2>2. activeRequests + 1 > maxQueue => KeepsCounts(c, "full") /\ KeepsBackend(c, "full")
    BY <1>0, <1>1 DEF Enter, GatewayType, IndexInv, KeepsCounts, KeepsBackend,
                      CountedStates, AdmittedStates, HoldStates
  <2>3. ~(activeRequests + 1 > maxQueue) => KeepsCounts(c, "read") /\ KeepsBackend(c, "read")
    BY <1>0, <1>1 DEF Enter, GatewayType, IndexInv, KeepsCounts, KeepsBackend,
                      CountedStates, AdmittedStates, HoldStates
  <2> QED
    BY <2>1, <2>2, <2>3, CountMove, BackendMove DEF GatewayInv
<1>2. ASSUME NEW c \in Clients, RejectFull(c) PROVE GatewayInv'
  <2>1. GatewayType' /\ IndexInv'
    BY <1>0, <1>2 DEF RejectFull, GatewayType, IndexInv
  <2>2. KeepsCounts(c, "refuse") /\ KeepsBackend(c, "refuse")
    BY <1>0, <1>2 DEF RejectFull, GatewayType, IndexInv, KeepsCounts, KeepsBackend,
                      CountedStates, AdmittedStates, HoldStates
  <2> QED
    BY <2>1, <2>2, CountMove, BackendMove DEF GatewayInv
<1>3. ASSUME NEW c \in Clients, NEW ok \in BOOLEAN, Refuse(c, ok) PROVE GatewayInv'
  <2>1. GatewayType' /\ IndexInv'
    BY <1>0, <1>3 DEF Refuse, GatewayType, IndexInv
  <2>2. KeepsCounts(c, "done") /\ KeepsBackend(c, "done")
    BY <1>0, <1>3 DEF Refuse, GatewayType, IndexInv, KeepsCounts, KeepsBackend,
                      CountedStates, AdmittedStates, HoldStates
  <2> QED
    BY <2>1, <2>2, CountMove, BackendMove DEF GatewayInv
<1>4. ASSUME NEW c \in Clients, ReadFails(c) PROVE GatewayInv'
  <2>1. GatewayType' /\ IndexInv'
    BY <1>0, <1>4 DEF ReadFails, GatewayType, IndexInv
  <2>2. KeepsCounts(c, "release") /\ KeepsBackend(c, "release")
    BY <1>0, <1>4 DEF ReadFails, GatewayType, IndexInv, KeepsCounts, KeepsBackend,
                      CountedStates, AdmittedStates, HoldStates
  <2> QED
    BY <2>1, <2>2, CountMove, BackendMove DEF GatewayInv
<1>5. ASSUME NEW c \in Clients, SelectBackend(c), Eligible = {} PROVE GatewayInv'
  <2>1. GatewayType' /\ IndexInv'
    BY <1>0, <1>5 DEF SelectBackend, GatewayType, IndexInv
  <2>2. KeepsCounts(c, "busy") /\ KeepsBackend(c, "busy")
    BY <1>0, <1>5 DEF SelectBackend, GatewayType, IndexInv, KeepsCounts, KeepsBackend,
                      CountedStates, AdmittedStates, HoldStates
  <2> QED
    BY <2>1, <2>2, CountMove, BackendMove DEF GatewayInv
<1>6. ASSUME NEW c \in Clients, SelectBackend(c), Eligible # {} PROVE GatewayInv'
  <2>1. PICK b \in Backends :
          /\ Selected(b)
          /\ inflight' = [inflight EXCEPT ![b] = @ + 1]
          /\ rrCursor' = (b + 1) % nBackends
          /\ backendIndex' = [backendIndex EXCEPT ![c] = b]
    BY <1>6 DEF SelectBackend
  <2>2. /\ handler' = [handler EXCEPT ![c] = "connect"] /\ handler[c] = "read"
        /\ activeRequests' = activeRequests /\ doubled' = doubled
    BY <1>6 DEF SelectBackend
  <2>3. rrCursor' \in Backends
    BY <2>1, ServingConstants DEF Backends
  <2>4. GatewayType' /\ IndexInv'
    BY <1>0, <1>6, <2>1, <2>2, <2>3 DEF SelectBackend, GatewayType, IndexInv
  <2>5. KeepsCounts(c, "connect")
    BY <1>0, <2>2 DEF GatewayType, KeepsCounts, CountedStates, AdmittedStates
  <2>6. ASSUME NEW o \in Backends
        PROVE  inflight'[o] = Cardinality(Holders(o))' /\ inflight'[o] <= maxInflightPerBackend
    <3>1. "connect" \in HandlerStates /\ b \in Backends \cup {NoBackend}
      OBVIOUS
    <3> HIDE DEF HandlerStates
    <3>2. /\ Cardinality(Holders(o)) \in Nat
          /\ Cardinality(Holders(o))' =
               Cardinality(Holders(o))
                 + (IF "connect" \in HoldStates /\ b = o THEN 1 ELSE 0)
                 - (IF handler[c] \in HoldStates /\ backendIndex[c] = o THEN 1 ELSE 0)
      BY <1>0, <2>1, <2>2, <3>1, MoveHolders, Zenon
    <3>3. inflight[o] = Cardinality(Holders(o)) /\ inflight[o] <= maxInflightPerBackend
      BY CountDefs DEF GatewayInv
    <3>4. inflight[b] < maxInflightPerBackend
      BY <2>1 DEF Selected, Eligible
    <3> QED
      BY <1>0, <2>1, <2>2, <3>2, <3>3, <3>4, ServingConstants DEF GatewayType, HoldStates
  <2> QED
    BY <2>4, <2>5, <2>6, CountMove, CountDefs DEF GatewayInv
<1>7. ASSUME NEW c \in Clients, RejectBusy(c) PROVE GatewayInv'
  <2>1. GatewayType' /\ IndexInv'
    BY <1>0, <1>7 DEF RejectBusy, GatewayType, IndexInv
  <2>2. KeepsCounts(c, "deny") /\ KeepsBackend(c, "deny")
    BY <1>0, <1>7 DEF RejectBusy, GatewayType, IndexInv, KeepsCounts, KeepsBackend,
                      CountedStates, AdmittedStates, HoldStates
  <2> QED
    BY <2>1, <2>2, CountMove, BackendMove DEF GatewayInv
<1>8. ASSUME NEW c \in Clients, NEW ok \in BOOLEAN, Deny(c, ok) PROVE GatewayInv'
  <2>1. GatewayType' /\ IndexInv'
    <3>1. CASE ok
      BY <1>0, <1>8, <3>1 DEF Deny, GatewayType, IndexInv
    <3>2. CASE ~ok
      <4>1. /\ handler' = [handler EXCEPT ![c] = "release"] /\ doubled' = doubled + 1
            /\ backendFailed' = [backendFailed EXCEPT ![c] = TRUE]
            /\ UNCHANGED <<up, backendIndex, activeRequests, inflight, unhealthy, rrCursor>>
        BY <1>8, <3>2 DEF Deny
      <4>2. backendFailed' \in [Clients -> BOOLEAN]
        BY <1>0, <4>1 DEF GatewayType
      <4> QED
        BY <1>0, <4>1, <4>2 DEF GatewayType, IndexInv
    <3> QED
      BY <3>1, <3>2
  <2>2. ok => KeepsCounts(c, "done") /\ KeepsBackend(c, "done")
    BY <1>0, <1>8 DEF Deny, GatewayType, IndexInv, KeepsCounts, KeepsBackend,
                      CountedStates, AdmittedStates, HoldStates
  <2>3. ~(ok) => KeepsCounts(c, "release") /\ KeepsBackend(c, "release")
    BY <1>0, <1>8 DEF Deny, GatewayType, IndexInv, KeepsCounts, KeepsBackend,
                      CountedStates, AdmittedStates, HoldStates
  <2> QED
    BY <2>1, <2>2, <2>3, CountMove, BackendMove DEF GatewayInv
<1>9. ASSUME NEW c \in Clients, Connect(c) PROVE GatewayInv'
  <2>1. GatewayType' /\ IndexInv'
    <3>1. CASE listening[backendIndex[c]]
      BY <1>0, <1>9, <3>1 DEF Connect, GatewayType, IndexInv
    <3>2. CASE ~listening[backendIndex[c]]
      BY <1>0, <1>9, <3>2 DEF Connect, GatewayType, IndexInv
    <3> QED
      BY <3>1, <3>2
  <2>2. listening[backendIndex[c]] => KeepsCounts(c, "send") /\ KeepsBackend(c, "send")
    BY <1>0, <1>9 DEF Connect, GatewayType, IndexInv, KeepsCounts, KeepsBackend,
                      CountedStates, AdmittedStates, HoldStates
  <2>3. ~(listening[backendIndex[c]]) => KeepsCounts(c, "release") /\ KeepsBackend(c, "release")
    BY <1>0, <1>9 DEF Connect, GatewayType, IndexInv, KeepsCounts, KeepsBackend,
                      CountedStates, AdmittedStates, HoldStates
  <2> QED
    BY <2>1, <2>2, <2>3, CountMove, BackendMove DEF GatewayInv
<1>10. ASSUME NEW c \in Clients, SendRequest(c) PROVE GatewayInv'
  <2>1. GatewayType' /\ IndexInv'
    BY <1>0, <1>10 DEF SendRequest, GatewayType, IndexInv
  <2>2. link[c] = "open" => KeepsCounts(c, "proxy") /\ KeepsBackend(c, "proxy")
    BY <1>0, <1>10 DEF SendRequest, GatewayType, IndexInv, KeepsCounts, KeepsBackend,
                      CountedStates, AdmittedStates, HoldStates
  <2>3. ~(link[c] = "open") => KeepsCounts(c, "release") /\ KeepsBackend(c, "release")
    BY <1>0, <1>10 DEF SendRequest, GatewayType, IndexInv, KeepsCounts, KeepsBackend,
                      CountedStates, AdmittedStates, HoldStates
  <2> QED
    BY <2>1, <2>2, <2>3, CountMove, BackendMove DEF GatewayInv
<1>11. ASSUME NEW c \in Clients, ProxyEnds(c) PROVE GatewayInv'
  <2>1. GatewayType' /\ IndexInv'
    BY <1>0, <1>11 DEF ProxyEnds, GatewayType, IndexInv
  <2>2. KeepsCounts(c, "release") /\ KeepsBackend(c, "release")
    BY <1>0, <1>11 DEF ProxyEnds, GatewayType, IndexInv, KeepsCounts, KeepsBackend,
                      CountedStates, AdmittedStates, HoldStates
  <2> QED
    BY <2>1, <2>2, CountMove, BackendMove DEF GatewayInv
<1>12. ASSUME NEW c \in Clients, ClientLost(c) PROVE GatewayInv'
  <2>1. GatewayType' /\ IndexInv'
    BY <1>0, <1>12 DEF ClientLost, GatewayType, IndexInv
  <2>2. KeepsCounts(c, "release") /\ KeepsBackend(c, "release")
    BY <1>0, <1>12 DEF ClientLost, GatewayType, IndexInv, KeepsCounts, KeepsBackend,
                      CountedStates, AdmittedStates, HoldStates
  <2> QED
    BY <2>1, <2>2, CountMove, BackendMove DEF GatewayInv
<1>13. ASSUME NEW c \in Clients, Release(c) PROVE GatewayInv'
  <2>1. handler' = [handler EXCEPT ![c] = "leave"] /\ handler[c] = "release"
    BY <1>13 DEF Release
  <2>2. /\ backendIndex' = [backendIndex EXCEPT ![c] = backendIndex[c]]
        /\ backendIndex[c] \in Backends \cup {NoBackend}
        /\ "leave" \in HandlerStates
    BY <1>0, <1>13 DEF Release, GatewayType
  <2>3. KeepsCounts(c, "leave")
    BY <1>0, <1>13 DEF Release, GatewayType, KeepsCounts, CountedStates, AdmittedStates
  <2>4. ASSUME NEW o \in Backends
        PROVE  inflight'[o] = Cardinality(Holders(o))' /\ inflight'[o] <= maxInflightPerBackend
    <3> HIDE DEF HandlerStates
    <3>1. /\ Cardinality(Holders(o)) \in Nat
          /\ Cardinality(Holders(o))' =
               Cardinality(Holders(o))
                 + (IF "leave" \in HoldStates /\ backendIndex[c] = o THEN 1 ELSE 0)
                 - (IF handler[c] \in HoldStates /\ backendIndex[c] = o THEN 1 ELSE 0)
          /\ handler[c] \in HoldStates /\ backendIndex[c] = o => Cardinality(Holders(o)) > 0
      BY <1>0, <2>1, <2>2, MoveHolders, Zenon
    <3>2. inflight[o] = Cardinality(Holders(o)) /\ inflight[o] <= maxInflightPerBackend
      BY CountDefs DEF GatewayInv
    <3> QED
      BY <1>0, <1>13, <2>1, <3>1, <3>2, ServingConstants DEF Release, GatewayType, HoldStates
  <2>5. GatewayType' /\ IndexInv'
    BY <1>0, <1>13 DEF Release, GatewayType, IndexInv
  <2> QED
    BY <2>3, <2>4, <2>5, CountMove, CountDefs DEF GatewayInv
<1>14. ASSUME NEW c \in Clients, Leave(c) PROVE GatewayInv'
  <2>1. GatewayType' /\ IndexInv'
    BY <1>0, <1>14 DEF Leave, GatewayType, IndexInv
  <2>2. KeepsCounts(c, "done") /\ KeepsBackend(c, "done")
    BY <1>0, <1>14 DEF Leave, GatewayType, IndexInv, KeepsCounts, KeepsBackend,
                      CountedStates, AdmittedStates, HoldStates
  <2> QED
    BY <2>1, <2>2, CountMove, BackendMove DEF GatewayInv
<1>15. ASSUME NEW b \in Backends, HealthRetry(b) PROVE GatewayInv'
  BY <1>0, <1>15 DEF HealthRetry, GatewayInv, GatewayType, IndexInv, InflightExact, ActiveExact,
                      AdmissionBound, Holds, Counted, Admitted
<1> QED
  BY <1>1, <1>2, <1>3, <1>4, <1>5, <1>6, <1>7, <1>8, <1>9, <1>10, <1>11, <1>12, <1>13, <1>14, <1>15 DEF GatewayNext, HandlerStep

\* The initial state has no handlers.
LEMMA GatewayInitInv == GatewayInit => GatewayInv
<1> SUFFICES ASSUME GatewayInit PROVE GatewayInv
  OBVIOUS
<1>1. GatewayType /\ IndexInv
  BY ServingConstants DEF GatewayInit, GatewayType, IndexInv, HandlerStates
<1>2. CountedSet = {} /\ AdmittedSet = {} /\ \A b \in Backends : Holders(b) = {}
  BY DEF GatewayInit, CountedSet, AdmittedSet, Holders, Counted, Admitted, Holds
<1>3. Cardinality({}) = 0
  BY FS_EmptySet
<1>4. ActiveExact /\ AdmissionBound /\ InflightExact
  BY <1>2, <1>3, CountDefs, ServingConstants DEF GatewayInit
<1> QED
  BY <1>1, <1>4 DEF GatewayInv

\* What the API servers do is none of the gateway's counts' business.
LEMMA GatewayFrame ==
    ASSUME GatewayInv, UNCHANGED gatewayVars
    PROVE  GatewayInv'
BY DEF gatewayVars, countVars, poolVars, GatewayInv, GatewayType, IndexInv, InflightExact,
       ActiveExact, AdmissionBound, Holds, Counted, Admitted

\* The counts are exact and the queue is bounded in every reachable state.
LEMMA GatewayAlways == Spec => []GatewayInv
<1>1. Init => GatewayInv
  BY GatewayInitInv DEF Init
<1>2. ASSUME GatewayInv, [Next]_vars PROVE GatewayInv'
  <2>1. CASE GatewayNext
    BY <1>2, <2>1, GatewayStep
  <2>2. CASE UNCHANGED gatewayVars
    BY <1>2, <2>2, GatewayFrame
  <2> QED
    BY <1>2, <2>1, <2>2 DEF Next, vars
<1> QED
  BY <1>1, <1>2, PTL DEF Spec

\* inflight[b] is the number of handlers that hold backend b, and never above
\* maxInflightPerBackend, for every number of clients and backends.
THEOREM InflightHolds == Spec => []InflightExact
<1>1. GatewayInv => InflightExact
  BY DEF GatewayInv
<1> QED
  BY <1>1, GatewayAlways, PTL

\* activeRequests is the number of counted handlers, less one for every 429 of a
\* busy gateway that could not be written.
THEOREM ActiveHolds == Spec => []ActiveExact
<1>1. GatewayInv => ActiveExact
  BY DEF GatewayInv
<1> QED
  BY <1>1, GatewayAlways, PTL

\* No more than maxQueue handlers get past the bound, plus those counts that were
\* given back twice.
THEOREM AdmissionHolds == Spec => []AdmissionBound
<1>1. GatewayInv => AdmissionBound
  BY DEF GatewayInv
<1> QED
  BY <1>1, GatewayAlways, PTL

-----------------------------------------------------------------------------
(* The connections.                                                        *)

ConnectionType ==
    /\ link \in [Clients -> LinkStates] /\ listening \in [Backends -> BOOLEAN]
    /\ backlog \in [Backends -> Seq(Clients)]

\* A connection that can still carry an answer has a handler that waits for it.
LinkInv ==
    up => \A c \in Clients : /\ link[c] = "open" => handler[c] = "send"
                             /\ link[c] \in {"sent", "data"} => handler[c] = "proxy"

-----------------------------------------------------------------------------
(* The prompt cache and the KV cache of one server.                        *)

Entry == [endPos : 0..seqLen, message : Contents]
KvRows == [Positions -> Seq(Contents)]
Locals == [pos : 0..seqLen, promptEndPos : 0..seqLen, base : Nat]

ApiType ==
    /\ request \in Workloads
    /\ server \in [Backends -> ServerStates]
    /\ serving \in [Backends -> Clients \cup {NoClient}]
    /\ cache \in [Backends -> Seq(Entry)] /\ kv \in [Backends -> KvRows]
    /\ local \in [Backends -> Locals]
    /\ clusterLost \in [Backends -> BOOLEAN] /\ backed \in [Backends -> Nat]

\* A row was computed by a request whose messages are a prefix of the cached ones.
RowOK(row, items) ==
    /\ row # NoRow /\ Len(row) <= Len(items)
    /\ \A k \in 1..Len(row) : row[k] = items[k].message

\* End positions grow, and the rows below those of the first n entries are there.
CacheOK(items, rows, n) ==
    /\ n \in 0..Len(items)
    /\ \A i, j \in 1..Len(items) : i <= j => items[i].endPos <= items[j].endPos
    /\ \A i \in 1..n : \A p \in 0..(items[i].endPos - 1) : RowOK(rows[p], items)

StartPos(items, base) == IF base = 0 THEN 0 ELSE items[base].endPos

\* A running completion of messages m, behind the reused entries: the cache
\* speaks of m, and the rows from where it started up to pos are its own.
RunOK(phase, m, items, rows, l, n) ==
    /\ m # <<>> /\ Len(items) = Len(m)
    /\ \A i \in 1..Len(m) : items[i].message = m[i]
    /\ n <= l.base /\ l.base <= Len(items)
    /\ StartPos(items, l.base) <= l.pos
    /\ \A p \in StartPos(items, l.base)..(l.pos - 1) : rows[p] = m
    /\ \A i \in 1..Len(items) : items[i].endPos <= l.promptEndPos
    /\ phase = "prefill" => l.pos < l.promptEndPos
    /\ phase # "prefill" => l.promptEndPos <= l.pos
    /\ phase = "decode" => l.pos < seqLen

InCompletion == {"prefill", "decode", "finish"}

ServerInv(b) ==
    /\ server[b] \in InCompletion \cup {"read"} => serving[b] \in Clients
    /\ CacheOK(cache[b], kv[b], backed[b])
    /\ server[b] \in InCompletion =>
         RunOK(server[b], request[serving[b]].messages, cache[b], kv[b], local[b], backed[b])

ApiInv == ApiType /\ \A b \in Backends : ServerInv(b)

-----------------------------------------------------------------------------
\* Every step of the gateway keeps the connections and their handlers together.
LEMMA LinkGatewayStep ==
    ASSUME GatewayInv, ConnectionType, LinkInv, GatewayNext
    PROVE  ConnectionType' /\ LinkInv'
<1> USE DEF HandlerMoves, Catch, connectionVars, LinkStates
<1>0. GatewayType /\ IndexInv
  BY DEF GatewayInv
<1>1. ASSUME NEW c \in Clients, Enter(c) PROVE ConnectionType' /\ LinkInv'
  BY <1>0, <1>1 DEF Enter, GatewayType, ConnectionType, LinkInv
<1>2. ASSUME NEW c \in Clients, RejectFull(c) PROVE ConnectionType' /\ LinkInv'
  BY <1>0, <1>2 DEF RejectFull, GatewayType, ConnectionType, LinkInv
<1>3. ASSUME NEW c \in Clients, NEW ok \in BOOLEAN, Refuse(c, ok)
      PROVE  ConnectionType' /\ LinkInv'
  <2>1. CASE ok
    BY <1>0, <1>3, <2>1 DEF Refuse, GatewayType, ConnectionType, LinkInv
  <2>2. CASE ~ok
    BY <1>0, <1>3, <2>2 DEF Refuse, GatewayType, ConnectionType, LinkInv, ClosedByGateway
  <2> QED
    BY <2>1, <2>2
<1>4. ASSUME NEW c \in Clients, ReadFails(c) PROVE ConnectionType' /\ LinkInv'
  BY <1>0, <1>4 DEF ReadFails, GatewayType, ConnectionType, LinkInv
<1>5. ASSUME NEW c \in Clients, SelectBackend(c) PROVE ConnectionType' /\ LinkInv'
  <2>1. /\ UNCHANGED <<up, link, backlog, listening>> /\ handler[c] = "read"
        /\ handler' = [handler EXCEPT ![c] = IF Eligible = {} THEN "busy" ELSE "connect"]
    BY <1>5 DEF SelectBackend
  <2> QED
    BY <1>0, <2>1 DEF GatewayType, ConnectionType, LinkInv
<1>6. ASSUME NEW c \in Clients, RejectBusy(c) PROVE ConnectionType' /\ LinkInv'
  BY <1>0, <1>6 DEF RejectBusy, GatewayType, ConnectionType, LinkInv
<1>7. ASSUME NEW c \in Clients, NEW ok \in BOOLEAN, Deny(c, ok)
      PROVE  ConnectionType' /\ LinkInv'
  BY <1>0, <1>7 DEF Deny, GatewayType, ConnectionType, LinkInv
<1>8. ASSUME NEW c \in Clients, Connect(c) PROVE ConnectionType' /\ LinkInv'
  <2>1. backendIndex[c] \in Backends
    BY <1>0, <1>8 DEF Connect, GatewayType, IndexInv
  <2>2. backlog' \in [Backends -> Seq(Clients)]
    <3>1. Append(backlog[backendIndex[c]], c) \in Seq(Clients)
      BY <2>1, AppendProperties DEF ConnectionType
    <3>2. \/ backlog' = backlog
          \/ backlog' = [backlog EXCEPT ![backendIndex[c]] = Append(backlog[backendIndex[c]], c)]
      BY <1>8 DEF Connect
    <3> QED
      BY <2>1, <3>1, <3>2 DEF ConnectionType
  <2>3. /\ link' \in [Clients -> LinkStates] /\ listening' = listening /\ up' = up
        /\ LinkInv'
    BY <1>0, <1>8 DEF Connect, GatewayType, ConnectionType, LinkInv
  <2> QED
    BY <2>2, <2>3 DEF ConnectionType
<1>9. ASSUME NEW c \in Clients, SendRequest(c) PROVE ConnectionType' /\ LinkInv'
  BY <1>0, <1>9 DEF SendRequest, GatewayType, ConnectionType, LinkInv
<1>10. ASSUME NEW c \in Clients, ProxyEnds(c) PROVE ConnectionType' /\ LinkInv'
  BY <1>0, <1>10 DEF ProxyEnds, GatewayType, ConnectionType, LinkInv
<1>11. ASSUME NEW c \in Clients, ClientLost(c) PROVE ConnectionType' /\ LinkInv'
  BY <1>0, <1>11 DEF ClientLost, GatewayType, ConnectionType, LinkInv, ClosedByGateway
<1>12. ASSUME NEW c \in Clients, Release(c) PROVE ConnectionType' /\ LinkInv'
  BY <1>0, <1>12 DEF Release, GatewayType, ConnectionType, LinkInv
<1>13. ASSUME NEW c \in Clients, Leave(c) PROVE ConnectionType' /\ LinkInv'
  BY <1>0, <1>13 DEF Leave, GatewayType, ConnectionType, LinkInv
<1>14. ASSUME NEW b \in Backends, HealthRetry(b) PROVE ConnectionType' /\ LinkInv'
  BY <1>0, <1>14 DEF HealthRetry, ConnectionType, LinkInv
<1> QED
  BY <1>1, <1>2, <1>3, <1>4, <1>5, <1>6, <1>7, <1>8, <1>9, <1>10, <1>11, <1>12, <1>13, <1>14
     DEF GatewayNext, HandlerStep

\* What a server may do to a connection: write the first bytes of the answer, or
\* close or reset it.
ServerMovesLink ==
    /\ link' \in [Clients -> LinkStates]
    /\ \A c \in Clients : \/ link'[c] = link[c]
                          \/ link[c] = "sent" /\ link'[c] = "data"
                          \/ link'[c] \notin {"open", "sent", "data"}

\* Every step of a server is of this kind.
LEMMA ServerStepLinks ==
    ASSUME ConnectionType, NEW b \in Backends, ServerStep(b) \/ WorkerLost(b)
    PROVE  ConnectionType' /\ ServerMovesLink
<1> USE DEF connectionVars, LinkStates, ServerMovesLink, EndRequest, ServerMoves
<1>1. CASE ApiAccept(b)
  <2>1. backlog' \in [Backends -> Seq(Clients)]
    BY <1>1, HeadTailProperties DEF ApiAccept, ConnectionType
  <2> QED
    BY <1>1, <2>1 DEF ApiAccept, ConnectionType
<1>2. CASE AnswerPlain(b)
  BY <1>2 DEF AnswerPlain, ConnectionType, ClosedByServer, Answered
<1>3. ASSUME NEW to, LeaveServer(b, to) PROVE ConnectionType' /\ ServerMovesLink
  <2>1. backlog' \in [Backends -> Seq(Clients)] /\ listening' \in [Backends -> BOOLEAN]
    BY <1>3, EmptySeq DEF LeaveServer, ConnectionType
  <2>2. /\ [link EXCEPT ![serving[b]] = ClosedByServer(@)] \in [Clients -> LinkStates]
        /\ \A c \in Clients :
             LET l == [link EXCEPT ![serving[b]] = ClosedByServer(@)]
             IN  l[c] = link[c] \/ l[c] \notin {"open", "sent", "data"}
    BY DEF ConnectionType, ClosedByServer
  <2>3. ServerMovesLink
    BY <1>3, <2>2 DEF LeaveServer, ResetBacklog
  <2> QED
    BY <2>1, <2>3 DEF ConnectionType
<1>4. CASE ApiReadFails(b)
  BY <1>3, <1>4 DEF ApiReadFails
<1>5. ASSUME NEW ok \in BOOLEAN, BeginCompletion(b, ok) PROVE ConnectionType' /\ ServerMovesLink
  <2>1. /\ backlog' = backlog /\ listening' = listening
        /\ \/ link' = link
           \/ \E c : link' = [link EXCEPT ![c] = IF request[c].stream THEN Answered(@) ELSE @]
    BY <1>5, Zenon DEF BeginCompletion
  <2> QED
    BY <2>1 DEF ConnectionType, Answered
<1>6. CASE PrefillChunk(b)
  BY <1>6 DEF PrefillChunk, ConnectionType
<1>7. ASSUME NEW eos \in BOOLEAN, NEW ok \in BOOLEAN, DecodeToken(b, eos, ok)
      PROVE ConnectionType' /\ ServerMovesLink
  <2>1. UNCHANGED <<link, backlog, listening>>
    BY <1>7 DEF DecodeToken
  <2> QED
    BY <2>1 DEF ConnectionType
<1>8. CASE ControlWriteFails(b)
  BY <1>8 DEF ControlWriteFails, ConnectionType, ClosedByServer
<1>9. CASE ExecutorFails(b)
  BY <1>3, <1>9 DEF ExecutorFails
<1>10. CASE PipelineFails(b)
  BY <1>3, <1>10 DEF PipelineFails
<1>11. CASE RunAgain(b)
  BY <1>11 DEF RunAgain, ConnectionType
<1>12. ASSUME NEW answer \in Answers, FinishCompletion(b, answer)
       PROVE  ConnectionType' /\ ServerMovesLink
  <2>1. /\ UNCHANGED <<backlog, listening>>
        /\ link' = [link EXCEPT ![serving[b]] = ClosedByServer(Answered(@))]
    BY <1>12 DEF FinishCompletion
  <2> QED
    BY <2>1 DEF ConnectionType, ClosedByServer, Answered
<1>13. CASE WorkerLost(b)
  BY <1>13 DEF WorkerLost, ConnectionType
<1> QED
  BY <1>1, <1>2, <1>4, <1>5, <1>6, <1>7, <1>8, <1>9, <1>10, <1>11, <1>12, <1>13 DEF ServerStep

\* The same for the handlers behind the connections.
LEMMA LinkServerStep ==
    ASSUME ConnectionType, LinkInv, NEW b \in Backends, ServerStep(b) \/ WorkerLost(b),
           UNCHANGED gatewayVars
    PROVE  ConnectionType' /\ LinkInv'
<1>1. ConnectionType' /\ ServerMovesLink
  BY ServerStepLinks
<1>2. LinkInv'
  BY <1>1 DEF LinkInv, ServerMovesLink, gatewayVars, ConnectionType
<1> QED
  BY <1>1, <1>2

\* Connections and handlers stay together in every reachable state.
LEMMA LinkAlways == Spec => [](ConnectionType /\ LinkInv)
<1>1. Init => ConnectionType /\ LinkInv
  <2>1. ConnectionsInit => ConnectionType
    BY EmptySeq DEF ConnectionsInit, ConnectionType, LinkStates
  <2>2. ConnectionsInit => LinkInv
    BY DEF ConnectionsInit, LinkInv
  <2> QED
    BY <2>1, <2>2 DEF Init
<1>2. ASSUME GatewayInv, ConnectionType, LinkInv, [Next]_vars PROVE (ConnectionType /\ LinkInv)'
  <2>1. CASE GatewayNext
    BY <1>2, <2>1, LinkGatewayStep
  <2>2. ASSUME NEW b \in Backends, ServerStep(b) \/ WorkerLost(b), UNCHANGED gatewayVars
        PROVE  (ConnectionType /\ LinkInv)'
    BY <1>2, <2>2, LinkServerStep
  <2>3. CASE UNCHANGED vars
    BY <1>2, <2>3 DEF vars, gatewayVars, connectionVars, ConnectionType, LinkInv
  <2> QED
    BY <1>2, <2>1, <2>2, <2>3 DEF Next
<1> QED
  BY <1>1, <1>2, GatewayAlways, PTL DEF Spec

\* The connections a server must still answer to someone are covered by the
\* gateway's count for it, whatever was lost, closed or reset on the way.
THEOREM LoadHolds == Spec => []LoadIsCounted
<1>1. ASSUME GatewayInv, ConnectionType, LinkInv PROVE LoadIsCounted
  <2> SUFFICES ASSUME up, NEW b \in Backends
               PROVE  Cardinality({c \in Clients : /\ backendIndex[c] = b
                                                   /\ link[c] \in {"open", "sent", "data"}})
                        <= inflight[b]
    BY DEF LoadIsCounted
  <2> DEFINE L == {c \in Clients : /\ backendIndex[c] = b
                                   /\ link[c] \in {"open", "sent", "data"}}
  <2>0. \A c \in Clients : link[c] \in {"open", "sent", "data"} => handler[c] \in {"send", "proxy"}
    <3>1. \A c \in Clients : /\ link[c] = "open" => handler[c] = "send"
                             /\ link[c] \in {"sent", "data"} => handler[c] = "proxy"
      BY <1>1, Zenon DEF LinkInv
    <3> QED
      BY <3>1
  <2>1. L \in SUBSET Holders(b) /\ Holders(b) \in SUBSET Clients
    BY <2>0 DEF Holders, Holds
  <2> HIDE DEF L
  <2>2. IsFiniteSet(Holders(b))
    BY <2>1, ServingConstants, FS_Subset, Zenon
  <2>3. Cardinality(L) <= Cardinality(Holders(b))
    BY <2>1, <2>2, FS_Subset, Zenon
  <2>4. inflight[b] = Cardinality(Holders(b))
    BY <1>1, CountDefs DEF GatewayInv
  <2>5. Cardinality(L) <= inflight[b]
    BY <2>3, <2>4, Zenon
  <2> QED
    BY <2>5 DEF L
<1> QED
  BY <1>1, GatewayAlways, LinkAlways, PTL

-----------------------------------------------------------------------------
(* What the steps of a completion do to the two caches.                    *)

\* Constants of the API servers.
LEMMA ApiConstants ==
    /\ seqLen \in Nat /\ seqLen > 0 /\ prefillBatchCap \in Nat /\ prefillBatchCap > 0
    /\ Answers \subseteq Contents
    /\ \A w \in Workloads : \A c \in Clients :
         /\ w[c].messages \in Seq(Contents) /\ w[c].stream \in BOOLEAN
         /\ w[c].max_tokens \in (Nat \ {0}) \cup {-1}
BY ApiAssumption

\* The entries of a prompt cache.
LEMMA EntriesOf ==
    ASSUME NEW items \in Seq(Entry)
    PROVE  /\ Len(items) \in Nat
           /\ \A i \in 1..Len(items) : /\ items[i] \in Entry /\ items[i].endPos \in 0..seqLen
                                       /\ items[i].message \in Contents
<1>1. Len(items) \in Nat
  BY LenProperties
<1>2. \A i \in 1..Len(items) : items[i] \in Entry
  BY ElementOfSeq
<1> QED
  BY <1>1, <1>2 DEF Entry

\* A row that a prefix of the cached messages computed stays one when the cache grows.
LEMMA RowOfLongerCache ==
    ASSUME NEW row \in Seq(Contents), NEW items \in Seq(Entry), NEW more \in Seq(Entry),
           RowOK(row, items), Len(items) <= Len(more),
           \A i \in 1..Len(items) : more[i] = items[i]
    PROVE  RowOK(row, more)
<1>1. Len(row) \in Nat /\ Len(items) \in Nat /\ Len(more) \in Nat
  BY LenProperties
<1> QED
  BY <1>1 DEF RowOK

\* The KV cache after forward() has computed positions from..(to - 1) of messages m.
Written(rows, m, from, to) == [p \in Positions |-> IF p \in from..(to - 1) THEN m ELSE rows[p]]

\* forward() writes rows from pos on: the rows the backed entries speak of lie
\* below, and the completion's own rows now reach up to next.
LEMMA WriteKeepsCache ==
    ASSUME NEW items \in Seq(Entry), NEW rows \in KvRows, NEW m \in Seq(Contents),
           NEW l \in Locals, NEW n \in Nat, NEW phase, NEW next \in 0..seqLen, l.pos <= next,
           CacheOK(items, rows, n), RunOK(phase, m, items, rows, l, n),
           NEW new, new = Written(rows, m, l.pos, next)
    PROVE  /\ new \in KvRows /\ CacheOK(items, new, n)
           /\ \A p \in StartPos(items, l.base)..(next - 1) : new[p] = m
<1>0. /\ Len(items) \in Nat /\ seqLen \in Nat /\ l.pos \in 0..seqLen /\ l.base \in Nat
      /\ \A i \in 1..Len(items) : items[i] \in Entry /\ items[i].endPos \in 0..seqLen
      /\ Positions = 0..(seqLen - 1)
  BY EntriesOf, ApiConstants DEF Locals, Positions
<1>1. new \in KvRows
  BY DEF KvRows, Written
<1>2. n <= l.base /\ l.base <= Len(items) /\ StartPos(items, l.base) <= l.pos
  BY DEF RunOK
<1>3. StartPos(items, l.base) \in 0..seqLen
  BY <1>0, <1>2 DEF StartPos
<1>4. ASSUME NEW i \in 1..n PROVE items[i].endPos <= l.pos
  <2>1. i \in 1..Len(items) /\ l.base \in 1..Len(items) /\ i <= l.base /\ l.base # 0
    BY <1>0, <1>2, <1>4
  <2>2. items[i].endPos <= items[l.base].endPos
    BY <2>1 DEF CacheOK
  <2>3. items[l.base].endPos <= l.pos
    BY <1>2, <2>1 DEF StartPos
  <2> QED
    BY <1>0, <2>1, <2>2, <2>3
<1>5. ASSUME NEW i \in 1..n, NEW p \in 0..(items[i].endPos - 1) PROVE RowOK(new[p], items)
  <2>1. i \in 1..Len(items)
    BY <1>0, <1>2
  <2>2. p \in Positions /\ p \notin l.pos..(next - 1)
    BY <1>0, <1>4, <2>1
  <2>3. new[p] = rows[p]
    BY <2>2 DEF Written
  <2> QED
    BY <2>3 DEF CacheOK
<1>6. ASSUME NEW p \in StartPos(items, l.base)..(next - 1) PROVE new[p] = m
  <2>1. p \in Positions
    BY <1>0, <1>3
  <2>2. p \in l.pos..(next - 1) \/ p \in StartPos(items, l.base)..(l.pos - 1)
    BY <1>0, <1>3
  <2> QED
    BY <2>1, <2>2 DEF RunOK, Written
<1>7. CacheOK(items, new, n)
  BY <1>5 DEF CacheOK
<1> QED
  BY <1>1, <1>6, <1>7

\* The cache with the answer in it, and how many of its entries are backed.
WithAnswer(items, l, answer) == Append(items, [endPos |-> l.pos, message |-> answer])
BackedThen(n, l, items) == IF n = l.base THEN Len(items) ELSE Min2(n, Len(items))

\* The answer enters the cache: when the entries the completion was built on are
\* backed, so are all entries now.
LEMMA FinishKeepsCache ==
    ASSUME NEW items \in Seq(Entry), NEW rows \in KvRows, NEW m \in Seq(Contents),
           NEW l \in Locals, NEW n \in Nat, NEW answer \in Contents,
           CacheOK(items, rows, n), RunOK("finish", m, items, rows, l, n),
           NEW new, new = WithAnswer(items, l, answer), NEW k, k = BackedThen(n, l, new)
    PROVE  new \in Seq(Entry) /\ CacheOK(new, rows, k)
<1>0. /\ Len(items) \in Nat /\ seqLen \in Nat /\ l.pos \in 0..seqLen /\ l.base \in Nat
      /\ l.promptEndPos \in 0..seqLen
      /\ \A i \in 1..Len(items) : items[i] \in Entry /\ items[i].endPos \in 0..seqLen
      /\ Positions = 0..(seqLen - 1)
  BY EntriesOf, ApiConstants DEF Locals, Positions
<1>1. [endPos |-> l.pos, message |-> answer] \in Entry
  BY <1>0 DEF Entry
<1>2. /\ new \in Seq(Entry) /\ Len(new) = Len(items) + 1
      /\ \A i \in 1..Len(items) : new[i] = items[i]
      /\ new[Len(items) + 1] = [endPos |-> l.pos, message |-> answer]
  BY <1>1, AppendProperties DEF WithAnswer
<1>3. /\ n <= l.base /\ l.base <= Len(items) /\ StartPos(items, l.base) <= l.pos
      /\ l.promptEndPos <= l.pos /\ m # <<>> /\ Len(items) = Len(m)
  BY DEF RunOK
<1>4. ASSUME NEW i \in 1..Len(new) PROVE new[i].endPos \in 0..seqLen /\ new[i].endPos <= l.pos
  <2>1. CASE i = Len(items) + 1
    BY <1>0, <1>2, <2>1
  <2>2. CASE i # Len(items) + 1
    <3>1. i \in 1..Len(items)
      BY <1>0, <1>2, <2>2
    <3>2. items[i].endPos <= l.promptEndPos
      BY <3>1 DEF RunOK
    <3> QED
      BY <1>0, <1>2, <1>3, <3>1, <3>2
  <2> QED
    BY <2>1, <2>2
<1>5. ASSUME NEW i \in 1..Len(new), NEW j \in 1..Len(new), i <= j
      PROVE  new[i].endPos <= new[j].endPos
  <2>1. CASE j = Len(items) + 1
    BY <1>2, <1>4, <2>1
  <2>2. CASE j # Len(items) + 1
    <3>1. i \in 1..Len(items) /\ j \in 1..Len(items)
      BY <1>0, <1>2, <1>5, <2>2
    <3> QED
      BY <1>2, <1>5, <3>1 DEF CacheOK
  <2> QED
    BY <2>1, <2>2
<1>6. ASSUME NEW p \in Positions, RowOK(rows[p], items) PROVE RowOK(rows[p], new)
  <2>1. rows[p] \in Seq(Contents)
    BY DEF KvRows
  <2>2. Len(items) <= Len(new)
    BY <1>0, <1>2
  <2> QED
    BY <1>2, <1>6, <2>1, <2>2, RowOfLongerCache
<1>7. RowOK(m, new)
  <2>1. RowOK(m, items)
    BY <1>0, <1>3, LenProperties DEF RunOK, RowOK, NoRow
  <2>2. Len(items) <= Len(new)
    BY <1>0, <1>2
  <2> QED
    BY <1>2, <2>1, <2>2, RowOfLongerCache
<1>8. ASSUME NEW i \in 1..n, NEW p \in 0..(items[i].endPos - 1) PROVE RowOK(rows[p], new)
  <2>1. i \in 1..Len(items)
    BY <1>0, <1>3
  <2>2. p \in Positions
    BY <1>0, <2>1
  <2> QED
    BY <1>6, <2>2 DEF CacheOK
<1>9. CASE n = l.base
  <2>1. k = Len(new)
    BY <1>9 DEF BackedThen
  <2>2. ASSUME NEW p \in 0..(l.pos - 1) PROVE RowOK(rows[p], new)
    <3>1. CASE p < StartPos(items, l.base)
      <4>1. l.base # 0 /\ l.base \in 1..n /\ p \in 0..(items[l.base].endPos - 1)
        BY <1>0, <1>3, <1>9, <3>1 DEF StartPos
      <4> QED
        BY <1>8, <4>1
    <3>2. CASE ~(p < StartPos(items, l.base))
      <4>1. StartPos(items, l.base) \in Int
        BY <1>0, <1>3 DEF StartPos
      <4>2. p \in StartPos(items, l.base)..(l.pos - 1)
        BY <1>0, <3>2, <4>1
      <4>3. rows[p] = m
        BY <4>2 DEF RunOK
      <4> QED
        BY <1>7, <4>3
    <3> QED
      BY <3>1, <3>2
  <2>3. ASSUME NEW i \in 1..k, NEW p \in 0..(new[i].endPos - 1) PROVE RowOK(rows[p], new)
    <3>1. p \in 0..(l.pos - 1)
      <4>1. i \in 1..Len(new)
        BY <2>1
      <4>2. new[i].endPos \in 0..seqLen /\ new[i].endPos <= l.pos
        BY <1>4, <4>1
      <4> QED
        BY <1>0, <4>2
    <3> QED
      BY <2>2, <3>1
  <2> QED
    BY <1>0, <1>2, <1>5, <2>1, <2>3, SMTT(30) DEF CacheOK
<1>10. CASE n # l.base
  <2>1. k = n /\ n <= Len(items)
    BY <1>0, <1>2, <1>3, <1>10 DEF Min2, BackedThen
  <2>2. ASSUME NEW i \in 1..k, NEW p \in 0..(new[i].endPos - 1) PROVE RowOK(rows[p], new)
    <3>1. i \in 1..Len(items) /\ i \in 1..n
      BY <1>0, <2>1
    <3> QED
      BY <1>2, <1>8, <3>1
  <2>3. k \in 0..Len(new)
    BY <1>0, <1>2, <2>1
  <2> QED
    BY <1>2, <1>5, <2>2, <2>3 DEF CacheOK
<1> QED
  BY <1>9, <1>10

\* A function on 1..n is a sequence of length n.
LEMMA FunctionIsSeq ==
    ASSUME NEW n \in Nat, NEW S, NEW f \in [1..n -> S]
    PROVE  f \in Seq(S) /\ Len(f) = n
<1>1. f = [i \in 1..n |-> f[i]] /\ \A i \in 1..n : f[i] \in S
  OBVIOUS
<1>2. [i \in 1..n |-> f[i]] \in Seq(S) /\ Len([i \in 1..n |-> f[i]]) = n
  BY <1>1
<1> QED
  BY <1>1, <1>2, Zenon

\* The first k entries of a cache.
LEMMA KeptEntries ==
    ASSUME NEW items \in Seq(Entry), NEW k \in Nat, k <= Len(items)
    PROVE  /\ SubSeq(items, 1, k) \in Seq(Entry) /\ Len(SubSeq(items, 1, k)) = k
           /\ \A i \in 1..k : SubSeq(items, 1, k)[i] = items[i]
<1>1. Len(items) \in Nat /\ \A i \in 1..Len(items) : items[i] \in Entry
  BY EntriesOf
<1>2. \A i \in 1..k : items[i] \in Entry
  BY <1>1
<1>3. /\ SubSeq(items, 1, k) \in Seq(Entry)
      /\ Len(SubSeq(items, 1, k)) = IF 1 <= k THEN k - 1 + 1 ELSE 0
      /\ \A i \in 1..(k - 1 + 1) : SubSeq(items, 1, k)[i] = items[1 + i - 1]
  BY <1>2, SubSeqProperties
<1> QED
  BY <1>3

\* The messages behind the first k.
LEMMA RestOfMessages ==
    ASSUME NEW m \in Seq(Contents), NEW k \in Nat, k <= Len(m)
    PROVE  /\ Rest(m, k) \in [1..(Len(m) - k) -> Contents] /\ Len(Rest(m, k)) = Len(m) - k
           /\ DOMAIN Rest(m, k) = 1..(Len(m) - k)
           /\ \A i \in 1..(Len(m) - k) : Rest(m, k)[i] = m[k + i]
<1>0. Len(m) \in Nat /\ \A i \in 1..Len(m) : m[i] \in Contents
  BY LenProperties, ElementOfSeq
<1>1. PICK d : d = Rest(m, k)
  OBVIOUS
<1>2. \A i \in (k + 1)..Len(m) : m[i] \in Contents
  BY <1>0
<1>3. /\ d \in Seq(Contents)
      /\ Len(d) = IF k + 1 <= Len(m) THEN Len(m) - (k + 1) + 1 ELSE 0
      /\ \A i \in 1..(Len(m) - (k + 1) + 1) : d[i] = m[k + 1 + i - 1]
  BY <1>0, <1>1, <1>2, SubSeqProperties DEF Rest
<1>4. Len(d) = Len(m) - k
  BY <1>0, <1>3
<1>5. d \in [1..(Len(m) - k) -> Contents] /\ DOMAIN d = 1..(Len(m) - k)
  BY <1>3, <1>4, LenProperties
<1>6. ASSUME NEW i \in 1..(Len(m) - k) PROVE d[i] = m[k + i]
  <2>1. i \in 1..(Len(m) - (k + 1) + 1) /\ k + 1 + i - 1 = k + i
    BY <1>0
  <2> QED
    BY <1>3, <2>1
<1> QED
  BY <1>1, <1>4, <1>5, <1>6, Zenon

\* The cache behind BeginCompletion: k old entries, then one for every message
\* behind them, all with the end of the prompt.
EntriesBehind(m, k, end) ==
    [i \in DOMAIN Rest(m, k) |-> [endPos |-> end, message |-> Rest(m, k)[i]]]

NewItems(items, m, k, end) == SubSeq(items, 1, k) \o EntriesBehind(m, k, end)

\* The first k entries of items can serve a request for messages m.
Serves(items, m, k) ==
    /\ k \in Nat /\ k <= Len(items) /\ k < Len(m)
    /\ k = 0 \/ k = Len(items)
    /\ \A i \in 1..k : items[i].message = m[i]

\* new is the cache behind BeginCompletion, entry by entry.
EntersAll(new, items, m, k, end) ==
    /\ Len(new) = Len(m)
    /\ \A i \in 1..k : new[i] = items[i]
    /\ \A i \in 1..Len(m) : i > k => new[i].endPos = end /\ new[i].message = m[i]

\* What those entries are.
LEMMA NewEntries ==
    ASSUME NEW items \in Seq(Entry), NEW m \in Seq(Contents), NEW k, Serves(items, m, k),
           NEW end \in 0..seqLen, NEW new, new = NewItems(items, m, k, end)
    PROVE  new \in Seq(Entry) /\ EntersAll(new, items, m, k, end)
<1>0. k \in Nat /\ k <= Len(items) /\ k <= Len(m)
  BY LenProperties DEF Serves
<1>1. PICK d : d = Rest(m, k)
  OBVIOUS
<1>2. PICK size : size = Len(m) - k
  OBVIOUS
<1>3. /\ size \in Nat /\ d \in [1..size -> Contents] /\ DOMAIN d = 1..size
      /\ \A i \in 1..size : d[i] = m[k + i]
  <2>1. Len(m) - k \in Nat
    BY <1>0, LenProperties
  <2> QED
    BY <1>0, <1>1, <1>2, <2>1, RestOfMessages, Zenon
<1>4. PICK entries : entries = EntriesBehind(m, k, end)
  OBVIOUS
<1>5. entries = [i \in 1..size |-> [endPos |-> end, message |-> d[i]]]
  BY <1>1, <1>3, <1>4, Zenon DEF EntriesBehind
<1>6. /\ entries \in Seq(Entry) /\ Len(entries) = size
      /\ \A i \in 1..size : entries[i].endPos = end /\ entries[i].message = d[i]
  <2>1. entries \in [1..size -> Entry]
    BY <1>3, <1>5 DEF Entry
  <2>2. \A i \in 1..size : entries[i].endPos = end /\ entries[i].message = d[i]
    BY <1>5
  <2>3. entries \in Seq(Entry) /\ Len(entries) = size
    BY <1>3, <2>1, FunctionIsSeq
  <2> QED
    BY <2>2, <2>3
<1>7. PICK kept : kept = SubSeq(items, 1, k)
  OBVIOUS
<1>8. kept \in Seq(Entry) /\ Len(kept) = k /\ \A i \in 1..k : kept[i] = items[i]
  BY <1>0, <1>7, KeptEntries, Zenon
<1>9. /\ Len(entries) = Len(m) - k
      /\ \A i \in 1..(Len(m) - k) : entries[i].endPos = end /\ entries[i].message = m[k + i]
  BY <1>2, <1>3, <1>6, Zenon
<1>10. new = kept \o entries
  BY <1>4, <1>7, Zenon DEF NewItems
<1>11. /\ new \in Seq(Entry) /\ Len(new) = Len(kept) + Len(entries)
       /\ \A i \in 1 .. Len(kept) + Len(entries) :
            new[i] = IF i <= Len(kept) THEN kept[i] ELSE entries[i - Len(kept)]
  <2>1. kept \in Seq(Entry) /\ entries \in Seq(Entry)
    BY <1>6, <1>8
  <2> QED
    BY <1>10, <2>1, ConcatProperties
<1>12. /\ Len(m) \in Nat /\ Len(kept) = k /\ Len(entries) = Len(m) - k /\ Len(m) - k \in Nat
  BY <1>0, <1>2, <1>3, <1>8, <1>9, LenProperties
<1>13. Len(new) = Len(m)
  BY <1>11, <1>12
<1>14. ASSUME NEW i \in 1..k PROVE new[i] = items[i]
  <2>1. i \in 1 .. Len(kept) + Len(entries) /\ i <= Len(kept)
    BY <1>0, <1>12
  <2> QED
    BY <1>8, <1>11, <2>1
<1>15. ASSUME NEW i \in 1..Len(m), i > k PROVE new[i].endPos = end /\ new[i].message = m[i]
  <2>1. /\ i \in 1 .. Len(kept) + Len(entries) /\ ~(i <= Len(kept)) /\ i - Len(kept) = i - k
        /\ i - k \in 1..(Len(m) - k) /\ k + (i - k) = i
    BY <1>0, <1>12, <1>15
  <2>2. new[i] = entries[i - k]
    BY <1>11, <2>1
  <2>3. entries[i - k].endPos = end /\ entries[i - k].message = m[k + (i - k)]
    BY <1>9, <2>1
  <2> QED
    BY <2>1, <2>2, <2>3
<1> QED
  BY <1>11, <1>13, <1>14, <1>15 DEF EntersAll

\* A completion begins: the entries that are kept are none or all, and then a
\* proper prefix of the messages; the backed ones among them stay backed.
LEMMA BeginKeepsCache ==
    ASSUME NEW items \in Seq(Entry), NEW rows \in KvRows, NEW m \in Seq(Contents),
           NEW n \in Nat, CacheOK(items, rows, n),
           NEW k, Serves(items, m, k), NEW end \in 0..seqLen, StartPos(items, k) <= end,
           NEW new \in Seq(Entry), EntersAll(new, items, m, k, end)
    PROVE  /\ CacheOK(new, rows, Min2(n, k))
           /\ StartPos(new, k) = StartPos(items, k)
           /\ \A i \in 1..Len(m) : new[i].message = m[i] /\ new[i].endPos <= end
<1> USE DEF Serves, EntersAll
<1>0. /\ Len(items) \in Nat /\ Len(m) \in Nat /\ seqLen \in Nat
      /\ \A i \in 1..Len(items) : items[i] \in Entry /\ items[i].endPos \in 0..seqLen
  BY LenProperties, EntriesOf, ApiConstants
<1>1. ASSUME NEW i \in 1..k PROVE items[i].endPos <= end
  <2>1. k # 0 /\ k \in 1..Len(items) /\ i \in 1..Len(items) /\ i <= k
    BY <1>0
  <2>2. items[i].endPos <= items[k].endPos
    BY <2>1 DEF CacheOK
  <2>3. items[k].endPos <= end
    BY <2>1 DEF StartPos
  <2> QED
    BY <1>0, <2>1, <2>2, <2>3
<1>2. ASSUME NEW i \in 1..Len(m) PROVE new[i].message = m[i] /\ new[i].endPos <= end
  <2>1. CASE i <= k
    <3>1. i \in 1..k
      BY <1>0, <2>1
    <3> QED
      BY <1>1, <3>1
  <2>2. CASE i > k
    BY <1>0, <2>2
  <2> QED
    BY <1>0, <2>1, <2>2
<1>3. ASSUME NEW i \in 1..Len(new), NEW j \in 1..Len(new), i <= j
      PROVE  new[i].endPos <= new[j].endPos
  <2>1. CASE j <= k
    <3>1. i \in 1..k /\ j \in 1..k /\ i \in 1..Len(items) /\ j \in 1..Len(items)
      BY <1>0, <1>3, <2>1
    <3> QED
      BY <1>3, <3>1 DEF CacheOK
  <2>2. CASE j > k
    <3>1. j \in 1..Len(m) /\ i \in 1..Len(m)
      OBVIOUS
    <3> QED
      BY <1>2, <2>2, <3>1
  <2> QED
    BY <1>0, <2>1, <2>2
<1>4. ASSUME NEW i \in 1..Min2(n, k), NEW p \in 0..(new[i].endPos - 1) PROVE RowOK(rows[p], new)
  <2>1. i \in 1..k /\ i \in 1..n /\ i \in 1..Len(items) /\ k = Len(items)
    BY <1>0 DEF Min2
  <2>2. new[i] = items[i]
    BY <2>1
  <2>3. RowOK(rows[p], items)
    BY <2>1, <2>2 DEF CacheOK
  <2>4. rows[p] \in Seq(Contents)
    BY <1>0, <2>1, <2>2 DEF KvRows, Positions
  <2>5. Len(items) <= Len(new)
    BY <1>0, <2>1
  <2> QED
    BY <2>1, <2>3, <2>4, <2>5, RowOfLongerCache
<1>5. Min2(n, k) \in 0..Len(new)
  BY <1>0 DEF Min2
<1>6. CacheOK(new, rows, Min2(n, k))
  BY <1>3, <1>4, <1>5 DEF CacheOK
<1>7. StartPos(new, k) = StartPos(items, k)
  BY <1>0 DEF StartPos
<1> QED
  BY <1>2, <1>6, <1>7

-----------------------------------------------------------------------------
(* The steps of a server.                                                  *)

\* What a step of server b leaves alone.
OthersKeep(b) ==
    /\ request' = request
    /\ \A d \in Backends \ {b} :
         /\ server'[d] = server[d] /\ serving'[d] = serving[d] /\ local'[d] = local[d]
         /\ cache'[d] = cache[d] /\ kv'[d] = kv[d] /\ backed'[d] = backed[d]

\* A step of one server leaves the others as they are.
LEMMA OneServer ==
    ASSUME ApiInv, NEW b \in Backends, ApiType', OthersKeep(b), ServerInv(b)'
    PROVE  ApiInv'
<1>1. ASSUME NEW d \in Backends PROVE ServerInv(d)'
  <2>1. CASE d = b
    BY <2>1
  <2>2. CASE d # b
    <3>1. ServerInv(d)
      BY DEF ApiInv
    <3>2. /\ request' = request /\ server'[d] = server[d] /\ serving'[d] = serving[d]
          /\ local'[d] = local[d] /\ cache'[d] = cache[d] /\ kv'[d] = kv[d]
          /\ backed'[d] = backed[d]
      BY <2>2 DEF OthersKeep
    <3> QED
      BY <3>1, <3>2, Zenon DEF ServerInv
  <2> QED
    BY <2>1, <2>2
<1> QED
  BY <1>1 DEF ApiInv

\* The request a server works on.
LEMMA RequestOf ==
    ASSUME ApiType, NEW c \in Clients
    PROVE  /\ request[c].messages \in Seq(Contents) /\ request[c].stream \in BOOLEAN
           /\ request[c].max_tokens \in (Nat \ {0}) \cup {-1}
BY ApiConstants DEF ApiType

\* A request ends without touching the two caches, at any point.
LEMMA EndKeeps ==
    ASSUME ApiInv, NEW b \in Backends, NEW to \in {"accept", "retry", "down"}, EndRequest(b, to),
           UNCHANGED <<request, cache, kv, backed>>, clusterLost' \in [Backends -> BOOLEAN]
    PROVE  ApiInv'
<1>1. NoLocal \in Locals
  BY ApiConstants DEF NoLocal, Locals
<1>2. ApiType'
  BY <1>1 DEF ApiInv, ApiType, EndRequest, ServerStates
<1>3. OthersKeep(b)
  BY DEF ApiInv, ApiType, EndRequest, OthersKeep
<1>4. CacheOK(cache[b], kv[b], backed[b])'
  BY DEF ApiInv, ServerInv
<1>5. server'[b] = to
  BY DEF EndRequest, ApiInv, ApiType
<1>6. ServerInv(b)'
  BY <1>4, <1>5 DEF ServerInv, InCompletion
<1> QED
  BY <1>2, <1>3, <1>6, OneServer

\* The steps that neither compute nor enter anything.
LEMMA IdleStep ==
    ASSUME ApiInv, ConnectionType, NEW b \in Backends,
           \/ ApiAccept(b) \/ AnswerPlain(b) \/ ApiReadFails(b) \/ ControlWriteFails(b)
           \/ ExecutorFails(b) \/ PipelineFails(b) \/ RunAgain(b) \/ WorkerLost(b)
    PROVE  ApiInv'
<1>0. clusterLost \in [Backends -> BOOLEAN]
  BY DEF ApiInv, ApiType
<1>1. CASE ApiAccept(b)
  <2>1. Head(backlog[b]) \in Clients
    BY <1>1, HeadTailProperties DEF ApiAccept, ConnectionType
  <2>2. ApiType'
    BY <1>1, <2>1 DEF ApiAccept, ServerMoves, promptVars, ApiInv, ApiType, ServerStates
  <2>3. OthersKeep(b)
    BY <1>1 DEF ApiAccept, ServerMoves, promptVars, ApiInv, ApiType, OthersKeep
  <2>4. CacheOK(cache[b], kv[b], backed[b])'
    BY <1>1 DEF ApiAccept, promptVars, ApiInv, ServerInv
  <2>5. server'[b] = "read" /\ serving'[b] \in Clients
    BY <1>1, <2>1 DEF ApiAccept, ServerMoves, ApiInv, ApiType
  <2>6. ServerInv(b)'
    BY <2>4, <2>5 DEF ServerInv, InCompletion
  <2> QED
    BY <2>2, <2>3, <2>6, OneServer
<1>2. CASE AnswerPlain(b)
  BY <1>0, <1>2, EndKeeps DEF AnswerPlain, promptVars
<1>3. CASE ApiReadFails(b)
  BY <1>0, <1>3, EndKeeps DEF ApiReadFails, LeaveServer, promptVars
<1>4. CASE ControlWriteFails(b)
  BY <1>0, <1>4, EndKeeps DEF ControlWriteFails, promptVars
<1>5. CASE ExecutorFails(b)
  BY <1>0, <1>5, EndKeeps DEF ExecutorFails, LeaveServer, promptVars
<1>6. CASE PipelineFails(b)
  BY <1>0, <1>6, EndKeeps DEF PipelineFails, LeaveServer, promptVars
<1>7. CASE RunAgain(b)
  <2>1. <<>> \in Seq(Entry) /\ Len(<<>>) = 0 /\ NoRow \in Seq(Contents)
    BY EmptySeq DEF NoRow
  <2>2. [p \in Positions |-> NoRow] \in KvRows
    BY <2>1 DEF KvRows
  <2>3. /\ server' = [server EXCEPT ![b] = "accept"] /\ cache' = [cache EXCEPT ![b] = <<>>]
        /\ kv' = [kv EXCEPT ![b] = [p \in Positions |-> NoRow]]
        /\ backed' = [backed EXCEPT ![b] = 0]
        /\ clusterLost' = [clusterLost EXCEPT ![b] = FALSE]
        /\ UNCHANGED <<request, serving, local>>
    BY <1>7 DEF RunAgain, ServerMoves
  <2>4. ApiType'
    <3>1. cache' \in [Backends -> Seq(Entry)]
      BY <2>1, <2>3 DEF ApiInv, ApiType
    <3>2. kv' \in [Backends -> KvRows]
      <4> HIDE DEF KvRows
      <4> QED
        BY <2>2, <2>3, Zenon DEF ApiInv, ApiType
    <3> QED
      BY <2>3, <3>1, <3>2 DEF ApiInv, ApiType, ServerStates
  <2>5. OthersKeep(b)
    BY <2>3 DEF ApiInv, ApiType, OthersKeep
  <2>6. cache'[b] = <<>> /\ backed'[b] = 0 /\ server'[b] = "accept"
    BY <2>3 DEF ApiInv, ApiType
  <2>7. CacheOK(<<>>, kv'[b], 0)
    BY <2>1 DEF CacheOK
  <2>8. ServerInv(b)'
    BY <2>6, <2>7 DEF ServerInv, InCompletion
  <2> QED
    BY <2>4, <2>5, <2>8, OneServer
<1>8. CASE WorkerLost(b)
  <2>1. UNCHANGED <<request, server, serving, local, cache, kv, backed>>
    BY <1>8 DEF WorkerLost, loopVars, promptVars
  <2>2. ApiType'
    BY <1>8, <2>1 DEF WorkerLost, ApiInv, ApiType
  <2> QED
    BY <2>1, <2>2 DEF ApiInv, ServerInv
<1> QED
  BY <1>1, <1>2, <1>3, <1>4, <1>5, <1>6, <1>7, <1>8

\* The answer and the end of a completion.
LEMMA FinishStep ==
    ASSUME ApiInv, NEW b \in Backends, NEW answer \in Answers, FinishCompletion(b, answer)
    PROVE  ApiInv'
<1>1. PICK items, n : /\ items = IF local[b].pos = seqLen THEN <<>>
                                 ELSE WithAnswer(cache[b], local[b], answer)
                      /\ n = BackedThen(backed[b], local[b], items)
  OBVIOUS
<1>2. /\ server[b] = "finish" /\ cache' = [cache EXCEPT ![b] = items]
      /\ backed' = [backed EXCEPT ![b] = n] /\ EndRequest(b, "accept")
      /\ UNCHANGED <<request, kv, clusterLost>>
  BY <1>1, Zenon DEF FinishCompletion, BackedAfter, WithAnswer, BackedThen
<1>3. /\ cache[b] \in Seq(Entry) /\ kv[b] \in KvRows /\ local[b] \in Locals /\ backed[b] \in Nat
      /\ serving[b] \in Clients /\ answer \in Contents
      /\ CacheOK(cache[b], kv[b], backed[b])
      /\ RunOK("finish", request[serving[b]].messages, cache[b], kv[b], local[b], backed[b])
  BY <1>2, ApiConstants DEF ApiInv, ApiType, ServerInv, InCompletion
<1>4. request[serving[b]].messages \in Seq(Contents)
  BY <1>3, RequestOf DEF ApiInv
<1>5. items \in Seq(Entry) /\ CacheOK(items, kv[b], n)
  <2>1. CASE local[b].pos = seqLen
    <3>1. items = <<>>
      BY <1>1, <2>1, Zenon
    <3>2. items \in Seq(Entry) /\ Len(items) = 0
      BY <3>1, EmptySeq
    <3>3. n = 0
      BY <1>1, <1>3, <3>2 DEF Min2, BackedThen
    <3> QED
      BY <3>2, <3>3 DEF CacheOK
  <2>2. CASE local[b].pos # seqLen
    <3>1. items = WithAnswer(cache[b], local[b], answer)
      BY <1>1, <2>2, Zenon
    <3> QED
      <4>1. PICK its, rows, m, l, k : /\ its = cache[b] /\ rows = kv[b] /\ l = local[b]
                                      /\ m = request[serving[b]].messages /\ k = backed[b]
        OBVIOUS
      <4>2. /\ its \in Seq(Entry) /\ rows \in KvRows /\ m \in Seq(Contents) /\ l \in Locals
            /\ k \in Nat /\ answer \in Contents /\ CacheOK(its, rows, k)
            /\ RunOK("finish", m, its, rows, l, k) /\ items = WithAnswer(its, l, answer)
            /\ n = BackedThen(k, l, items)
        BY <1>1, <1>3, <1>4, <3>1, <4>1, Zenon
      <4>3. items \in Seq(Entry) /\ CacheOK(items, rows, n)
        BY <4>2, FinishKeepsCache
      <4> QED
        BY <4>1, <4>3, Zenon
  <2> QED
    BY <2>1, <2>2
<1>6. n \in Nat
  BY <1>5, LenProperties DEF CacheOK
<1>7. NoLocal \in Locals
  BY ApiConstants DEF NoLocal, Locals
<1>8. ApiType'
  <2>1. cache' \in [Backends -> Seq(Entry)] /\ backed' \in [Backends -> Nat]
    BY <1>2, <1>5, <1>6 DEF ApiInv, ApiType
  <2>2. /\ server' \in [Backends -> ServerStates] /\ local' \in [Backends -> Locals]
        /\ serving' \in [Backends -> Clients \cup {NoClient}]
    BY <1>2, <1>7 DEF ApiInv, ApiType, EndRequest, ServerStates
  <2> QED
    BY <1>2, <2>1, <2>2 DEF ApiInv, ApiType
<1>9. OthersKeep(b)
  BY <1>2 DEF ApiInv, ApiType, EndRequest, OthersKeep
<1>10. cache'[b] = items /\ backed'[b] = n /\ server'[b] = "accept" /\ kv' = kv
  BY <1>2 DEF ApiInv, ApiType, EndRequest
<1>11. ServerInv(b)'
  BY <1>5, <1>10 DEF ServerInv, InCompletion
<1> QED
  BY <1>8, <1>9, <1>11, OneServer

\* What forward() leaves in the KV cache of a running completion.
LEMMA RowsWritten ==
    ASSUME ApiInv, NEW b \in Backends, server[b] \in InCompletion,
           NEW next \in 0..seqLen, local[b].pos <= next,
           kv' = [kv EXCEPT ![b] = Rows(b, local[b].pos, next)]
    PROVE  /\ kv' \in [Backends -> KvRows] /\ \A d \in Backends \ {b} : kv'[d] = kv[d]
           /\ CacheOK(cache[b], kv'[b], backed[b])
           /\ \A p \in StartPos(cache[b], local[b].base)..(next - 1) :
                kv'[b][p] = request[serving[b]].messages
<1>1. PICK items, rows, m, l, n : /\ items = cache[b] /\ rows = kv[b] /\ l = local[b]
                                  /\ m = request[serving[b]].messages /\ n = backed[b]
  OBVIOUS
<1>2. PICK new : new = Written(rows, m, l.pos, next)
  OBVIOUS
<1>3. /\ items \in Seq(Entry) /\ rows \in KvRows /\ l \in Locals /\ n \in Nat
      /\ serving[b] \in Clients /\ CacheOK(items, rows, n)
      /\ RunOK(server[b], m, items, rows, l, n)
  <2>1. ServerInv(b)
    BY DEF ApiInv
  <2>2. /\ serving[b] \in Clients /\ CacheOK(items, rows, n)
        /\ RunOK(server[b], m, items, rows, l, n)
    BY <1>1, <2>1 DEF ServerInv
  <2> QED
    BY <1>1, <2>2 DEF ApiInv, ApiType
<1>4. m \in Seq(Contents)
  BY <1>1, <1>3, RequestOf, Zenon DEF ApiInv
<1>5. l.pos <= next
  BY <1>1, Zenon
<1>6. /\ new \in KvRows /\ CacheOK(items, new, n)
      /\ \A p \in StartPos(items, l.base)..(next - 1) : new[p] = m
  <2> HIDE DEF CacheOK, RunOK
  <2>1. PICK phase : phase = server[b]
    OBVIOUS
  <2>2. RunOK(phase, m, items, rows, l, n)
    BY <1>3, <2>1, Zenon
  <2> QED
    BY <1>2, <1>3, <1>4, <1>5, <2>2, WriteKeepsCache
<1>7. Rows(b, local[b].pos, next) = new
  BY <1>1, <1>2, Zenon DEF Rows, Written
<1>8. kv' = [kv EXCEPT ![b] = new]
  BY <1>7, Zenon
<1>9. kv \in [Backends -> KvRows]
  BY DEF ApiInv, ApiType
<1>10. kv' \in [Backends -> KvRows] /\ kv'[b] = new /\ \A d \in Backends \ {b} : kv'[d] = kv[d]
  BY <1>6, <1>8, <1>9
<1> QED
  BY <1>1, <1>6, <1>10, Zenon

\* The loop complete() is in at a position.
LEMMA PhaseOf ==
    ASSUME ApiType, NEW b \in Backends, serving[b] \in Clients,
           NEW pos \in 0..seqLen, NEW end \in 0..seqLen
    PROVE  /\ Phase(b, pos, end) \in InCompletion
           /\ Phase(b, pos, end) = "prefill" => pos < end
           /\ Phase(b, pos, end) # "prefill" => end <= pos
           /\ Phase(b, pos, end) = "decode" => pos < seqLen
<1>1. request[serving[b]].max_tokens \in (Nat \ {0}) \cup {-1} /\ seqLen \in Nat
  BY RequestOf, ApiConstants
<1>2. maxPredPos(b, end) \in Int /\ maxPredPos(b, end) <= seqLen
  BY <1>1 DEF maxPredPos, Min2
<1> QED
  BY <1>1, <1>2 DEF Phase, InCompletion

\* forward() computes up to next, and the completion goes on from there.
Forwards(b, next, to) ==
    /\ server[b] \in InCompletion /\ local[b].pos <= next /\ to \in InCompletion
    /\ to = "prefill" => next < local[b].promptEndPos
    /\ to # "prefill" => local[b].promptEndPos <= next
    /\ to = "decode" => next < seqLen
    /\ kv' = [kv EXCEPT ![b] = Rows(b, local[b].pos, next)]
    /\ local' = [local EXCEPT ![b].pos = next] /\ server' = [server EXCEPT ![b] = to]
    /\ UNCHANGED <<request, serving, cache, backed, clusterLost>>

\* The completion's own rows now reach up to there.
LEMMA ForwardStep ==
    ASSUME ApiInv, NEW b \in Backends, NEW next \in 0..seqLen, NEW to, Forwards(b, next, to)
    PROVE  ApiInv'
<1> USE DEF Forwards
<1>1. /\ kv' \in [Backends -> KvRows] /\ \A d \in Backends \ {b} : kv'[d] = kv[d]
      /\ CacheOK(cache[b], kv'[b], backed[b])
      /\ \A p \in StartPos(cache[b], local[b].base)..(next - 1) :
           kv'[b][p] = request[serving[b]].messages
  BY RowsWritten
<1>2. /\ local' \in [Backends -> Locals] /\ local'[b].pos = next
      /\ local'[b].promptEndPos = local[b].promptEndPos /\ local'[b].base = local[b].base
      /\ \A d \in Backends \ {b} : local'[d] = local[d]
  BY DEF ApiInv, ApiType, Locals
<1>3. server' \in [Backends -> ServerStates] /\ server'[b] = to
      /\ \A d \in Backends \ {b} : server'[d] = server[d]
  BY DEF ApiInv, ApiType, ServerStates, InCompletion
<1>4. ApiType'
  BY <1>1, <1>2, <1>3 DEF ApiInv, ApiType
<1>5. OthersKeep(b)
  BY <1>1, <1>2, <1>3 DEF OthersKeep
<1>6. /\ serving[b] \in Clients /\ cache[b] \in Seq(Entry) /\ local[b] \in Locals
      /\ RunOK(server[b], request[serving[b]].messages, cache[b], kv[b], local[b], backed[b])
  <2>1. ServerInv(b)
    BY DEF ApiInv
  <2>2. /\ serving[b] \in Clients
        /\ RunOK(server[b], request[serving[b]].messages, cache[b], kv[b], local[b], backed[b])
    BY <2>1 DEF ServerInv
  <2> QED
    BY <2>2 DEF ApiInv, ApiType
<1>7. RunOK(to, request[serving[b]].messages, cache[b], kv'[b], local'[b], backed[b])
  <2>1. PICK items, rows, m, l, n : /\ items = cache[b] /\ rows = kv[b] /\ l = local[b]
                                    /\ m = request[serving[b]].messages /\ n = backed[b]
    OBVIOUS
  <2>2. PICK new, k, phase : new = kv'[b] /\ k = local'[b] /\ phase = server[b]
    OBVIOUS
  <2>3. /\ items \in Seq(Entry) /\ l \in Locals /\ RunOK(phase, m, items, rows, l, n)
        /\ \A p \in StartPos(items, l.base)..(next - 1) : new[p] = m
        /\ k.pos = next /\ k.promptEndPos = l.promptEndPos /\ k.base = l.base /\ l.pos <= next
        /\ to = "prefill" => next < l.promptEndPos
        /\ to # "prefill" => l.promptEndPos <= next
    BY <1>1, <1>2, <1>6, <2>1, <2>2, Zenon
  <2>4. StartPos(items, l.base) <= next
    <3>1. StartPos(items, l.base) <= l.pos /\ l.base <= Len(items)
      BY <2>3 DEF RunOK
    <3>2. StartPos(items, l.base) \in Int /\ l.pos \in Int
      BY <2>3, <3>1, EntriesOf, ApiConstants DEF StartPos, Locals
    <3> QED
      BY <2>3, <3>1, <3>2, ApiConstants
  <2>5. RunOK(to, m, items, new, k, n)
    BY <2>3, <2>4 DEF RunOK
  <2> QED
    BY <2>1, <2>2, <2>5, Zenon
<1>8. ServerInv(b)'
  <2>1. /\ request' = request /\ serving' = serving /\ cache' = cache /\ backed' = backed
        /\ server'[b] = to
    BY <1>3
  <2> QED
    BY <1>1, <1>6, <1>7, <2>1, Zenon DEF ServerInv
<1> QED
  BY <1>4, <1>5, <1>8, OneServer

\* One chunk of the prompt: it ends at the end of the prompt at the latest.
LEMMA PrefillStep ==
    ASSUME ApiInv, NEW b \in Backends, PrefillChunk(b)
    PROVE  ApiInv'
<1>1. /\ local[b].pos \in 0..seqLen /\ local[b].promptEndPos \in 0..seqLen
      /\ server[b] = "prefill" /\ serving[b] \in Clients
      /\ local[b].pos < local[b].promptEndPos
  <2>1. ServerInv(b) /\ local[b] \in Locals /\ server[b] = "prefill"
    BY DEF ApiInv, ApiType, PrefillChunk
  <2> QED
    BY <2>1 DEF ServerInv, RunOK, Locals, InCompletion
<1>2. PICK next : next = local[b].pos + Min2(prefillBatchCap, local[b].promptEndPos - local[b].pos)
  OBVIOUS
<1>3. next \in 0..seqLen /\ local[b].pos <= next
  BY <1>1, <1>2, ApiConstants DEF Min2
<1>4. PICK to : to = Phase(b, next, local[b].promptEndPos)
  OBVIOUS
<1>5. /\ to \in InCompletion
      /\ to = "prefill" => next < local[b].promptEndPos
      /\ to # "prefill" => local[b].promptEndPos <= next
      /\ to = "decode" => next < seqLen
  BY <1>1, <1>3, <1>4, PhaseOf, Zenon DEF ApiInv
<1>6. /\ kv' = [kv EXCEPT ![b] = Rows(b, local[b].pos, next)]
      /\ local' = [local EXCEPT ![b].pos = next] /\ server' = [server EXCEPT ![b] = to]
      /\ UNCHANGED <<request, serving, cache, backed, clusterLost>>
  BY <1>2, <1>4, Zenon DEF PrefillChunk
<1>7. server[b] \in InCompletion
  BY <1>1 DEF InCompletion
<1> QED
  <2>1. Forwards(b, next, to)
    BY <1>3, <1>5, <1>6, <1>7, Zenon DEF Forwards
  <2> QED
    BY <1>3, <2>1, ForwardStep

\* One token: a client that is gone ends the request behind the row it cost.
LEMMA DecodeStep ==
    ASSUME ApiInv, NEW b \in Backends, NEW eos \in BOOLEAN, NEW ok \in BOOLEAN,
           DecodeToken(b, eos, ok)
    PROVE  ApiInv'
<1>1. /\ local[b].pos \in 0..seqLen /\ local[b].promptEndPos \in 0..seqLen
      /\ server[b] = "decode" /\ serving[b] \in Clients
      /\ local[b].promptEndPos <= local[b].pos /\ local[b].pos < seqLen
  <2>1. ServerInv(b) /\ local[b] \in Locals /\ server[b] = "decode"
    BY DEF ApiInv, ApiType, DecodeToken
  <2> QED
    BY <2>1 DEF ServerInv, RunOK, Locals, InCompletion
<1>2. PICK next : next = local[b].pos + 1
  OBVIOUS
<1>3. next \in 0..seqLen /\ local[b].pos <= next /\ local[b].promptEndPos <= next
  BY <1>1, <1>2, ApiConstants
<1>4. server[b] \in InCompletion
  BY <1>1 DEF InCompletion
<1>5. /\ kv' = [kv EXCEPT ![b] = Rows(b, local[b].pos, next)]
      /\ UNCHANGED <<request, cache, backed, clusterLost>>
  BY <1>2, Zenon DEF DecodeToken
<1>6. CASE ok
  <2>1. PICK to : to = IF eos THEN "finish" ELSE Phase(b, next, local[b].promptEndPos)
    OBVIOUS
  <2>2. /\ local' = [local EXCEPT ![b].pos = next] /\ server' = [server EXCEPT ![b] = to]
        /\ UNCHANGED serving
    BY <1>2, <1>6, <2>1, Zenon DEF DecodeToken
  <2>3. /\ to \in InCompletion
        /\ to = "prefill" => next < local[b].promptEndPos
        /\ to # "prefill" => local[b].promptEndPos <= next
        /\ to = "decode" => next < seqLen
    <3>1. /\ Phase(b, next, local[b].promptEndPos) \in InCompletion
          /\ Phase(b, next, local[b].promptEndPos) = "prefill" => next < local[b].promptEndPos
          /\ Phase(b, next, local[b].promptEndPos) = "decode" => next < seqLen
      BY <1>1, <1>3, PhaseOf, Zenon DEF ApiInv
    <3> QED
      BY <1>3, <2>1, <3>1 DEF InCompletion
  <2>4. Forwards(b, next, to)
    BY <1>3, <1>4, <1>5, <2>2, <2>3, Zenon DEF Forwards
  <2> QED
    BY <1>3, <2>4, ForwardStep
<1>7. CASE ~ok
  <2>1. EndRequest(b, "accept")
    BY <1>7 DEF DecodeToken
  <2>2. /\ kv' \in [Backends -> KvRows] /\ \A d \in Backends \ {b} : kv'[d] = kv[d]
        /\ CacheOK(cache[b], kv'[b], backed[b])
    BY <1>3, <1>4, <1>5, RowsWritten
  <2>3. NoLocal \in Locals
    BY ApiConstants DEF NoLocal, Locals
  <2>4. ApiType'
    BY <1>5, <2>1, <2>2, <2>3 DEF ApiInv, ApiType, EndRequest, ServerStates
  <2>5. OthersKeep(b)
    BY <1>5, <2>1, <2>2 DEF ApiInv, ApiType, EndRequest, OthersKeep
  <2>6. server'[b] = "accept"
    BY <2>1 DEF EndRequest, ApiInv, ApiType
  <2>7. ServerInv(b)'
    BY <1>5, <2>2, <2>6 DEF ServerInv, InCompletion
  <2> QED
    BY <2>4, <2>5, <2>7, OneServer
<1> QED
  BY <1>6, <1>7

\* The cached messages a request keeps: none, or all of them and a proper prefix
\* of its own.
LEMMA ReusedOf ==
    ASSUME ApiType, NEW b \in Backends, NEW m \in Seq(Contents), m # <<>>
    PROVE  Serves(cache[b], m, Reused(b, m))
<1>1. cache[b] \in Seq(Entry)
  BY DEF ApiType
<1>2. Len(cache[b]) \in Nat /\ DOMAIN cache[b] = 1..Len(cache[b]) /\ Len(m) \in Nat /\ Len(m) # 0
  BY <1>1, LenProperties, EmptySeq
<1> QED
  BY <1>2 DEF Reused, CacheHit, Serves

\* Where the prompt of a request ends that starts at a position.
PromptEnd(m, k, start) ==
    Min2(start + (Len(Rest(m, k)) + 1 + (IF start = 0 THEN 1 ELSE 0)) - 1, seqLen)

\* It is in the context and not before the start.
LEMMA PromptEndOf ==
    ASSUME NEW m \in Seq(Contents), NEW k \in Nat, k < Len(m), NEW start \in 0..seqLen
    PROVE  PromptEnd(m, k, start) \in 0..seqLen /\ start <= PromptEnd(m, k, start)
<1>1. Len(m) \in Nat
  BY LenProperties
<1>2. Len(Rest(m, k)) = Len(m) - k
  BY <1>1, RestOfMessages
<1> QED
  BY <1>1, <1>2, ApiConstants DEF PromptEnd, Min2

\* complete() up to its first forward(): the new messages enter the cache, their
\* rows not yet computed, so none of them counts as backed.
LEMMA BeginStep ==
    ASSUME ApiInv, NEW b \in Backends, NEW ok \in BOOLEAN, BeginCompletion(b, ok)
    PROVE  ApiInv'
<1>1. PICK items, rows, m, n : /\ items = cache[b] /\ rows = kv[b] /\ n = backed[b]
                               /\ m = request[serving[b]].messages
  OBVIOUS
<1>2. PICK k, start : k = Reused(b, m) /\ start = StartPos(items, k)
  OBVIOUS
<1>3. PICK end : end = PromptEnd(m, k, start)
  OBVIOUS
<1>4. PICK new : new = NewItems(items, m, k, end)
  OBVIOUS
<1>5. /\ server[b] = "read" /\ m # <<>> /\ cache' = [cache EXCEPT ![b] = new]
      /\ backed' = [backed EXCEPT ![b] = Min2(n, k)] /\ UNCHANGED <<request, kv, clusterLost>>
      /\ ok => /\ server' = [server EXCEPT ![b] = Phase(b, start, end)]
               /\ local' = [local EXCEPT ![b] = [pos |-> start, promptEndPos |-> end, base |-> k]]
               /\ UNCHANGED serving
      /\ ~ok => EndRequest(b, "accept")
  BY <1>1, <1>2, <1>3, <1>4, Zenon
     DEF BeginCompletion, ServerMoves, NewItems, EntriesBehind, PromptEnd, StartPos
<1>6. /\ items \in Seq(Entry) /\ rows \in KvRows /\ n \in Nat /\ serving[b] \in Clients
      /\ CacheOK(items, rows, n)
  <2>1. ServerInv(b)
    BY DEF ApiInv
  <2>2. serving[b] \in Clients /\ CacheOK(items, rows, n)
    BY <1>1, <1>5, <2>1 DEF ServerInv
  <2> QED
    BY <1>1, <2>2 DEF ApiInv, ApiType
<1>7. m \in Seq(Contents) /\ Len(m) \in Nat
  BY <1>1, <1>6, RequestOf, LenProperties DEF ApiInv
<1>8. Serves(items, m, k)
  <2>1. ApiType
    BY DEF ApiInv
  <2>2. Serves(cache[b], m, Reused(b, m))
    BY <1>5, <1>7, <2>1, ReusedOf
  <2> QED
    BY <1>1, <1>2, <2>2, Zenon
<1>9. start \in 0..seqLen
  BY <1>2, <1>6, <1>8, EntriesOf, ApiConstants DEF StartPos, Serves
<1>10. end \in 0..seqLen /\ start <= end
  BY <1>3, <1>7, <1>8, <1>9, PromptEndOf, Zenon DEF Serves
<1>11. new \in Seq(Entry) /\ EntersAll(new, items, m, k, end)
  BY <1>4, <1>6, <1>7, <1>8, <1>10, NewEntries
<1>12. /\ CacheOK(new, rows, Min2(n, k)) /\ StartPos(new, k) = start
       /\ \A i \in 1..Len(m) : new[i].message = m[i] /\ new[i].endPos <= end
  <2>1. StartPos(items, k) <= end
    BY <1>2, <1>10, Zenon
  <2>2. /\ CacheOK(new, rows, Min2(n, k)) /\ StartPos(new, k) = StartPos(items, k)
        /\ \A i \in 1..Len(m) : new[i].message = m[i] /\ new[i].endPos <= end
    BY <1>6, <1>7, <1>8, <1>10, <1>11, <2>1, BeginKeepsCache
  <2> QED
    BY <1>2, <2>2, Zenon
<1>13. Min2(n, k) \in Nat /\ Min2(n, k) <= k
  BY <1>6, <1>8 DEF Min2, Serves
<1>14. /\ cache' \in [Backends -> Seq(Entry)] /\ cache'[b] = new
       /\ backed' \in [Backends -> Nat] /\ backed'[b] = Min2(n, k)
       /\ \A d \in Backends \ {b} : cache'[d] = cache[d] /\ backed'[d] = backed[d]
  BY <1>5, <1>11, <1>13 DEF ApiInv, ApiType
<1>15. CASE ok
  <2>1. PICK to : to = Phase(b, start, end)
    OBVIOUS
  <2>2. /\ to \in InCompletion
        /\ to = "prefill" => start < end
        /\ to # "prefill" => end <= start
        /\ to = "decode" => start < seqLen
    BY <1>6, <1>9, <1>10, <2>1, PhaseOf, Zenon DEF ApiInv
  <2>3. PICK l : l = [pos |-> start, promptEndPos |-> end, base |-> k]
    OBVIOUS
  <2>4. l \in Locals /\ l.pos = start /\ l.promptEndPos = end /\ l.base = k
    BY <1>8, <1>9, <1>10, <2>3 DEF Locals, Serves
  <2>5. /\ server' = [server EXCEPT ![b] = to] /\ local' = [local EXCEPT ![b] = l]
        /\ UNCHANGED serving
    BY <1>5, <1>15, <2>1, <2>3, Zenon
  <2>6. /\ server' \in [Backends -> ServerStates] /\ server'[b] = to
        /\ local' \in [Backends -> Locals] /\ local'[b] = l
        /\ \A d \in Backends \ {b} : server'[d] = server[d] /\ local'[d] = local[d]
    BY <2>2, <2>4, <2>5 DEF ApiInv, ApiType, ServerStates, InCompletion
  <2>7. ApiType'
    BY <1>5, <1>14, <2>5, <2>6 DEF ApiInv, ApiType
  <2>8. OthersKeep(b)
    BY <1>5, <1>14, <2>5, <2>6 DEF OthersKeep
  <2>9. RunOK(to, m, new, rows, l, Min2(n, k))
    <3>1. \A p \in start..(start - 1) : rows[p] = m
      BY <1>9
    <3>2. start <= start
      BY <1>9
    <3> QED
      BY <1>5, <1>7, <1>8, <1>11, <1>12, <1>13, <2>2, <2>4, <3>1, <3>2
         DEF RunOK, Serves, EntersAll
  <2>10. ServerInv(b)'
    <3>1. /\ server'[b] = to /\ serving'[b] = serving[b] /\ cache'[b] = new /\ kv'[b] = rows
          /\ local'[b] = l /\ backed'[b] = Min2(n, k)
          /\ request'[serving'[b]].messages = m
      BY <1>1, <1>5, <1>14, <2>5, <2>6
    <3> QED
      BY <1>6, <1>12, <2>9, <3>1, Zenon DEF ServerInv
  <2> QED
    BY <2>7, <2>8, <2>10, OneServer
<1>16. CASE ~ok
  <2>1. EndRequest(b, "accept")
    BY <1>5, <1>16
  <2>2. NoLocal \in Locals
    BY ApiConstants DEF NoLocal, Locals
  <2>3. ApiType'
    BY <1>5, <1>14, <2>1, <2>2 DEF ApiInv, ApiType, EndRequest, ServerStates
  <2>4. OthersKeep(b)
    BY <1>5, <1>14, <2>1 DEF ApiInv, ApiType, EndRequest, OthersKeep
  <2>5. server'[b] = "accept" /\ kv'[b] = rows
    BY <1>1, <1>5, <2>1 DEF EndRequest, ApiInv, ApiType
  <2>6. ServerInv(b)'
    BY <1>12, <1>14, <2>5 DEF ServerInv, InCompletion
  <2> QED
    BY <2>3, <2>4, <2>6, OneServer
<1> QED
  BY <1>15, <1>16

\* Every step of a server keeps the two caches in agreement.
LEMMA ApiStep ==
    ASSUME ApiInv, ConnectionType, NEW b \in Backends, ServerStep(b) \/ WorkerLost(b)
    PROVE  ApiInv'
<1>1. ASSUME NEW ok \in BOOLEAN, BeginCompletion(b, ok) PROVE ApiInv'
  BY <1>1, BeginStep
<1>2. ASSUME NEW eos \in BOOLEAN, NEW ok \in BOOLEAN, DecodeToken(b, eos, ok) PROVE ApiInv'
  BY <1>2, DecodeStep
<1>3. ASSUME NEW answer \in Answers, FinishCompletion(b, answer) PROVE ApiInv'
  BY <1>3, FinishStep
<1>4. CASE PrefillChunk(b)
  BY <1>4, PrefillStep
<1>5. CASE \/ ApiAccept(b) \/ AnswerPlain(b) \/ ApiReadFails(b) \/ ControlWriteFails(b)
           \/ ExecutorFails(b) \/ PipelineFails(b) \/ RunAgain(b) \/ WorkerLost(b)
  BY <1>5, IdleStep
<1> QED
  BY <1>1, <1>2, <1>3, <1>4, <1>5, Zenon DEF ServerStep

\* The servers start with empty caches.
LEMMA ApiInitInv == ApiInit => ApiInv
<1> SUFFICES ASSUME ApiInit PROVE ApiInv
  OBVIOUS
<1>1. <<>> \in Seq(Entry) /\ Len(<<>>) = 0 /\ NoRow \in Seq(Contents)
  BY EmptySeq DEF NoRow
<1>2. [p \in Positions |-> NoRow] \in KvRows
  BY <1>1 DEF KvRows
<1>3. NoLocal \in Locals
  BY ApiConstants DEF NoLocal, Locals
<1>4. ApiType
  <2>1. cache \in [Backends -> Seq(Entry)] /\ local \in [Backends -> Locals]
    BY <1>1, <1>3 DEF ApiInit
  <2>2. kv \in [Backends -> KvRows]
    BY <1>2, Zenon DEF ApiInit
  <2> QED
    BY <2>1, <2>2 DEF ApiInit, ApiType, ServerStates
<1>5. ASSUME NEW b \in Backends PROVE ServerInv(b)
  <2>1. cache[b] = <<>> /\ backed[b] = 0 /\ server[b] = "accept"
    BY DEF ApiInit
  <2> QED
    BY <1>1, <2>1 DEF ServerInv, CacheOK, InCompletion
<1> QED
  BY <1>4, <1>5 DEF ApiInv

\* The two caches agree in every reachable state.
LEMMA ApiAlways == Spec => []ApiInv
<1>1. Init => ApiInv
  BY ApiInitInv DEF Init
<1>2. ASSUME ApiInv, ConnectionType, [Next]_vars PROVE ApiInv'
  <2>1. CASE UNCHANGED apiVars
    BY <1>2, <2>1
       DEF apiVars, loopVars, promptVars, ApiInv, ApiType, ServerInv
  <2>2. ASSUME NEW b \in Backends, ServerStep(b) \/ WorkerLost(b) PROVE ApiInv'
    BY <1>2, <2>2, ApiStep
  <2>3. \/ UNCHANGED apiVars
        \/ \E b \in Backends : ServerStep(b) \/ WorkerLost(b)
    BY <1>2 DEF Next, vars
  <2> QED
    BY <2>1, <2>2, <2>3
<1> QED
  BY <1>1, <1>2, LinkAlways, PTL DEF Spec

\* The prompt cache speaks for the KV cache: between requests, the rows below the
\* end of a backed entry were computed by a request whose messages are a prefix of
\* the cached ones, whatever requests were cut off half-way in between.
THEOREM CacheHolds == Spec => []CacheBacked
<1>1. ASSUME ApiInv PROVE CacheBacked
  <2> SUFFICES ASSUME NEW b \in Backends, NEW i \in 1..backed[b],
                      NEW p \in 0..(cache[b][i].endPos - 1)
               PROVE  /\ p \in Positions /\ kv[b][p] # NoRow
                      /\ Len(kv[b][p]) <= Len(cache[b])
                      /\ \A k \in DOMAIN kv[b][p] : kv[b][p][k] = cache[b][k].message
    BY DEF CacheBacked
  <2>1. /\ cache[b] \in Seq(Entry) /\ kv[b] \in KvRows /\ backed[b] \in Nat
        /\ CacheOK(cache[b], kv[b], backed[b])
    BY <1>1 DEF ApiInv, ApiType, ServerInv
  <2>2. RowOK(kv[b][p], cache[b]) /\ i \in 1..Len(cache[b])
    BY <2>1, LenProperties DEF CacheOK
  <2>3. p \in Positions
    BY <2>1, <2>2, EntriesOf, ApiConstants DEF Positions
  <2>4. kv[b][p] \in Seq(Contents)
    BY <2>1, <2>3 DEF KvRows
  <2>5. DOMAIN kv[b][p] = 1..Len(kv[b][p])
    BY <2>4, LenProperties
  <2> QED
    BY <2>2, <2>3, <2>5 DEF RowOK
<1> QED
  BY <1>1, ApiAlways, PTL

\* Types of the gateway, the servers and the connections between them.
THEOREM TypeHolds == Spec => []TypeOK
<1>1. ASSUME GatewayInv, ConnectionType, ApiInv PROVE TypeOK
  <2>1. GatewayType
    BY <1>1 DEF GatewayInv
  <2>2. ASSUME NEW b \in Backends, NEW i \in DOMAIN backlog[b] PROVE backlog[b][i] \in Clients
    <3>1. backlog[b] \in Seq(Clients)
      BY <1>1 DEF ConnectionType
    <3> QED
      BY <3>1, LenProperties, ElementOfSeq
  <2>3. ASSUME NEW b \in Backends
        PROVE  /\ local[b].pos \in 0..seqLen /\ local[b].promptEndPos \in 0..seqLen
               /\ backed[b] \in 0..Len(cache[b])
    BY <1>1 DEF ApiInv, ApiType, ServerInv, CacheOK, Locals
  <2>4. server \in [Backends -> ServerStates] /\ serving \in [Backends -> Clients \cup {NoClient}]
    BY <1>1 DEF ApiInv, ApiType
  <2>5. link \in [Clients -> LinkStates] /\ listening \in [Backends -> BOOLEAN]
    BY <1>1 DEF ConnectionType
  <2> QED
    BY <2>1, <2>2, <2>3, <2>4, <2>5 DEF TypeOK, GatewayType
<1> QED
  BY <1>1, GatewayAlways, LinkAlways, ApiAlways, PTL
=============================================================================
