--------------------------- MODULE ExecutorProofs ---------------------------
(***************************************************************************)
(* Proofs about Executor for every finite pool, every number of steps and  *)
(* any number of runs, with step errors and stall timeouts.                *)
(*                                                                         *)
(* The barrier property is not inductive: it speaks of what the threads    *)
(* have executed, while the code only knows two counters.  IInv ties them: *)
(* RanInv says what each thread has executed from the step index and from  *)
(* who stands at the barrier, CountInv that the counter is the number of   *)
(* those who do, and CallerInv that a run can only be reported when every  *)
(* thread has left it.  FailInv, for pools without stall timeouts, names   *)
(* the thread that failed and will never reach the barrier again.          *)
(***************************************************************************)
EXTENDS Executor, FiniteSetTheorems, TLAPS

Running == {"started", "notified", "waiting", "polled", "returned"}
Closing == {"destroying", "joining", "gone"}

\* Program counters of a thread that holds a step index.
AtStep == {"exec", "error", "arrive", "reset", "advance"}
\* A thread that will still execute, or is executing, the current step.
BeforeBarrier == {"read", "exec", "error", "arrive"}
\* A thread held at the barrier of the current step.
AtBarrier == {"spin", "reset", "advance"}
\* A thread in the step loop.
InLoop == {"alive", "read", "exec", "error", "arrive", "reset", "advance",
           "spin", "leave"}
\* A thread that has left the run and was not woken for another one.
Parked == {"lock", "block", "wait", "notify"}

NobodyAdvances == \A u \in Threads : pc[u] # "advance"

\* t has not passed the barrier of the current step.
BarrierOpen(t) == t \notin arrived /\ NobodyAdvances

RanInv ==
    \A t \in Threads :
        ran[t] = IF BarrierOpen(t) /\ pc[t] # "arrive"
                   THEN currentStepIndex ELSE currentStepIndex + 1

CountInv == doneThreadCount = Cardinality(arrived)

StepInv ==
    \A t \in Threads :
        /\ pc[t] \in AtStep => /\ cur[t] = currentStepIndex
                               /\ currentStepIndex < nSteps
        /\ pc[t] \in BeforeBarrier => BarrierOpen(t)
        /\ (isAlive /\ pc[t] \notin AtBarrier) => BarrierOpen(t)
        /\ (pc[t] = "spin" /\ ~BarrierOpen(t)) => cur[t] = currentStepIndex

LastInv ==
    \A t, u \in Threads :
        /\ pc[t] = "reset" => u \in arrived
        /\ pc[t] = "advance" => u \notin arrived
        /\ (pc[t] = "reset" /\ pc[u] = "reset") => t = u
        /\ (pc[t] = "advance" /\ pc[u] = "advance") => t = u

\* While the run is alive: who is where, in which epoch.
AliveInv ==
    isAlive =>
        \A t \in Threads :
            /\ pc[t] \in InLoop => /\ localEpoch[t] = epoch
                                   /\ t \notin left
                                   /\ caller \in Running
            /\ pc[t] \in {"woken", "epoch"} => (t \notin left \/ isShutdown)
            /\ pc[t] # "error"
            /\ pc[t] = "epoch" => caller \in Running
            /\ pc[t] = "leave" => currentStepIndex = nSteps
            /\ pc[t] = "report" => /\ caller \in Running
                                   /\ left = Threads
                                   /\ ~isRunDone
            /\ (t \in left /\ ~isShutdown) => /\ localEpoch[t] = epoch
                                              /\ pc[t] \in Parked \cup {"report"}
                                              /\ currentStepIndex = nSteps
            /\ \A u \in Threads : (pc[t] = "report" /\ pc[u] = "report") => t = u

CallerInv ==
    /\ isShutdown <=> caller \in Closing
    /\ caller = "idle" => isAlive
    /\ caller = "failed" => ~isAlive
    /\ isAlive /\ caller \in Running =>
           /\ doneRunThreadCount = Cardinality(left)
           /\ isRunDone => left = Threads
    /\ isAlive /\ caller = "returned" => isRunDone
    /\ caller = "idle" =>
           \A t \in Threads : pc[t] \in Parked /\ localEpoch[t] = epoch
    /\ caller = "idle" /\ epoch > 0 => currentStepIndex = nSteps

\* The wait set of the condition variable is the set of blocked threads.
WaitInv == \A t \in Threads : t \in waiters => pc[t] = "wait"

IInv == /\ TypeOK /\ WaitInv /\ RanInv /\ CountInv /\ StepInv /\ LastInv
        /\ AliveInv /\ CallerInv

USE DEF ctxVars, cvVars, threadVars, callerVars, histVars, Goto, Woken,
        PC, CallerPC, NoOwner, CallerOwner, Running, Closing, AtStep,
        BeforeBarrier, AtBarrier, InLoop, Parked, NobodyAdvances, BarrierOpen

-----------------------------------------------------------------------------
(* Counting threads.                                                       *)

\* The cardinalities behind doneThreadCount and doneRunThreadCount.
LEMMA PoolCardinality ==
    ASSUME NEW S \in SUBSET Threads
    PROVE  /\ Cardinality(S) \in Nat
           /\ nThreads \in Nat
           /\ \A t \in Threads \ S : Cardinality(S \cup {t}) = Cardinality(S) + 1
           /\ (Cardinality(S) = nThreads) => (S = Threads)
<1>1. IsFiniteSet(S)
    BY FS_Subset, ExecutorAssumption DEF ExecutorAssumption
<1>2. QED
    BY <1>1, FS_Subset, FS_AddElement, FS_CardinalityType, ExecutorAssumption
       DEF ExecutorAssumption, nThreads

\* fetch_add returning nThreads - 1 identifies the last thread.
LEMMA LastOne ==
    ASSUME NEW S \in SUBSET Threads, NEW t \in Threads \ S
    PROVE  (Cardinality(S) = nThreads - 1) => (S \cup {t} = Threads)
<1>1. S \cup {t} \in SUBSET Threads
    OBVIOUS
<1>2. /\ Cardinality(S) \in Nat /\ nThreads \in Nat
      /\ Cardinality(S \cup {t}) = Cardinality(S) + 1
    BY PoolCardinality
<1>3. (Cardinality(S \cup {t}) = nThreads) => (S \cup {t} = Threads)
    BY <1>1, PoolCardinality
<1>4. QED
    BY <1>2, <1>3

-----------------------------------------------------------------------------
(* The invariant holds initially and every action preserves it.            *)

\* The constructor establishes the invariant.
LEMMA InitIInv == Init => IInv
<1> SUFFICES ASSUME Init PROVE IInv
    OBVIOUS
<1>1. TypeOK
    <2>1. isAlive \in BOOLEAN /\ isShutdown \in BOOLEAN /\ isRunDone \in BOOLEAN
        BY DEF Init
    <2>2. /\ pc \in [Threads -> PC] /\ localEpoch \in [Threads -> Nat]
          /\ cur \in [Threads -> 0..nSteps] /\ ran \in [Threads -> Nat]
        BY ExecutorAssumption DEF ExecutorAssumption, Init
    <2>3. QED
        BY <2>1, <2>2, ExecutorAssumption DEF ExecutorAssumption, Init, TypeOK
<1>2. WaitInv /\ RanInv /\ StepInv /\ LastInv
    BY DEF Init, WaitInv, RanInv, StepInv, LastInv
<1>3. CountInv
    BY FS_EmptySet DEF Init, CountInv
<1>4. AliveInv /\ CallerInv
    BY DEF Init, AliveInv, CallerInv
<1>5. QED
    BY <1>1, <1>2, <1>3, <1>4 DEF IInv

\* A pool thread evaluates the predicate of cv.wait.
LEMMA TakeLockIInv ==
    ASSUME IInv, NEW t \in Threads, TakeLock(t)
    PROVE  IInv'
<1>1. TypeOK' /\ WaitInv'
    BY DEF IInv, TypeOK, WaitInv, WakePredicate, TakeLock
<1>2. RanInv' /\ CountInv' /\ StepInv' /\ LastInv'
    BY DEF IInv, TypeOK, RanInv, CountInv, StepInv, LastInv,
           WakePredicate, TakeLock
<1>3. AliveInv' /\ CallerInv'
    BY DEF IInv, TypeOK, AliveInv, CallerInv, WakePredicate, TakeLock
<1>4. QED
    BY <1>1, <1>2, <1>3 DEF IInv

\* A pool thread blocks in cv.wait.
LEMMA BlockIInv ==
    ASSUME IInv, NEW t \in Threads, Block(t)
    PROVE  IInv'
<1>1. TypeOK' /\ WaitInv'
    BY DEF IInv, TypeOK, WaitInv, Block
<1>2. RanInv' /\ CountInv' /\ StepInv' /\ LastInv'
    BY DEF IInv, TypeOK, RanInv, CountInv, StepInv, LastInv, Block
<1>3. AliveInv' /\ CallerInv'
    BY DEF IInv, TypeOK, AliveInv, CallerInv, Block
<1>4. QED
    BY <1>1, <1>2, <1>3 DEF IInv

\* A pool thread leaves cv.wait unasked.
LEMMA SpuriousWakeupIInv ==
    ASSUME IInv, NEW t \in Threads, SpuriousWakeup(t)
    PROVE  IInv'
<1>1. TypeOK' /\ WaitInv'
    BY DEF IInv, TypeOK, WaitInv, SpuriousWakeup
<1>2. RanInv' /\ CountInv' /\ StepInv' /\ LastInv'
    BY DEF IInv, TypeOK, RanInv, CountInv, StepInv, LastInv, SpuriousWakeup
<1>3. AliveInv' /\ CallerInv'
    BY DEF IInv, TypeOK, AliveInv, CallerInv, SpuriousWakeup
<1>4. QED
    BY <1>1, <1>2, <1>3 DEF IInv

\* A woken thread tests isShutdown.
LEMMA CheckShutdownIInv ==
    ASSUME IInv, NEW t \in Threads, CheckShutdown(t)
    PROVE  IInv'
<1>1. TypeOK' /\ WaitInv'
    BY DEF IInv, TypeOK, WaitInv, CheckShutdown
<1>2. RanInv' /\ CountInv' /\ StepInv' /\ LastInv'
    BY DEF IInv, TypeOK, RanInv, CountInv, StepInv, LastInv, CheckShutdown
<1>3. CallerInv'
    BY DEF IInv, TypeOK, CallerInv, CheckShutdown
<1>4. AliveInv'
    BY DEF IInv, TypeOK, AliveInv, CallerInv, CheckShutdown
<1>5. QED
    BY <1>1, <1>2, <1>3, <1>4 DEF IInv

\* A woken thread adopts the epoch: it enters a run it has not left.
LEMMA EnterRunIInv ==
    ASSUME IInv, NEW t \in Threads, EnterRun(t)
    PROVE  IInv'
<1>1. TypeOK' /\ WaitInv'
    BY DEF IInv, TypeOK, WaitInv, EnterRun
<1>2. RanInv' /\ CountInv' /\ StepInv' /\ LastInv'
    BY DEF IInv, TypeOK, RanInv, CountInv, StepInv, LastInv, EnterRun
<1>3. CallerInv'
    BY DEF IInv, TypeOK, CallerInv, EnterRun
<1>4. AliveInv'
    BY DEF IInv, TypeOK, AliveInv, CallerInv, EnterRun
<1>5. QED
    BY <1>1, <1>2, <1>3, <1>4 DEF IInv

\* Head of the step loop.
LEMMA CheckAliveIInv ==
    ASSUME IInv, NEW t \in Threads, CheckAlive(t)
    PROVE  IInv'
<1>1. TypeOK' /\ WaitInv'
    BY DEF IInv, TypeOK, WaitInv, CheckAlive
<1>2. RanInv' /\ CountInv' /\ StepInv' /\ LastInv'
    BY DEF IInv, TypeOK, RanInv, CountInv, StepInv, LastInv, CheckAlive
<1>3. AliveInv' /\ CallerInv'
    BY DEF IInv, TypeOK, AliveInv, CallerInv, CheckAlive
<1>4. QED
    BY <1>1, <1>2, <1>3 DEF IInv

\* A thread reads the step index; nobody can be about to advance it.
LEMMA ReadStepIInv ==
    ASSUME IInv, NEW t \in Threads, ReadStep(t)
    PROVE  IInv'
<1>1. TypeOK' /\ WaitInv'
    BY DEF IInv, TypeOK, WaitInv, ReadStep
<1>2. RanInv' /\ CountInv' /\ LastInv'
    BY DEF IInv, TypeOK, RanInv, CountInv, LastInv, ReadStep
<1>3. StepInv'
    BY ExecutorAssumption
       DEF ExecutorAssumption, IInv, TypeOK, StepInv, ReadStep
<1>4. AliveInv' /\ CallerInv'
    BY DEF IInv, TypeOK, AliveInv, CallerInv, ReadStep
<1>5. QED
    BY <1>1, <1>2, <1>3, <1>4 DEF IInv

\* A step returns.
LEMMA StepDoneIInv ==
    ASSUME IInv, NEW t \in Threads, StepDone(t)
    PROVE  IInv'
<1>1. TypeOK' /\ WaitInv'
    BY DEF IInv, TypeOK, WaitInv, StepDone
<1>2. CountInv' /\ StepInv' /\ LastInv'
    BY DEF IInv, TypeOK, CountInv, StepInv, LastInv, StepDone
<1>3. RanInv'
    BY DEF IInv, TypeOK, RanInv, StepInv, StepDone
<1>4. AliveInv' /\ CallerInv'
    BY DEF IInv, TypeOK, AliveInv, CallerInv, StepDone
<1>5. QED
    BY <1>1, <1>2, <1>3, <1>4 DEF IInv

\* A step throws; the run is no longer alive.
LEMMA StepFailsIInv ==
    ASSUME IInv, NEW t \in Threads, StepFails(t)
    PROVE  IInv'
<1>1. WaitInv'
    BY DEF IInv, TypeOK, WaitInv, StepFails
<1>2. TypeOK'
    <2>1. /\ isAlive' \in BOOLEAN /\ isShutdown' \in BOOLEAN
          /\ isRunDone' \in BOOLEAN /\ pc' \in [Threads -> PC]
        BY DEF IInv, TypeOK, StepFails
    <2>2. QED
        BY <2>1 DEF IInv, TypeOK, StepFails
<1>3. RanInv' /\ CountInv' /\ StepInv' /\ LastInv'
    BY DEF IInv, TypeOK, RanInv, CountInv, StepInv, LastInv, StepFails
<1>4. AliveInv' /\ CallerInv'
    BY DEF IInv, TypeOK, AliveInv, CallerInv, StepFails
<1>5. QED
    BY <1>1, <1>2, <1>3, <1>4 DEF IInv

\* The failed thread gives up the run.
LEMMA NotifyErrorIInv ==
    ASSUME IInv, NEW t \in Threads, NotifyError(t)
    PROVE  IInv'
<1>1. TypeOK' /\ WaitInv'
    BY DEF IInv, TypeOK, WaitInv, NotifyError
<1>2. CountInv' /\ LastInv'
    BY DEF IInv, TypeOK, CountInv, LastInv, NotifyError
<1>3. RanInv'
    BY DEF IInv, TypeOK, WaitInv, RanInv, NotifyError
<1>4. StepInv'
    BY DEF IInv, TypeOK, WaitInv, StepInv, NotifyError
<1>5. AliveInv' /\ CallerInv'
    BY DEF IInv, TypeOK, AliveInv, CallerInv, NotifyError
<1>6. QED
    BY <1>1, <1>2, <1>3, <1>4, <1>5 DEF IInv

\* A thread arrives at the barrier; the last one finds everybody there.
LEMMA ArriveIInv ==
    ASSUME IInv, NEW t \in Threads, Arrive(t)
    PROVE  IInv'
<1>1. TypeOK' /\ WaitInv'
    BY DEF IInv, TypeOK, WaitInv, Arrive
<1>2. RanInv' /\ StepInv'
    BY DEF IInv, TypeOK, RanInv, StepInv, Arrive
<1>3. CountInv'
    <2>1. /\ arrived \in SUBSET Threads
          /\ t \in Threads \ arrived
        BY DEF IInv, TypeOK, StepInv, Arrive
    <2>2. Cardinality(arrived \cup {t}) = Cardinality(arrived) + 1
        BY <2>1, PoolCardinality
    <2>3. QED
        BY <2>2 DEF IInv, CountInv, Arrive
<1>4. LastInv'
    <2>1. /\ arrived \in SUBSET Threads
          /\ t \in Threads \ arrived
          /\ NobodyAdvances
        BY DEF IInv, TypeOK, StepInv, Arrive
    <2>2. pc'[t] = "reset" => arrived' = Threads
        BY <2>1, LastOne DEF IInv, TypeOK, CountInv, Arrive
    <2>3. QED
        BY <2>1, <2>2 DEF IInv, TypeOK, LastInv, Arrive
<1>5. AliveInv' /\ CallerInv'
    BY DEF IInv, TypeOK, AliveInv, CallerInv, Arrive
<1>6. QED
    BY <1>1, <1>2, <1>3, <1>4, <1>5 DEF IInv

\* The last thread clears the counter before it moves the step index.
LEMMA ResetCountIInv ==
    ASSUME IInv, NEW t \in Threads, ResetCount(t)
    PROVE  IInv'
<1>1. TypeOK' /\ WaitInv'
    BY DEF IInv, TypeOK, WaitInv, ResetCount
<1>2. LastInv'
    BY DEF IInv, TypeOK, LastInv, ResetCount
<1>3. RanInv'
    BY DEF IInv, TypeOK, RanInv, StepInv, LastInv, ResetCount
<1>4. CountInv'
    BY FS_EmptySet DEF CountInv, ResetCount
<1>5. StepInv'
    BY DEF IInv, TypeOK, StepInv, LastInv, ResetCount
<1>6. AliveInv' /\ CallerInv'
    BY DEF IInv, TypeOK, AliveInv, CallerInv, ResetCount
<1>7. QED
    BY <1>1, <1>2, <1>3, <1>4, <1>5, <1>6 DEF IInv

\* The last thread opens the barrier.
LEMMA AdvanceStepIInv ==
    ASSUME IInv, NEW t \in Threads, AdvanceStep(t)
    PROVE  IInv'
<1>1. WaitInv'
    BY DEF IInv, TypeOK, WaitInv, AdvanceStep
<1>2. TypeOK'
    BY ExecutorAssumption
       DEF ExecutorAssumption, IInv, TypeOK, StepInv, AdvanceStep
<1>3. CountInv' /\ LastInv'
    BY DEF IInv, TypeOK, CountInv, LastInv, AdvanceStep
<1>4. RanInv'
    BY DEF IInv, TypeOK, RanInv, StepInv, LastInv, AdvanceStep
<1>5. StepInv'
    BY DEF IInv, TypeOK, StepInv, LastInv, AdvanceStep
<1>6. CallerInv'
    BY DEF IInv, TypeOK, CallerInv, AdvanceStep
<1>7. AliveInv'
    BY DEF IInv, TypeOK, StepInv, AliveInv, AdvanceStep
<1>8. QED
    BY <1>1, <1>2, <1>3, <1>4, <1>5, <1>6, <1>7 DEF IInv

\* A thread leaves the barrier; in a live run only because it was opened.
LEMMA SpinExitIInv ==
    ASSUME IInv, NEW t \in Threads, SpinExit(t)
    PROVE  IInv'
<1>1. TypeOK' /\ WaitInv'
    BY DEF IInv, TypeOK, WaitInv, SpinExit
<1>2. RanInv' /\ CountInv' /\ LastInv'
    BY DEF IInv, TypeOK, RanInv, CountInv, LastInv, SpinExit
<1>3. StepInv'
    BY DEF IInv, TypeOK, StepInv, AliveInv, CallerInv, SpinExit
<1>4. AliveInv' /\ CallerInv'
    BY DEF IInv, TypeOK, AliveInv, CallerInv, SpinExit
<1>5. QED
    BY <1>1, <1>2, <1>3, <1>4 DEF IInv

\* A thread leaves the run; the last one finds everybody gone.
LEMMA LeaveRunIInv ==
    ASSUME IInv, NEW t \in Threads, LeaveRun(t)
    PROVE  IInv'
<1>1. TypeOK' /\ WaitInv'
    BY DEF IInv, TypeOK, WaitInv, LeaveRun
<1>2. RanInv' /\ CountInv' /\ StepInv' /\ LastInv'
    BY DEF IInv, TypeOK, RanInv, CountInv, StepInv, LastInv, LeaveRun
<1>3. AliveInv' /\ CallerInv'
    <2>1. CASE ~isAlive
        BY <2>1 DEF IInv, TypeOK, AliveInv, CallerInv, LeaveRun
    <2>2. CASE isAlive
        <3>1. /\ left \in SUBSET Threads
              /\ t \in Threads \ left
              /\ doneRunThreadCount = Cardinality(left)
              /\ caller \in Running /\ ~isRunDone
            BY <2>2 DEF IInv, TypeOK, AliveInv, CallerInv, LeaveRun
        <3>2. doneRunThreadCount' = Cardinality(left')
            BY <3>1, PoolCardinality DEF LeaveRun
        <3>3. pc'[t] = "report" => left' = Threads
            BY <3>1, LastOne DEF IInv, TypeOK, LeaveRun
        <3>4. AliveInv'
            BY <2>2, <3>1, <3>3 DEF IInv, TypeOK, AliveInv, LeaveRun
        <3>5. CallerInv'
            BY <2>2, <3>1, <3>2 DEF IInv, TypeOK, CallerInv, LeaveRun
        <3>6. QED
            BY <3>4, <3>5
    <2>3. QED
        BY <2>1, <2>2
<1>4. QED
    BY <1>1, <1>2, <1>3 DEF IInv

\* The last thread to leave reports the run.
LEMMA ReportDoneIInv ==
    ASSUME IInv, NEW t \in Threads, ReportDone(t)
    PROVE  IInv'
<1>1. TypeOK' /\ WaitInv'
    BY DEF IInv, TypeOK, WaitInv, ReportDone
<1>2. RanInv' /\ CountInv' /\ StepInv' /\ LastInv'
    BY DEF IInv, TypeOK, RanInv, CountInv, StepInv, LastInv, ReportDone
<1>3. AliveInv'
    BY DEF IInv, TypeOK, AliveInv, ReportDone
<1>4. CallerInv'
    BY DEF IInv, TypeOK, AliveInv, CallerInv, ReportDone
<1>5. QED
    BY <1>1, <1>2, <1>3, <1>4 DEF IInv

\* The last thread to leave wakes the pool.
LEMMA NotifyDoneIInv ==
    ASSUME IInv, NEW t \in Threads, NotifyDone(t)
    PROVE  IInv'
<1>1. TypeOK' /\ WaitInv'
    BY DEF IInv, TypeOK, WaitInv, NotifyDone
<1>2. CountInv' /\ LastInv'
    BY DEF IInv, TypeOK, CountInv, LastInv, NotifyDone
<1>3. RanInv'
    BY DEF IInv, TypeOK, WaitInv, RanInv, NotifyDone
<1>4. StepInv'
    BY DEF IInv, TypeOK, WaitInv, StepInv, NotifyDone
<1>5. AliveInv' /\ CallerInv'
    BY DEF IInv, TypeOK, AliveInv, CallerInv, NotifyDone
<1>6. QED
    BY <1>1, <1>2, <1>3, <1>4, <1>5 DEF IInv

\* forward() resets the context while every thread is parked.
LEMMA ForwardIInv ==
    ASSUME IInv, Forward
    PROVE  IInv'
<1>1. WaitInv'
    BY DEF IInv, TypeOK, WaitInv, Forward
<1>2. TypeOK'
    <2>1. /\ isAlive' \in BOOLEAN /\ isShutdown' \in BOOLEAN
          /\ isRunDone' \in BOOLEAN /\ ran' \in [Threads -> Nat]
        BY DEF IInv, TypeOK, Forward
    <2>2. QED
        BY <2>1, ExecutorAssumption DEF ExecutorAssumption, IInv, TypeOK, Forward
<1>3. RanInv'
    BY DEF IInv, TypeOK, RanInv, CallerInv, Forward
<1>4. CountInv'
    BY FS_EmptySet DEF CountInv, Forward
<1>5. StepInv'
    BY DEF IInv, TypeOK, StepInv, CallerInv, Forward
<1>6. LastInv'
    BY DEF IInv, TypeOK, LastInv, CallerInv, Forward
<1>7. AliveInv'
    BY DEF IInv, TypeOK, AliveInv, CallerInv, Forward
<1>8. CallerInv'
    <2>1. Threads # {}
        BY ExecutorAssumption DEF ExecutorAssumption
    <2>2. doneRunThreadCount' = Cardinality(left')
        BY FS_EmptySet DEF Forward
    <2>3. QED
        BY <2>1, <2>2 DEF IInv, TypeOK, CallerInv, Forward
<1>9. QED
    BY <1>1, <1>2, <1>3, <1>4, <1>5, <1>6, <1>7, <1>8 DEF IInv

\* forward() wakes the pool.
LEMMA NotifyRunIInv ==
    ASSUME IInv, NotifyRun
    PROVE  IInv'
<1>1. TypeOK' /\ WaitInv'
    BY DEF IInv, TypeOK, WaitInv, NotifyRun
<1>2. CountInv' /\ LastInv'
    BY DEF IInv, TypeOK, CountInv, LastInv, NotifyRun
<1>3. RanInv'
    BY DEF IInv, TypeOK, WaitInv, RanInv, NotifyRun
<1>4. StepInv'
    BY DEF IInv, TypeOK, WaitInv, StepInv, NotifyRun
<1>5. AliveInv' /\ CallerInv'
    BY DEF IInv, TypeOK, AliveInv, CallerInv, NotifyRun
<1>6. QED
    BY <1>1, <1>2, <1>3, <1>4, <1>5 DEF IInv

\* forward() starts to wait.
LEMMA BeginWaitIInv ==
    ASSUME IInv, BeginWait
    PROVE  IInv'
<1>1. TypeOK' /\ WaitInv'
    BY DEF IInv, TypeOK, WaitInv, BeginWait
<1>2. RanInv' /\ CountInv' /\ StepInv' /\ LastInv'
    BY DEF IInv, TypeOK, RanInv, CountInv, StepInv, LastInv, BeginWait
<1>3. AliveInv' /\ CallerInv'
    BY DEF IInv, TypeOK, AliveInv, CallerInv, BeginWait
<1>4. QED
    BY <1>1, <1>2, <1>3 DEF IInv

\* forward() evaluates its predicate.
LEMMA PollIInv ==
    ASSUME IInv, Poll
    PROVE  IInv'
<1>1. TypeOK' /\ WaitInv'
    BY DEF IInv, TypeOK, WaitInv, RunOver, Poll
<1>2. RanInv' /\ CountInv' /\ StepInv' /\ LastInv'
    BY DEF IInv, TypeOK, RanInv, CountInv, StepInv, LastInv, RunOver, Poll
<1>3. AliveInv' /\ CallerInv'
    BY DEF IInv, TypeOK, AliveInv, CallerInv, RunOver, Poll
<1>4. QED
    BY <1>1, <1>2, <1>3 DEF IInv

\* forward() goes on waiting.
LEMMA KeepWaitingIInv ==
    ASSUME IInv, KeepWaiting
    PROVE  IInv'
<1>1. TypeOK' /\ WaitInv'
    BY DEF IInv, TypeOK, WaitInv, KeepWaiting
<1>2. RanInv' /\ CountInv' /\ StepInv' /\ LastInv'
    BY DEF IInv, TypeOK, RanInv, CountInv, StepInv, LastInv, KeepWaiting
<1>3. AliveInv' /\ CallerInv'
    BY DEF IInv, TypeOK, AliveInv, CallerInv, KeepWaiting
<1>4. QED
    BY <1>1, <1>2, <1>3 DEF IInv

\* forward() gives the run up.
LEMMA StallTimeoutIInv ==
    ASSUME IInv, StallTimeout
    PROVE  IInv'
<1>1. WaitInv'
    BY DEF IInv, TypeOK, WaitInv, StallTimeout
<1>2. TypeOK'
    <2>1. /\ isAlive' \in BOOLEAN /\ isShutdown' \in BOOLEAN
          /\ isRunDone' \in BOOLEAN /\ pc' \in [Threads -> PC]
        BY DEF IInv, TypeOK, StallTimeout
    <2>2. QED
        BY <2>1 DEF IInv, TypeOK, StallTimeout
<1>3. CountInv' /\ StepInv' /\ LastInv'
    BY DEF IInv, TypeOK, CountInv, StepInv, LastInv, StallTimeout
<1>4. RanInv'
    BY DEF IInv, TypeOK, WaitInv, RanInv, StallTimeout
<1>5. AliveInv' /\ CallerInv'
    BY DEF IInv, TypeOK, AliveInv, CallerInv, StallTimeout
<1>6. QED
    BY <1>1, <1>2, <1>3, <1>4, <1>5 DEF IInv

\* forward() returns or throws.
LEMMA ReturnIInv ==
    ASSUME IInv, Return
    PROVE  IInv'
<1>1. TypeOK' /\ WaitInv'
    BY DEF IInv, TypeOK, WaitInv, Return
<1>2. RanInv' /\ CountInv' /\ StepInv' /\ LastInv'
    BY DEF IInv, TypeOK, RanInv, CountInv, StepInv, LastInv, Return
<1>3. AliveInv'
    BY DEF IInv, TypeOK, AliveInv, CallerInv, Return
<1>4. CallerInv'
    BY ExecutorAssumption
       DEF ExecutorAssumption, IInv, TypeOK, AliveInv, CallerInv, Return
<1>5. QED
    BY <1>1, <1>2, <1>3, <1>4 DEF IInv

\* The destructor asks for shutdown.
LEMMA DestroyIInv ==
    ASSUME IInv, Destroy
    PROVE  IInv'
<1>1. TypeOK' /\ WaitInv'
    BY DEF IInv, TypeOK, WaitInv, Destroy
<1>2. RanInv' /\ CountInv' /\ StepInv' /\ LastInv'
    BY DEF IInv, TypeOK, RanInv, CountInv, StepInv, LastInv, Destroy
<1>3. AliveInv' /\ CallerInv'
    BY DEF IInv, TypeOK, AliveInv, CallerInv, Destroy
<1>4. QED
    BY <1>1, <1>2, <1>3 DEF IInv

\* The destructor wakes the pool.
LEMMA NotifyShutdownIInv ==
    ASSUME IInv, NotifyShutdown
    PROVE  IInv'
<1>1. TypeOK' /\ WaitInv'
    BY DEF IInv, TypeOK, WaitInv, NotifyShutdown
<1>2. CountInv' /\ LastInv'
    BY DEF IInv, TypeOK, CountInv, LastInv, NotifyShutdown
<1>3. RanInv'
    BY DEF IInv, TypeOK, WaitInv, RanInv, NotifyShutdown
<1>4. StepInv'
    BY DEF IInv, TypeOK, WaitInv, StepInv, NotifyShutdown
<1>5. AliveInv' /\ CallerInv'
    BY DEF IInv, TypeOK, AliveInv, CallerInv, NotifyShutdown
<1>6. QED
    BY <1>1, <1>2, <1>3, <1>4, <1>5 DEF IInv

\* The destructor joins the threads.
LEMMA JoinIInv ==
    ASSUME IInv, Join
    PROVE  IInv'
<1>1. TypeOK' /\ WaitInv'
    BY DEF IInv, TypeOK, WaitInv, Join
<1>2. RanInv' /\ CountInv' /\ StepInv' /\ LastInv'
    BY DEF IInv, TypeOK, RanInv, CountInv, StepInv, LastInv, Join
<1>3. AliveInv' /\ CallerInv'
    BY DEF IInv, TypeOK, AliveInv, CallerInv, Join
<1>4. QED
    BY <1>1, <1>2, <1>3 DEF IInv

\* Every step of the specification preserves the invariant.
LEMMA NextIInv == IInv /\ [Next]_vars => IInv'
<1> SUFFICES ASSUME IInv, [Next]_vars PROVE IInv'
    OBVIOUS
<1>1. ASSUME NEW t \in Threads, PoolStep(t) PROVE IInv'
    BY <1>1, TakeLockIInv, BlockIInv, CheckShutdownIInv, EnterRunIInv,
       CheckAliveIInv, ReadStepIInv, NotifyErrorIInv, ArriveIInv,
       ResetCountIInv, AdvanceStepIInv, SpinExitIInv, LeaveRunIInv,
       ReportDoneIInv, NotifyDoneIInv
       DEF PoolStep
<1>2. ASSUME NEW t \in Threads, StepDone(t) \/ StepFails(t) \/ SpuriousWakeup(t)
      PROVE  IInv'
    BY <1>2, StepDoneIInv, StepFailsIInv, SpuriousWakeupIInv
<1>3. CASE CallerStep
    BY <1>3, ForwardIInv, NotifyRunIInv, BeginWaitIInv, PollIInv,
       KeepWaitingIInv, StallTimeoutIInv, ReturnIInv, DestroyIInv,
       NotifyShutdownIInv, JoinIInv
       DEF CallerStep
<1>4. CASE UNCHANGED vars
    BY <1>4 DEF vars, IInv, TypeOK, WaitInv, RanInv, CountInv, StepInv,
                LastInv, AliveInv, CallerInv
<1>5. QED
    BY <1>1, <1>2, <1>3, <1>4 DEF Next, Terminated

\* The inductive invariant holds in every reachable state.
THEOREM Invariance == Spec => []IInv
    BY InitIInv, NextIInv, PTL DEF Spec

-----------------------------------------------------------------------------
(* What the invariant says about the pool.                                 *)

\* Type correctness: in particular the step index never passes the end of
\* the step list, so executeStep never reads beyond it.
THEOREM TypeCorrect == Spec => []TypeOK
<1>1. IInv => TypeOK
    BY DEF IInv
<1>2. QED
    BY <1>1, Invariance, PTL

\* The step barrier holds for any pool, through errors, stall timeouts and
\* shutdown: a thread inside step s sees all others between s and s + 1.
THEOREM BarrierHolds == Spec => []Barrier
<1>1. IInv => Barrier
    BY DEF IInv, TypeOK, RanInv, StepInv, Barrier
<1>2. QED
    BY <1>1, Invariance, PTL

\* A forward() that returns normally has executed every step in every thread.
THEOREM SuccessIsComplete == Spec => []SuccessMeansComplete
<1>1. IInv => SuccessMeansComplete
    BY DEF IInv, TypeOK, RanInv, StepInv, CallerInv, SuccessMeansComplete
<1>2. QED
    BY <1>1, Invariance, PTL

\* No pool thread is inside a run while the caller is between two runs.
THEOREM QuiescenceHolds == Spec => []QuiescentBetweenRuns
<1>1. IInv => QuiescentBetweenRuns
    BY DEF IInv, TypeOK, CallerInv, QuiescentBetweenRuns, InRun
<1>2. QED
    BY <1>1, Invariance, PTL

-----------------------------------------------------------------------------
(* The pool implements its contract.                                       *)

\* A step of the code is a step of the contract or leaves it unchanged.
LEMMA StepRefines ==
    ASSUME IInv, IInv', [Next]_vars
    PROVE  [Contract!Next]_<<Phase, ran>>
<1> USE DEF Phase
<1>1. CASE Forward
    BY <1>1 DEF Forward, Contract!Next, Contract!Start
<1>2. ASSUME NEW t \in Threads, StepDone(t) PROVE Contract!Work(t)
    <2>1. Phase # "idle" /\ UNCHANGED Phase
        BY <1>2 DEF IInv, TypeOK, CallerInv, StepDone
    <2>2. ran[t] < nSteps /\ \A u \in Threads : ran[u] >= ran[t]
        BY <1>2 DEF IInv, TypeOK, RanInv, StepInv, StepDone
    <2>3. QED
        BY <1>2, <2>1, <2>2 DEF StepDone, Contract!Work
<1>3. CASE Return
    <2>1. CASE isAlive
        <3>1. \A t \in Threads : ran[t] = nSteps
            BY <1>3, <2>1
               DEF IInv, TypeOK, RanInv, StepInv, AliveInv, CallerInv, Return
        <3>2. QED
            BY <1>3, <2>1, <3>1 DEF Return, Contract!Next, Contract!Finish
    <2>2. CASE ~isAlive
        BY <1>3, <2>2 DEF Return, Contract!Next, Contract!Abort
    <2>3. QED
        BY <2>1, <2>2
<1>4. CASE Destroy
    BY <1>4 DEF Destroy, Contract!Next, Contract!Close
<1>5. ASSUME NEW t \in Threads, \/ PoolStep(t) \/ StepFails(t)
                                \/ SpuriousWakeup(t)
      PROVE  UNCHANGED <<Phase, ran>>
    BY <1>5 DEF PoolStep, TakeLock, Block, CheckShutdown, EnterRun, CheckAlive,
                ReadStep, NotifyError, Arrive, ResetCount, AdvanceStep,
                SpinExit, LeaveRun, ReportDone, NotifyDone, StepFails,
                SpuriousWakeup
<1>6. CASE \/ NotifyRun \/ BeginWait \/ Poll \/ KeepWaiting \/ StallTimeout
           \/ NotifyShutdown \/ Join \/ UNCHANGED vars
    BY <1>6 DEF NotifyRun, BeginWait, Poll, KeepWaiting, StallTimeout,
                NotifyShutdown, Join, vars
<1>7. QED
    BY <1>1, <1>2, <1>3, <1>4, <1>5, <1>6
       DEF Next, CallerStep, Terminated, Contract!Next

\* Refinement: counters, epoch and condition variable implement the contract.
THEOREM Implementation == Spec => ImplementsContract
<1>1. Init => Contract!Init
    BY DEF Init, Phase, Contract!Init
<1>2. QED
    BY <1>1, StepRefines, Invariance, PTL
       DEF Spec, ImplementsContract, Contract!Spec

-----------------------------------------------------------------------------
(* Step errors, in a pool whose stall clock never expires.                 *)

\* Program counters of a thread that has failed, left and is not called back.
GivenUp == {"error", "leave", "report", "notify", "lock", "block", "wait",
            "woken", "exit"}

\* A failed thread e never arrives, so the barrier of its step stays shut.
Stuck(e) ==
    /\ e \notin arrived
    /\ pc[e] \in GivenUp
    /\ pc[e] = "woken" => isShutdown
    /\ localEpoch[e] = epoch \/ isShutdown

FailInv ==
    /\ timer = "deleted" => isShutdown
    /\ ~isAlive => /\ NobodyAdvances
                   /\ \E e \in Threads : Stuck(e)

\* An error leaves its thread behind for good.
LEMMA NextFailInv ==
    ASSUME ~slowSteps, IInv, FailInv, [Next]_vars
    PROVE  FailInv'
<1> USE DEF GivenUp, Stuck
<1>1. (timer = "deleted" => isShutdown)'
    BY DEF FailInv, IInv, CallerInv, Next, vars, PoolStep, CallerStep, Terminated,
           TakeLock, Block, CheckShutdown, EnterRun, CheckAlive, ReadStep,
           NotifyError, Arrive, ResetCount, AdvanceStep, SpinExit, LeaveRun,
           ReportDone, NotifyDone, StepDone, StepFails, SpuriousWakeup,
           Forward, NotifyRun, BeginWait, Poll, KeepWaiting, StallTimeout,
           Return, Destroy, NotifyShutdown, Join
<1>2. ASSUME ~isAlive, NEW e \in Threads, Stuck(e), NobodyAdvances
      PROVE  (~isAlive => (NobodyAdvances /\ Stuck(e)))'
    <2>1. ASSUME NEW t \in Threads,
                 \/ TakeLock(t) \/ Block(t) \/ CheckShutdown(t) \/ EnterRun(t)
                 \/ CheckAlive(t) \/ ReadStep(t) \/ SpinExit(t)
                 \/ SpuriousWakeup(t)
          PROVE  NobodyAdvances' /\ Stuck(e)'
        BY <1>2, <2>1 DEF IInv, TypeOK, TakeLock, WakePredicate, Block,
           CheckShutdown, EnterRun, CheckAlive, ReadStep, SpinExit, SpuriousWakeup
    <2>2. ASSUME NEW t \in Threads,
                 \/ StepDone(t) \/ StepFails(t) \/ Arrive(t) \/ LeaveRun(t)
                 \/ ReportDone(t) \/ NotifyDone(t) \/ NotifyError(t)
          PROVE  NobodyAdvances' /\ Stuck(e)'
        BY <1>2, <2>2 DEF IInv, TypeOK, WaitInv, StepDone, StepFails, Arrive,
           LeaveRun, ReportDone, NotifyDone, NotifyError
    <2>3. ASSUME NEW t \in Threads, ResetCount(t) \/ AdvanceStep(t)
          PROVE  FALSE
        BY <1>2, <2>3 DEF IInv, TypeOK, LastInv, ResetCount, AdvanceStep
    <2>4. CASE CallerStep
        BY <1>2, <2>4 DEF IInv, TypeOK, WaitInv, CallerInv, CallerStep, Forward,
           NotifyRun, BeginWait, Poll, KeepWaiting, StallTimeout, Return,
           Destroy, NotifyShutdown, Join
    <2>5. CASE UNCHANGED vars
        BY <1>2, <2>5 DEF vars
    <2>6. QED
        BY <2>1, <2>2, <2>3, <2>4, <2>5 DEF Next, PoolStep, Terminated
<1>3. ASSUME isAlive, ~isAlive' PROVE NobodyAdvances' /\ \E e \in Threads : Stuck(e)'
    <2>1. PICK t \in Threads : StepFails(t)
        BY <1>3 DEF Next, vars, PoolStep, CallerStep, Terminated,
           TakeLock, Block, CheckShutdown, EnterRun, CheckAlive, ReadStep,
           NotifyError, Arrive, ResetCount, AdvanceStep, SpinExit, LeaveRun,
           ReportDone, NotifyDone, StepDone, SpuriousWakeup,
           Forward, NotifyRun, BeginWait, Poll, KeepWaiting, StallTimeout,
           Return, Destroy, NotifyShutdown, Join
    <2>2. NobodyAdvances' /\ Stuck(t)'
        BY <1>3, <2>1 DEF IInv, TypeOK, StepInv, AliveInv, StepFails
    <2>3. QED
        BY <2>2
<1>4. QED
    BY <1>1, <1>2, <1>3 DEF FailInv

\* Whether steps outlast the stall timeout does not change in a behaviour.
LEMMA SlowStepsFixed == ASSUME [Next]_vars PROVE slowSteps' = slowSteps
BY DEF Next, vars, PoolStep, CallerStep, Terminated,
           TakeLock, Block, CheckShutdown, EnterRun, CheckAlive, ReadStep,
           NotifyError, Arrive, ResetCount, AdvanceStep, SpinExit, LeaveRun,
           ReportDone, NotifyDone, StepDone, StepFails, SpuriousWakeup,
           Forward, NotifyRun, BeginWait, Poll, KeepWaiting, StallTimeout,
           Return, Destroy, NotifyShutdown, Join

\* Without stall timeouts the failed thread is remembered in every state.
LEMMA FailInvariance == Spec => [](~slowSteps => FailInv)
<1>1. Init => (~slowSteps => FailInv)
    BY DEF Init, FailInv
<1>2. IInv /\ (~slowSteps => FailInv) /\ [Next]_vars => (~slowSteps => FailInv)'
    BY NextFailInv, SlowStepsFixed
<1>3. QED
    BY <1>1, <1>2, Invariance, PTL DEF Spec

\* Without stall timeouts no thread touches the timer ~NnExecutor deleted,
\* although the destructor deletes it before it joins the threads.
THEOREM TimerSafe == Spec => []TimerOutlivesSteps
<1>1. IInv /\ (~slowSteps => FailInv) => TimerOutlivesSteps
    BY DEF IInv, TypeOK, LastInv, AliveInv, CallerInv, FailInv, Stuck,
           TimerOutlivesSteps
<1>2. QED
    BY <1>1, Invariance, FailInvariance, PTL

\* Without stall timeouts the pool never advances past a step that has thrown.
THEOREM ErrorIsFinal == Spec => FailedStepIsFinal
<1>1. ASSUME IInv, ~slowSteps => FailInv, [Next]_vars
      PROVE  [~isAlive /\ ~slowSteps => currentStepIndex' = currentStepIndex]_vars
    BY <1>1 DEF IInv, CallerInv, FailInv, Next, vars, PoolStep, CallerStep,
           Terminated, TakeLock, Block, CheckShutdown, EnterRun, CheckAlive,
           ReadStep, NotifyError, Arrive, ResetCount, AdvanceStep, SpinExit,
           LeaveRun, ReportDone, NotifyDone, StepDone, StepFails,
           SpuriousWakeup, Forward, NotifyRun, BeginWait, Poll, KeepWaiting,
           StallTimeout, Return, Destroy, NotifyShutdown, Join
<1>2. QED
    BY <1>1, Invariance, FailInvariance, PTL DEF Spec, FailedStepIsFinal
=============================================================================
