------------------------------ MODULE Executor ------------------------------
(***************************************************************************)
(* The thread pool of one node: NnExecutor (src/src/nn/nn-executor.cpp).   *)
(*                                                                         *)
(* nThreads pool threads execute the same list of nSteps steps.  A run is  *)
(* started by forward(), which bumps `epoch` and wakes the pool through a  *)
(* condition variable; inside a run the threads are kept in lock step by   *)
(* a counter barrier (doneThreadCount, currentStepIndex) on which they     *)
(* spin, and the last thread to leave the run reports isRunDone.           *)
(*                                                                         *)
(* A pool thread's program counter `pc` names the next thing it does:      *)
(*   "lock"    take the mutex and evaluate the cv predicate                *)
(*   "block"   predicate was false; about to release the mutex and block   *)
(*   "wait"    blocked in cv.wait                                          *)
(*   "woken"   left cv.wait; tests isShutdown                              *)
(*   "epoch"   copies epoch into localEpoch                                *)
(*   "alive"   tests isAlive at the head of the step loop                  *)
(*   "read"    reads currentStepIndex                                      *)
(*   "exec"    inside executeStep                                          *)
(*   "error"   executeStep threw; isAlive is cleared, cv not yet notified  *)
(*   "arrive"  executeStep returned; about to fetch_add doneThreadCount    *)
(*   "reset"   last to arrive; touches the timer, clears doneThreadCount   *)
(*   "advance" about to increment currentStepIndex                         *)
(*   "spin"    waits for the step to change                                *)
(*   "leave"   left the step loop; about to fetch_add doneRunThreadCount   *)
(*   "report"  last to leave; about to set isRunDone                       *)
(*   "notify"  about to notify after isRunDone                             *)
(*   "exit"    thread function returned                                    *)
(*                                                                         *)
(* `caller` is the thread that owns the executor: the root or worker loop. *)
(***************************************************************************)
EXTENDS Integers, FiniteSets

CONSTANTS Threads,       \* the pool threads
          nSteps,        \* length of the step list
          MaxRuns        \* bound: number of forward() calls

ASSUME ExecutorAssumption ==
    /\ IsFiniteSet(Threads)
    /\ Threads # {}
    /\ nSteps \in Nat
    /\ MaxRuns \in Nat

VARIABLES
    \* NnExecutorContext
    epoch, currentStepIndex, doneThreadCount, doneRunThreadCount,
    isAlive, isShutdown, isRunDone, timer,
    \* the mutex and the condition variable's wait set
    mutex, waiters,
    \* pool threads: program counter and locals
    pc, localEpoch, cur,
    \* the caller: where it is, the step index it saw last, and whether a
    \* step can take longer than DLLAMA_EXEC_STALL_TIMEOUT_MS
    caller, observed, slowSteps,
    \* history of the current run: steps each thread has executed, who has
    \* passed the barrier of the current step, who has left the run
    ran, arrived, left

ctxVars    == <<epoch, currentStepIndex, doneThreadCount, doneRunThreadCount,
                isAlive, isShutdown, isRunDone, timer>>
cvVars     == <<mutex, waiters>>
threadVars == <<pc, localEpoch, cur>>
callerVars == <<caller, observed, slowSteps>>
histVars   == <<ran, arrived, left>>
vars == <<ctxVars, cvVars, threadVars, callerVars, histVars>>

nThreads == Cardinality(Threads)

NoOwner == "free"
CallerOwner == "caller"

PC == {"lock", "block", "wait", "woken", "epoch", "alive", "read", "exec",
       "error", "arrive", "reset", "advance", "spin", "leave", "report",
       "notify", "exit"}

CallerPC == {"idle", "started", "notified", "waiting", "polled", "returned", "failed",
             "destroying", "joining", "gone"}

Goto(t, to) == pc' = [pc EXCEPT ![t] = to]

\* cv.notify_all(): every blocked thread has to take the mutex again.  The
\* caller's own wait_for is a 50 ms poll (see Poll) and needs no wake-up.
Woken(f) == [t \in Threads |-> IF t \in waiters THEN "lock" ELSE f[t]]

-----------------------------------------------------------------------------
\* The constructor: counters at zero, one thread per index already started.
Init ==
    /\ epoch = 0 /\ currentStepIndex = 0
    /\ doneThreadCount = 0 /\ doneRunThreadCount = 0
    /\ isAlive = TRUE /\ isShutdown = FALSE /\ isRunDone = TRUE
    /\ timer = "allocated"
    /\ mutex = NoOwner /\ waiters = {}
    /\ pc = [t \in Threads |-> "lock"]
    /\ localEpoch = [t \in Threads |-> 0]
    /\ cur = [t \in Threads |-> 0]
    /\ caller = "idle" /\ observed = 0 /\ slowSteps \in BOOLEAN
    /\ ran = [t \in Threads |-> 0]
    /\ arrived = {} /\ left = {}

-----------------------------------------------------------------------------
(* Waiting for a run: cv.wait with a predicate.                            *)

WakePredicate(t) == isShutdown \/ epoch # localEpoch[t]

\* lock(mutex) and evaluate the predicate; true: unlock and go on.
TakeLock(t) ==
    /\ pc[t] = "lock" /\ mutex = NoOwner
    /\ IF WakePredicate(t)
         THEN Goto(t, "woken") /\ UNCHANGED mutex
         ELSE Goto(t, "block") /\ mutex' = t
    /\ UNCHANGED <<ctxVars, waiters, localEpoch, cur, callerVars, histVars>>

\* Release the mutex and block, atomically for holders of the mutex.
Block(t) ==
    /\ pc[t] = "block"
    /\ Goto(t, "wait")
    /\ mutex' = NoOwner
    /\ waiters' = waiters \cup {t}
    /\ UNCHANGED <<ctxVars, localEpoch, cur, callerVars, histVars>>

\* C++ lets a wait return without a notification.
SpuriousWakeup(t) ==
    /\ pc[t] = "wait"
    /\ Goto(t, "lock")
    /\ waiters' = waiters \ {t}
    /\ UNCHANGED <<ctxVars, mutex, localEpoch, cur, callerVars, histVars>>

CheckShutdown(t) ==
    /\ pc[t] = "woken"
    /\ Goto(t, IF isShutdown THEN "exit" ELSE "epoch")
    /\ UNCHANGED <<ctxVars, cvVars, localEpoch, cur, callerVars, histVars>>

EnterRun(t) ==
    /\ pc[t] = "epoch"
    /\ Goto(t, "alive")
    /\ localEpoch' = [localEpoch EXCEPT ![t] = epoch]
    /\ UNCHANGED <<ctxVars, cvVars, cur, callerVars, histVars>>

-----------------------------------------------------------------------------
(* The step loop.                                                          *)

CheckAlive(t) ==
    /\ pc[t] = "alive"
    /\ Goto(t, IF isAlive THEN "read" ELSE "leave")
    /\ UNCHANGED <<ctxVars, cvVars, localEpoch, cur, callerVars, histVars>>

\* Mutant of ReadStep: the end of the step list is not tested.
MutReadStepNoEnd(t) ==
    /\ pc[t] = "read"
    /\ cur' = [cur EXCEPT ![t] = currentStepIndex]
    /\ Goto(t, "exec")
    /\ UNCHANGED <<ctxVars, cvVars, localEpoch, callerVars, histVars>>

ReadStep(t) ==
    /\ pc[t] = "read"
    /\ cur' = [cur EXCEPT ![t] = currentStepIndex]
    /\ Goto(t, IF currentStepIndex = nSteps THEN "leave" ELSE "exec")
    /\ UNCHANGED <<ctxVars, cvVars, localEpoch, callerVars, histVars>>

\* executeStep returns.
StepDone(t) ==
    /\ pc[t] = "exec"
    /\ Goto(t, "arrive")
    /\ ran' = [ran EXCEPT ![t] = @ + 1]
    /\ UNCHANGED <<ctxVars, cvVars, localEpoch, cur, callerVars, arrived, left>>

\* executeStep throws std::runtime_error (a socket error in a sync step).
StepFails(t) ==
    /\ pc[t] = "exec"
    /\ Goto(t, "error")
    /\ isAlive' = FALSE
    /\ UNCHANGED <<epoch, currentStepIndex, doneThreadCount, doneRunThreadCount,
                   isShutdown, isRunDone, timer, cvVars, localEpoch, cur,
                   callerVars, histVars>>

\* Mutant of NotifyError: the handler falls through to the barrier.
MutErrorFallsThrough(t) ==
    /\ pc[t] = "error"
    /\ pc' = Woken([pc EXCEPT ![t] = "arrive"])
    /\ waiters' = {}
    /\ UNCHANGED <<ctxVars, mutex, localEpoch, cur, callerVars, histVars>>

NotifyError(t) ==
    /\ pc[t] = "error"
    /\ pc' = Woken([pc EXCEPT ![t] = "leave"])
    /\ waiters' = {}
    /\ UNCHANGED <<ctxVars, mutex, localEpoch, cur, callerVars, histVars>>

\* Mutant of Arrive: the barrier opens one thread early.
MutArriveEarly(t) ==
    /\ pc[t] = "arrive"
    /\ doneThreadCount' = doneThreadCount + 1
    /\ arrived' = arrived \cup {t}
    /\ Goto(t, IF doneThreadCount = nThreads - 2 THEN "reset" ELSE "spin")
    /\ UNCHANGED <<epoch, currentStepIndex, doneRunThreadCount, isAlive,
                   isShutdown, isRunDone, timer, cvVars, localEpoch, cur,
                   callerVars, ran, left>>

\* doneThreadCount.fetch_add(1): the last thread opens the barrier.
Arrive(t) ==
    /\ pc[t] = "arrive"
    /\ doneThreadCount' = doneThreadCount + 1
    /\ arrived' = arrived \cup {t}
    /\ Goto(t, IF doneThreadCount = nThreads - 1 THEN "reset" ELSE "spin")
    /\ UNCHANGED <<epoch, currentStepIndex, doneRunThreadCount, isAlive,
                   isShutdown, isRunDone, timer, cvVars, localEpoch, cur,
                   callerVars, ran, left>>

\* Step time and timer, then doneThreadCount.store(0).
ResetCount(t) ==
    /\ pc[t] = "reset"
    /\ doneThreadCount' = 0
    /\ arrived' = {}
    /\ Goto(t, "advance")
    /\ UNCHANGED <<epoch, currentStepIndex, doneRunThreadCount, isAlive,
                   isShutdown, isRunDone, timer, cvVars, localEpoch, cur,
                   callerVars, ran, left>>

\* currentStepIndex.fetch_add(1)
AdvanceStep(t) ==
    /\ pc[t] = "advance"
    /\ currentStepIndex' = currentStepIndex + 1
    /\ Goto(t, "alive")
    /\ UNCHANGED <<epoch, doneThreadCount, doneRunThreadCount, isAlive,
                   isShutdown, isRunDone, timer, cvVars, localEpoch, cur,
                   callerVars, histVars>>

\* Mutant of SpinExit: the threads do not wait for the step to change.
MutNoSpin(t) ==
    /\ pc[t] = "spin"
    /\ Goto(t, "alive")
    /\ UNCHANGED <<ctxVars, cvVars, localEpoch, cur, callerVars, histVars>>

SpinExit(t) ==
    /\ pc[t] = "spin"
    /\ \/ currentStepIndex # cur[t]
       \/ ~isAlive
       \/ isShutdown
       \/ epoch # localEpoch[t]
    /\ Goto(t, "alive")
    /\ UNCHANGED <<ctxVars, cvVars, localEpoch, cur, callerVars, histVars>>

\* Mutant of LeaveRun: the first thread to leave reports the run.
MutLeaveFirst(t) ==
    /\ pc[t] = "leave"
    /\ doneRunThreadCount' = doneRunThreadCount + 1
    /\ left' = left \cup {t}
    /\ Goto(t, IF doneRunThreadCount = 0 THEN "report" ELSE "lock")
    /\ UNCHANGED <<epoch, currentStepIndex, doneThreadCount, isAlive,
                   isShutdown, isRunDone, timer, cvVars, localEpoch, cur,
                   callerVars, ran, arrived>>

\* doneRunThreadCount.fetch_add(1)
LeaveRun(t) ==
    /\ pc[t] = "leave"
    /\ doneRunThreadCount' = doneRunThreadCount + 1
    /\ left' = left \cup {t}
    /\ Goto(t, IF doneRunThreadCount = nThreads - 1 THEN "report" ELSE "lock")
    /\ UNCHANGED <<epoch, currentStepIndex, doneThreadCount, isAlive,
                   isShutdown, isRunDone, timer, cvVars, localEpoch, cur,
                   callerVars, ran, arrived>>

ReportDone(t) ==
    /\ pc[t] = "report"
    /\ isRunDone' = TRUE
    /\ Goto(t, "notify")
    /\ UNCHANGED <<epoch, currentStepIndex, doneThreadCount, doneRunThreadCount,
                   isAlive, isShutdown, timer, cvVars, localEpoch, cur,
                   callerVars, histVars>>

NotifyDone(t) ==
    /\ pc[t] = "notify"
    /\ pc' = Woken([pc EXCEPT ![t] = "lock"])
    /\ waiters' = {}
    /\ UNCHANGED <<ctxVars, mutex, localEpoch, cur, callerVars, histVars>>

-----------------------------------------------------------------------------
(* The caller: forward() and the destructor.                               *)

\* Mutant of Forward: the context is reset without taking the mutex.
MutForwardUnlocked ==
    /\ caller = "idle"
    /\ epoch < MaxRuns
    /\ isAlive' = TRUE
    /\ currentStepIndex' = 0 /\ doneThreadCount' = 0 /\ doneRunThreadCount' = 0
    /\ isRunDone' = FALSE
    /\ epoch' = epoch + 1
    /\ caller' = "started"
    /\ ran' = [t \in Threads |-> 0]
    /\ arrived' = {} /\ left' = {}
    /\ UNCHANGED <<isShutdown, timer, cvVars, threadVars, observed, slowSteps>>

\* The critical section of forward(): reset the context, bump the epoch.
Forward ==
    /\ caller = "idle" /\ mutex = NoOwner
    /\ epoch < MaxRuns
    /\ isAlive' = TRUE
    /\ currentStepIndex' = 0 /\ doneThreadCount' = 0 /\ doneRunThreadCount' = 0
    /\ isRunDone' = FALSE
    /\ epoch' = epoch + 1
    /\ caller' = "started"
    /\ ran' = [t \in Threads |-> 0]
    /\ arrived' = {} /\ left' = {}
    /\ UNCHANGED <<isShutdown, timer, cvVars, threadVars, observed, slowSteps>>

\* notify_all, after the mutex was released.
NotifyRun ==
    /\ caller = "started"
    /\ pc' = Woken(pc)
    /\ waiters' = {}
    /\ caller' = "notified"
    /\ UNCHANGED <<ctxVars, mutex, localEpoch, cur, observed, slowSteps, histVars>>

\* Take the mutex again and note the step index for the stall clock.
BeginWait ==
    /\ caller = "notified" /\ mutex = NoOwner
    /\ observed' = currentStepIndex
    /\ caller' = "waiting"
    /\ UNCHANGED <<ctxVars, cvVars, threadVars, slowSteps, histVars>>

RunOver == isShutdown \/ isRunDone \/ ~isAlive

\* One wait_for of 50 ms: it ends with the mutex held and the predicate's
\* value; false means that the stall clock is looked at (see "polled").
Poll ==
    /\ caller = "waiting" /\ mutex = NoOwner
    /\ IF RunOver
         THEN caller' = "returned" /\ UNCHANGED mutex
         ELSE caller' = "polled" /\ mutex' = CallerOwner
    /\ UNCHANGED <<ctxVars, waiters, threadVars, observed, slowSteps, histVars>>

\* Some step finished since the last poll, or the stall is still short.
KeepWaiting ==
    /\ caller = "polled"
    /\ observed' = currentStepIndex
    /\ caller' = "waiting"
    /\ mutex' = NoOwner
    /\ UNCHANGED <<ctxVars, waiters, threadVars, slowSteps, histVars>>

\* Mutant of StallTimeout: the expired stall is logged and waited on again.
MutTimeoutOnlyLogs ==
    /\ caller = "polled" /\ slowSteps
    /\ currentStepIndex = observed
    /\ mutex' = NoOwner
    /\ caller' = "waiting"
    /\ UNCHANGED <<ctxVars, waiters, threadVars, observed, slowSteps, histVars>>

\* No step finished for stallTimeoutMs.
StallTimeout ==
    /\ caller = "polled" /\ slowSteps
    /\ currentStepIndex = observed
    /\ isAlive' = FALSE
    /\ isRunDone' = TRUE
    /\ epoch' = epoch + 1
    /\ pc' = Woken(pc)
    /\ waiters' = {}
    /\ mutex' = NoOwner
    /\ caller' = "returned"
    /\ UNCHANGED <<currentStepIndex, doneThreadCount, doneRunThreadCount,
                   isShutdown, timer, localEpoch, cur, observed, slowSteps, histVars>>

\* Mutant of Return: an error in a thread is not rethrown.
MutErrorSwallowed ==
    /\ caller = "returned"
    /\ caller' = "idle"
    /\ UNCHANGED <<ctxVars, cvVars, threadVars, observed, slowSteps, histVars>>

\* After unlocking: throw NnExecutorException, or return to the caller.
Return ==
    /\ caller = "returned"
    /\ caller' = IF isAlive THEN "idle" ELSE "failed"
    /\ UNCHANGED <<ctxVars, cvVars, threadVars, observed, slowSteps, histVars>>

\* ~NnExecutor, part 1.  No caller retries after NnExecutorException: the
\* worker session and runInferenceApp both unwind, which destroys the executor.
Destroy ==
    /\ caller \in {"idle", "failed"}
    /\ timer' = "deleted"
    /\ isShutdown' = TRUE
    /\ epoch' = epoch + 1
    /\ caller' = "destroying"
    /\ UNCHANGED <<currentStepIndex, doneThreadCount, doneRunThreadCount,
                   isAlive, isRunDone, cvVars, threadVars, observed, slowSteps, histVars>>

\* Mutant of NotifyShutdown: the destructor relies on the epoch alone.
MutShutdownSilent ==
    /\ caller = "destroying"
    /\ caller' = "joining"
    /\ UNCHANGED <<ctxVars, cvVars, threadVars, observed, slowSteps, histVars>>

\* ~NnExecutor, part 2: notify_all, without the mutex.
NotifyShutdown ==
    /\ caller = "destroying"
    /\ pc' = Woken(pc)
    /\ waiters' = {}
    /\ caller' = "joining"
    /\ UNCHANGED <<ctxVars, mutex, localEpoch, cur, observed, slowSteps, histVars>>

Join ==
    /\ caller = "joining"
    /\ \A t \in Threads : pc[t] = "exit"
    /\ caller' = "gone"
    /\ UNCHANGED <<ctxVars, cvVars, threadVars, observed, slowSteps, histVars>>

-----------------------------------------------------------------------------
\* Everything a pool thread does outside executeStep.
PoolStep(t) ==
    \/ TakeLock(t) \/ Block(t) \/ CheckShutdown(t) \/ EnterRun(t)
    \/ CheckAlive(t) \/ ReadStep(t) \/ NotifyError(t)
    \/ Arrive(t) \/ ResetCount(t) \/ AdvanceStep(t) \/ SpinExit(t)
    \/ LeaveRun(t) \/ ReportDone(t) \/ NotifyDone(t)

CallerStep ==
    \/ Forward \/ NotifyRun \/ BeginWait \/ Poll \/ KeepWaiting
    \/ StallTimeout \/ Return \/ Destroy \/ NotifyShutdown \/ Join

\* The executor is gone and so are its threads.
Terminated == caller = "gone" /\ UNCHANGED vars

Next ==
    \/ \E t \in Threads :
         PoolStep(t) \/ StepDone(t) \/ StepFails(t) \/ SpuriousWakeup(t)
    \/ CallerStep
    \/ Terminated

Spec == Init /\ [][Next]_vars

-----------------------------------------------------------------------------
(* Fairness.  A pool thread and the caller keep running (the scheduler);   *)
(* a thread that asks for the mutex again and again eventually gets it.    *)

ThreadFairness(t) ==
    /\ WF_vars(PoolStep(t))
    /\ SF_vars(TakeLock(t))

CallerFairness ==
    /\ WF_vars(NotifyRun)
    /\ SF_vars(BeginWait)
    /\ SF_vars(Poll)
    /\ WF_vars(KeepWaiting)
    /\ WF_vars(Return)
    /\ WF_vars(NotifyShutdown)
    /\ WF_vars(Join)

\* Nothing is said of the steps themselves: StepDone(t) and StallTimeout carry
\* their fairness in the properties that need it.
FairSpec ==
    /\ Spec /\ CallerFairness
    /\ \A t \in Threads : ThreadFairness(t)

\* Every step eventually returns or throws: kernels terminate, and the socket
\* loops of a sync step have a hard stall timeout.
StepsReturn == \A t \in Threads : WF_vars(StepDone(t))

\* A step may hang for ever, but the stall clock of forward() runs out.
StallClockRuns == slowSteps /\ SF_vars(StallTimeout)

-----------------------------------------------------------------------------
TypeOK ==
    /\ epoch \in Nat
    /\ currentStepIndex \in 0..nSteps
    /\ doneThreadCount \in Nat
    /\ doneRunThreadCount \in Nat
    /\ isAlive \in BOOLEAN /\ isShutdown \in BOOLEAN /\ isRunDone \in BOOLEAN
    /\ timer \in {"allocated", "deleted"}
    /\ mutex \in Threads \cup {NoOwner, CallerOwner}
    /\ waiters \in SUBSET Threads
    /\ pc \in [Threads -> PC]
    /\ localEpoch \in [Threads -> Nat]
    /\ cur \in [Threads -> 0..nSteps]
    /\ caller \in CallerPC
    /\ observed \in 0..nSteps /\ slowSteps \in BOOLEAN
    /\ ran \in [Threads -> Nat]
    /\ arrived \in SUBSET Threads
    /\ left \in SUBSET Threads

\* The step barrier of the pool: while a thread is inside step s, every other
\* thread has executed all the steps before s and none is past s, so a step
\* may read what any thread wrote in the previous one.  Holds through step
\* errors, the stall timeout and shutdown.
Barrier ==
    \A t, u \in Threads :
        pc[t] = "exec" => /\ ran[u] >= cur[t]
                          /\ ran[u] <= cur[t] + 1

\* When forward() returns normally every thread has executed every step of
\* the run exactly once: the barrier counters lose no thread and no step, and
\* an error in any thread is never reported as success.
SuccessMeansComplete ==
    (caller = "idle" /\ epoch > 0) => \A t \in Threads : ran[t] = nSteps

\* Between two forward() calls no pool thread is inside the step loop, so the
\* caller may write pipes, batchSize and positions without a lock, and the
\* next forward() may reset the counters.
InRun == {"epoch", "alive", "read", "exec", "error", "arrive", "reset",
          "advance", "spin", "leave", "report"}

QuiescentBetweenRuns ==
    caller = "idle" => \A t \in Threads : pc[t] \notin InRun

\* The benchmark timer is touched by the last thread of a step; ~NnExecutor
\* deletes it before it joins the threads.  No thread may still get there.
TimerOutlivesSteps ==
    ~slowSteps => \A t \in Threads : pc[t] = "reset" => timer = "allocated"

\* Once a step has thrown, the pool never moves on to the next step: results
\* of a failed step are not consumed.
FailedStepIsFinal ==
    [][~isAlive /\ ~slowSteps => currentStepIndex' = currentStepIndex]_vars

\* The pool implements its contract (RunContract): `ran` counts the steps of
\* the run, and the caller's place tells the phase.
Phase ==
    CASE caller = "idle" -> "idle"
      [] caller \in {"started", "notified", "waiting", "polled", "returned"} -> "running"
      [] caller = "failed" -> "aborted"
      [] OTHER -> "closed"

Contract == INSTANCE RunContract WITH phase <- Phase, level <- ran

\* Property: every behaviour of the counters, the epoch and the condition
\* variable is a behaviour of the contract.
ImplementsContract == Contract!Spec

ForwardReturns == (caller = "started") ~> (caller \in {"idle", "failed"})

\* Every forward() returns or throws when its steps do: no wake-up of a run is
\* lost, and the barrier lets everybody go on.
ReturnsAfterSteps == StepsReturn => ForwardReturns

\* Every forward() returns or throws when a step hangs for ever: the stall clock
\* gets the caller out although no thread of the pool moves.
ReturnsAfterStall == StallClockRuns => ForwardReturns

\* ~NnExecutor sets isShutdown and notifies without the mutex.  Its join comes to
\* an end unless a thread had found the predicate false and had not blocked yet:
\* that thread, and no other, can miss the only notification.
ShutdownJoins ==
    StepsReturn =>
      ((caller = "destroying" /\ \A t \in Threads : pc[t] # "block") ~> caller = "gone")
=============================================================================
