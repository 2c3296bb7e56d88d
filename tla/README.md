# TLA+ models of the prefill-opt inference engine

This directory holds TLA+ specifications of the distributed inference engine in
this repository (a fork of distributed-llama with pipeline, sequence and tensor
parallelism), the TLC configurations that check them on small instances, and
TLAPS proofs. `PROJECT.json` lists the runs, maps every definition to the source
lines it stands for, and lists the hazards of the code with the properties that
cover them.

Paths below are relative to `src/src/`.

    tlc -workers 2 -config MCExecutor_safety.cfg MCExecutor     # one run
    tlapm ExecutorProofs.tla                                    # one module of proofs

## 1. The system

A cluster has one root and several workers. Every node runs the same graph
builder and holds `1/tpSize` of the layers of its pipeline stage; nodes are
numbered stage by stage, within a stage SP rank by SP rank, and within that by
TP rank. The root is `dllama` or the HTTP server `dllama-api`; `dllama-gateway`
spreads clients over several such servers.

| component | state | operations | hard behaviour |
|---|---|---|---|
| **Step executor** `nn/nn-executor.cpp` | counters, `epoch`, flags, a condition variable, a timer | thread loop, `forward()`, stall timeout, destructor | `nThreads` threads on a hand-made barrier; errors, timeouts, shutdown |
| **Pipeline session** `dllama.cpp`, `app.cpp` | control packet, position, KV cache, skip state | chunked prefill, wave prefill, decode, stage skip, next prompt, stop | messages of two kinds on one socket, bounded buffers, no header check of logits |
| **Pipeline transport** `nn/nn-pipeline.cpp` | delta bases, wire buffers | `sendActivation`, `recvActivation` | two-peer poll, bases of sender and receiver |
| **Cluster handshake** `nn/nn-network.cpp` `serve`, `connect` | sockets, backlog | connect, ACK, ready, mesh, listen again | connections are anonymous; arrival order; processes that die |
| **Config and weights** `nn/nn-network.cpp`, `llm.cpp` | buffers of every node | config writer/reader, weight loaders | owner of a layer, order of the stream |
| **Topology** `nn/nn-topology.hpp`, `llm.cpp` | none | rank, group and layer arithmetic | two pieces of code that must agree |
| **TP collectives** `nn/nn-network.cpp` `sync` | pipes, sockets | from the root, star, ring, batched exchange | unframed transfers, blocking writes |
| **SP KV exchange** `nn/nn-network.cpp`, `nn/nn-cpu-ops.cpp` | KV rows | `SYNC_SP_KV`, shift | pairwise blocking exchange, empty blocks, skipped syncs |
| **Socket I/O** `nn/nn-network.cpp` | sockets | `readMany`, `writeMany`, `writeAll`, ... | partial transfers, closed peers |
| **API server** `dllama-api.cpp` | prompt cache, KV cache | accept, complete, retry | cache entry before computation, four kinds of failures |
| **Gateway** `dllama-gateway.cpp` | request count, in-flight counts, health | admit, select, forward, release | concurrent clients, who gives what back on which path |
| Graph construction `llm.cpp` | none after start | - | sequential; which node gets which operation is modelled |
| SP scheduler, batched decoding `app.cpp`, `dllama.cpp` | a table; requests | - | see section 6 |
| Kernels, quantisation, repacking `nn/nn-cpu*.cpp`, `nn-quants.cpp`, `nn-vulkan.cpp` | - | - | floating point |
| Tokenizer, sampler `tokenizer.cpp` | - | - | sequential strings |

How they interact: the handshake creates the sockets; the config and the weights
are sent over them; then the root and worker loops exchange control packets and
activations, and inside each `forward()` the executor runs the compute steps and
the sync steps, whose collectives use the same sockets. A socket error inside a
sync step is an exception of `executeStep`; `forward()` turns it into
`NnExecutorException`, and the session of the node ends, which closes its sockets
and so reaches the other nodes. The API server calls the same `forward()`; how the
cluster fails decides which of its `catch` clauses the request meets.

What makes each part correct, in one line: the executor keeps its threads in
lock step and reports a run truthfully; the session pairs every activation and
every logits message with its request, attends only to real KV entries, and ends
on every node; startup leaves one connection per pair, every weight where its
operation is, and comes up again after a crash; a collective leaves exactly the
current data everywhere and never blocks; the gateway's counts are the number of
requests they stand for, the server's cache describes rows that exist, and every
client gets an end.

## 2. The modules

| module | models | granularity |
|---|---|---|
| `Executor` | `NnExecutor` | one action per atomic access to the shared context |
| `RunContract` | what the executor promises | abstract specification |
| `ExecutorProofs` | - | inductive invariant, theorems |
| `Pipeline` | `inference()`, `inferenceContinuousBatching()`, `RootLlmInference`, `WorkerLlmInference`, `NnPipelineCommunicator`, `runWorkerApp` | one action per message or `forward()` |
| `PipelineTypes`, `PipelineFlow`, `PipelineProofs` | - | types, the history and what a message does to it; two inductive invariants, theorems |
| `Handshake` | `NnNetwork::connect`, `serve`, crashes and restarts | one action per blocking call |
| `Startup` | extends `Handshake`: configuration, layout, weights | one action per message or load call |
| `StartupProofs`, `MeshProofs` | - | inductive invariants, theorems |
| `Collectives` | `sync()` with all sync types a graph uses | every algorithm is a list of reads and writes |
| `CollectivesProofs` | - | inductive invariant, theorems |
| `Connections` | TCP between gateway and servers (external) | - |
| `Gateway` | `processClient` and the backend pool | one action per atomic change, critical section or socket call |
| `ApiServer` | the serving loop, `NaiveCache`, `complete()`, `main`'s retry | one action per socket call or `forward()` |
| `Serving` | composes `Gateway` and `ApiServer` over `Connections` | - |
| `ServingProofs` | - | inductive invariants, theorems |
| `MC...` | - | instances for TLC |

Definitions named `Mut...` are plausible mistakes, one per property, that show the
property can fail; no specification uses them.

### Executor

The shared variables have the names of `NnExecutorContext`. Each atomic load,
store or `fetch_add` on them is an action of its own, and `pc[t]` names the next
one, so every interleaving of the barrier (lines 213-256), of leaving a run
(259-262), of `cv.wait` with its predicate (199-206), of `forward()` (308-416)
and of the destructor (269-280) is a behaviour. All atomics in this code use the
default, sequentially consistent order, so interleaving semantics are adequate.
`cv.wait` is split where it matters: `TakeLock` evaluates the predicate with the
mutex held, `Block` releases it and joins the wait set. Spurious wake-ups are
allowed. `ran`, `arrived` and `left` are history variables: how many steps a thread
has executed in this run, and who passed the two counters.

`executeStep` is `StepDone` or `StepFails`. `StallTimeout` is the branch of
`forward()` that gives up after `DLLAMA_EXEC_STALL_TIMEOUT_MS` without progress. A
behaviour fixes at its start whether a step may outlast that time (`slowSteps`):
what the code guarantees differs, and the properties that need it say so.

`RunContract` is the promise: levels of all threads differ by at most one, a
finished run has executed everything, an aborted one can only be closed. The
refinement maps `level` to `ran` and `phase` to the caller's place.

### Pipeline

One session with `tpSize = spSize = 1`. The root's loop is `PrefillChunk`,
`PrefillDone`, `DecodeToken`, `NextRequest`, `Finish`; each broadcasts a control
packet (`WriteControl` to each worker in socket order, or in any order with
non-blocking sockets), runs `RootForward`, sends the activation and waits for the
logits, or, in wave mode, does not wait and drains one message at the end. A worker
repeats `ReadControl`, `RecvActivation`, `WorkerForward`,
`SendActivation`/`SendLogits`. With pp-stage-skip the decision stage evaluates
`EvaluateSkip`, then sends a marker to the skipped stage and the activation to the
one behind it, which polls both peers while decoding. With `--prompts-file` the
requests follow each other on the same workers, KV rows and delta bases.

The poll tries the bypass peer, then the normal one, and gives up after 30 seconds. On
non-blocking sockets (`--net-turbo 1`, the default) a `recv` without data returns, so the
stage takes from whichever peer has sent (`Sources`). On blocking ones a `recv` returns
only with data or when its peer is gone (`NextSource`): the poll is at one peer at a time,
`secondSource` says at which, and the timeout is reached only when both are gone.

A socket direction is a FIFO of at most `socketCapacity` messages; writes block
when it is full. An activation is the rows it stands for and, with delta transport,
the rows it is a difference to; `sent` and `got` are the two ends' idea of the last
rows on a socket. The KV cache remembers which request computed an entry, or that it
was padding. A node that ends its session closes its sockets: data already sent can
be read unless the closing node had unread data (a reset). `Fault` is a node that
fails for a reason of its own (a failing `forward()`, a hard stall timeout).

### Handshake and Startup

`ConnectSocket` returns while the connection is in progress, as `connectSocket`
does (`EINPROGRESS` takes the success branch); `ConnectionArrives` is the network
(marked external). `sockets[w][k]` is the node that really is at the other end of
socket `k`, which the program itself never learns, or `GONE` once that end is closed.
Up to `maxCrashes` processes die anywhere; a root that finds a dead connection ends
and is started again by its operator, a worker listens again as `runWorkerApp` does,
and connections of an old session may still be in a backlog.

`Startup` continues where `connect` and `serve` return. `layout` is any combination
of `ppSize`, `spSize`, `tpSize` and stages that the constructors accept. A stage is given
by its offset in sub-blocks, two per layer; `StageOffsets` are the running sums of a
`--pp-layers` list, in layers or in sub-blocks, and the equal split. `Ops(n)` is what `buildLlmNet` gives to a node, `Targets` and
`WeightFor` what the loader sends it; `LoadWeight` drops what has no operation.

### Collectives

Each algorithm is a function from the call number to a `readMany` or `writeMany`:
`SyncWithRoot`, `StarAllReduce`, `RingAllReduce`, `SyncNodeSlicesBatched`,
`SyncSpKv`. The choice between them (`UsesRing`, `UsesBatch`, `SpKvSkipped`) is that of
`sync` and `syncNodeSlices`, and so is `Tp1Skipped`: in TP groups of one node all syncs but
that of the KV cache are left out, unless `DLLAMA_KEEP_TP1_SYNCS=1` is set (`keepTp1Syncs`).
A cell of a pipe holds the bag of contributions
`<<node, round>>` summed up in it, so that a lost, doubled or stale summand is
visible; a KV cell holds the round whose row it is. `setup` is a cluster (nodes, TP and
SP size, threads, options) and its sequence of sync steps. `Shift` is the operation
that writes a rank's own rows before the exchange.

A call without a socket to serve (the own rank and empty ranges of `SYNC_SP_KV`, a
thread with more threads than sockets) is passed over at once: `NextCall` is the next one
that blocks. `SetupOK` says which sequences of sync steps there are: positions stay inside
the context, a decoded token is one row, and the chunks of a prompt leave no position
out, so that an exchange never begins behind a row nobody has computed. `SYNC_WITH_ROOT`
occurs in clusters without pipeline stages, as in `buildLlmNet`, with or without SP groups
and whatever the size of a TP group.

### Serving

`Gateway`: a client's detached thread is `handler[c]`; the pool is changed under its
mutex in one step, the atomic `activeRequests` in steps of its own. `doubled` is a
ghost that counts the requests whose count was given back twice. `ApiServer`: one
serving loop per backend, with the prompt cache, and per KV row the messages of the
request that computed it. `backed` is a ghost: the leading cache entries made by
requests that ran to their end. A request ends early when its client's connection
breaks, when the control packet cannot be written (same exception type, the loop goes
on), when a step fails (`main` starts over) or when anything else throws (the process
ends). The programs meet only in `Connections`.

## 3. The runs

| run | instance | shows |
|---|---|---|
| `executor_pool` | 2 threads, 2 steps, 2 runs, errors, stall timeouts, shutdown | lock step, truthful success, quiet pool between runs, refinement of `RunContract`; with steps shorter than the stall timeout a failed step is the last and the deleted timer is not used; `forward()` returns when steps do, and through its timeout when they hang; `join` ends but for one lost notification |
| `pipeline_sessions` | 4 stages, five sessions (`MCWave`, `MCSkip`, `MCBlocking`, `MCBlockingPoll`, `MCPrompts`) | no deadlock but for the blocking poll, right logits, deltas meet their base, real KV, bounded gaps, end on every node, also after faults |
| `pipeline_padding` | prompt of 6 in a context of 6 | **violated**: padding leaves the context |
| `pipeline_blockingpoll` | 4 stages, blocking sockets, stage 2 may be skipped | **violated**: the poll waits for a bypass while the activation is there |
| `handshake_mapping` | 3 workers | **violated**: peers filed in arrival order |
| `startup_restart` | 3 workers, 2 layers, every layout with `spSize = 1`, one crash | complete mesh, every weight in its place, no control packet read as a weight, cluster comes up again but for one hang |
| `startup_sp` | the same with `spSize = 2` | **violated**: weights sent to the wrong nodes |
| `collectives_groups` | 11 clusters: TP groups of 1, 2, 3 and 8, SP groups of 2 and 3, whole graphs of SP clusters, sockets of one transfer | sums, slices, root rows and KV rows in place; nothing left on a socket; no deadlock |
| `collectives_ring` | 8 nodes | **violated**: ring all-gather |
| `collectives_batchsum` | 3 nodes, 2 rows | **violated**: batched path does not add |
| `collectives_tp1` | 2 SP ranks of one node | **violated**: the root's rows are not sent |
| `serving_clients` | 3 clients, 2 servers, queue of 2, 1 in flight each, two workloads | exact counts, bounded admission, covered load, cache backed by rows; every client gets an end |

With skip target 1 (`MCWave`) the deciding stage would be the root, which never
decides: no token is skipped, but stage 2 still polls the root's socket while it
decodes.

Why the bounds are enough. *Executor*: two threads, two steps and two runs let a fast
thread be one step and one run ahead of a slow one; that a third thread between them
changes nothing is part of the proofs, which cover every number of threads. *Pipeline*: sockets of one message are the hardest case for blocking; the wave's
chunks exceed everything a 4-stage pipeline can hold (one message per link and one
chunk per stage), so the root really blocks; the tokens decoded with
`maxConsecutive = maxRejectStreak = 2` go through both streak limits; one fault on
any node at any moment, two in the wave and with the blocking poll, reach every blocking
call of the others; the second prompt of `MCPrompts` is longer than the first and runs
over its rows.
*Startup*: with 3 workers one accepts two and one connects to two; a root, two lower
peers and the crash of any of them give every order of arrival; 2 layers in 1 to 4
stages include empty stages and stages that begin in the middle of a layer; one crash
leaves a complete session for the others to find dead. *Collectives*: 8 nodes is the
least for which the code takes the ring; three SP ranks with chunks of two rows have
empty blocks; sequences that change from chunks to tokens and back let a node run ahead
of a slow one across every kind of boundary; the SP clusters go through a chunk and a token
with the root's rows skipped, kept, and sent to TP groups of two. *Serving*: the third
client is the first to meet a full queue of two, and a second one meets a busy pool when one
server is unhealthy and the other in use; a conversation
that continues after an answer, and one after an answer that broke off, are the two ways
to reuse a cache. Named bounds: `MaxRuns`, `maxFaults`, `maxCrashes`, `nClients`, `MaxRounds` (the
length of `syncs`), `socketCapacity`, `SocketCapacity`, `socketBuffer`.

Sessions, startups, collectives and a finite number of clients really come to an end,
so their runs do not check for deadlock; `SessionEnds`, `StartupCompletes`,
`SyncsComplete` and `EveryClientLeaves` say that the end is the right one. The
executor's run does check it: its only final state is the joined pool.

### Fairness

* A pool thread and the caller keep running (`WF`): the operating system schedules
  runnable threads. A thread that waits for the mutex gets it eventually (`SF` of
  `TakeLock`, `BeginWait`, `Poll`): the caller polls with `wait_for(50 ms)` and
  releases the mutex in between, and pthread mutexes do not starve a waiter for
  ever in practice.
* Nothing is assumed of the steps in `FairSpec`. `ReturnsAfterSteps` and `ShutdownJoins`
  assume that they return (`StepsReturn`): kernels terminate and the socket loops have
  hard stall timeouts. `ReturnsAfterStall` assumes instead that the stall clock runs
  (`StallClockRuns`): if no step finishes the condition `currentStepIndex = observed`
  holds at every poll.
* `Pipeline`, `Startup`: every node keeps running (`WF` per node) and the network
  answers every connection request; the operator starts a root that has ended again.
  `Collectives`: some thread that can go on does (every step moves a transfer on and none
  is undone, so nothing stronger is needed). No fairness is assumed for `Fault`,
  `RootCrash`, `WorkerCrash`, nor for which way `EvaluateSkip` decides.
* `Serving`: the gateway's threads and the servers' loops keep running, a client sends
  its request or goes away, and `main` retries after its three seconds. Not for
  `WorkerLost`, nor for `HealthRetry`.

## 4. What is proved

`ExecutorProofs` proves, for every finite non-empty set of threads, every number of
steps and of runs (`ExecutorAssumption`):

* `TypeCorrect`, `BarrierHolds`, `SuccessIsComplete`, `QuiescenceHolds`: four invariants
  of `executor_pool`, with errors, stall timeouts and shutdown;
* `Implementation`: `Executor` implements `RunContract`;
* `TimerSafe`, `ErrorIsFinal`: `TimerOutlivesSteps` and `FailedStepIsFinal`, which speak of
  behaviours in which no step outlasts the stall timeout (they do not hold for the
  others, section 5).

None of the four invariants is inductive. `Barrier` compares numbers of executed
steps, and to see that a thread cannot enter step `s + 1` early one has to know what
the counters mean. The inductive invariant `IInv` says it:

* `CountInv`: `doneThreadCount` is the number of threads that have passed the
  counter of the current step (`arrived`);
* `RanInv`: a thread has executed `currentStepIndex` steps, or one more if it has
  passed that barrier. The one subtle moment is between `doneThreadCount.store(0)` and
  `currentStepIndex.fetch_add(1)`: everybody has executed the step, yet the counter
  already says that nobody has. `NobodyAdvances` singles it out;
* `StepInv`: the index a thread read is still the current one, and a thread in
  front of the barrier has not passed it. Its last conjuncts tell a thread that spins
  on the current step from one whose step is over;
* `LastInv`: there is one last thread, and nobody else is in front of the barrier
  while it resets and advances;
* `AliveInv`, `CallerInv`: while nobody has failed, every thread in the loop is of
  the current epoch, `doneRunThreadCount` counts the threads that left, and a caller
  that is idle has all threads parked with the current epoch. After a failure nothing
  of this is needed, because no caller runs a failed executor again;
* `WaitInv`: blocked threads are where the condition variable thinks they are.

The proof has one lemma per action (`ArriveIInv`, ...), and `PoolCardinality` and
`LastOne` relate cardinalities to "everybody". `FailInv` adds, for behaviours without
slow steps, that after an error there is a thread that never arrives (`Stuck`), so the
barrier of its step stays shut and the timer behind it untouched.

`ServingProofs` proves, for every number of clients, backends, workloads and every queue
bound, all invariants that `serving_clients` checks: `InflightExact`, `ActiveExact`,
`AdmissionBound`, `LoadIsCounted`, `CacheBacked`, `TypeOK`. A count is exact only if one
knows at each place of a handler what it holds: `GatewayInv` says that the counts are
cardinalities of sets of handlers, given by their place, and that a handler has a backend
exactly from its selection on. `LinkInv` ties connections to handlers (a connection that
can still carry an answer has a handler that waits for it), which `LoadIsCounted` needs.
`ApiInv` says what a prompt cache means while a completion runs (`RunOK`: rows up to the
position are those of the request, the cache ends at the request's old prefix or at its
new messages) and between two of them (`CacheOK`).

`StartupProofs` and `MeshProofs` prove, for every number of workers, layers, layouts and
crashes (`HandshakeAssumption`, `StartupAssumption`):

* `StartupTypeHolds`, `RootRunsLastHolds`: from `StartupInv`. For every worker whose
  connection to the root is alive, the place of the root in its program determines the
  place of the worker, its ACK and what is on its way to it (`Talk`, by `Stage` and
  `Said`). For that one has to know that "alive" means the same on both ends although
  processes die in between: the worker's end of the root's connection is in one place, on
  its way, in the backlog or in the table (`EndsOf`), and a worker between two sessions
  has nothing of the last one (`Fresh`);
* `WeightsInPlaceHolds`: `WeightsInPlace` for layouts with `spSize = 1` (it is violated
  for others, section 5). `WeightsInv`: what a node has stored and what is on its way are
  the weights of the load calls made so far. `KeptIsNeeded` is the arithmetic: after the
  last call, these are the weights of exactly the operations that `buildLlmNet` gives the
  node, because the loader's `nodeIndex / tpSize` is the topology's stage, a sub-block has
  one owner (`OwnerIsStage`) and every operation has a load call (`OpsAreServed`);
* `MeshCompleteHolds`: from `MeshInv`. A worker files connections without knowing whose
  they are. The argument is one of order and counting: whatever is behind the root's
  connection, in the backlog or in the table, came after it, and workers connect to each
  other only after everybody has accepted the present root; so behind the root there are
  only lower workers of this session, each once, and `j - 1` of them are all of them
  (`Pigeonhole`). A connection of an earlier session can be taken for the root's or stand
  before it, never behind it.

The proof attempt for `MeshComplete` showed that an earlier form of it, without "the root
has everybody's ACK", is false for a single worker: it may still be in a session whose
root has died when the next root connects, and there are no other workers whose state
would exclude this.

`PipelineTypes`, `PipelineFlow` and `PipelineProofs` prove all invariants of
`pipeline_sessions`, for every number of stages, prompts, chunk sizes, socket capacities,
skip targets and faults (`PipelineAssumption`): `PipelineTypeHolds`, `CleanHolds`,
`UnpaddedHolds`, `DeltaHolds`, `LogitsHold`, `KvHolds`, `SkipsHold`. None of them can be
shown by itself: what a stage reads next depends on what all others have sent so far, and
no variable of the program records that. So the invariants speak of a history `g`: the
packets broadcast (`g.h`), for every stage the number of packets it has read, received rows
for and completed (`g.rd`, `g.rc`, `g.sn`), and the packets that are skipped (`g.sk`). It is
not a variable; the invariant says that one exists, and every step moves it on as
`GRead`, `GRecv`, `GSent`, `GSkip`, `GMark` or `GCast` say (`PipelineTypes`).

* `Flow(g)` says how a state looks at a history. `RootAt`, `WorkerAt` and `SkipAt`: where
  each node is and that its packet is the one it has read last. `Links`: a socket holds
  exactly the stretch of the history that its sender has passed and its receiver has not,
  with packets and rows taking turns on the socket from the root to stage 1, markers where
  the target is skipped, at most one bypassed activation and one logits message. `Chains`:
  each difference on a socket will be decoded after the rows it was taken from. `Pace`: a
  stage has not received what an earlier one has not sent (but for the target, which may be
  behind by skipped packets), and unless the root streams a wave only one packet is in the
  pipeline. `Quiet`, `Wave`: at the head of its loops the root has read every answer it is
  owed, and only the last chunk of a wave is answered. `Ends`: why a node may have ended.
  `FlowHolds` has one lemma per action; `DeltaHolds`, `CleanHolds` and `LogitsHold` follow.
* `CleanHolds` needs `PositionsInRange`: a root that asserts (section 5) leaves its workers
  with a closed socket. `UnpaddedHolds` shows that this needs tile-aligned padding.
* `Story(g)` adds what `KvHolds` and `SkipsHold` need. `Orderly`: in the history, requests
  come in turn, each packet begins where the one before has left (`Front`, which does not
  count padding) and decoded tokens are numbered without gaps; `Loops` is its counterpart at
  the root. `KvAt`: the cache of a stage has the rows of the packets it has run. `Verified`:
  skipped positions are skipped packets, no run of these is longer than `maxConsecutive`,
  and the decision stage's count is at least the length of the present run, which survives
  the reset of the count only because a prefill packet is never skipped.

`CollectivesProofs` proves the invariants of `collectives_groups` for every cluster, TP and
SP size, number of threads, row length, socket capacity, choice of options and sequence of
sync steps (`CollectivesAssumption`): `StarSums` (`StarReduced`), `BatchGathers`
(`SlicesGathered`), `RootRowsArrive` (`RootRowsEverywhere`), `KvComplete` (`KvGathered`) and
`WiresDrain` (`WiresDrained`, which holds for the ring as well). No byte on the wire says
which sync step, row or slice it belongs to, and a node may be several sync steps ahead of
another, so that none of them is inductive: each depends on both ends of a socket counting
alike.

* A *link* is what a node sends another in one sync step. `Link` gives, for each of the
  seven algorithms (`Kind`; a skipped sync step is `idle` and has no links), the number of its transfers, the two threads that serve it and
  the calls in which they do: transfer `m` is written in call `wb + st * m` and read in call
  `rb + st * m`. `ProgramMatches` shows that a thread's calls are those of its links and no
  others. This is where the division of sockets among threads, the alternation of the batch
  and the ring, and the order of the KV exchange are used, and it takes the place of an
  induction over calls. `Table` collects what follows from the setup, which never changes.
* `Story(T, S, w, d)` is the invariant; `w` and `d` count the transfers of its present
  sync step that a node has written to and read from another, `S` says where in the
  sequence of all transfers between two nodes those of a sync step start (a sum over the
  sync steps; `StartExists` shows that there is one). `Writing` and `Reading`: the counts
  agree with the program counters and the peers still to serve. `Flying`: a socket holds
  exactly the transfers between the two ends, and each has the contents its number calls
  for (`Msg`). `Buffers`: a cell of the star's root is the sum over those it has read from,
  and the other cells accordingly. `Caches`: in the KV cache the rows of a node's own range
  and of the ranks it has read from are the latest; so are those of positions outside the
  batch when rows are split, and of the own share when positions are.
* `WriteStep`, `ReadStep` and `RoundStep` show that each action keeps it. The hard part of
  a write is that what is sent is already what it should be: a root of the star sends a sum
  when it has read from everybody (`StarOrder`), and a rank's rows are its own
  (`OwnRows`). A node that is through has read whole links (`DoneCounts`); for the cache
  this means all positions so far (`EndGathered`), where an empty block, whose range begins
  wherever the position pipe was left, must not hide a row (`BlockFacts`, `RangeFacts`).

For these proofs the KV exchange is written with four calls per rank, the empty ones
passed over, and not as a concatenation of lists: a concatenation needs induction, which
is beyond the prover, and a call's number would say nothing about its contents.

Only model-checked: the liveness properties (`ReturnsAfterSteps`, `ReturnsAfterStall`,
`ShutdownJoins`, `SessionEnds`, `StartupCompletes`, `SyncsComplete`, `EveryClientLeaves`),
which are beyond this prover.

## 5. What the checks found

* **Padding past the context** (`pipeline_padding`, `dllama.cpp:468`). The tile-aligned
  schedule rounds the prompt up to a multiple of four and does not look at `seqLen`.
  `setPosition` asserts the contrary (`app.cpp:977`), and the build keeps asserts.
* **Blocking poll** (`pipeline_blockingpoll`, `app.cpp:1765`). With `--net-turbo 0` the stage
  behind a skippable one blocks in `recv` on the bypass peer (`nn/nn-network.cpp:300`), although
  the polled read is meant to return without data (`nn/nn-pipeline.cpp:421`). The first decoded
  token takes the normal route: it is never read, the poll's timeout is never reached, and
  the session hangs.
* **Anonymous peers** (`handshake_mapping`, `nn/nn-network.cpp:697`). A worker files an
  accepted connection under the lower peer it waits for next. Two lower workers that
  connect in the other order are exchanged; `MeshComplete` shows that nothing else
  goes wrong, so nobody notices.
* **Stages with SP** (`startup_sp`, `nn/nn-network.cpp:2546`). The weight loader takes
  `nodeIndex / tpSize` for the stage of a node, which is a stage only when `spSize = 1`;
  `lastPpStage` (`llm.cpp:872`) has the same mistake. Operations run on weights they were
  never sent. With `spSize = 1`, `WeightsInPlace` holds for every layout, sub-blocks
  included.
* **Ring all-gather** (`collectives_ring`, `nn/nn-network.cpp:1740`). The second phase
  uses the chunk numbers of the first and starts with a chunk that is not reduced;
  the sums are overwritten and chunk `c` ends up as node `c`'s partial result.
* **Batched sync** (`collectives_batchsum`, `nn/nn-network.cpp:1586`). For more than
  one row the sync gathers slices instead of adding rows, unlike its row-wise
  counterpart and its declaration in `nn/nn-core.hpp:128`.
* **Root rows in TP groups of one** (`collectives_tp1`, `nn/nn-network.cpp:2033`). The skip of
  syncs that have nothing to do in a TP group of one node takes `SYNC_WITH_ROOT` along, which
  is for "all nodes" (`nn/nn-core.hpp:127`) and is part of every graph with `ppSize = 1`
  (`llm.cpp:381`): in an SP cluster the workers never get the embeddings, as
  `research/06-baseline-status.md:560` observed. `RootRowsEverywhere` says what the nodes have
  with and without the skip.

Cases that a property of a passing run excepts. Each excepts precisely the case named here,
and so says that there is no other. The first three are findings of the list above; the others
no document of the repository contradicts:

* a session over blocking sockets whose two-peer poll waits at the wrong peer need not end
  (`PollBlocked` in `SessionEnds`);
* where `SYNC_WITH_ROOT` is skipped every node keeps its own rows (`Tp1Skipped` in
  `RootRowsEverywhere`);
* the ring and the batched exchange do not add (`UsesRing`, `UsesBatch` in `StarReduced`);
* with `--sp-prefill-only` the exchange is left out while decoding: behind a skipped sync the
  other ranks may lack a decoded token's rows and attend to what is there instead
  (`SpKvSkipped` in `KvGathered`; the comment at `nn/nn-cpu-ops.cpp:2342` speaks of the state
  after an exchange). The next exchange that runs brings them;
* a stage that is skipped has no KV rows for the token, by design (`KvPrefixIsReal`; how many
  in a row is `SkipsAreBounded`);
* a server may still compute for a client that has left, and the gateway no longer counts it
  (`LoadIsCounted` is about connections that can still carry an answer);
* with steps slower than the stall timeout `TimerOutlivesSteps` fails: the destructor
  deletes the timer before it joins, and the last thread of a stalled step may come back
  to it;
* a `Destroy` between a thread's predicate and its block loses the shutdown
  notification, because `isShutdown` is set and notified without the mutex
  (`ShutdownJoins`);
* a worker in `accept()` for a peer that has died looks at no socket and has no timeout;
  the next root waits for its ACK for ever (`RootWaitsForAccept` in `StartupCompletes`);
* a client that is gone when its "replicas are busy" answer is written has its count given
  back twice, and the queue bound grows by one (`doubled` in `ActiveExact`,
  `AdmissionBound`); one that is gone when "queue is full" is written ends the gateway
  (`up` in `EveryClientLeaves`);
* a request that fails half-way leaves its messages in the prompt cache without their KV
  rows (`backed` in `CacheBacked`).

## 6. Abstractions and what is not modelled

* Time: stall clocks are nondeterministic (`StallTimeout`, `PollTimeout`, `Fault`,
  `HealthRetry`).
* Bytes: a message is transferred as a whole; a partial transfer that breaks off is
  a fault of the reader.
* Numbers: activations, logits and KV entries carry their origin instead of floats.
  Kernels, quantisation (also the drift of quantised deltas) and Vulkan are therefore out
  of scope, and so is the distance that decides a stage skip (`close` is arbitrary).
* Batched decoding of several requests (`maxActive > 1`): all requests share one KV
  cache by position, and nothing in the code tells their rows apart; there is no
  property to check, the collision is certain. `SpGroupScheduler` is a table of one
  request that is only printed.
* `chat()` and `perplexity()`: other loops around the same `forward()`.
* `SYNC_CP_LOGITS` (in no graph), row pruning and the strict-affinity exception of
  `SYNC_SP_KV`, and nodes started with different options.
* The batched exchange in a TP group of several nodes that is smaller than the cluster: it
  addresses slices outside the pipe (undefined behaviour). `SetupOK` admits such clusters with
  syncs of one row or with `DLLAMA_NO_BATCHED_SYNC`.
* A message of a chat is one token in `ApiServer`; what token a request's first decode
  step is fed (`promptTokens[i + 1]`, one past the encoded ones) is data the model does
  not have.
* Tokenizer, sampler, chat templates, third-party code (json.hpp alone is half of the
  repository's lines), scripts and benchmarks: sequential, and without state shared with
  the parts above.
* Profiling and traffic counters: reports only.

## 7. Plan

Done: executor with contract and proofs; pipeline sessions with delta transport and
prompt files, with proofs; handshake with crashes and startup, with proofs; all
collectives a graph uses, with proofs; gateway and API server, with proofs. Every
invariant that a passing run checks is a theorem.

Further modelling: pipeline stages that are TP groups (`Startup` and `Collectives` under
`Pipeline`), and `chat()`.
