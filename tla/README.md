# TLA+ verification of the mgo-bridge action executor

This directory models `src/crates/mgo-bridge/src/action_executor.rs`, the
bridge action executor, and checks it with TLC. It also proves its main
safety properties with TLAPS. The executor is the concurrent, failure-prone
part of the repository. The other source files are small glue and have no
interesting state; see the inventory below.

## 1. Inventory

### Components and their state

| Component | Code | State | Operations |
|---|---|---|---|
| Signing stage | `run_signature_aggregation_loop`, `request_signature`, `handle_already_processed_action_maybe` (l. 161-263) | the signing queue (bounded channel, `CHANNEL_SIZE`), one spawned task per received wrapper `(action, attempt)` | receive and spawn; status check (removes the WAL entry when processed); ask the authorities; send the certificate to the execution queue; give up at `MAX_SIGNING_ATTEMPTS`, else `delay` and re-enqueue with `attempt + 1` |
| Execution stage | `run_onchain_execution_loop`, `handle_execution_effects`, `get_gas_data_assert_ownership` (l. 267-408) | the execution queue, one sequential loop and its current wrapper, spawned retry tasks | receive; status check (`return` when processed); gas fetch with ownership `assert_eq!`; build (error: log, `continue`); sign; submit; Success removes the WAL entry, Failure is logged, Err spawns a retry task (cap, `delay`, re-enqueue) |
| Ingress | `submit_to_executor` (l. 411-418) | none | blocking send of `(action, 0)` |
| Backoff | `delay` (l. 40-43) | none | `100 * (2 ^ attempt)` ms, where `^` is XOR |
| Pending log (WAL) | `BridgeOrchestratorTables` (not under src/) | durable set of action digests | insert (orchestrator), remove (executor) |
| Orchestrator | not under src/ | which actions it still has to submit | insert into the WAL and submit; after a restart, re-submit the whole WAL |
| Chain and status oracle | `MgoClient` (not under src/) | per-action `BridgeActionStatus`, gas owner | status until success; gas data; execute transaction |
| Authority aggregator | external | none | `request_committee_signatures`: Ok certificate or Err |
| Unit tests | `mod tests` of `action_executor.rs` (l. 420-1062) | the mocks' configured answers, the broadcast of requested transactions, the test function's position | four `#[tokio::test]` functions driving the executor through `setup()` and the mock helpers |
| Node leak detector | `mgo-simulator/lib.rs` (l. 109-136) | a thread-local `AtomicUsize` per thread | `new`/`default` add one, `drop` subtracts one, both wrapping |
| Others | `mgo-execution/lib.rs` (version dispatch), `type_layout_resolver.rs`, `balance_changes.rs`, a benchmark, an SDK example, the Move unit-test CLI | none relevant | see PROJECT.json: not modelled |

### How the parts interact

`orchestrator -> signing queue -> signing loop -> request_signature task ->
execution queue -> execution loop -> chain`. There are retry edges back into
both queues. The two loops are tokio tasks, and every request_signature and
every execution retry runs in a task of its own. They share the WAL handle,
the chain client and the queue senders. A task can be suspended at each
`.await`, and other tasks then run. When the execution loop ends, by the
`return` at l. 292 or by the ownership panic, its receiver is dropped. Every
later send on the execution queue then fails, and its `.expect` panics.

### What is hard

- Interleaving of many signing tasks, the execution loop and retry tasks.
- Bounded queues with blocking sends (backpressure) and sends to a closed
  queue.
- Crashes: only the WAL and the chain survive a crash, and recovery is the
  orchestrator re-submitting the WAL.
- A status that is stale at the time it is used (check, then submit).
- Retry caps and the backoff arithmetic.
- Panics that end one task but not the process.

Not every one of these has a property that would catch it going wrong.
`NoSilentDropWhileServing` says nothing once the execution loop has ended.
After that, every send's panic is logged, so the model cannot tell a logged
panic from a handled action. The ended loop itself (l. 292) is caught by
`NoSilentDrop` in `exec_skip_returns`. A stale status only ever keeps an
entry, so no safety property sees it. A failed removal leaves a processed
entry with no wrapper until the next restart, and no property states that
it leaves. PROJECT.json notes each of these at its hazard.

### Correctness properties per component

- WAL and executor together: an entry is removed only once the chain has
  processed the action (at-least-once settlement, spec section 8.1).
- Executor: no unprocessed action disappears from the pipeline without a
  "manual intervention" log; a processed action that is queued eventually
  leaves the WAL; each action has at most one wrapper in flight (one task,
  one channel entry, or the loop), so no certificate or transaction is
  duplicated.
- Retry caps: at most MAX attempts per stage (spec section 8.3 and the comment
  at l. 35).
- Backoff: delays are non-decreasing (spec section 8.4 and the comment at
  l. 36).

## 2. Modules

| Module | Models | Notes |
|---|---|---|
| `BridgeActionExecutor` | both stages, ingress, and the environment: WAL (with failing writes), orchestrator, chain, gas owner, crash/restart | the core; no RECURSIVE, provable |
| `PendingLog` | what the WAL promises: insert once, release only what the chain has processed | abstract spec; the core refines it (`PendingLogSpec`) |
| `MCBridgeActionExecutor` | TLC instance: `Actions = {a1, a2}` | cfgs `MCBridgeActionExecutor.cfg`, `MCWalWriteFailure.cfg`, `MCExecSkipReturns.cfg`, `MCSigningRetryCap.cfg`, `MCExecRetryCap.cfg` |
| `BridgeActionExecutorProofs` | TLAPS proofs: type, WAL safety, refinement | EXTENDS the core and TLAPS |
| `NoSilentDropProofs` | TLAPS proof of `NoSilentDropWhileServing` | EXTENDS `BridgeActionExecutorProofs` |
| `OneWrapperProofs` | TLAPS proof of `OneWrapperPerAction` | EXTENDS `NoSilentDropProofs` |
| `ExecutorTests`, `MCExecutorTests` | the four unit tests as a driver process against the core | uses Bitwise for `delay`, so it is only model-checked |
| `NodeLeakDetector`, `MCNodeLeakDetector` | the simulator's node counter | two threads, three detectors, 2-bit usize; no RECURSIVE, provable |
| `NodeLeakDetectorProofs` | TLAPS proofs about the node counter | EXTENDS `NodeLeakDetector`, FiniteSetTheorems and TLAPS |
| `Backoff` | `delay` along one retry chain | uses Bitwise, so it is only model-checked |

### How the state corresponds to the code

- `wal`: the pending-action table. `chain`: the on-chain status of each
  action. `gasOwned`: the owner check of the gas object.
- `sigQ` and `execQ` are the two metered channels, as sequences of
  `[act, att]` wrappers. A send is enabled while `Len < ChannelSize`, which
  models the blocking `send().await`.
- `task[a]` is the spawned task that holds the wrapper of action `a`. Its `pc`
  is the await point it has reached: `sigCheck`, `aggregate`, `sendSig`,
  `sendExec`, `execRetry` or `execSend`.
- `execPc` and `execCur` are the execution loop and its current wrapper.
  `exited` and `panicked` mean that the loop has ended and its receiver is
  gone (`ExecOpen` is false).
- `WalWriteFailures` (a constant) lets every `remove_pending_actions` fail.
  The `panic!` that follows ends the calling task only: a signing task's
  wrapper is gone (escalated, logged by the task monitor); the execution loop
  ends as `panicked`. The entry stays in the WAL. Under `panic = "abort"` the
  same failure is a crash, which `CrashRestart` already covers.
- Ghost variables: `observed` holds the actions ever inserted into the WAL.
  `escalated` holds the actions logged for manual intervention in this
  lifetime: a retry cap reached, a build error, Failure effects, or a logged
  panic.
- The orchestrator inserts each action once and re-submits the WAL after a
  restart. So each action has at most one wrapper in flight, and one task
  slot per action is exact. `OneWrapperPerAction` states this; the
  `wal_write_failure` run checks it and `OneWrapperHolds` proves it.

Each action of the module is one step of the code between two awaits. The
status query is `handle_already_processed_action_maybe` together with the
WAL removal that follows it. `ExecGasAndBuild` is the gas fetch, the
ownership assertion, `build_transaction` and signing; none of these awaits
anything after the gas fetch. The three submission outcomes are three
actions.

## 3. Runs

| Run | cfg | Result | What it shows |
|---|---|---|---|
| executor | `MCBridgeActionExecutor.cfg` | pass, 56,912 states | `TypeOK` and `ProcessedQueuedEventuallyRemoved` under `FairSpec`; deadlock is checked too |
| wal_write_failure | `MCWalWriteFailure.cfg` | pass, 57,968 states | with failing WAL removals: `WalSafety`, `NoSilentDropWhileServing`, `OneWrapperPerAction` (at most one wrapper per action across the backlog, both channels, the tasks and the loop), and the refinement `PendingLogSpec` |
| exec_skip_returns | `MCExecSkipReturns.cfg` | violation of `NoSilentDrop` | the `return` at l. 292 ends the loop and drops a queued certificate of another action without any log (spec section 9 says `continue`) |
| signing_retry_cap | `MCSigningRetryCap.cfg` | violation of `SigningAttemptsWithinCap` | with the check `attempt >= MAX`, the authorities are asked with attempt MAX, so there are MAX + 1 attempts |
| exec_retry_cap | `MCExecRetryCap.cfg` | violation of `ExecutionAttemptsWithinCap` | the same off-by-one in the execution retry task (l. 339): MAX + 1 submissions |
| backoff | `Backoff.cfg` | violation of `BackoffNonDecreasing` | `2 ^ n` is XOR: the delays are 200, 300, 0 ms, ... |
| unit_tests | `MCExecutorTests.cfg` | pass, 168 states | every assertion of the four unit tests holds (`TestAssertionsHold`) and each test returns (`TestCompletes`) in every interleaving |
| node_count | `MCNodeCountTotal.cfg` | pass, 729 states | `CountMatchesThreadHistory`: each thread's counter is its own `new()` calls minus its own `drop()` calls, wrapped |
| node_count_per_thread | `MCNodeCountPerThread.cfg` | violation of `CountIsPerThreadLive` | a detector dropped on another thread leaves a phantom node on its creator and usize::MAX on the dropping thread |

Bounds of the executor runs:

- Two actions, so that one action's certificate can wait behind another's.
- `ChannelSize = 1`, so both queues fill and sends block.
- Retry caps of 1, so both the retry path and the give-up path are taken.
- One crash/restart.
- Gas loss, chain approval and claims at any time.

With these bounds every action and every branch fires, including the sends
that panic on a closed queue. Quiescence is a `Next` disjunct: every input is
handled and no task is left. Any other state with no successor is reported as
a deadlock.

Fairness: `FairSpec` assumes weak fairness of every executor step and of the
orchestrator's submission. Tokio polls every ready task, and a blocked send is
re-polled once there is space in the queue. The chain, the authorities'
answers, the gas owner and crashes get no fairness.

### The unit tests

`ExecutorTests` composes the core with one more process, the test function.
Its variable `test` picks one of the four tests in the initial state; `tpc`
is the test's position, one step per stretch of code between two awaits, so
each assertion is evaluated atomically with the await before it (the
`#[tokio::test]` runtime is single-threaded). The mocks are data: `signers`
is which authorities answer with a signature (`WithSigs`, `WithErrors`,
`ApprovedAction` are the helpers of the same names), `txMock` is the client's
wildcard response, `txLog` the broadcast of requested transactions, and
`sigRequests` how often mock0 was asked. Time is virtual: a sleeping task or
test step is enabled once `now` reaches its deadline, and `Tick` advances
`now` to the earliest deadline only when nothing else can run. The backoff is
the code's `delay`, XOR included. The constants are the code's: caps of 16,
channel size 1000, four stakes of 2500, threshold 3334, a 10 s poll timeout.
Fairness is weak fairness of the executor, the test and the clock: the
runtime polls every ready task, and a sleeping runtime wakes at the next
timer.

Each property has a mutant in PROJECT.json that TLC catches:

- an execution retry that decrements its attempt (`TypeOK`);
- a skip that forgets `remove_pending_actions`
  (`ProcessedQueuedEventuallyRemoved`);
- Failure effects that clear the WAL entry (`WalSafety`, and the test
  assertion that the action is still pending, `TestAssertionsHold`);
- a retry that uses `try_send` and drops the wrapper when the queue is full
  (`NoSilentDropWhileServing`);
- a status check that takes `RecordNotFound` for processed (`PendingLogSpec`);
- an Err that is logged and not retried (`TestCompletes`: the test waits for a
  second request forever);
- a non-wrapping decrement (`TypeOK` of the node counter) and a `drop()`
  that decrements the creating thread's counter (`CountMatchesThreadHistory`).

## 4. Proofs

In `BridgeActionExecutorProofs`, `NoSilentDropProofs` and `OneWrapperProofs`, the proofs hold for every value of the
constants under `ConstantsAssumption`. That assumption says `Actions` is
finite and not empty, the caps and `MaxRestarts` are naturals, and
`ChannelSize >= 1`.

- `TypeCorrect: Spec => []TypeOK`. This is the lemma pair
  `TypeInit`/`TypeStep`, with one step per action.
  `TaskUpdate` shows that rewriting one action's task record keeps the type.
- `WalSafetyHolds: Spec => []WalSafety`. The inductive invariant is
  `IInv == TypeOK /\ WalSafety`. TypeOK is needed because the chain-status
  update in `ExecSubmitSuccess` has to know that the current wrapper's action
  is in `Actions`. The argument has three parts:
  - Every WAL removal (`SigCheck`, `ExecCheck`, `ExecSubmitSuccess`) is
    guarded by, or produces, a processed chain status (`WalRemoveProcessed`).
  - A processed status never reverts.
  - Every other step leaves `wal`, `chain` and `observed` alone (`WalFrame`).

- `Refinement: Spec => PendingLogSpec`. The refinement mapping is
  `PL == INSTANCE PendingLog WITH Actions <- Actions, wal <- wal, chain <- chain,
  observed <- observed`; the queues, tasks, backlog and escalations are
  hidden. `RefinementInit` maps the initial
  state; `RefinementStep` shows, from `TypeOK`, that every step of `Next` is a
  step of `PendingLog!Next` on `<<wal, chain, observed>>` or leaves them
  alone: a status check that removes is a `Release` (its guard is the
  processed status), a successful submission that removes is an
  `ApproveAndRelease` or, when the chain had already approved, a `Release`,
  and a failed removal leaves the WAL alone. The theorem combines these with
  `TypeCorrect` by PTL.

- `NoSilentDropHolds: Spec => []NoSilentDropWhileServing`, in
  `NoSilentDropProofs`. No strengthening is needed beyond the type:
  `TypeOK /\ NoSilentDropWhileServing` is already inductive
  (`NoSilentDropStep`, one case per action). The argument:
  - A step that moves a wrapper between the backlog, the two channels, a
    task and the execution loop keeps the action covered. `InQueueAppend` and
    `InQueueTail` say what `Append` and `Tail` do to "the action is queued".
  - A step that removes an action from the WAL does so only with a processed
    status, and then the action is no longer owed anything.
  - A failed WAL removal adds the action to `escalated`.
  - The steps that close the execution loop (the `return` on a processed
    action, a panic) make the claim vacuous, because it is only stated while
    the loop serves.
  - `CrashRestart` refills the backlog with the whole WAL.
  The earlier plan assumed a one-wrapper-per-action strengthening would be
  needed. It is not: coverage is a disjunction, and each step keeps one of
  its disjuncts.

- `OneWrapperHolds: Spec => []OneWrapperPerAction`, in `OneWrapperProofs`.
  The invariant is not inductive by itself, for two reasons:
  - `InsertPendingAction` puts a fresh wrapper into the backlog. That is safe
    only if an action not yet observed is held nowhere.
  - `CrashRestart` sets the backlog to the WAL. That is safe only if the WAL
    holds observed actions only.
  So the inductive invariant is
  `OWInv == TypeOK /\ OneWrapperPerAction /\ WalObserved /\ UnobservedNowhere`.
  `WalObserved` is `wal \subseteq observed`. `UnobservedNowhere` says an
  unobserved action is in no place. TLC checked `OWInv` as an invariant of the
  `wal_write_failure` instance before it was proved.
  The proof is per action `x` (`PerAction(x)`), with one step lemma per
  action of `Next`. Each step does one of these things to x's wrapper:
  - hands it from one place to the next (`PerActionTransfer`). Examples:
    backlog to `sigQ`, `sigQ` to a task, a task to `execQ`, `execQ` to the
    loop, and the loop to a retry task on `Err`.
  - holds it in no new place (`PerActionShrink`, `Shrinks`). Examples: a task
    moving on or ending, the loop dropping its queue.
  - leaves the pipeline alone (`PipelineFrame`).
  `UniqueAppend` and `UniqueTail` say what `Append` and `Tail` do to "at
  most one entry of x". A send appends x only while x's task holds it, so x
  is in no channel then.

In `NodeLeakDetectorProofs`, under `DetectorAssumption` (finite, non-empty
`Threads`, finite `Detectors`, `UsizeModulus >= 1`):

- `TypeCorrect: Spec => []TypeOK`. Every counter stays in
  `0 .. 2^usize::BITS - 1`. `WrapUp` and `WrapDown` state what `fetch_add(1)`
  and `fetch_sub(1)` do on a counter in range.
- `CountHistoryHolds: Spec => []CountMatchesThreadHistory`. A thread's counter
  equals the detectors created on it minus those dropped on it, modulo
  2^usize::BITS. The inductive invariant `HistoryInv` states the same without
  `%`: the difference is `q * UsizeModulus + count[t]` for some integer `q`,
  the number of wraps. Z3 cannot show that a quotient exists for a symbolic
  modulus, but it can show uniqueness (`ModOfQuotient`). So the witness `q`
  is carried through the steps:
  - a `new()` that wraps takes `q + 1`;
  - a `drop()` that wraps below zero takes `q - 1`;
  - a move changes neither set, since only live detectors move.
  `CardAdd` (from `FS_AddElement`) counts the one detector a step adds to a
  set.

These stay with TLC only:

- The liveness properties `ProcessedQueuedEventuallyRemoved` and
  `TestCompletes`. TLAPS cannot reason about fairness or ENABLED.
- `TestAssertionsHold` and the `Backoff` run. `ExecutorTests` and `Backoff`
  use the RECURSIVE operators of Bitwise.

The step properties of the WAL are proved as part of `Refinement`. Every
step of `PendingLog!Next` only removes an action the chain has processed
(`Release`, `ApproveAndRelease`) and only inserts an action not seen before,
and the chain status never moves back. So no separate action property is
stated. `OneWrapperPerAction` is a state invariant; the mutant that
requeues a failed submission besides spawning its retry task
(`ExecSubmitErrRequeued`) breaks it.

## 5. Not modelled

- WAL insert failures: inserts are the orchestrator's, outside src/.
- `mgo-execution/lib.rs`: `executor()` and `verifier()` are a stateless
  case split on the execution version over generated code.
- `effects.effects == None`: the code always requests effects.
- Transaction bytes, signatures and certificate validity. These are data; the
  certificate is represented by its action.
- The remaining source files, as listed in PROJECT.json.

## 6. Plan for the next sittings

1. Larger instances of the executor runs (three actions, caps of 2).
2. A crash of the process in the middle of a unit test is out of the tests'
   scope. A run that combines the tests' mocks with `CrashRestart` could
   check that the orchestrator's re-submission still lets each test finish.
3. A proof that the two retry caps, as fixed, hold (`attempt + 1 >= MAX`)
   would need a variant of the core with the fixed guard. The current core
   follows the code, which has the off-by-one.
