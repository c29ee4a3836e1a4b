---------------------------- MODULE ExecutorTests ----------------------------
(***************************************************************************)
(* The unit tests of action_executor.rs (mod tests) run against the       *)
(* executor model.  setup() starts the executor with a mock chain client  *)
(* and four mock bridge authorities; each test then drives it from its    *)
(* own task: it configures the mocks, inserts into the store, submits,    *)
(* awaits the broadcast of requested transactions, sleeps, polls and      *)
(* asserts.  The test task is one more process of the model ("driver"),   *)
(* one step per stretch of code between two awaits, so every assertion   *)
(* is evaluated in the same step as the await before it.                  *)
(*                                                                         *)
(* Time.  #[tokio::test] runs every task on one thread, and every sleep   *)
(* (the executor's backoff delay(n), the test's sleeps and polling        *)
(* intervals) is long against the CPU work between awaits.  So time is   *)
(* virtual: a sleeping step is enabled once `now` has reached its         *)
(* deadline, and `now` advances to the next deadline only when no task    *)
(* can run.  The mocks answer at once.                                    *)
(***************************************************************************)
EXTENDS BridgeActionExecutor, FiniteSetsExt, Bitwise

CONSTANTS
    Act1, Act2, Act3,        \* the bridge actions the test creates, in order
    Mock0, Mock1, Mock2, Mock3,  \* the four BridgeRequestMockHandlers
    Stake,                   \* voting power of each authority in setup()
    ValidityThreshold,       \* VALIDITY_THRESHOLD
    PollTimeoutSecs          \* a polling loop panics after this many seconds

Tests == {"onchain_execution_loop", "signature_aggregation_loop",
          "skip_request_signature", "skip_tx_submission"}

Authorities == {Mock0, Mock1, Mock2, Mock3}

ASSUME TestsAssumption ==
    /\ {Act1, Act2, Act3} \subseteq Actions
    /\ Act1 # Act2 /\ Act2 # Act3 /\ Act1 # Act3
    /\ Stake \in [Authorities -> Nat]
    /\ ValidityThreshold \in Nat /\ PollTimeoutSecs \in Nat

VARIABLES
    test,         \* the #[tokio::test] function that runs
    signers,      \* the mocks that answer an action's request with a signature
    txMock,       \* the mock client's wildcard transaction response
    txLog,        \* transactions requested so far (broadcast to tx_subscription)
    sigRequests,  \* how often mock0 was asked to sign each action
    now,          \* virtual time in ms
    wake,         \* end of the backoff sleep of each action's task
    tpc,          \* where the test function is
    seen,         \* digests the test has taken from tx_subscription
    twake,        \* end of the test's current sleep
    pollStart,    \* Instant::now() of the test's polling loop
    failed        \* an assertion of the test has failed, or a poll timed out

mockVars == <<signers, txMock>>
clockVars == <<now, wake>>
driverVars == <<test, tpc, seen, twake, pollStart, failed>>
testVars == <<test, signers, txMock, txLog, sigRequests, now, wake, tpc, seen,
              twake, pollStart, failed>>
allVars == <<vars, testVars>>

Done == 100

(* delay(attempt_times): 100 * (2 ^ attempt_times) ms, `^` being XOR.     *)
BackoffDelay(n) == 100 * (2 ^^ n)

(* request_committee_signatures reaches VALIDITY_THRESHOLD with the       *)
(* stake of the authorities that sign.                                    *)
Certified(a) == MapThenSumSet(LAMBDA m : Stake[m], signers[a]) >= ValidityThreshold

-----------------------------------------------------------------------------
(* setup(): the executor started by run_inner, the mock client with no    *)
(* transaction response and every action Pending on chain, the mock       *)
(* authorities with no signature configured.                              *)
TestInit ==
    /\ test \in Tests
    /\ Init
    /\ chain = [a \in Actions |-> "Pending"]
    /\ signers = [a \in Actions |-> {}]
    /\ txMock = "None"
    /\ txLog = <<>>
    /\ sigRequests = [a \in Actions |-> 0]
    /\ now = 0
    /\ wake = [a \in Actions |-> 0]
    /\ tpc = 0 /\ seen = 0 /\ twake = 0 /\ pollStart = 0
    /\ failed = FALSE

-----------------------------------------------------------------------------
(* The executor against the mocks.  Steps that do not touch a mock are    *)
(* the executor's own.                                                    *)
MockFree ==
    /\ \/ SigningLoopRecv \/ ExecRecv \/ ExecCheck
       \/ \E a \in Actions : SigCheck(a) \/ SendCertificate(a)
    /\ UNCHANGED testVars

(* build_transaction succeeds for the test's certificates, and the gas    *)
(* object is the node's.                                                  *)
MockBuild ==
    /\ ExecGasAndBuild /\ execPc' = "submit"
    /\ UNCHANGED testVars

(* Every authority is asked; on an error below the cap the task sleeps.   *)
MockAggregate(a) ==
    /\ IF Certified(a) THEN AggregateOk(a) ELSE AggregateErr(a)
    /\ sigRequests' = [sigRequests EXCEPT ![a] = @ + 1]
    /\ wake' = [wake EXCEPT ![a] = now + BackoffDelay(task[a].att)]
    /\ UNCHANGED <<mockVars, txLog, now, driverVars>>

(* The mock broadcasts the digest and answers with its wildcard response. *)
MockSubmit ==
    /\ \/ txMock = "Success" /\ ExecSubmitSuccess
       \/ txMock = "Failure" /\ ExecSubmitFailure
       \/ txMock = "Err" /\ ExecSubmitErr
    /\ txLog' = Append(txLog, execCur.act)
    /\ UNCHANGED <<mockVars, sigRequests, clockVars, driverVars>>

MockExecRetry(a) ==
    /\ ExecRetry(a)
    /\ wake' = [wake EXCEPT ![a] = now + BackoffDelay(task[a].att)]
    /\ UNCHANGED <<mockVars, txLog, sigRequests, now, driverVars>>

(* The re-enqueue after delay(attempt_times) has elapsed.                 *)
RetryAfterSleep(a) ==
    /\ now >= wake[a]
    /\ SendSigningRetry(a) \/ SendExecutionRetry(a)
    /\ UNCHANGED testVars

ExecutorSteps ==
    \/ MockFree \/ MockBuild \/ MockSubmit
    \/ \E a \in Actions :
         MockAggregate(a) \/ MockExecRetry(a) \/ RetryAfterSleep(a)

-----------------------------------------------------------------------------
(* The test task.  Step(from, to): its code from one await to the next.   *)
Step(from, to) == tpc = from /\ now >= twake /\ tpc' = to

(* tx_subscription.recv().await: the next requested digest.               *)
Recv == seen < Len(txLog) /\ seen' = seen + 1

(* tx_subscription.try_recv() is Empty.                                   *)
NoNewTx == seen = Len(txLog)

Assert(c) == failed' = (failed \/ ~c)

(* mock_bridge_authority_sigs: these mocks answer with a signature.       *)
WithSigs(ms, signing) == signing \cup ms

(* mock_bridge_authority_signing_errors: these mocks answer with an error. *)
WithErrors(ms, signing) == signing \ ms

(* get_bridge_authority_approved_action: all four mocks sign the action.  *)
ApprovedAction(a) == signers' = [signers EXCEPT ![a] = WithSigs(Authorities, @)]

(* submit_to_executor(&signing_tx, action).await.                         *)
Submit(from, to, a) ==
    /\ Step(from, to)
    /\ SubmitToExecutor(a)
    /\ UNCHANGED <<mockVars, txLog, sigRequests, clockVars, seen, twake,
                   pollStart, failed>>

(* while the WAL holds the action { panic after the timeout; sleep 100ms } *)
(* then the final assertion.                                              *)
PollUntilRemoved(from, final) ==
    /\ tpc = from /\ now >= twake
    /\ IF Act1 \notin wal
         THEN tpc' = Done /\ Assert(final) /\ UNCHANGED twake
         ELSE IF (now - pollStart) \div 1000 > PollTimeoutSecs
           THEN tpc' = Done /\ failed' = TRUE /\ UNCHANGED twake
           ELSE twake' = now + 100 /\ UNCHANGED <<tpc, failed>>
    /\ UNCHANGED <<vars, mockVars, txLog, sigRequests, clockVars, seen,
                   pollStart>>

(* test_onchain_execution_loop: a Success, a Failure, then errors until   *)
(* the response is switched to Success.                                   *)
OnchainExecutionLoop ==
    \/ /\ Step(0, 1)
       /\ ApprovedAction(Act1) /\ txMock' = "Success"
       /\ InsertPendingAction(Act1)
       /\ UNCHANGED <<txLog, sigRequests, clockVars, seen, twake, pollStart,
                      failed>>
    \/ Submit(1, 2, Act1)
    \/ /\ Step(2, 3) /\ Recv
       /\ Assert(wal = {})
       /\ ApprovedAction(Act2) /\ txMock' = "Failure"
       /\ InsertPendingAction(Act2)
       /\ UNCHANGED <<txLog, sigRequests, clockVars, twake, pollStart>>
    \/ Submit(3, 4, Act2)
    \/ /\ Step(4, 5) /\ Recv
       /\ Assert(Act2 \in wal)
       /\ ApprovedAction(Act3) /\ txMock' = "Err"
       /\ InsertPendingAction(Act3)
       /\ UNCHANGED <<txLog, sigRequests, clockVars, twake, pollStart>>
    \/ Submit(5, 6, Act3)
    \/ /\ Step(6, 7) /\ Recv
       /\ UNCHANGED <<vars, mockVars, txLog, sigRequests, clockVars, twake,
                      pollStart, failed>>
    \/ /\ Step(7, 8) /\ Recv
       /\ Assert(txLog[seen + 1] = txLog[seen] /\ Act3 \in wal)
       /\ txMock' = "Success" /\ twake' = now + 1000
       /\ UNCHANGED <<vars, signers, txLog, sigRequests, clockVars, pollStart>>
    \/ /\ Step(8, Done)
       /\ Assert(Act3 \notin wal)
       /\ UNCHANGED <<vars, mockVars, txLog, sigRequests, clockVars, seen,
                      twake, pollStart>>

(* test_signature_aggregation_loop: only mock3 signs, which is below the  *)
(* threshold; once mock0 has been asked twice, mock2 signs too.           *)
SignatureAggregationLoop ==
    \/ /\ Step(0, 1)
       /\ signers' = [signers EXCEPT ![Act1] =
                        WithSigs({Mock3}, WithErrors({Mock0, Mock1, Mock2},
                                                     Authorities))]
       /\ InsertPendingAction(Act1)
       /\ UNCHANGED <<txMock, txLog, sigRequests, clockVars, seen, twake,
                      pollStart, failed>>
    \/ Submit(1, 2, Act1)
    \/ /\ tpc = 2 /\ now >= twake
       /\ IF sigRequests[Act1] >= 2
            THEN /\ tpc' = 3
                 /\ Assert(NoNewTx /\ Act1 \in wal)
                 /\ signers' = [signers EXCEPT ![Act1] = WithSigs({Mock2}, @)]
                 /\ txMock' = "Success"
                 /\ UNCHANGED twake
            ELSE twake' = now + 50 /\ UNCHANGED <<tpc, mockVars, failed>>
       /\ UNCHANGED <<vars, txLog, sigRequests, clockVars, seen, pollStart>>
    \/ /\ Step(3, Done) /\ Recv
       /\ Assert(txLog[seen + 1] = Act1 /\ Act1 \notin wal)
       /\ UNCHANGED <<vars, mockVars, txLog, sigRequests, clockVars, twake,
                      pollStart>>

(* test_skip_request_signature_if_already_processed_on_chain: every mock  *)
(* errs; after a second the action is approved on chain.                  *)
SkipRequestSignature ==
    \/ /\ Step(0, 1)
       /\ signers' = [signers EXCEPT ![Act1] = WithErrors(Authorities, @)]
       /\ InsertPendingAction(Act1)
       /\ UNCHANGED <<txMock, txLog, sigRequests, clockVars, seen, twake,
                      pollStart, failed>>
    \/ /\ Step(1, 2)
       /\ SubmitToExecutor(Act1)
       /\ twake' = now + 1000
       /\ UNCHANGED <<mockVars, txLog, sigRequests, clockVars, seen,
                      pollStart, failed>>
    \/ /\ Step(2, 3)
       /\ Assert(NoNewTx /\ Act1 \in wal)
       /\ ChainApprove(Act1) /\ pollStart' = now
       /\ UNCHANGED <<mockVars, txLog, sigRequests, clockVars, seen, twake>>
    \/ PollUntilRemoved(3, NoNewTx)

(* test_skip_tx_submission_if_already_processed_on_chain: the certificate *)
(* goes straight to the execution queue, submission errs, and the action  *)
(* is approved on chain after the first request.                          *)
SkipTxSubmission ==
    \/ /\ Step(0, 1)
       /\ ApprovedAction(Act1) /\ txMock' = "Err"
       /\ InsertPendingAction(Act1)
       /\ UNCHANGED <<txLog, sigRequests, clockVars, seen, twake, pollStart,
                      failed>>
    \/ /\ Step(1, 2)
       /\ Len(execQ) < ChannelSize
       /\ execQ' = Append(execQ, [act |-> Act1, att |-> 0])
       /\ backlog' = backlog \ {Act1}
       /\ UNCHANGED <<wal, chain, gasOwned, sigQ, task, execPc, execCur,
                      observed, escalated, restarts>>
       /\ UNCHANGED <<mockVars, txLog, sigRequests, clockVars, seen, twake,
                      pollStart, failed>>
    \/ /\ Step(2, 3) /\ Recv
       /\ ChainApprove(Act1) /\ pollStart' = now
       /\ UNCHANGED <<mockVars, txLog, sigRequests, clockVars, twake, failed>>
    \/ PollUntilRemoved(3, TRUE)

Driver ==
    /\ UNCHANGED test
    /\ \/ test = "onchain_execution_loop" /\ OnchainExecutionLoop
       \/ test = "signature_aggregation_loop" /\ SignatureAggregationLoop
       \/ test = "skip_request_signature" /\ SkipRequestSignature
       \/ test = "skip_tx_submission" /\ SkipTxSubmission

(* No task can run: time moves on to the earliest pending sleep.          *)
Tick ==
    /\ ~ENABLED (ExecutorSteps \/ Driver)
    /\ LET sleeping == {a \in Actions : task[a].pc \in {"sendSig", "execSend"}}
           later == {d \in {wake[a] : a \in sleeping} \cup {twake} : d > now}
       IN  /\ later # {}
           /\ now' = Min(later)
    /\ UNCHANGED <<vars, mockVars, txLog, sigRequests, wake, driverVars>>

(* The test function has returned; the runtime idles.                     *)
Finished == tpc = Done /\ UNCHANGED allVars

TestNext == ExecutorSteps \/ Driver \/ Tick \/ Finished

(* The single-threaded runtime polls every task that is ready.           *)
TestFairness ==
    /\ WF_allVars(ExecutorSteps) /\ WF_allVars(Driver) /\ WF_allVars(Tick)

TestSpec == TestInit /\ [][TestNext]_allVars /\ TestFairness

-----------------------------------------------------------------------------
(* Every assert! and assert_eq! of the test holds, and no polling loop    *)
(* times out, in every interleaving of the executor's tasks with the test *)
(* task (the test itself runs one schedule).                              *)
TestAssertionsHold == ~failed

(* The test function returns: every recv().await and polling loop of the *)
(* test is eventually satisfied by the executor.                          *)
TestCompletes == <>(tpc = Done)
=============================================================================
