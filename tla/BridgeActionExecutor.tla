------------------------- MODULE BridgeActionExecutor -------------------------
(***************************************************************************)
(* The bridge action executor of crates/mgo-bridge/src/action_executor.rs *)
(* together with the parts of its environment it interacts with: the     *)
(* pending-action log (WAL), the orchestrator that fills it, the chain's   *)
(* per-action status and the node's gas object.                            *)
(*                                                                         *)
(* Control structure kept from the code:                                  *)
(*  - the signing loop (run_signature_aggregation_loop) takes one wrapper *)
(*    off the signing queue and spawns a request_signature task for it;   *)
(*  - a request_signature task checks the chain status, asks the          *)
(*    authorities, and sends either a certificate to the execution queue  *)
(*    or a retry (attempt + 1) to the signing queue;                      *)
(*  - the execution loop (run_onchain_execution_loop) is one sequential   *)
(*    task: status check, gas fetch with ownership assertion, build, sign, *)
(*    submit, and on a submission error it spawns a retry task;           *)
(*  - both queues are bounded channels whose send blocks while full and   *)
(*    fails once the receiver is dropped.                                 *)
(* Every await point of a task is a step boundary.  The data is abstract: *)
(* an action is a model value, a certificate is its action.               *)
(*                                                                         *)
(* The orchestrator inserts each action into the WAL once and submits it  *)
(* once per process lifetime; on restart it re-submits the whole WAL.     *)
(* Hence every action has at most one wrapper in flight ("token"), and a   *)
(* spawned task is recorded per action in `task`.                          *)
(***************************************************************************)
EXTENDS Naturals, Sequences, FiniteSets

CONSTANTS
    Actions,               \* the bridge actions (model values)
    MaxSigningAttempts,    \* MAX_SIGNING_ATTEMPTS
    MaxExecutionAttempts,  \* MAX_EXECUTION_ATTEMPTS
    ChannelSize,           \* CHANNEL_SIZE of both queues
    MaxRestarts,           \* bound on process crashes/restarts explored
    WalWriteFailures       \* whether a write to the WAL store may fail

ASSUME ConstantsAssumption ==
    /\ IsFiniteSet(Actions) /\ Actions # {}
    /\ MaxSigningAttempts \in Nat
    /\ MaxExecutionAttempts \in Nat
    /\ ChannelSize \in Nat \ {0}
    /\ MaxRestarts \in Nat
    /\ WalWriteFailures \in BOOLEAN

VARIABLES
    wal,        \* the pending-action log: set of action digests (durable)
    chain,      \* on-chain BridgeActionStatus of each action (durable)
    gasOwned,   \* the gas object is still owned by the node address
    backlog,    \* actions the orchestrator has yet to send to the executor
    sigQ,       \* signing queue: sequence of [act, att] wrappers
    execQ,      \* execution queue: sequence of [act, att] wrappers
    task,       \* the spawned task of each action, or pc "idle"
    execPc,     \* where the execution loop is
    execCur,    \* the wrapper the execution loop is working on
    observed,   \* ghost: actions ever inserted into the WAL
    escalated,  \* ghost: actions logged for manual intervention this lifetime
    restarts    \* number of crashes/restarts so far

vars == <<wal, chain, gasOwned, backlog, sigQ, execQ, task, execPc, execCur,
          observed, escalated, restarts>>

-----------------------------------------------------------------------------
(* BridgeActionStatus and the statuses that count as already processed.  *)
Status == {"Pending", "RecordNotFound", "Approved", "Claimed"}
Processed == {"Approved", "Claimed"}

Wrapper == [act : Actions, att : Nat]

TaskPc == {"idle", "sigCheck", "aggregate", "sendExec", "sendSig",
           "execRetry", "execSend"}
Idle == [pc |-> "idle", att |-> 0]

ExecPc == {"recv", "check", "gas", "submit", "exited", "panicked"}

(* The execution queue's receiver is dropped once the loop has ended.    *)
ExecOpen == execPc \notin {"exited", "panicked"}

InQueue(q, a) == \E i \in 1..Len(q) : q[i].act = a

(* The action has a wrapper somewhere in the executor.                    *)
InPipeline(a) ==
    \/ a \in backlog
    \/ InQueue(sigQ, a)
    \/ InQueue(execQ, a)
    \/ task[a].pc # "idle"
    \/ execPc \in {"check", "gas", "submit"} /\ execCur.act = a

Remove(a) == wal' = wal \ {a}

(* remove_pending_actions returns an error and unwrap_or_else panics: the  *)
(* entry stays and the panic of the calling task is logged.               *)
WalWritePanics(a) ==
    /\ WalWriteFailures
    /\ UNCHANGED wal
    /\ escalated' = escalated \cup {a}

-----------------------------------------------------------------------------
Init ==
    /\ wal = {}
    /\ chain \in [Actions -> {"Pending", "RecordNotFound"}]
    /\ gasOwned = TRUE
    /\ backlog = {}
    /\ sigQ = <<>>
    /\ execQ = <<>>
    /\ task = [a \in Actions |-> Idle]
    /\ execPc = "recv"
    /\ execCur = [act |-> CHOOSE a \in Actions : TRUE, att |-> 0]
    /\ observed = {}
    /\ escalated = {}
    /\ restarts = 0

-----------------------------------------------------------------------------
(* Environment: the orchestrator, the chain and the process.              *)

(* The orchestrator records a newly observed action in the WAL.           *)
InsertPendingAction(a) ==
    /\ a \notin observed
    /\ wal' = wal \cup {a}
    /\ observed' = observed \cup {a}
    /\ backlog' = backlog \cup {a}
    /\ UNCHANGED <<chain, gasOwned, sigQ, execQ, task, execPc, execCur,
                   escalated, restarts>>

(* submit_to_executor: send (action, 0) on the signing queue.             *)
SubmitToExecutor(a) ==
    /\ a \in backlog
    /\ Len(sigQ) < ChannelSize
    /\ sigQ' = Append(sigQ, [act |-> a, att |-> 0])
    /\ backlog' = backlog \ {a}
    /\ UNCHANGED <<wal, chain, gasOwned, execQ, task, execPc, execCur,
                   observed, escalated, restarts>>

(* Another bridge node gets the action approved, or a user claims it.     *)
ChainApprove(a) ==
    /\ chain[a] \notin Processed
    /\ chain' = [chain EXCEPT ![a] = "Approved"]
    /\ UNCHANGED <<wal, gasOwned, backlog, sigQ, execQ, task, execPc,
                   execCur, observed, escalated, restarts>>

ChainClaim(a) ==
    /\ chain[a] = "Approved"
    /\ chain' = [chain EXCEPT ![a] = "Claimed"]
    /\ UNCHANGED <<wal, gasOwned, backlog, sigQ, execQ, task, execPc,
                   execCur, observed, escalated, restarts>>

(* The gas object is transferred away from the node address.              *)
GasTransferredAway ==
    /\ gasOwned
    /\ gasOwned' = FALSE
    /\ UNCHANGED <<wal, chain, backlog, sigQ, execQ, task, execPc, execCur,
                   observed, escalated, restarts>>

(* The process crashes and restarts: everything but the WAL and the chain *)
(* is lost, and the orchestrator re-submits every WAL entry (attempt 0).  *)
CrashRestart ==
    /\ restarts < MaxRestarts
    /\ restarts' = restarts + 1
    /\ backlog' = wal
    /\ sigQ' = <<>>
    /\ execQ' = <<>>
    /\ task' = [a \in Actions |-> Idle]
    /\ execPc' = "recv"
    /\ escalated' = {}
    /\ UNCHANGED <<wal, chain, gasOwned, execCur, observed>>

-----------------------------------------------------------------------------
(* The signing stage.                                                     *)

(* run_signature_aggregation_loop: receive and spawn request_signature.   *)
SigningLoopRecv ==
    /\ sigQ # <<>>
    /\ LET w == Head(sigQ) IN
         task' = [task EXCEPT ![w.act] = [pc |-> "sigCheck", att |-> w.att]]
    /\ sigQ' = Tail(sigQ)
    /\ UNCHANGED <<wal, chain, gasOwned, backlog, execQ, execPc, execCur,
                   observed, escalated, restarts>>

(* Mutant: the skip forgets remove_pending_actions.                       *)
SigCheckWithoutRemove(a) ==
    /\ task[a].pc = "sigCheck"
    /\ UNCHANGED <<wal, escalated>>
    /\ task' = IF chain[a] \in Processed THEN [task EXCEPT ![a] = Idle]
                                         ELSE [task EXCEPT ![a].pc = "aggregate"]
    /\ UNCHANGED <<chain, gasOwned, backlog, sigQ, execQ, execPc, execCur,
                   observed, restarts>>

(* handle_already_processed_action_maybe inside request_signature.        *)
(* Mutant: the status match counts RecordNotFound as already processed.  *)
SigCheckRecordNotFoundProcessed(a) ==
    /\ task[a].pc = "sigCheck"
    /\ IF chain[a] \in Processed \cup {"RecordNotFound"}
         THEN /\ \/ Remove(a) /\ UNCHANGED escalated
                 \/ WalWritePanics(a)
              /\ task' = [task EXCEPT ![a] = Idle]
         ELSE /\ UNCHANGED <<wal, escalated>>
              /\ task' = [task EXCEPT ![a].pc = "aggregate"]
    /\ UNCHANGED <<chain, gasOwned, backlog, sigQ, execQ, execPc, execCur,
                   observed, restarts>>

(* A failed removal panics the task, which ends it just the same.        *)
SigCheck(a) ==
    /\ task[a].pc = "sigCheck"
    /\ IF chain[a] \in Processed
         THEN /\ \/ Remove(a) /\ UNCHANGED escalated
                 \/ WalWritePanics(a)
              /\ task' = [task EXCEPT ![a] = Idle]
         ELSE /\ UNCHANGED <<wal, escalated>>
              /\ task' = [task EXCEPT ![a].pc = "aggregate"]
    /\ UNCHANGED <<chain, gasOwned, backlog, sigQ, execQ, execPc, execCur,
                   observed, restarts>>

(* request_committee_signatures succeeds.                                 *)
AggregateOk(a) ==
    /\ task[a].pc = "aggregate"
    /\ task' = [task EXCEPT ![a].pc = "sendExec"]
    /\ UNCHANGED <<wal, chain, gasOwned, backlog, sigQ, execQ, execPc,
                   execCur, observed, escalated, restarts>>

(* request_committee_signatures fails: give up at the cap, else retry.    *)
AggregateErr(a) ==
    /\ task[a].pc = "aggregate"
    /\ IF task[a].att >= MaxSigningAttempts
         THEN /\ task' = [task EXCEPT ![a] = Idle]
              /\ escalated' = escalated \cup {a}
         ELSE /\ task' = [task EXCEPT ![a].pc = "sendSig"]
              /\ UNCHANGED escalated
    /\ UNCHANGED <<wal, chain, gasOwned, backlog, sigQ, execQ, execPc,
                   execCur, observed, restarts>>

(* Mutant: the retry uses try_send and drops the wrapper when full.       *)
SendSigningRetryDropping(a) ==
    /\ task[a].pc = "sendSig"
    /\ sigQ' = IF Len(sigQ) < ChannelSize
                 THEN Append(sigQ, [act |-> a, att |-> task[a].att + 1])
                 ELSE sigQ
    /\ task' = [task EXCEPT ![a] = Idle]
    /\ UNCHANGED <<wal, chain, gasOwned, backlog, execQ, execPc, execCur,
                   observed, escalated, restarts>>

(* After delay(attempt): send (action, attempt + 1) to the signing queue. *)
SendSigningRetry(a) ==
    /\ task[a].pc = "sendSig"
    /\ Len(sigQ) < ChannelSize
    /\ sigQ' = Append(sigQ, [act |-> a, att |-> task[a].att + 1])
    /\ task' = [task EXCEPT ![a] = Idle]
    /\ UNCHANGED <<wal, chain, gasOwned, backlog, execQ, execPc, execCur,
                   observed, escalated, restarts>>

(* Send (certificate, 0) to the execution queue; the expect panics (and   *)
(* the panic is logged) once the queue's receiver is gone.                *)
SendCertificate(a) ==
    /\ task[a].pc = "sendExec"
    /\ \/ /\ ExecOpen
          /\ Len(execQ) < ChannelSize
          /\ execQ' = Append(execQ, [act |-> a, att |-> 0])
          /\ UNCHANGED escalated
       \/ /\ ~ExecOpen
          /\ escalated' = escalated \cup {a}
          /\ UNCHANGED execQ
    /\ task' = [task EXCEPT ![a] = Idle]
    /\ UNCHANGED <<wal, chain, gasOwned, backlog, sigQ, execPc, execCur,
                   observed, restarts>>

-----------------------------------------------------------------------------
(* The execution stage.                                                   *)

(* The loop ends; its receiver, and every wrapper still queued, is dropped. *)
ExecLoopEnds(pc) ==
    /\ execPc' = pc
    /\ execQ' = <<>>

ExecRecv ==
    /\ execPc = "recv"
    /\ execQ # <<>>
    /\ execCur' = Head(execQ)
    /\ execQ' = Tail(execQ)
    /\ execPc' = "check"
    /\ UNCHANGED <<wal, chain, gasOwned, backlog, sigQ, task, observed,
                   escalated, restarts>>

(* Already processed: remove from the WAL and `return` from the loop; a  *)
(* failed removal panics the loop instead.                                *)
ExecCheck ==
    /\ execPc = "check"
    /\ LET a == execCur.act IN
         IF chain[a] \in Processed
           THEN \/ Remove(a) /\ ExecLoopEnds("exited") /\ UNCHANGED escalated
                \/ WalWritePanics(a) /\ ExecLoopEnds("panicked")
           ELSE UNCHANGED <<wal, execQ, escalated>> /\ execPc' = "gas"
    /\ UNCHANGED <<chain, gasOwned, backlog, sigQ, task, execCur, observed,
                   restarts>>

(* get_gas_data_assert_ownership: the fetched owner is the node address. *)
OwnerIsNodeAddress == gasOwned

(* get_gas_data_assert_ownership, then build_transaction and signing.     *)
(* A failed ownership assertion panics the loop task; a build error is    *)
(* logged and the loop continues with the next wrapper.                   *)
ExecGasAndBuild ==
    /\ execPc = "gas"
    /\ \/ /\ ~OwnerIsNodeAddress
          /\ ExecLoopEnds("panicked")
          /\ escalated' = escalated \cup {execCur.act}
       \/ /\ OwnerIsNodeAddress
          /\ execPc' = "recv"
          /\ escalated' = escalated \cup {execCur.act}
          /\ UNCHANGED execQ
       \/ /\ OwnerIsNodeAddress
          /\ execPc' = "submit"
          /\ UNCHANGED <<execQ, escalated>>
    /\ UNCHANGED <<wal, chain, gasOwned, backlog, sigQ, task, execCur,
                   observed, restarts>>

(* execute_transaction_block_with_effects returns an error: spawn the     *)
(* retry task.                                                            *)
(* Mutant: an Err is logged like Failure effects and no retry is spawned. *)
ExecSubmitErrNotRetried ==
    /\ execPc = "submit"
    /\ escalated' = escalated \cup {execCur.act}
    /\ execPc' = "recv"
    /\ UNCHANGED <<wal, chain, gasOwned, backlog, sigQ, execQ, task, execCur,
                   observed, restarts>>

(* Mutant: an Err also puts the certificate straight back on the         *)
(* execution queue, besides spawning the retry task.                     *)
ExecSubmitErrRequeued ==
    /\ execPc = "submit"
    /\ Len(execQ) < ChannelSize
    /\ task' = [task EXCEPT ![execCur.act] =
                    [pc |-> "execRetry", att |-> execCur.att]]
    /\ execQ' = Append(execQ, execCur)
    /\ execPc' = "recv"
    /\ UNCHANGED <<wal, chain, gasOwned, backlog, sigQ, execCur,
                   observed, escalated, restarts>>

ExecSubmitErr ==
    /\ execPc = "submit"
    /\ task' = [task EXCEPT ![execCur.act] =
                    [pc |-> "execRetry", att |-> execCur.att]]
    /\ execPc' = "recv"
    /\ UNCHANGED <<wal, chain, gasOwned, backlog, sigQ, execQ, execCur,
                   observed, escalated, restarts>>

(* Effects with status Success: the chain approves, the WAL entry goes;  *)
(* a failed removal panics the loop.                                      *)
ExecSubmitSuccess ==
    /\ execPc = "submit"
    /\ LET a == execCur.act IN
         /\ chain' = [chain EXCEPT ![a] = IF @ = "Claimed" THEN @ ELSE "Approved"]
         /\ \/ Remove(a) /\ execPc' = "recv" /\ UNCHANGED <<execQ, escalated>>
            \/ WalWritePanics(a) /\ ExecLoopEnds("panicked")
    /\ UNCHANGED <<gasOwned, backlog, sigQ, task, execCur, observed,
                   restarts>>

(* Mutant: failure effects also clear the WAL entry.                      *)
ExecSubmitFailureRemoving ==
    /\ execPc = "submit"
    /\ escalated' = escalated \cup {execCur.act}
    /\ Remove(execCur.act)
    /\ execPc' = "recv"
    /\ UNCHANGED <<chain, gasOwned, backlog, sigQ, execQ, task, execCur,
                   observed, restarts>>

(* Effects with status Failure: logged for manual intervention, no retry. *)
ExecSubmitFailure ==
    /\ execPc = "submit"
    /\ escalated' = escalated \cup {execCur.act}
    /\ execPc' = "recv"
    /\ UNCHANGED <<wal, chain, gasOwned, backlog, sigQ, execQ, task, execCur,
                   observed, restarts>>

(* The spawned retry task: give up at the cap, else after the delay send  *)
(* (certificate, attempt + 1); the expect panics on a closed queue.       *)
ExecRetry(a) ==
    /\ task[a].pc = "execRetry"
    /\ IF task[a].att >= MaxExecutionAttempts
         THEN /\ task' = [task EXCEPT ![a] = Idle]
              /\ escalated' = escalated \cup {a}
         ELSE /\ task' = [task EXCEPT ![a].pc = "execSend"]
              /\ UNCHANGED escalated
    /\ UNCHANGED <<wal, chain, gasOwned, backlog, sigQ, execQ, execPc,
                   execCur, observed, restarts>>

(* Mutant: the re-enqueued wrapper carries attempt - 1.                   *)
SendExecutionRetryDecrementing(a) ==
    /\ task[a].pc = "execSend"
    /\ \/ /\ ExecOpen
          /\ Len(execQ) < ChannelSize
          /\ execQ' = Append(execQ, [act |-> a, att |-> task[a].att - 1])
          /\ UNCHANGED escalated
       \/ /\ ~ExecOpen
          /\ escalated' = escalated \cup {a}
          /\ UNCHANGED execQ
    /\ task' = [task EXCEPT ![a] = Idle]
    /\ UNCHANGED <<wal, chain, gasOwned, backlog, sigQ, execPc, execCur,
                   observed, restarts>>

SendExecutionRetry(a) ==
    /\ task[a].pc = "execSend"
    /\ \/ /\ ExecOpen
          /\ Len(execQ) < ChannelSize
          /\ execQ' = Append(execQ, [act |-> a, att |-> task[a].att + 1])
          /\ UNCHANGED escalated
       \/ /\ ~ExecOpen
          /\ escalated' = escalated \cup {a}
          /\ UNCHANGED execQ
    /\ task' = [task EXCEPT ![a] = Idle]
    /\ UNCHANGED <<wal, chain, gasOwned, backlog, sigQ, execPc, execCur,
                   observed, restarts>>

-----------------------------------------------------------------------------
(* The executor's own steps; the environment's are separate so that       *)
(* fairness is asserted only of the executor and the orchestrator.        *)
ExecutorNext ==
    \/ SigningLoopRecv
    \/ ExecRecv \/ ExecCheck \/ ExecGasAndBuild
    \/ ExecSubmitErr \/ ExecSubmitSuccess \/ ExecSubmitFailure
    \/ \E a \in Actions :
         \/ SigCheck(a) \/ AggregateOk(a) \/ AggregateErr(a)
         \/ SendSigningRetry(a) \/ SendCertificate(a)
         \/ ExecRetry(a) \/ SendExecutionRetry(a)

EnvironmentNext ==
    \/ GasTransferredAway
    \/ CrashRestart
    \/ \E a \in Actions :
         \/ InsertPendingAction(a) \/ SubmitToExecutor(a)
         \/ ChainApprove(a) \/ ChainClaim(a)

(* With every input handled and both loops waiting on an empty queue the *)
(* executor idles; any other state without a successor is a deadlock.      *)
Quiescent ==
    /\ backlog = {} /\ sigQ = <<>> /\ execQ = <<>>
    /\ \A a \in Actions : task[a].pc = "idle"
    /\ execPc \in {"recv", "exited", "panicked"}
    /\ UNCHANGED vars

Next == ExecutorNext \/ EnvironmentNext \/ Quiescent

(* Tokio runs every ready task, so each task's step is weakly fair; the   *)
(* orchestrator keeps submitting its backlog.  The chain, the gas owner,  *)
(* the authorities' and the chain's answers and crashes get no fairness.  *)
Fairness ==
    /\ WF_vars(SigningLoopRecv)
    /\ WF_vars(ExecRecv) /\ WF_vars(ExecCheck) /\ WF_vars(ExecGasAndBuild)
    /\ WF_vars(ExecSubmitErr \/ ExecSubmitSuccess \/ ExecSubmitFailure)
    /\ \A a \in Actions :
         /\ WF_vars(SubmitToExecutor(a))
         /\ WF_vars(SigCheck(a))
         /\ WF_vars(AggregateOk(a) \/ AggregateErr(a))
         /\ WF_vars(SendSigningRetry(a)) /\ WF_vars(SendCertificate(a))
         /\ WF_vars(ExecRetry(a)) /\ WF_vars(SendExecutionRetry(a))

Spec == Init /\ [][Next]_vars
FairSpec == Spec /\ Fairness

-----------------------------------------------------------------------------
(* The refinement mapping: the abstract pending log is the executor's    *)
(* own WAL, chain and observed set; the queues, tasks, backlog and         *)
(* escalations are hidden.                                                *)
PL == INSTANCE PendingLog
          WITH Actions <- Actions, wal <- wal, chain <- chain, observed <- observed

TypeOK ==
    /\ wal \subseteq Actions
    /\ chain \in [Actions -> Status]
    /\ gasOwned \in BOOLEAN
    /\ backlog \subseteq Actions
    /\ sigQ \in Seq(Wrapper)
    /\ execQ \in Seq(Wrapper)
    /\ task \in [Actions -> [pc : TaskPc, att : Nat]]
    /\ execPc \in ExecPc
    /\ execCur \in Wrapper
    /\ observed \subseteq Actions
    /\ escalated \subseteq Actions
    /\ restarts \in Nat

(* At-least-once settlement (the WAL keeps every action it was given      *)
(* until the chain has it): no path of request_signature or of the        *)
(* execution loop removes an entry the chain has not processed.           *)
WalSafety ==
    \A a \in observed : chain[a] \notin Processed => a \in wal

(* No silent loss: every WAL action the chain has not processed has a     *)
(* wrapper in the executor or was logged for manual intervention in this  *)
(* lifetime (give-up at a retry cap, build error, failure effects, panic). *)
NoSilentDrop ==
    \A a \in wal : chain[a] \notin Processed =>
        InPipeline(a) \/ a \in escalated

(* The same, for as long as the execution loop is still receiving.        *)
NoSilentDropWhileServing == ExecOpen => NoSilentDrop

(* The places an action's wrapper can be in.                             *)
Place == {"backlog", "sigQ", "execQ", "task", "exec"}

HeldAt(p, a) ==
    CASE p = "backlog" -> a \in backlog
      [] p = "sigQ"    -> InQueue(sigQ, a)
      [] p = "execQ"   -> InQueue(execQ, a)
      [] p = "task"    -> task[a].pc # "idle"
      [] p = "exec"    -> execPc \in {"check", "gas", "submit"} /\ execCur.act = a

UniqueIn(q, a) == \A i, j \in 1..Len(q) : q[i].act = a /\ q[j].act = a => i = j

(* Whatever the interleaving of the orchestrator's submissions, the      *)
(* request_signature tasks, the execution loop and its spawned retry      *)
(* tasks and crashes, an action has at most one wrapper in flight: in one *)
(* place, and at most once in each channel.  request_signature and the    *)
(* retry task are spawned per wrapper and tracked per action, so a second *)
(* wrapper would mean two concurrent tasks on one action and a duplicate   *)
(* certificate or transaction.                                            *)
OneWrapperPerAction ==
    \A a \in Actions :
        /\ \A p, r \in Place : HeldAt(p, a) /\ HeldAt(r, a) => p = r
        /\ UniqueIn(sigQ, a) /\ UniqueIn(execQ, a)

(* Retry cap (spec: at most MAX_SIGNING_ATTEMPTS signing attempts, the    *)
(* code comment "at most 16 times including the initial attempt"): the    *)
(* authorities are asked with attempt numbers 0 .. MAX - 1 only.          *)
SigningAttemptsWithinCap ==
    \A a \in Actions : task[a].pc = "aggregate" => task[a].att < MaxSigningAttempts

(* Retry cap of the execution stage (spec: at most MAX_EXECUTION_ATTEMPTS *)
(* execution attempts; the comment "at most 16 times including the       *)
(* initial attempt"): a transaction is submitted with attempt numbers     *)
(* 0 .. MAX - 1 only.                                                     *)
ExecutionAttemptsWithinCap ==
    execPc = "submit" => execCur.att < MaxExecutionAttempts

(* An action found processed while queued for signing eventually leaves   *)
(* the WAL: request_signature's status check removes it.                  *)
ProcessedQueuedEventuallyRemoved ==
    \A a \in Actions :
        (chain[a] \in Processed /\ InQueue(sigQ, a)) ~> a \notin wal

(* The executor implements the pending log: whatever the interleaving of *)
(* request_signature tasks, the execution loop, retries, crashes and WAL  *)
(* write failures, the WAL only gains first-time inserts and only loses   *)
(* an action in a step where the chain has processed it, and the chain    *)
(* status only moves forward.                                             *)
PendingLogSpec == PL!Spec
=============================================================================
