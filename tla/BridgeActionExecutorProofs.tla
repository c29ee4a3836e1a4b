--------------------- MODULE BridgeActionExecutorProofs ---------------------
(***************************************************************************)
(* Proofs about BridgeActionExecutor for every value of its constants.    *)
(***************************************************************************)
EXTENDS BridgeActionExecutor, TLAPS

USE ConstantsAssumption

(* The idle task record and a wrapper built from an action and a natural  *)
(* number are well typed.                                                 *)
LEMMA IdleType == Idle \in [pc : TaskPc, att : Nat]
BY DEF Idle, TaskPc

(* The queue a dropped receiver leaves behind is well typed.             *)
LEMMA EmptyQueue == <<>> \in Seq(Wrapper)
OBVIOUS

TaskType == [Actions -> [pc : TaskPc, att : Nat]]

(* Replacing one action's task record, or only its pc, keeps the type.   *)
LEMMA TaskUpdate ==
    ASSUME NEW t \in TaskType, NEW a \in Actions,
           NEW p \in TaskPc, NEW n \in Nat
    PROVE  /\ [t EXCEPT ![a] = [pc |-> p, att |-> n]] \in TaskType
           /\ [t EXCEPT ![a].pc = p] \in TaskType
           /\ [t EXCEPT ![a] = Idle] \in TaskType
<1>1. [t EXCEPT ![a] = [pc |-> p, att |-> n]] \in TaskType
  BY DEF TaskType
<1>2. [t EXCEPT ![a].pc = p] \in TaskType
  <2>1. t[a] \in [pc : TaskPc, att : Nat]
    BY DEF TaskType
  <2>2. [t[a] EXCEPT !.pc = p] \in [pc : TaskPc, att : Nat]
    BY <2>1
  <2> QED BY <2>2 DEF TaskType
<1>3. [t EXCEPT ![a] = Idle] \in TaskType
  BY IdleType DEF TaskType
<1> QED BY <1>1, <1>2, <1>3

(* Type correctness: every step of the executor, the orchestrator, the    *)
(* chain and a crash/restart keeps each variable in its type.             *)
LEMMA TypeInit == Init => TypeOK
BY IdleType DEF Init, TypeOK, Status, Wrapper, ExecPc

LEMMA TypeStep == TypeOK /\ [Next]_vars => TypeOK'
<1> SUFFICES ASSUME TypeOK, [Next]_vars PROVE TypeOK'
  OBVIOUS
<1>0. task \in TaskType
  BY DEF TypeOK, TaskType
<1>1. CASE SigningLoopRecv
  <2>1. Head(sigQ) \in Wrapper
    BY <1>1 DEF SigningLoopRecv, TypeOK
  <2>2. task' \in TaskType
    BY <1>1, <2>1, TaskUpdate DEF SigningLoopRecv, TypeOK, Wrapper, TaskPc, TaskType
  <2> QED BY <1>1, <2>2 DEF SigningLoopRecv, TypeOK, TaskType
<1>2. CASE ExecRecv
  BY <1>2 DEF ExecRecv, TypeOK, ExecPc
<1>3. CASE ExecCheck
  <2>1. execCur.act \in Actions
    BY DEF TypeOK, Wrapper
  <2>2. CASE chain[execCur.act] \in Processed
    BY <1>3, <2>1, <2>2, EmptyQueue
       DEF ExecCheck, Remove, WalWritePanics, ExecLoopEnds, TypeOK, ExecPc
  <2>3. CASE chain[execCur.act] \notin Processed
    BY <1>3, <2>3 DEF ExecCheck, TypeOK, ExecPc
  <2> QED BY <2>2, <2>3
<1>4. CASE ExecGasAndBuild
  <2>1. escalated' \subseteq Actions
    BY <1>4 DEF ExecGasAndBuild, TypeOK, Wrapper
  <2>2. execQ' \in Seq(Wrapper) /\ execPc' \in ExecPc
    <3>1. CASE ~OwnerIsNodeAddress
      <4>1. execQ' = <<>> /\ execPc' = "panicked"
        BY <1>4, <3>1 DEF ExecGasAndBuild, ExecLoopEnds
      <4> QED BY <4>1, EmptyQueue DEF ExecPc
    <3>2. CASE OwnerIsNodeAddress
      BY <1>4, <3>2 DEF ExecGasAndBuild, TypeOK, ExecPc
    <3> QED BY <3>1, <3>2
  <2> QED BY <1>4, <2>1, <2>2 DEF ExecGasAndBuild, TypeOK
<1>5. CASE ExecSubmitErr
  <2>1. task' \in TaskType
    BY <1>5, TaskUpdate DEF ExecSubmitErr, TypeOK, TaskPc, Wrapper, TaskType
  <2> QED BY <1>5, <2>1 DEF ExecSubmitErr, TypeOK, ExecPc, TaskType
<1>6. CASE ExecSubmitSuccess
  <2>1. execCur.act \in Actions
    BY DEF TypeOK, Wrapper
  <2>2. chain' \in [Actions -> Status]
    BY <1>6, <2>1 DEF ExecSubmitSuccess, TypeOK, Status
  <2>3. /\ wal' \subseteq Actions /\ escalated' \subseteq Actions
        /\ execQ' \in Seq(Wrapper) /\ execPc' \in ExecPc
    BY <1>6, <2>1, EmptyQueue
       DEF ExecSubmitSuccess, Remove, WalWritePanics, ExecLoopEnds, TypeOK, ExecPc
  <2> QED BY <1>6, <2>2, <2>3 DEF ExecSubmitSuccess, TypeOK
<1>7. CASE ExecSubmitFailure
  BY <1>7 DEF ExecSubmitFailure, TypeOK, ExecPc, Wrapper
<1>8. ASSUME NEW a \in Actions,
             \/ SigCheck(a) \/ AggregateOk(a) \/ AggregateErr(a)
             \/ SendSigningRetry(a) \/ SendCertificate(a)
             \/ ExecRetry(a) \/ SendExecutionRetry(a)
      PROVE TypeOK'
  <2>1. CASE SigCheck(a)
    <3>1. task' \in TaskType
      <4>1. [task EXCEPT ![a] = Idle] \in TaskType
        BY <1>0, TaskUpdate DEF TaskPc
      <4>2. [task EXCEPT ![a].pc = "aggregate"] \in TaskType
        BY <1>0, TaskUpdate DEF TaskPc
      <4> QED BY <2>1, <4>1, <4>2 DEF SigCheck
    <3>2. wal' \subseteq Actions /\ escalated' \subseteq Actions
      BY <2>1 DEF SigCheck, Remove, WalWritePanics, TypeOK
    <3> QED BY <2>1, <3>1, <3>2 DEF SigCheck, TypeOK, TaskType
  <2>2. CASE AggregateOk(a)
    <3>1. task' \in TaskType
      <4>1. [task EXCEPT ![a].pc = "sendExec"] \in TaskType
        BY <1>0, TaskUpdate DEF TaskPc
      <4> QED BY <2>2, <4>1 DEF AggregateOk
    <3> QED BY <2>2, <3>1 DEF AggregateOk, TypeOK, TaskType
  <2>3. CASE AggregateErr(a)
    <3>1. task' \in TaskType
      <4>1. [task EXCEPT ![a] = Idle] \in TaskType
        BY <1>0, TaskUpdate DEF TaskPc
      <4>2. [task EXCEPT ![a].pc = "sendSig"] \in TaskType
        BY <1>0, TaskUpdate DEF TaskPc
      <4> QED BY <2>3, <4>1, <4>2 DEF AggregateErr
    <3>2. escalated' \subseteq Actions
      BY <2>3 DEF AggregateErr, TypeOK
    <3> QED BY <2>3, <3>1, <3>2 DEF AggregateErr, TypeOK, TaskType
  <2>4. CASE SendSigningRetry(a)
    <3>1. [task EXCEPT ![a] = Idle] \in TaskType
      BY <1>0, TaskUpdate DEF TaskPc
    <3>2. [act |-> a, att |-> task[a].att + 1] \in Wrapper
      BY <1>0 DEF TaskType, Wrapper
    <3> QED BY <2>4, <3>1, <3>2 DEF SendSigningRetry, TypeOK, TaskType
  <2>5. CASE SendCertificate(a)
    <3>1. [task EXCEPT ![a] = Idle] \in TaskType
      BY <1>0, TaskUpdate DEF TaskPc
    <3>2. [act |-> a, att |-> 0] \in Wrapper
      BY DEF Wrapper
    <3>3. execQ' \in Seq(Wrapper) /\ escalated' \subseteq Actions
      <4>1. CASE ExecOpen
        <5>1. execQ' = Append(execQ, [act |-> a, att |-> 0])
              /\ escalated' = escalated
          BY <2>5, <4>1 DEF SendCertificate
        <5> QED BY <3>2, <5>1 DEF TypeOK
      <4>2. CASE ~ExecOpen
        BY <2>5, <4>2 DEF SendCertificate, TypeOK
      <4> QED BY <4>1, <4>2
    <3> QED BY <2>5, <3>1, <3>3 DEF SendCertificate, TypeOK, TaskType
  <2>6. CASE ExecRetry(a)
    <3>1. task' \in TaskType
      <4>1. [task EXCEPT ![a] = Idle] \in TaskType
        BY <1>0, TaskUpdate DEF TaskPc
      <4>2. [task EXCEPT ![a].pc = "execSend"] \in TaskType
        BY <1>0, TaskUpdate DEF TaskPc
      <4> QED BY <2>6, <4>1, <4>2 DEF ExecRetry
    <3>2. escalated' \subseteq Actions
      BY <2>6 DEF ExecRetry, TypeOK
    <3> QED BY <2>6, <3>1, <3>2 DEF ExecRetry, TypeOK, TaskType
  <2>7. CASE SendExecutionRetry(a)
    <3>1. [task EXCEPT ![a] = Idle] \in TaskType
      BY <1>0, TaskUpdate DEF TaskPc
    <3>2. [act |-> a, att |-> task[a].att + 1] \in Wrapper
      BY <1>0 DEF TaskType, Wrapper
    <3>3. execQ' \in Seq(Wrapper) /\ escalated' \subseteq Actions
      <4>1. CASE ExecOpen
        <5>1. execQ' = Append(execQ, [act |-> a, att |-> task[a].att + 1])
              /\ escalated' = escalated
          BY <2>7, <4>1 DEF SendExecutionRetry
        <5> QED BY <3>2, <5>1 DEF TypeOK
      <4>2. CASE ~ExecOpen
        BY <2>7, <4>2 DEF SendExecutionRetry, TypeOK
      <4> QED BY <4>1, <4>2
    <3> QED BY <2>7, <3>1, <3>3 DEF SendExecutionRetry, TypeOK, TaskType
  <2> QED BY <1>8, <2>1, <2>2, <2>3, <2>4, <2>5, <2>6, <2>7
<1>9. CASE GasTransferredAway
  BY <1>9 DEF GasTransferredAway, TypeOK
<1>10. CASE CrashRestart
  BY <1>10, IdleType DEF CrashRestart, TypeOK, ExecPc
<1>11. ASSUME NEW a \in Actions,
              \/ InsertPendingAction(a) \/ SubmitToExecutor(a)
              \/ ChainApprove(a) \/ ChainClaim(a)
       PROVE TypeOK'
  <2>1. CASE InsertPendingAction(a)
    BY <2>1 DEF InsertPendingAction, TypeOK
  <2>2. CASE SubmitToExecutor(a)
    BY <2>2 DEF SubmitToExecutor, TypeOK, Wrapper
  <2>3. CASE ChainApprove(a) \/ ChainClaim(a)
    BY <2>3 DEF ChainApprove, ChainClaim, TypeOK, Status
  <2> QED BY <1>11, <2>1, <2>2, <2>3
<1>12. CASE Quiescent \/ UNCHANGED vars
  BY <1>12 DEF Quiescent, vars, TypeOK
<1> QED
  BY <1>1, <1>2, <1>3, <1>4, <1>5, <1>6, <1>7, <1>8, <1>9, <1>10, <1>11, <1>12
     DEF Next, ExecutorNext, EnvironmentNext

THEOREM TypeCorrect == Spec => []TypeOK
BY TypeInit, TypeStep, PTL DEF Spec
-----------------------------------------------------------------------------
(* WalSafety is inductive together with TypeOK: the WAL loses an entry    *)
(* only where the code has seen, or made, the chain status processed,    *)
(* and a processed status never reverts.                                   *)
IInv == TypeOK /\ WalSafety

(* A step that leaves the WAL, the chain and the observed set alone keeps *)
(* WalSafety.                                                             *)
LEMMA WalFrame ==
    ASSUME WalSafety, UNCHANGED <<wal, chain, observed>>
    PROVE  WalSafety'
BY DEF WalSafety

(* Removing one action from the WAL keeps WalSafety if the chain has     *)
(* processed that action after the step.                                  *)
LEMMA WalRemoveProcessed ==
    ASSUME NEW a, WalSafety, wal' = wal \ {a}, observed' = observed,
           \A x \in observed : x # a => chain'[x] = chain[x],
           chain'[a] \in Processed
    PROVE  WalSafety'
BY DEF WalSafety

LEMMA WalSafetyStep == IInv /\ [Next]_vars => WalSafety'
<1> SUFFICES ASSUME TypeOK, WalSafety, [Next]_vars PROVE WalSafety'
  BY DEF IInv
<1>1. ASSUME NEW a \in Actions, SigCheck(a)
      PROVE WalSafety'
  <2>1. CASE chain[a] \in Processed /\ Remove(a)
    BY <1>1, <2>1, WalRemoveProcessed DEF SigCheck, Remove
  <2>2. CASE ~(chain[a] \in Processed /\ Remove(a))
    BY <1>1, <2>2, WalFrame DEF SigCheck, WalWritePanics
  <2> QED BY <2>1, <2>2
<1>2. CASE ExecCheck
  <2>1. CASE chain[execCur.act] \in Processed /\ Remove(execCur.act)
    BY <1>2, <2>1, WalRemoveProcessed DEF ExecCheck, Remove
  <2>2. CASE ~(chain[execCur.act] \in Processed /\ Remove(execCur.act))
    BY <1>2, <2>2, WalFrame DEF ExecCheck, WalWritePanics
  <2> QED BY <2>1, <2>2
<1>3. CASE ExecSubmitSuccess
  <2> DEFINE a == execCur.act
  <2>1. a \in Actions
    BY DEF TypeOK, Wrapper
  <2>2. chain'[a] \in Processed
    BY <1>3, <2>1 DEF ExecSubmitSuccess, TypeOK, Processed
  <2>3. \A x \in observed : x # a => chain'[x] = chain[x]
    BY <1>3 DEF ExecSubmitSuccess, TypeOK
  <2>4. CASE Remove(a)
    BY <1>3, <2>2, <2>3, <2>4, WalRemoveProcessed DEF ExecSubmitSuccess, Remove
  <2>5. CASE ~Remove(a)
    BY <1>3, <2>2, <2>3, <2>5 DEF ExecSubmitSuccess, WalWritePanics, WalSafety
  <2> QED BY <2>4, <2>5
<1>4. ASSUME NEW a \in Actions, InsertPendingAction(a)
      PROVE WalSafety'
  BY <1>4 DEF InsertPendingAction, WalSafety
<1>5. ASSUME NEW a \in Actions, ChainApprove(a) \/ ChainClaim(a)
      PROVE WalSafety'
  BY <1>5 DEF ChainApprove, ChainClaim, WalSafety, TypeOK, Processed
<1>6. CASE UNCHANGED <<wal, chain, observed>>
  BY <1>6, WalFrame
<1> QED
  <2>1. CASE ExecutorNext
    <3>1. CASE SigningLoopRecv \/ ExecRecv \/ ExecGasAndBuild \/ ExecSubmitErr
                \/ ExecSubmitFailure
      BY <3>1, <1>6 DEF SigningLoopRecv, ExecRecv, ExecGasAndBuild,
                        ExecSubmitErr, ExecSubmitFailure
    <3>2. ASSUME NEW a \in Actions,
                 \/ AggregateOk(a) \/ AggregateErr(a)
                 \/ SendSigningRetry(a) \/ SendCertificate(a)
                 \/ ExecRetry(a) \/ SendExecutionRetry(a)
          PROVE WalSafety'
      BY <3>2, <1>6 DEF AggregateOk, AggregateErr, SendSigningRetry,
                        SendCertificate, ExecRetry, SendExecutionRetry
    <3> QED BY <2>1, <3>1, <3>2, <1>1, <1>2, <1>3 DEF ExecutorNext
  <2>2. CASE EnvironmentNext
    <3>1. CASE GasTransferredAway \/ CrashRestart
      BY <3>1, <1>6 DEF GasTransferredAway, CrashRestart
    <3>2. ASSUME NEW a \in Actions, SubmitToExecutor(a)
          PROVE WalSafety'
      BY <3>2, <1>6 DEF SubmitToExecutor
    <3> QED BY <2>2, <3>1, <3>2, <1>4, <1>5 DEF EnvironmentNext
  <2>3. CASE Quiescent \/ UNCHANGED vars
    BY <2>3, <1>6 DEF Quiescent, vars
  <2> QED BY <2>1, <2>2, <2>3 DEF Next

(* At-least-once settlement for every number of actions, attempts, queue *)
(* capacity and restarts: the WAL keeps every action the chain has not    *)
(* approved or claimed.                                                    *)
THEOREM WalSafetyHolds == Spec => []WalSafety
<1>1. Init => IInv
  BY TypeInit DEF Init, IInv, WalSafety
<1>2. IInv /\ [Next]_vars => IInv'
  <2> SUFFICES ASSUME IInv, [Next]_vars PROVE IInv'
    OBVIOUS
  <2>1. TypeOK'
    BY TypeStep DEF IInv
  <2>2. WalSafety'
    BY WalSafetyStep
  <2> QED BY <2>1, <2>2 DEF IInv
<1> QED BY <1>1, <1>2, PTL DEF Spec, IInv
-----------------------------------------------------------------------------
(* Refinement: each executor step is a pending-log step on <<wal, chain,  *)
(* observed>> or leaves all three alone.                                  *)
LEMMA RefinementInit == Init => PL!Init
BY DEF Init, PL!Init

(* A step that leaves the WAL, the chain and the observed set alone is a *)
(* stutter of the pending log.                                            *)
LEMMA RefinementFrame ==
    ASSUME UNCHANGED <<wal, chain, observed>>
    PROVE  [PL!Next]_PL!vars
BY DEF PL!vars

LEMMA RefinementStep == TypeOK /\ [Next]_vars => [PL!Next]_PL!vars
<1> SUFFICES ASSUME TypeOK, [Next]_vars PROVE [PL!Next]_PL!vars
  OBVIOUS
<1>1. ASSUME NEW a \in Actions, SigCheck(a)
      PROVE [PL!Next]_PL!vars
  <2>1. CASE chain[a] \in Processed /\ Remove(a)
    <3>1. PL!Release(a)
      BY <1>1, <2>1 DEF SigCheck, Remove, PL!Release, Processed, PL!Processed
    <3> QED BY <3>1 DEF PL!Next
  <2>2. CASE ~(chain[a] \in Processed /\ Remove(a))
    BY <1>1, <2>2, RefinementFrame DEF SigCheck, WalWritePanics
  <2> QED BY <2>1, <2>2
<1>2. CASE ExecCheck
  <2> DEFINE a == execCur.act
  <2>1. a \in Actions
    BY DEF TypeOK, Wrapper
  <2>2. CASE chain[a] \in Processed /\ Remove(a)
    <3>1. PL!Release(a)
      BY <1>2, <2>2 DEF ExecCheck, Remove, PL!Release, Processed, PL!Processed
    <3> QED BY <2>1, <3>1 DEF PL!Next
  <2>3. CASE ~(chain[a] \in Processed /\ Remove(a))
    BY <1>2, <2>3, RefinementFrame DEF ExecCheck, WalWritePanics
  <2> QED BY <2>2, <2>3
<1>3. CASE ExecSubmitSuccess
  <2> DEFINE a == execCur.act
  <2>1. a \in Actions /\ chain \in [Actions -> Status]
    BY DEF TypeOK, Wrapper
  <2>2. chain' = [chain EXCEPT ![a] = IF @ = "Claimed" THEN @ ELSE "Approved"]
        /\ UNCHANGED observed
        /\ (Remove(a) \/ UNCHANGED wal)
    BY <1>3 DEF ExecSubmitSuccess, WalWritePanics
  <2>3. CASE chain[a] \in Processed
    <3>1. chain' = chain
      BY <2>1, <2>2, <2>3 DEF Processed
    <3>2. CASE Remove(a)
      <4>1. PL!Release(a)
        BY <2>2, <2>3, <3>1, <3>2 DEF Remove, PL!Release, Processed, PL!Processed
      <4> QED BY <2>1, <4>1 DEF PL!Next
    <3>3. CASE UNCHANGED wal
      BY <2>2, <3>1, <3>3, RefinementFrame
    <3> QED BY <2>2, <3>2, <3>3
  <2>4. CASE chain[a] \notin Processed
    <3>1. chain' = [chain EXCEPT ![a] = "Approved"]
      BY <2>1, <2>2, <2>4 DEF Processed
    <3>2. CASE Remove(a)
      <4>1. PL!ApproveAndRelease(a)
        BY <2>2, <2>4, <3>1, <3>2 DEF Remove, PL!ApproveAndRelease, Processed, PL!Processed
      <4> QED BY <2>1, <4>1 DEF PL!Next
    <3>3. CASE UNCHANGED wal
      <4>1. PL!Approve(a)
        BY <2>2, <2>4, <3>1, <3>3 DEF PL!Approve, Processed, PL!Processed
      <4> QED BY <2>1, <4>1 DEF PL!Next
    <3> QED BY <2>2, <3>2, <3>3
  <2> QED BY <2>3, <2>4
<1>4. ASSUME NEW a \in Actions, InsertPendingAction(a)
      PROVE [PL!Next]_PL!vars
  <2>1. PL!Insert(a)
    BY <1>4 DEF InsertPendingAction, PL!Insert
  <2> QED BY <2>1 DEF PL!Next
<1>5. ASSUME NEW a \in Actions, ChainApprove(a)
      PROVE [PL!Next]_PL!vars
  <2>1. PL!Approve(a)
    BY <1>5 DEF ChainApprove, PL!Approve, Processed, PL!Processed
  <2> QED BY <2>1 DEF PL!Next
<1>6. ASSUME NEW a \in Actions, ChainClaim(a)
      PROVE [PL!Next]_PL!vars
  <2>1. PL!Claim(a)
    BY <1>6 DEF ChainClaim, PL!Claim
  <2> QED BY <2>1 DEF PL!Next
<1>7. CASE UNCHANGED <<wal, chain, observed>>
  BY <1>7, RefinementFrame
<1> QED
  <2>1. CASE ExecutorNext
    <3>1. CASE SigningLoopRecv \/ ExecRecv \/ ExecGasAndBuild \/ ExecSubmitErr
                \/ ExecSubmitFailure
      BY <3>1, <1>7 DEF SigningLoopRecv, ExecRecv, ExecGasAndBuild,
                        ExecSubmitErr, ExecSubmitFailure
    <3>2. ASSUME NEW a \in Actions,
                 \/ AggregateOk(a) \/ AggregateErr(a)
                 \/ SendSigningRetry(a) \/ SendCertificate(a)
                 \/ ExecRetry(a) \/ SendExecutionRetry(a)
          PROVE [PL!Next]_PL!vars
      BY <3>2, <1>7 DEF AggregateOk, AggregateErr, SendSigningRetry,
                        SendCertificate, ExecRetry, SendExecutionRetry
    <3> QED BY <2>1, <3>1, <3>2, <1>1, <1>2, <1>3 DEF ExecutorNext
  <2>2. CASE EnvironmentNext
    <3>1. CASE GasTransferredAway \/ CrashRestart
      BY <3>1, <1>7 DEF GasTransferredAway, CrashRestart
    <3>2. ASSUME NEW a \in Actions, SubmitToExecutor(a)
          PROVE [PL!Next]_PL!vars
      BY <3>2, <1>7 DEF SubmitToExecutor
    <3> QED BY <2>2, <3>1, <3>2, <1>4, <1>5, <1>6 DEF EnvironmentNext
  <2>3. CASE Quiescent \/ UNCHANGED vars
    BY <2>3, <1>7 DEF Quiescent, vars
  <2> QED BY <2>1, <2>2, <2>3 DEF Next

(* The executor implements the abstract pending log for every number of   *)
(* actions, caps, queue capacity and restarts, with or without WAL write  *)
(* failures: the WAL only gains first-time inserts, only loses an action  *)
(* the chain has processed, and the chain status only moves forward.      *)
THEOREM Refinement == Spec => PendingLogSpec
<1>1. Spec => []TypeOK
  BY TypeCorrect
<1>2. TypeOK /\ [Next]_vars => [PL!Next]_PL!vars
  BY RefinementStep
<1> QED BY <1>1, <1>2, RefinementInit, PTL DEF Spec, PendingLogSpec, PL!Spec
=============================================================================
