------------------------- MODULE NoSilentDropProofs -------------------------
(***************************************************************************)
(* No silent loss while the execution loop serves: every WAL action the   *)
(* chain has not processed has a wrapper somewhere in the executor or has *)
(* been logged for manual intervention.  Together with TypeOK the         *)
(* property is inductive: each step either hands an action's wrapper on   *)
(* (queue to task, task to queue, queue to the loop), logs it, removes it *)
(* from the WAL, makes the chain process it, or closes the execution      *)
(* queue; and the one step that reopens the queue, a restart, puts the    *)
(* whole WAL back into the orchestrator's backlog.                        *)
(***************************************************************************)
EXTENDS BridgeActionExecutorProofs

(* The action has a wrapper in the executor or was logged.               *)
Covered(x) == InPipeline(x) \/ x \in escalated

-----------------------------------------------------------------------------
(* Where a wrapper is in a queue after a send and after a receive.        *)
LEMMA InQueueAppend ==
    ASSUME NEW q \in Seq(Wrapper), NEW w \in Wrapper, NEW x
    PROVE  InQueue(Append(q, w), x) <=> InQueue(q, x) \/ w.act = x
BY DEF InQueue

LEMMA InQueueTail ==
    ASSUME NEW q \in Seq(Wrapper), q # <<>>, NEW x
    PROVE  InQueue(q, x) <=> InQueue(Tail(q), x) \/ Head(q).act = x
<1>1. ASSUME NEW i \in 1..Len(q), q[i].act = x, i # 1
      PROVE  InQueue(Tail(q), x)
  <2>1. i - 1 \in 1..Len(Tail(q)) /\ Tail(q)[i - 1] = q[i]
    BY <1>1
  <2> QED BY <1>1, <2>1 DEF InQueue
<1>2. ASSUME InQueue(Tail(q), x) PROVE InQueue(q, x)
  <2>1. PICK j \in 1..Len(Tail(q)) : Tail(q)[j].act = x
    BY <1>2 DEF InQueue
  <2>2. j + 1 \in 1..Len(q) /\ q[j + 1] = Tail(q)[j]
    BY <2>1
  <2> QED BY <2>1, <2>2 DEF InQueue
<1>3. Head(q) = q[1] /\ 1 \in 1..Len(q)
  OBVIOUS
<1> QED BY <1>1, <1>2, <1>3 DEF InQueue

(* The hypothesis, read in the state before a step.                       *)
LEMMA CoveredBefore ==
    ASSUME NoSilentDropWhileServing, ExecOpen,
           NEW x \in wal, chain[x] \notin Processed
    PROVE  Covered(x)
BY DEF NoSilentDropWhileServing, NoSilentDrop, Covered

(* A step that leaves the whole pipeline and the log alone keeps an       *)
(* action covered.                                                        *)
LEMMA CoveredFrame ==
    ASSUME NEW x, Covered(x),
           UNCHANGED <<backlog, sigQ, execQ, task, execPc, execCur, escalated>>
    PROVE  Covered(x)'
BY DEF Covered, InPipeline, InQueue

-----------------------------------------------------------------------------
LEMMA NoSilentDropStep ==
    TypeOK /\ NoSilentDropWhileServing /\ [Next]_vars => NoSilentDropWhileServing'
<1> SUFFICES ASSUME TypeOK, NoSilentDropWhileServing, [Next]_vars, ExecOpen',
                    NEW x \in wal', chain'[x] \notin Processed
             PROVE  Covered(x)'
  BY DEF NoSilentDropWhileServing, NoSilentDrop, Covered
<1>0. x \in Actions
  BY TypeStep DEF TypeOK
<1>1. CASE CrashRestart
  BY <1>1 DEF CrashRestart, Covered, InPipeline
<1>2. ASSUME NEW a \in Actions, InsertPendingAction(a)
      PROVE  Covered(x)'
  <2>1. CASE x = a
    BY <1>2, <2>1 DEF InsertPendingAction, Covered, InPipeline
  <2>2. CASE x # a
    <3>1. Covered(x)
      BY <1>2, <2>2, CoveredBefore DEF InsertPendingAction, ExecOpen
    <3> QED BY <1>2, <3>1 DEF InsertPendingAction, Covered, InPipeline, InQueue
  <2> QED BY <2>1, <2>2
<1>3. CASE SigningLoopRecv
  <2> DEFINE w == Head(sigQ)
  <2>1. Covered(x)
    BY <1>3, CoveredBefore DEF SigningLoopRecv, ExecOpen
  <2>2. sigQ \in Seq(Wrapper) /\ sigQ # <<>> /\ w \in Wrapper
    BY <1>3 DEF SigningLoopRecv, TypeOK
  <2>3. InQueue(sigQ, x) => InQueue(sigQ', x) \/ w.act = x
    BY <1>3, <2>2, InQueueTail DEF SigningLoopRecv
  <2>4. task'[w.act].pc = "sigCheck" /\ (w.act # x => task'[x] = task[x])
    BY <1>3, <2>2 DEF SigningLoopRecv, TypeOK, Wrapper
  <2> QED BY <1>3, <2>1, <2>3, <2>4 DEF SigningLoopRecv, Covered, InPipeline
<1>4. CASE ExecRecv
  <2> DEFINE w == Head(execQ)
  <2>1. Covered(x)
    BY <1>4, CoveredBefore DEF ExecRecv, ExecOpen
  <2>2. execQ \in Seq(Wrapper) /\ execQ # <<>>
    BY <1>4 DEF ExecRecv, TypeOK
  <2>3. InQueue(execQ, x) => InQueue(execQ', x) \/ w.act = x
    BY <1>4, <2>2, InQueueTail DEF ExecRecv
  <2> QED BY <1>4, <2>1, <2>3 DEF ExecRecv, Covered, InPipeline
<1>5. CASE ExecCheck
  <2>1. ~(chain[execCur.act] \in Processed)
    BY <1>5 DEF ExecCheck, ExecLoopEnds, WalWritePanics, ExecOpen
  <2>2. execPc' = "gas" /\ UNCHANGED <<wal, execQ, escalated>>
    BY <1>5, <2>1 DEF ExecCheck
  <2>3. Covered(x)
    BY <1>5, <2>2, CoveredBefore DEF ExecCheck, ExecOpen
  <2> QED BY <1>5, <2>2, <2>3 DEF ExecCheck, Covered, InPipeline, InQueue
<1>6. CASE ExecGasAndBuild
  <2>1. OwnerIsNodeAddress
    BY <1>6 DEF ExecGasAndBuild, ExecLoopEnds, ExecOpen
  <2>2. Covered(x)
    BY <1>6, CoveredBefore DEF ExecGasAndBuild, ExecOpen
  <2>3. CASE execPc' = "recv"
    <3>1. escalated' = escalated \cup {execCur.act} /\ UNCHANGED execQ
      BY <1>6, <2>1, <2>3 DEF ExecGasAndBuild
    <3> QED BY <1>6, <2>2, <3>1 DEF ExecGasAndBuild, Covered, InPipeline, InQueue
  <2>4. CASE execPc' = "submit"
    <3>1. UNCHANGED <<execQ, escalated>>
      BY <1>6, <2>1, <2>4 DEF ExecGasAndBuild
    <3> QED BY <1>6, <2>2, <2>4, <3>1 DEF ExecGasAndBuild, Covered, InPipeline, InQueue
  <2> QED BY <1>6, <2>1, <2>3, <2>4 DEF ExecGasAndBuild
<1>7. CASE ExecSubmitErr
  <2>1. Covered(x)
    BY <1>7, CoveredBefore DEF ExecSubmitErr, ExecOpen
  <2>2. /\ task'[execCur.act].pc = "execRetry"
        /\ execCur.act # x => task'[x] = task[x]
    BY <1>7 DEF ExecSubmitErr, TypeOK, Wrapper
  <2> QED BY <1>7, <2>1, <2>2 DEF ExecSubmitErr, Covered, InPipeline, InQueue
<1>8. CASE ExecSubmitSuccess
  <2> DEFINE a == execCur.act
  <2>1. a \in Actions
    BY DEF TypeOK, Wrapper
  <2>2. Remove(a) /\ execPc' = "recv" /\ UNCHANGED <<execQ, escalated>>
    BY <1>8 DEF ExecSubmitSuccess, WalWritePanics, ExecLoopEnds, ExecOpen
  <2>3. x # a
    BY <1>8, <2>1 DEF ExecSubmitSuccess, TypeOK, Processed
  <2>4. chain[x] \notin Processed /\ x \in wal
    BY <1>8, <2>2, <2>3 DEF ExecSubmitSuccess, Remove, TypeOK
  <2>5. Covered(x)
    BY <1>8, <2>4, CoveredBefore DEF ExecSubmitSuccess, ExecOpen
  <2> QED BY <1>8, <2>2, <2>3, <2>5 DEF ExecSubmitSuccess, Covered, InPipeline, InQueue
<1>9. CASE ExecSubmitFailure
  <2>1. Covered(x)
    BY <1>9, CoveredBefore DEF ExecSubmitFailure, ExecOpen
  <2> QED BY <1>9, <2>1 DEF ExecSubmitFailure, Covered, InPipeline, InQueue
<1>10. ASSUME NEW a \in Actions, SigCheck(a)
       PROVE  Covered(x)'
  <2>1. CASE chain[a] \in Processed /\ Remove(a)
    <3>1. /\ x # a /\ task' = [task EXCEPT ![a] = Idle]
          /\ escalated \subseteq escalated'
      BY <1>10, <2>1 DEF SigCheck, Remove, WalWritePanics
    <3>2. Covered(x)
      BY <1>10, <2>1, <3>1, CoveredBefore DEF SigCheck, Remove, ExecOpen
    <3>3. task'[x] = task[x]
      BY <1>0, <3>1 DEF TypeOK
    <3> QED BY <1>10, <3>1, <3>2, <3>3 DEF SigCheck, Covered, InPipeline, InQueue
  <2>2. CASE chain[a] \in Processed /\ ~Remove(a)
    <3>1. /\ escalated' = escalated \cup {a} /\ UNCHANGED wal
          /\ task' = [task EXCEPT ![a] = Idle]
      BY <1>10, <2>2 DEF SigCheck, WalWritePanics, Remove
    <3>2. Covered(x)
      BY <1>10, <3>1, CoveredBefore DEF SigCheck, ExecOpen
    <3>3. x # a => task'[x] = task[x]
      BY <1>0, <3>1 DEF TypeOK
    <3> QED BY <1>10, <3>1, <3>2, <3>3 DEF SigCheck, Covered, InPipeline, InQueue
  <2>3. CASE chain[a] \notin Processed
    <3>1. /\ task' = [task EXCEPT ![a].pc = "aggregate"]
          /\ UNCHANGED <<wal, escalated>>
      BY <1>10, <2>3 DEF SigCheck
    <3>2. Covered(x)
      BY <1>10, <3>1, CoveredBefore DEF SigCheck, ExecOpen
    <3>3. task'[a].pc = "aggregate" /\ (x # a => task'[x] = task[x])
      BY <1>0, <3>1 DEF TypeOK
    <3> QED BY <1>10, <3>1, <3>2, <3>3 DEF SigCheck, Covered, InPipeline, InQueue
  <2> QED BY <2>1, <2>2, <2>3
<1>11. ASSUME NEW a \in Actions, AggregateOk(a) \/ AggregateErr(a) \/ ExecRetry(a)
       PROVE  Covered(x)'
  <2>1. UNCHANGED <<wal, chain, backlog, sigQ, execQ, execPc, execCur>>
        /\ escalated \subseteq escalated'
    BY <1>11 DEF AggregateOk, AggregateErr, ExecRetry
  <2>2. Covered(x)
    BY <2>1, CoveredBefore DEF ExecOpen
  <2>3. x # a => task'[x] = task[x]
    BY <1>0, <1>11 DEF AggregateOk, AggregateErr, ExecRetry, TypeOK
  <2>4. task'[a].pc # "idle" \/ a \in escalated'
    BY <1>11 DEF AggregateOk, AggregateErr, ExecRetry, TypeOK, Idle
  <2> QED BY <2>1, <2>2, <2>3, <2>4 DEF Covered, InPipeline, InQueue
<1>12. ASSUME NEW a \in Actions, SendSigningRetry(a)
       PROVE  Covered(x)'
  <2> DEFINE w == [act |-> a, att |-> task[a].att + 1]
  <2>1. Covered(x)
    BY <1>12, CoveredBefore DEF SendSigningRetry, ExecOpen
  <2>2. w \in Wrapper /\ sigQ \in Seq(Wrapper)
    BY DEF TypeOK, Wrapper
  <2>3. sigQ' = Append(sigQ, w)
    BY <1>12 DEF SendSigningRetry
  <2>4. InQueue(sigQ', x) <=> InQueue(sigQ, x) \/ a = x
    BY <2>2, <2>3, InQueueAppend
  <2>5. x # a => task'[x] = task[x]
    BY <1>0, <1>12 DEF SendSigningRetry, TypeOK
  <2> QED BY <1>12, <2>1, <2>4, <2>5 DEF SendSigningRetry, Covered, InPipeline
<1>13. ASSUME NEW a \in Actions, SendCertificate(a) \/ SendExecutionRetry(a)
       PROVE  Covered(x)'
  <2>1. ExecOpen /\ UNCHANGED <<wal, chain, backlog, sigQ, execPc, execCur>>
    BY <1>13 DEF SendCertificate, SendExecutionRetry, ExecOpen
  <2>2. Covered(x)
    BY <2>1, CoveredBefore
  <2>3. PICK w \in Wrapper : w.act = a /\ execQ' = Append(execQ, w)
                             /\ UNCHANGED escalated
    BY <1>13, <2>1 DEF SendCertificate, SendExecutionRetry, TypeOK, Wrapper
  <2>4. InQueue(execQ', x) <=> InQueue(execQ, x) \/ a = x
    BY <2>3, InQueueAppend DEF TypeOK
  <2>5. x # a => task'[x] = task[x]
    BY <1>0, <1>13 DEF SendCertificate, SendExecutionRetry, TypeOK
  <2> QED BY <2>1, <2>2, <2>3, <2>4, <2>5 DEF Covered, InPipeline
<1>14. ASSUME NEW a \in Actions, SubmitToExecutor(a)
       PROVE  Covered(x)'
  <2>1. Covered(x)
    BY <1>14, CoveredBefore DEF SubmitToExecutor, ExecOpen
  <2>2. [act |-> a, att |-> 0] \in Wrapper /\ sigQ \in Seq(Wrapper)
    BY DEF TypeOK, Wrapper
  <2>3. InQueue(sigQ', x) <=> InQueue(sigQ, x) \/ a = x
    BY <1>14, <2>2, InQueueAppend DEF SubmitToExecutor
  <2> QED BY <1>14, <2>1, <2>3 DEF SubmitToExecutor, Covered, InPipeline
<1>15. ASSUME NEW a \in Actions, ChainApprove(a) \/ ChainClaim(a)
       PROVE  Covered(x)'
  <2>1. chain[x] \notin Processed
    BY <1>0, <1>15 DEF ChainApprove, ChainClaim, TypeOK, Processed
  <2>2. Covered(x)
    BY <1>15, <2>1, CoveredBefore DEF ChainApprove, ChainClaim, ExecOpen
  <2> QED BY <1>15, <2>2, CoveredFrame DEF ChainApprove, ChainClaim
<1>16. CASE GasTransferredAway \/ Quiescent \/ UNCHANGED vars
  <2>1. UNCHANGED <<wal, chain, backlog, sigQ, execQ, task, execPc, execCur,
                    escalated>>
    BY <1>16 DEF GasTransferredAway, Quiescent, vars
  <2> QED BY <2>1, CoveredBefore, CoveredFrame DEF ExecOpen
<1> QED
  BY <1>1, <1>2, <1>3, <1>4, <1>5, <1>6, <1>7, <1>8, <1>9, <1>10, <1>11,
     <1>12, <1>13, <1>14, <1>15, <1>16
  DEF Next, ExecutorNext, EnvironmentNext

(* No silent loss while serving, for every number of actions, caps,       *)
(* queue capacity and restarts, with or without WAL write failures: as    *)
(* long as run_onchain_execution_loop has not ended, every unprocessed    *)
(* WAL action is in the backlog, a queue, a spawned task or the loop, or  *)
(* has been logged for manual intervention.  TypeOK /\ the property is    *)
(* the inductive invariant.                                               *)
THEOREM NoSilentDropHolds == Spec => []NoSilentDropWhileServing
<1>1. Init => NoSilentDropWhileServing
  BY DEF Init, NoSilentDropWhileServing, NoSilentDrop
<1>2. TypeOK /\ NoSilentDropWhileServing /\ [Next]_vars
        => TypeOK' /\ NoSilentDropWhileServing'
  BY TypeStep, NoSilentDropStep
<1> QED BY <1>1, <1>2, TypeInit, PTL DEF Spec
=============================================================================
