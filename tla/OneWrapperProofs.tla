-------------------------- MODULE OneWrapperProofs --------------------------
(***************************************************************************)
(* One wrapper per action.  OneWrapperPerAction is not inductive by       *)
(* itself: the orchestrator's insert puts a fresh wrapper into the        *)
(* backlog, which is safe only because an action it has not observed yet  *)
(* is nowhere in the executor, and a restart refills the backlog from the *)
(* WAL, which is safe only because the WAL holds observed actions only.   *)
(* With those two facts every step either hands the single wrapper from   *)
(* one place to the next (Transfer), drops it or leaves it alone.         *)
(***************************************************************************)
EXTENDS NoSilentDropProofs

(* The wrapper of x is in one place at most.                              *)
Excl(x) == \A p, r \in Place : HeldAt(p, x) /\ HeldAt(r, x) => p = r

Nowhere(x) == \A p \in Place : ~HeldAt(p, x)

(* The wrapper of x is held in no more places after the step than before. *)
Shrinks(x) == \A p \in Place : HeldAt(p, x)' => HeldAt(p, x)

(* The strengthening: the WAL and the pipeline hold observed actions only. *)
WalObserved == wal \subseteq observed

UnobservedNowhere == \A x \in Actions \ observed : Nowhere(x)

OWInv == TypeOK /\ OneWrapperPerAction /\ WalObserved /\ UnobservedNowhere

-----------------------------------------------------------------------------
(* Lemmas on the places and on queues.                                    *)

(* A step that hands the wrapper of x on from place s to place d, and adds *)
(* it nowhere else, keeps it in one place.                                *)
LEMMA ExclTransfer ==
    ASSUME NEW x, NEW s \in Place, NEW d \in Place, Excl(x), HeldAt(s, x),
           ~HeldAt(s, x)',
           \A p \in Place \ {s, d} : HeldAt(p, x)' => HeldAt(p, x)
    PROVE  Excl(x)'
<1> SUFFICES ASSUME NEW p \in Place, HeldAt(p, x)' PROVE p = d
  BY DEF Excl
<1>1. p # s
  OBVIOUS
<1> QED BY <1>1 DEF Excl

LEMMA ExclShrink ==
    ASSUME NEW x, Excl(x), Shrinks(x) PROVE Excl(x)'
BY DEF Excl, Shrinks

LEMMA NowhereShrink ==
    ASSUME NEW x, Nowhere(x), Shrinks(x) PROVE Nowhere(x)'
BY DEF Nowhere, Shrinks

(* An action held somewhere has been observed.                            *)
LEMMA HeldObserved ==
    ASSUME UnobservedNowhere, NEW x \in Actions, NEW p \in Place, HeldAt(p, x)
    PROVE  x \in observed
BY DEF UnobservedNowhere, Nowhere

LEMMA UniqueEmpty == \A x : UniqueIn(<<>>, x)
BY DEF UniqueIn

(* Sending a wrapper of x keeps x unique only if x was not queued.         *)
LEMMA UniqueAppend ==
    ASSUME NEW q \in Seq(Wrapper), NEW w \in Wrapper, NEW x, UniqueIn(q, x),
           w.act = x => ~InQueue(q, x)
    PROVE  UniqueIn(Append(q, w), x)
<1> SUFFICES ASSUME NEW i \in 1..Len(q) + 1, NEW j \in 1..Len(q) + 1,
                    Append(q, w)[i].act = x, Append(q, w)[j].act = x
             PROVE  i = j
  BY DEF UniqueIn
<1>1. CASE i <= Len(q) /\ j <= Len(q)
  BY <1>1 DEF UniqueIn
<1>2. CASE i = Len(q) + 1 /\ j <= Len(q)
  BY <1>2 DEF InQueue
<1>3. CASE i <= Len(q) /\ j = Len(q) + 1
  BY <1>3 DEF InQueue
<1> QED BY <1>1, <1>2, <1>3

(* Receiving keeps every action unique, and the received one is gone.     *)
LEMMA UniqueTail ==
    ASSUME NEW q \in Seq(Wrapper), q # <<>>, NEW x, UniqueIn(q, x)
    PROVE  /\ UniqueIn(Tail(q), x)
           /\ Head(q).act = x => ~InQueue(Tail(q), x)
<1>1. UniqueIn(Tail(q), x)
  <2> SUFFICES ASSUME NEW i \in 1..Len(Tail(q)), NEW j \in 1..Len(Tail(q)),
                      Tail(q)[i].act = x, Tail(q)[j].act = x
               PROVE  i = j
    BY DEF UniqueIn
  <2>1. i + 1 \in 1..Len(q) /\ j + 1 \in 1..Len(q)
        /\ q[i + 1] = Tail(q)[i] /\ q[j + 1] = Tail(q)[j]
    OBVIOUS
  <2> QED BY <2>1 DEF UniqueIn
<1>2. ASSUME Head(q).act = x, InQueue(Tail(q), x) PROVE FALSE
  <2>1. PICK j \in 1..Len(Tail(q)) : Tail(q)[j].act = x
    BY <1>2 DEF InQueue
  <2>2. j + 1 \in 1..Len(q) /\ q[j + 1] = Tail(q)[j] /\ Head(q) = q[1]
    BY <2>1
  <2> QED BY <1>2, <2>1, <2>2 DEF UniqueIn
<1> QED BY <1>1, <1>2

-----------------------------------------------------------------------------
(* The invariant for one action x, in the state after a step.             *)
PerAction(x) ==
    /\ Excl(x) /\ UniqueIn(sigQ, x) /\ UniqueIn(execQ, x)
    /\ x \notin observed => Nowhere(x)

(* What OWInv says about one action before a step.                         *)
LEMMA Before ==
    ASSUME OWInv, NEW x \in Actions
    PROVE  PerAction(x)
BY DEF OWInv, OneWrapperPerAction, PerAction, Excl, UnobservedNowhere

(* The five places, one by one.                                            *)
LEMMA HeldAtPlaces ==
    ASSUME NEW x
    PROVE  /\ HeldAt("backlog", x) <=> x \in backlog
           /\ HeldAt("sigQ", x) <=> InQueue(sigQ, x)
           /\ HeldAt("execQ", x) <=> InQueue(execQ, x)
           /\ HeldAt("task", x) <=> task[x].pc # "idle"
           /\ HeldAt("exec", x) <=> execPc \in {"check", "gas", "submit"} /\ execCur.act = x
BY DEF HeldAt

LEMMA HeldAtPlacesNext ==
    ASSUME NEW x
    PROVE  /\ HeldAt("backlog", x)' <=> x \in backlog'
           /\ HeldAt("sigQ", x)' <=> InQueue(sigQ', x)
           /\ HeldAt("execQ", x)' <=> InQueue(execQ', x)
           /\ HeldAt("task", x)' <=> task'[x].pc # "idle"
           /\ HeldAt("exec", x)' <=> execPc' \in {"check", "gas", "submit"} /\ execCur'.act = x
BY DEF HeldAt, InQueue

(* A step that holds the wrapper of x in no place it did not hold it       *)
(* before: a wrapper is dropped, a task or the loop moves on within its    *)
(* own place, or nothing in the pipeline changes.                          *)
LEMMA ShrinksByPlace ==
    ASSUME NEW x,
           x \in backlog' => x \in backlog,
           InQueue(sigQ, x)' => InQueue(sigQ, x),
           InQueue(execQ, x)' => InQueue(execQ, x),
           task'[x].pc # "idle" => task[x].pc # "idle",
           execPc' \in {"check", "gas", "submit"} /\ execCur'.act = x
               => execPc \in {"check", "gas", "submit"} /\ execCur.act = x
    PROVE  Shrinks(x)
BY DEF Shrinks, Place, HeldAt

LEMMA PerActionShrink ==
    ASSUME NEW x, PerAction(x), Shrinks(x), observed' = observed,
           UniqueIn(sigQ, x)', UniqueIn(execQ, x)'
    PROVE  PerAction(x)'
BY ExclShrink, NowhereShrink DEF PerAction

(* A step that leaves the pipeline alone keeps PerAction for every x.      *)
LEMMA PipelineFrame ==
    ASSUME NEW x, PerAction(x), observed \subseteq observed',
           UNCHANGED <<backlog, sigQ, execQ, task, execPc, execCur>>
    PROVE  PerAction(x)'
<1>1. Shrinks(x)
  BY ShrinksByPlace DEF InQueue
<1>2. \A p \in Place : HeldAt(p, x)' <=> HeldAt(p, x)
  BY DEF Place, HeldAt, InQueue
<1> QED BY <1>1, <1>2, ExclShrink DEF PerAction, UniqueIn, Nowhere

(* A step that hands the wrapper of an observed x from place s to place d *)
(* keeps PerAction for x.                                                  *)
LEMMA PerActionTransfer ==
    ASSUME NEW x, PerAction(x), NEW s \in Place, NEW d \in Place,
           HeldAt(s, x), ~HeldAt(s, x)',
           \A p \in Place \ {s, d} : HeldAt(p, x)' => HeldAt(p, x),
           x \in observed',
           UniqueIn(sigQ, x)', UniqueIn(execQ, x)'
    PROVE  PerAction(x)'
BY ExclTransfer DEF PerAction

(* While x is held in place s, it is held nowhere else.                    *)
LEMMA OnlyAt ==
    ASSUME NEW x, PerAction(x), NEW s \in Place, HeldAt(s, x),
           NEW p \in Place, p # s
    PROVE  ~HeldAt(p, x)
BY DEF PerAction, Excl

-----------------------------------------------------------------------------
(* The orchestrator.                                                       *)

LEMMA InsertStep ==
    ASSUME OWInv, NEW a \in Actions, InsertPendingAction(a), NEW x \in Actions
    PROVE  PerAction(x)'
<1>1. PerAction(x)
  BY Before
<1>2. CASE x = a
  <2>1. Nowhere(a)
    BY <1>2, <1>1 DEF InsertPendingAction, PerAction
  <2>2. \A p \in Place \ {"backlog"} : ~HeldAt(p, a)'
    BY <2>1 DEF InsertPendingAction, Nowhere, Place, HeldAt, InQueue
  <2>3. Excl(a)'
    BY <2>2 DEF Excl
  <2>4. UniqueIn(sigQ, a)' /\ UniqueIn(execQ, a)'
    BY <1>1, <1>2 DEF InsertPendingAction, PerAction, UniqueIn
  <2> QED BY <1>2, <2>3, <2>4 DEF PerAction, InsertPendingAction
<1>3. CASE x # a
  <2>1. Shrinks(x)
    BY <1>3, ShrinksByPlace DEF InsertPendingAction, InQueue
  <2>2. x \notin observed' => Nowhere(x)
    BY <1>1, <1>3 DEF InsertPendingAction, PerAction
  <2> QED BY <1>1, <2>1, <2>2, ExclShrink, NowhereShrink
          DEF PerAction, InsertPendingAction, UniqueIn
<1> QED BY <1>2, <1>3

LEMMA SubmitStep ==
    ASSUME OWInv, NEW a \in Actions, SubmitToExecutor(a), NEW x \in Actions
    PROVE  PerAction(x)'
<1> DEFINE w == [act |-> a, att |-> 0]
<1>0. sigQ \in Seq(Wrapper) /\ w \in Wrapper /\ sigQ' = Append(sigQ, w)
  BY DEF OWInv, TypeOK, Wrapper, SubmitToExecutor
<1>1. PerAction(x)
  BY Before
<1>2. CASE x = a
  <2>1. HeldAt("backlog", a)
    BY <1>2, HeldAtPlaces DEF SubmitToExecutor
  <2>2. ~InQueue(sigQ, a)
    BY <1>1, <1>2, <2>1, OnlyAt, HeldAtPlaces DEF Place
  <2>3. UniqueIn(sigQ, a)'
    BY <1>0, <1>1, <1>2, <2>2, UniqueAppend DEF PerAction
  <2>4. a \in observed'
    BY <2>1, HeldObserved DEF OWInv, SubmitToExecutor, Place
  <2>5. ~HeldAt("backlog", a)'
    BY DEF SubmitToExecutor, HeldAt
  <2>6. \A p \in Place \ {"backlog", "sigQ"} : HeldAt(p, a)' => HeldAt(p, a)
    BY DEF SubmitToExecutor, Place, HeldAt, InQueue
  <2>7. UniqueIn(execQ, a)'
    BY <1>1, <1>2 DEF SubmitToExecutor, PerAction, UniqueIn
  <2> QED BY <1>1, <1>2, <2>1, <2>3, <2>4, <2>5, <2>6, <2>7, PerActionTransfer
          DEF Place
<1>3. CASE x # a
  <2>1. InQueue(sigQ, x)' => InQueue(sigQ, x)
    BY <1>0, <1>3, InQueueAppend
  <2>2. Shrinks(x)
    BY <1>3, <2>1, ShrinksByPlace DEF SubmitToExecutor, InQueue
  <2>3. UniqueIn(sigQ, x)'
    BY <1>0, <1>1, <1>3, UniqueAppend DEF PerAction
  <2>4. UniqueIn(execQ, x)'
    BY <1>1 DEF SubmitToExecutor, PerAction, UniqueIn
  <2> QED BY <1>1, <2>2, <2>3, <2>4, PerActionShrink DEF SubmitToExecutor
<1> QED BY <1>2, <1>3

(* A restart leaves only the backlog, filled from the WAL.                 *)
LEMMA CrashStep ==
    ASSUME OWInv, CrashRestart, NEW x \in Actions
    PROVE  PerAction(x)'
<1>0. task'[x].pc = "idle" /\ sigQ' = <<>> /\ execQ' = <<>> /\ execPc' = "recv"
  BY DEF CrashRestart, Idle
<1>a. ~InQueue(<<>>, x)
  BY DEF InQueue
<1>1. \A p \in Place \ {"backlog"} : ~HeldAt(p, x)'
  BY <1>0, <1>a, HeldAtPlacesNext DEF Place
<1>2. Excl(x)'
  BY <1>1 DEF Excl
<1>3. x \notin observed' => Nowhere(x)'
  BY <1>1 DEF CrashRestart, OWInv, WalObserved, Nowhere, HeldAt
<1> QED BY <1>2, <1>3, UniqueEmpty DEF PerAction, CrashRestart

-----------------------------------------------------------------------------
(* Steps of a task that stay within the task or end it.                    *)

(* A step that only moves tasks on or ends them keeps PerAction.           *)
LEMMA TaskLocal ==
    ASSUME OWInv, NEW x \in Actions,
           task'[x].pc # "idle" => task[x].pc # "idle",
           UNCHANGED <<backlog, sigQ, execQ, execPc, execCur, observed>>
    PROVE  PerAction(x)'
<1>1. PerAction(x)
  BY Before
<1>2. Shrinks(x)
  BY ShrinksByPlace DEF InQueue
<1> QED BY <1>1, <1>2, PerActionShrink DEF PerAction, UniqueIn

(* Rewriting the task record of a busy action leaves the others alone.     *)
LEMMA TaskBusyUpdate ==
    ASSUME OWInv, NEW a \in Actions, task[a].pc # "idle", NEW x \in Actions,
           \/ task' = [task EXCEPT ![a] = Idle]
           \/ \E p \in TaskPc : task' = [task EXCEPT ![a].pc = p]
    PROVE  task'[x].pc # "idle" => task[x].pc # "idle"
BY DEF OWInv, TypeOK, Idle

LEMMA SigCheckStep ==
    ASSUME OWInv, NEW a \in Actions, SigCheck(a), NEW x \in Actions
    PROVE  PerAction(x)'
<1>1. task'[x].pc # "idle" => task[x].pc # "idle"
  BY TaskBusyUpdate DEF SigCheck, TaskPc
<1> QED BY <1>1, TaskLocal DEF SigCheck

LEMMA AggregateStep ==
    ASSUME OWInv, NEW a \in Actions, AggregateOk(a) \/ AggregateErr(a),
           NEW x \in Actions
    PROVE  PerAction(x)'
<1>1. task'[x].pc # "idle" => task[x].pc # "idle"
  BY TaskBusyUpdate DEF AggregateOk, AggregateErr, TaskPc
<1> QED BY <1>1, TaskLocal DEF AggregateOk, AggregateErr

LEMMA ExecRetryStep ==
    ASSUME OWInv, NEW a \in Actions, ExecRetry(a), NEW x \in Actions
    PROVE  PerAction(x)'
<1>1. task'[x].pc # "idle" => task[x].pc # "idle"
  BY TaskBusyUpdate DEF ExecRetry, TaskPc
<1> QED BY <1>1, TaskLocal DEF ExecRetry

-----------------------------------------------------------------------------
(* Hand-overs between a channel and a task.                                *)

LEMMA SigningLoopRecvStep ==
    ASSUME OWInv, SigningLoopRecv, NEW x \in Actions
    PROVE  PerAction(x)'
<1> DEFINE w == Head(sigQ)
           a == w.act
<1>a. sigQ \in Seq(Wrapper) /\ sigQ # <<>>
      /\ task \in [Actions -> [pc : TaskPc, att : Nat]]
  BY DEF OWInv, TypeOK, SigningLoopRecv
<1>b. w \in Wrapper
  BY <1>a
<1>0. /\ sigQ \in Seq(Wrapper) /\ sigQ # <<>> /\ a \in Actions
      /\ sigQ' = Tail(sigQ)
      /\ task' = [task EXCEPT ![a] = [pc |-> "sigCheck", att |-> w.att]]
      /\ task \in [Actions -> [pc : TaskPc, att : Nat]]
  BY <1>a, <1>b DEF SigningLoopRecv, Wrapper
<1>1. PerAction(x)
  BY Before
<1>2. CASE x = a
  <2>1. HeldAt("sigQ", x)
    <3>1. 1 \in 1..Len(sigQ) /\ sigQ[1].act = x
      BY <1>0, <1>2
    <3> QED BY <3>1, HeldAtPlaces DEF InQueue
  <2>2. ~HeldAt("sigQ", x)' /\ UniqueIn(sigQ, x)'
    BY <1>0, <1>1, <1>2, UniqueTail, HeldAtPlacesNext DEF PerAction
  <2>3. x \in observed'
    BY <2>1, HeldObserved DEF OWInv, SigningLoopRecv, Place
  <2>4. \A p \in Place \ {"sigQ", "task"} : HeldAt(p, x)' => HeldAt(p, x)
    BY DEF SigningLoopRecv, Place, HeldAt, InQueue
  <2>5. UniqueIn(execQ, x)'
    BY <1>1 DEF SigningLoopRecv, PerAction, UniqueIn
  <2> QED BY <1>1, <2>1, <2>2, <2>3, <2>4, <2>5, PerActionTransfer
          DEF Place
<1>3. CASE x # a
  <2>1. InQueue(sigQ, x)' => InQueue(sigQ, x)
    BY <1>0, <1>3, InQueueTail
  <2>2. task'[x] = task[x]
    BY <1>0, <1>3
  <2>3. Shrinks(x)
    BY <2>1, <2>2, ShrinksByPlace DEF SigningLoopRecv, InQueue
  <2>4. UniqueIn(sigQ, x)'
    BY <1>0, <1>1, UniqueTail DEF PerAction
  <2>5. UniqueIn(execQ, x)'
    BY <1>1 DEF SigningLoopRecv, PerAction, UniqueIn
  <2> QED BY <1>1, <2>3, <2>4, <2>5, PerActionShrink DEF SigningLoopRecv
<1> QED BY <1>2, <1>3

(* A task ends by sending the wrapper of its action to a channel q that    *)
(* did not hold it: q is sigQ or execQ, and the other channel is left      *)
(* alone.                                                                  *)
LEMMA TaskToQueue ==
    ASSUME OWInv, NEW a \in Actions, task[a].pc # "idle", NEW x \in Actions,
           NEW n \in Nat, NEW qp \in {"sigQ", "execQ"},
           task' = [task EXCEPT ![a] = Idle],
           UNCHANGED <<backlog, execPc, execCur, observed>>,
           qp = "sigQ" => /\ sigQ' = Append(sigQ, [act |-> a, att |-> n])
                          /\ UNCHANGED execQ,
           qp = "execQ" => /\ execQ' = Append(execQ, [act |-> a, att |-> n])
                           /\ UNCHANGED sigQ
    PROVE  PerAction(x)'
<1> DEFINE w == [act |-> a, att |-> n]
<1>0. w \in Wrapper /\ sigQ \in Seq(Wrapper) /\ execQ \in Seq(Wrapper)
      /\ task \in [Actions -> [pc : TaskPc, att : Nat]]
  BY DEF OWInv, TypeOK, Wrapper
<1>1. PerAction(x)
  BY Before
<1>2. CASE x = a
  <2>1. HeldAt("task", a)
    BY HeldAtPlaces
  <2>2. ~InQueue(sigQ, a) /\ ~InQueue(execQ, a)
    BY <1>1, <1>2, <2>1, OnlyAt, HeldAtPlaces DEF Place
  <2>3. UniqueIn(sigQ, a)' /\ UniqueIn(execQ, a)'
    BY <1>0, <1>1, <1>2, <2>2, UniqueAppend DEF PerAction
  <2>4. a \in observed'
    BY <2>1, HeldObserved DEF OWInv, Place
  <2>5. ~HeldAt("task", a)'
    BY <1>0, HeldAtPlacesNext DEF Idle
  <2>6. \A p \in Place \ {"task", qp} : HeldAt(p, a)' => HeldAt(p, a)
    BY DEF Place, HeldAt, InQueue
  <2> QED BY <1>1, <1>2, <2>1, <2>3, <2>4, <2>5, <2>6, PerActionTransfer
          DEF Place
<1>3. CASE x # a
  <2>1. InQueue(sigQ, x)' => InQueue(sigQ, x)
    <3>1. CASE qp = "sigQ"
      <4>1. sigQ' = Append(sigQ, w)
        BY <3>1
      <4>2. InQueue(Append(sigQ, w), x) <=> InQueue(sigQ, x) \/ w.act = x
        BY <1>0, InQueueAppend
      <4> QED BY <1>3, <4>1, <4>2
    <3>2. CASE qp = "execQ"
      BY <3>2 DEF InQueue
    <3> QED BY <3>1, <3>2
  <2>2. InQueue(execQ, x)' => InQueue(execQ, x)
    <3>1. CASE qp = "execQ"
      <4>1. execQ' = Append(execQ, w)
        BY <3>1
      <4>2. InQueue(Append(execQ, w), x) <=> InQueue(execQ, x) \/ w.act = x
        BY <1>0, InQueueAppend
      <4> QED BY <1>3, <4>1, <4>2
    <3>2. CASE qp = "sigQ"
      BY <3>2 DEF InQueue
    <3> QED BY <3>1, <3>2
  <2>3. task'[x] = task[x]
    BY <1>0, <1>3
  <2>4. Shrinks(x)
    BY <2>1, <2>2, <2>3, ShrinksByPlace
  <2>5. UniqueIn(sigQ, x)' /\ UniqueIn(execQ, x)'
    <3>0. UniqueIn(sigQ, x) /\ UniqueIn(execQ, x) /\ w.act # x
      BY <1>1, <1>3 DEF PerAction
    <3>1. CASE qp = "sigQ"
      <4>1. UniqueIn(Append(sigQ, w), x)
        BY <1>0, <3>0, UniqueAppend
      <4> QED BY <3>0, <3>1, <4>1 DEF UniqueIn
    <3>2. CASE qp = "execQ"
      <4>1. UniqueIn(Append(execQ, w), x)
        BY <1>0, <3>0, UniqueAppend
      <4> QED BY <3>0, <3>2, <4>1 DEF UniqueIn
    <3> QED BY <3>1, <3>2
  <2> QED BY <1>1, <2>4, <2>5, PerActionShrink
<1> QED BY <1>2, <1>3

LEMMA SendSigningRetryStep ==
    ASSUME OWInv, NEW a \in Actions, SendSigningRetry(a), NEW x \in Actions
    PROVE  PerAction(x)'
<1>1. task[a].att + 1 \in Nat
  BY DEF OWInv, TypeOK
<1>2. /\ task[a].pc # "idle" /\ task' = [task EXCEPT ![a] = Idle]
      /\ UNCHANGED <<backlog, execPc, execCur, observed, execQ>>
      /\ sigQ' = Append(sigQ, [act |-> a, att |-> task[a].att + 1])
  BY DEF SendSigningRetry
<1> QED BY <1>1, <1>2, TaskToQueue

(* Sending a certificate or an execution retry: to the open queue, or the  *)
(* expect panics and the task ends.                                        *)
LEMMA SendExecStep ==
    ASSUME OWInv, NEW a \in Actions, SendCertificate(a) \/ SendExecutionRetry(a),
           NEW x \in Actions
    PROVE  PerAction(x)'
<1>1. task[a].att \in Nat /\ task[a].att + 1 \in Nat
  BY DEF OWInv, TypeOK
<1>2. task[a].pc # "idle"
  BY DEF SendCertificate, SendExecutionRetry
<1>3. CASE UNCHANGED execQ
  <2>1. task'[x].pc # "idle" => task[x].pc # "idle"
    BY <1>2, TaskBusyUpdate DEF SendCertificate, SendExecutionRetry
  <2> QED BY <1>3, <2>1, TaskLocal DEF SendCertificate, SendExecutionRetry
<1>4. CASE execQ' # execQ
  <2>1. CASE SendCertificate(a)
    <3>1. execQ' = Append(execQ, [act |-> a, att |-> 0])
      BY <1>4, <2>1 DEF SendCertificate
    <3> QED BY <1>1, <1>2, <2>1, <3>1, TaskToQueue DEF SendCertificate
  <2>2. CASE SendExecutionRetry(a)
    <3>1. execQ' = Append(execQ, [act |-> a, att |-> task[a].att + 1])
      BY <1>4, <2>2 DEF SendExecutionRetry
    <3> QED BY <1>1, <1>2, <2>2, <3>1, TaskToQueue DEF SendExecutionRetry
  <2> QED BY <2>1, <2>2
<1> QED BY <1>3, <1>4

-----------------------------------------------------------------------------
(* The execution loop.                                                     *)

(* A step of the loop that keeps or drops its wrapper, and may drop the    *)
(* whole execution queue.                                                  *)
LEMMA ExecLocal ==
    ASSUME OWInv, NEW x \in Actions,
           UNCHANGED <<backlog, sigQ, task, execCur, observed>>,
           execQ' = execQ \/ execQ' = <<>>,
           execPc' \in {"check", "gas", "submit"} => execPc \in {"check", "gas", "submit"}
    PROVE  PerAction(x)'
<1>1. PerAction(x)
  BY Before
<1>2. InQueue(execQ, x)' => InQueue(execQ, x)
  BY DEF InQueue
<1>3. Shrinks(x)
  BY <1>2, ShrinksByPlace DEF InQueue
<1>4. UniqueIn(sigQ, x)' /\ UniqueIn(execQ, x)'
  BY <1>1, UniqueEmpty DEF PerAction, UniqueIn
<1> QED BY <1>1, <1>3, <1>4, PerActionShrink

LEMMA ExecLocalStep ==
    ASSUME OWInv, ExecCheck \/ ExecGasAndBuild \/ ExecSubmitSuccess \/ ExecSubmitFailure,
           NEW x \in Actions
    PROVE  PerAction(x)'
BY ExecLocal DEF ExecCheck, ExecGasAndBuild, ExecSubmitSuccess, ExecSubmitFailure,
                 ExecLoopEnds

LEMMA ExecRecvStep ==
    ASSUME OWInv, ExecRecv, NEW x \in Actions
    PROVE  PerAction(x)'
<1>a. execQ \in Seq(Wrapper) /\ execQ # <<>>
  BY DEF OWInv, TypeOK, ExecRecv
<1>0. execQ' = Tail(execQ) /\ execCur' = Head(execQ) /\ execPc' = "check"
      /\ Head(execQ) \in Wrapper /\ execPc = "recv"
  BY <1>a DEF ExecRecv
<1>1. PerAction(x)
  BY Before
<1>2. CASE Head(execQ).act = x
  <2>1. HeldAt("execQ", x)
    <3>1. 1 \in 1..Len(execQ) /\ execQ[1].act = x
      BY <1>a, <1>2
    <3> QED BY <3>1, HeldAtPlaces DEF InQueue
  <2>2. ~HeldAt("execQ", x)' /\ UniqueIn(execQ, x)'
    BY <1>0, <1>a, <1>1, <1>2, UniqueTail, HeldAtPlacesNext DEF PerAction
  <2>3. x \in observed'
    BY <2>1, HeldObserved DEF OWInv, ExecRecv, Place
  <2>4. \A p \in Place \ {"execQ", "exec"} : HeldAt(p, x)' => HeldAt(p, x)
    BY DEF ExecRecv, Place, HeldAt, InQueue
  <2>5. UniqueIn(sigQ, x)'
    BY <1>1 DEF ExecRecv, PerAction, UniqueIn
  <2> QED BY <1>1, <2>1, <2>2, <2>3, <2>4, <2>5, PerActionTransfer
          DEF Place
<1>3. CASE Head(execQ).act # x
  <2>1. InQueue(execQ, x)' => InQueue(execQ, x)
    BY <1>0, <1>a, <1>3, InQueueTail
  <2>2. ~(execPc' \in {"check", "gas", "submit"} /\ execCur'.act = x)
    BY <1>0, <1>3
  <2>3. Shrinks(x)
    BY <2>1, <2>2, ShrinksByPlace DEF ExecRecv, InQueue
  <2>4. UniqueIn(execQ, x)'
    BY <1>0, <1>a, <1>1, UniqueTail DEF PerAction
  <2>5. UniqueIn(sigQ, x)'
    BY <1>1 DEF ExecRecv, PerAction, UniqueIn
  <2> QED BY <1>1, <2>3, <2>4, <2>5, PerActionShrink DEF ExecRecv
<1> QED BY <1>2, <1>3

(* A submission error hands the loop's wrapper to the spawned retry task. *)
LEMMA ExecSubmitErrStep ==
    ASSUME OWInv, ExecSubmitErr, NEW x \in Actions
    PROVE  PerAction(x)'
<1>a. execCur \in Wrapper /\ task \in [Actions -> [pc : TaskPc, att : Nat]]
  BY DEF OWInv, TypeOK
<1>0. /\ execCur.act \in Actions /\ execPc = "submit" /\ execPc' = "recv"
      /\ task' = [task EXCEPT ![execCur.act] = [pc |-> "execRetry", att |-> execCur.att]]
  BY <1>a DEF ExecSubmitErr, Wrapper
<1>1. PerAction(x)
  BY Before
<1>2. CASE execCur.act = x
  <2>1. HeldAt("exec", x)
    BY <1>0, <1>2, HeldAtPlaces
  <2>2. ~HeldAt("exec", x)'
    BY <1>0, HeldAtPlacesNext
  <2>3. x \in observed'
    BY <2>1, HeldObserved DEF OWInv, ExecSubmitErr, Place
  <2>4. \A p \in Place \ {"exec", "task"} : HeldAt(p, x)' => HeldAt(p, x)
    BY DEF ExecSubmitErr, Place, HeldAt, InQueue
  <2>5. UniqueIn(sigQ, x)' /\ UniqueIn(execQ, x)'
    BY <1>1 DEF ExecSubmitErr, PerAction, UniqueIn
  <2> QED BY <1>1, <2>1, <2>2, <2>3, <2>4, <2>5, PerActionTransfer
          DEF Place
<1>3. CASE execCur.act # x
  <2>1. task'[x] = task[x]
    BY <1>a, <1>0, <1>3
  <2>2. Shrinks(x)
    BY <1>0, <2>1, ShrinksByPlace DEF ExecSubmitErr, InQueue
  <2>3. UniqueIn(sigQ, x)' /\ UniqueIn(execQ, x)'
    BY <1>1 DEF ExecSubmitErr, PerAction, UniqueIn
  <2> QED BY <1>1, <2>2, <2>3, PerActionShrink DEF ExecSubmitErr
<1> QED BY <1>2, <1>3

-----------------------------------------------------------------------------
(* The environment's steps that leave the pipeline alone.                 *)

LEMMA EnvFrameStep ==
    ASSUME OWInv, NEW x \in Actions,
           \/ \E a \in Actions : ChainApprove(a) \/ ChainClaim(a)
           \/ GasTransferredAway \/ Quiescent \/ UNCHANGED vars
    PROVE  PerAction(x)'
<1>1. PerAction(x)
  BY Before
<1> QED BY <1>1, PipelineFrame
        DEF ChainApprove, ChainClaim, GasTransferredAway, Quiescent, vars

-----------------------------------------------------------------------------
(* The WAL holds observed actions only: an insert adds its action to both, *)
(* every other step keeps the observed set and only removes from the WAL.  *)
WalShrinks == wal' \subseteq wal /\ observed' = observed

LEMMA WalObservedStep ==
    ASSUME OWInv, [Next]_vars
    PROVE  WalObserved'
<1>1. ASSUME NEW a \in Actions, InsertPendingAction(a)
      PROVE  WalObserved'
  BY <1>1 DEF InsertPendingAction, OWInv, WalObserved
<1>2. ASSUME NEW a \in Actions,
             \/ SigCheck(a) \/ AggregateOk(a) \/ AggregateErr(a)
             \/ SendSigningRetry(a) \/ SendCertificate(a)
             \/ ExecRetry(a) \/ SendExecutionRetry(a)
             \/ SubmitToExecutor(a) \/ ChainApprove(a) \/ ChainClaim(a)
      PROVE  WalShrinks
  BY <1>2 DEF WalShrinks, SigCheck, AggregateOk, AggregateErr, SendSigningRetry,
              SendCertificate, ExecRetry, SendExecutionRetry, SubmitToExecutor,
              ChainApprove, ChainClaim, Remove, WalWritePanics
<1>3. ASSUME \/ SigningLoopRecv \/ ExecRecv \/ ExecCheck \/ ExecGasAndBuild
             \/ ExecSubmitErr \/ ExecSubmitSuccess \/ ExecSubmitFailure
             \/ GasTransferredAway \/ CrashRestart \/ Quiescent \/ UNCHANGED vars
      PROVE  WalShrinks
  BY <1>3 DEF WalShrinks, SigningLoopRecv, ExecRecv, ExecCheck, ExecGasAndBuild,
              ExecSubmitErr, ExecSubmitSuccess, ExecSubmitFailure,
              GasTransferredAway, CrashRestart, Quiescent, vars,
              Remove, WalWritePanics, ExecLoopEnds
<1>4. WalShrinks => WalObserved'
  BY DEF WalShrinks, OWInv, WalObserved
<1> QED BY <1>1, <1>2, <1>3, <1>4 DEF Next, ExecutorNext, EnvironmentNext

-----------------------------------------------------------------------------
(* Every step keeps PerAction for every action.                            *)

LEMMA PerActionStep ==
    ASSUME OWInv, [Next]_vars, NEW x \in Actions
    PROVE  PerAction(x)'
<1>1. ASSUME NEW a \in Actions, InsertPendingAction(a) PROVE PerAction(x)'
  BY <1>1, InsertStep
<1>2. ASSUME NEW a \in Actions, SubmitToExecutor(a) PROVE PerAction(x)'
  BY <1>2, SubmitStep
<1>3. ASSUME NEW a \in Actions, SigCheck(a) PROVE PerAction(x)'
  BY <1>3, SigCheckStep
<1>4. ASSUME NEW a \in Actions, AggregateOk(a) \/ AggregateErr(a) PROVE PerAction(x)'
  BY <1>4, AggregateStep
<1>5. ASSUME NEW a \in Actions, ExecRetry(a) PROVE PerAction(x)'
  BY <1>5, ExecRetryStep
<1>6. ASSUME NEW a \in Actions, SendSigningRetry(a) PROVE PerAction(x)'
  BY <1>6, SendSigningRetryStep
<1>7. ASSUME NEW a \in Actions, SendCertificate(a) \/ SendExecutionRetry(a)
      PROVE PerAction(x)'
  BY <1>7, SendExecStep
<1>8. CASE CrashRestart
  BY <1>8, CrashStep
<1>9. CASE SigningLoopRecv
  BY <1>9, SigningLoopRecvStep
<1>10. CASE ExecRecv
  BY <1>10, ExecRecvStep
<1>11. CASE ExecSubmitErr
  BY <1>11, ExecSubmitErrStep
<1>12. CASE ExecCheck \/ ExecGasAndBuild \/ ExecSubmitSuccess \/ ExecSubmitFailure
  BY <1>12, ExecLocalStep
<1>13. CASE \/ \E a \in Actions : ChainApprove(a) \/ ChainClaim(a)
            \/ GasTransferredAway \/ Quiescent \/ UNCHANGED vars
  BY <1>13, EnvFrameStep
<1> QED BY <1>1, <1>2, <1>3, <1>4, <1>5, <1>6, <1>7, <1>8, <1>9, <1>10,
           <1>11, <1>12, <1>13 DEF Next, ExecutorNext, EnvironmentNext

LEMMA OWStep == OWInv /\ [Next]_vars => OWInv'
<1> SUFFICES ASSUME OWInv, [Next]_vars PROVE OWInv'
  OBVIOUS
<1>1. TypeOK'
  BY TypeStep DEF OWInv
<1>2. \A x \in Actions : PerAction(x)'
  BY PerActionStep
<1>3. WalObserved'
  BY WalObservedStep
<1> QED BY <1>1, <1>2, <1>3
        DEF OWInv, OneWrapperPerAction, PerAction, Excl, UnobservedNowhere

LEMMA OWInit == Init => OWInv
<1> SUFFICES ASSUME Init PROVE OWInv
  OBVIOUS
<1>1. \A x \in Actions : Nowhere(x)
  <2> TAKE x \in Actions
  <2>1. task[x].pc = "idle"
    BY DEF Init, Idle
  <2>2. ~InQueue(<<>>, x)
    BY DEF InQueue
  <2> QED BY <2>1, <2>2, HeldAtPlaces DEF Init, Nowhere, Place
<1>2. \A x \in Actions : UniqueIn(sigQ, x) /\ UniqueIn(execQ, x)
  BY UniqueEmpty DEF Init
<1> QED BY <1>1, <1>2, TypeInit
        DEF OWInv, OneWrapperPerAction, Nowhere, WalObserved, UnobservedNowhere, Init

(* Every action has at most one wrapper in the executor (in the backlog,   *)
(* a channel, a spawned signing or execution-retry task, or the execution *)
(* loop), and at most one entry in each channel, across every interleaving *)
(* of the loops, the tasks, the orchestrator's submissions and restarts:  *)
(* the per-action task slot of the model, and the code's never spawning a *)
(* second task for an action that already has one, rest on it.            *)
THEOREM OneWrapperHolds == Spec => []OneWrapperPerAction
<1>1. OWInv => OneWrapperPerAction
  BY DEF OWInv
<1> QED BY <1>1, OWInit, OWStep, PTL DEF Spec

=============================================================================
