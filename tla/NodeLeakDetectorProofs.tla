----------------------- MODULE NodeLeakDetectorProofs -----------------------
(***************************************************************************)
(* Proofs about the simulator's NodeLeakDetector, for any set of threads,  *)
(* any finite set of detectors and any usize width.                        *)
(***************************************************************************)
EXTENDS NodeLeakDetector, FiniteSetTheorems, TLAPS

USE DetectorAssumption

-----------------------------------------------------------------------------
(* Wrapping arithmetic on a usize held as 0 .. UsizeModulus - 1.           *)

(* The remainder is the r of any a = q * M + r with 0 <= r < M.            *)
LEMMA ModOfQuotient ==
    ASSUME NEW M \in Nat \ {0}, NEW a \in Int, NEW q \in Int, NEW r \in 0 .. M - 1,
           a = q * M + r
    PROVE  a % M = r
BY SMT

(* fetch_add(1) on a usize.                                                 *)
LEMMA WrapUp ==
    ASSUME NEW M \in Nat \ {0}, NEW c \in 0 .. M - 1
    PROVE  (c + 1) % M = IF c = M - 1 THEN 0 ELSE c + 1
<1>1. CASE c = M - 1
  <2>1. M % M = 0
    BY SMT
  <2> QED BY <1>1, <2>1
<1>2. CASE c # M - 1
  <2>1. c + 1 \in 0 .. M - 1
    BY <1>2
  <2>2. (c + 1) % M = c + 1
    BY <2>1, SMT
  <2> QED BY <1>2, <2>2
<1> QED BY <1>1, <1>2

(* fetch_sub(1) on a usize, written as adding M - 1.                        *)
LEMMA WrapDown ==
    ASSUME NEW M \in Nat \ {0}, NEW c \in 0 .. M - 1
    PROVE  (c + M - 1) % M = IF c = 0 THEN M - 1 ELSE c - 1
<1>1. CASE c = 0
  <2>1. (M - 1) % M = M - 1
    BY SMT
  <2> QED BY <1>1, <2>1
<1>2. CASE c # 0
  <2>1. c - 1 \in 0 .. M - 1
    BY <1>2
  <2>2. (c - 1 + M) % M = c - 1
    BY <2>1, SMTT(60)
  <2> QED BY <1>2, <2>2
<1> QED BY <1>1, <1>2

(* Adding a detector that is not yet counted to a set of detectors.        *)
LEMMA CardAdd ==
    ASSUME NEW S \in SUBSET Detectors, NEW x \in Detectors, x \notin S
    PROVE  /\ Cardinality(S) \in Nat
           /\ Cardinality(S \cup {x}) = Cardinality(S) + 1
<1>1. IsFiniteSet(S)
  BY FS_Subset
<1> QED BY <1>1, FS_AddElement, FS_CardinalityType

(* A set of detectors has a natural number as its size.                    *)
LEMMA CardNat ==
    ASSUME NEW S \in SUBSET Detectors
    PROVE  Cardinality(S) \in Nat
BY FS_Subset, FS_CardinalityType

-----------------------------------------------------------------------------
(* Type correctness.                                                        *)

LEMMA TypeInit == Init => TypeOK
BY DEF Init, TypeOK, NoThread

LEMMA TypeStep == TypeOK /\ [Next]_vars => TypeOK'
<1> SUFFICES ASSUME TypeOK, [Next]_vars PROVE TypeOK'
  OBVIOUS
<1>1. ASSUME NEW d \in Detectors, NEW t \in Threads, New(d, t) PROVE TypeOK'
  <2>1. (count[t] + 1) % UsizeModulus \in 0 .. UsizeModulus - 1
    BY WrapUp DEF TypeOK
  <2> QED BY <1>1, <2>1 DEF New, TypeOK
<1>2. ASSUME NEW d \in Detectors, NEW t \in Threads, Move(d, t) PROVE TypeOK'
  BY <1>2 DEF Move, TypeOK
<1>3. ASSUME NEW d \in Detectors, DropDetector(d) PROVE TypeOK'
  <2>1. (count[owner[d]] + UsizeModulus - 1) % UsizeModulus \in 0 .. UsizeModulus - 1
    BY WrapDown DEF TypeOK
  <2> QED BY <1>3, <2>1 DEF DropDetector, TypeOK
<1>4. CASE UNCHANGED vars
  BY <1>4 DEF vars, TypeOK
<1> QED BY <1>1, <1>2, <1>3, <1>4 DEF Next, Default

(* Every new(), move and drop() keeps each thread's NODE_COUNT a usize.     *)
THEOREM TypeCorrect == Spec => []TypeOK
BY TypeInit, TypeStep, PTL DEF Spec

-----------------------------------------------------------------------------
(* The counter of a thread against its history of new() and drop() calls.  *)

(* The unwrapped difference of created and dropped detectors exceeds the   *)
(* counter by a whole number of wraps q.                                    *)
HistoryInv ==
    \A t \in Threads : \E q \in Int :
        Cardinality(CreatedOn(t)) - Cardinality(DroppedOn(t))
            = q * UsizeModulus + count[t]

IInv == TypeOK /\ HistoryInv

(* The sets of created and of dropped detectors of a thread.                *)
LEMMA HistorySets ==
    ASSUME NEW t \in Threads
    PROVE  /\ CreatedOn(t) \in SUBSET Detectors
           /\ DroppedOn(t) \in SUBSET Detectors
           /\ CreatedOn(t)' \in SUBSET Detectors
           /\ DroppedOn(t)' \in SUBSET Detectors
BY DEF CreatedOn, DroppedOn

(* new() on thread t0 adds its detector to t0's created set only.           *)
LEMMA NewHistory ==
    ASSUME TypeOK, NEW d \in Detectors, NEW t0 \in Threads, New(d, t0),
           NEW t \in Threads
    PROVE  /\ CreatedOn(t)' = IF t = t0 THEN CreatedOn(t) \cup {d} ELSE CreatedOn(t)
           /\ d \notin CreatedOn(t)
           /\ DroppedOn(t)' = DroppedOn(t)
BY DEF New, CreatedOn, DroppedOn, TypeOK

(* drop() on the holding thread adds the detector to that thread's dropped *)
(* set only.                                                                *)
LEMMA DropHistory ==
    ASSUME TypeOK, NEW d \in Detectors, DropDetector(d), NEW t \in Threads
    PROVE  /\ DroppedOn(t)' = IF t = owner[d] THEN DroppedOn(t) \cup {d} ELSE DroppedOn(t)
           /\ d \notin DroppedOn(t)
           /\ CreatedOn(t)' = CreatedOn(t)
BY DEF DropDetector, CreatedOn, DroppedOn, TypeOK

LEMMA HistoryStep == IInv /\ [Next]_vars => HistoryInv'
<1> SUFFICES ASSUME TypeOK, HistoryInv, [Next]_vars, NEW t \in Threads
             PROVE  \E q \in Int :
                        Cardinality(CreatedOn(t)') - Cardinality(DroppedOn(t)')
                            = q * UsizeModulus + count'[t]
  BY DEF IInv, HistoryInv
<1> DEFINE C == Cardinality(CreatedOn(t))
           D == Cardinality(DroppedOn(t))
           M == UsizeModulus
<1>0. PICK q \in Int : C - D = q * M + count[t]
  BY DEF HistoryInv
<1>a. C \in Nat /\ D \in Nat /\ count[t] \in 0 .. M - 1
  BY HistorySets, CardNat DEF TypeOK
<1>1. ASSUME NEW d \in Detectors, NEW t0 \in Threads, New(d, t0)
      PROVE  \E r \in Int : Cardinality(CreatedOn(t)') - Cardinality(DroppedOn(t)')
                                = r * M + count'[t]
  <2>1. CASE t = t0
    <3>1. Cardinality(CreatedOn(t)') = C + 1 /\ Cardinality(DroppedOn(t)') = D
      BY <1>1, <2>1, NewHistory, HistorySets, CardAdd
    <3>2. count'[t] = IF count[t] = M - 1 THEN 0 ELSE count[t] + 1
      BY <1>1, <2>1, <1>a, WrapUp DEF New, TypeOK
    <3>3. CASE count[t] = M - 1
      <4>1. (q + 1) * M = q * M + M
        BY <1>a, SMT
      <4>2. count'[t] = 0
        BY <3>2, <3>3
      <4>3. C + 1 - D = q * M + M
        BY <1>0, <1>a, <3>3
      <4> WITNESS q + 1 \in Int
      <4> QED BY <1>a, <3>1, <4>1, <4>2, <4>3
    <3>4. CASE count[t] # M - 1
      <4> WITNESS q \in Int
      <4> QED BY <1>0, <1>a, <3>1, <3>2, <3>4
    <3> QED BY <3>3, <3>4
  <2>2. CASE t # t0
    <3>1. CreatedOn(t)' = CreatedOn(t) /\ DroppedOn(t)' = DroppedOn(t)
      BY <1>1, <2>2, NewHistory
    <3>2. count'[t] = count[t]
      BY <1>1, <2>2 DEF New, TypeOK
    <3> QED BY <1>0, <3>1, <3>2
  <2> QED BY <2>1, <2>2
<1>2. ASSUME NEW d \in Detectors, DropDetector(d)
      PROVE  \E r \in Int : Cardinality(CreatedOn(t)') - Cardinality(DroppedOn(t)')
                                = r * M + count'[t]
  <2>1. CASE t = owner[d]
    <3>1. Cardinality(CreatedOn(t)') = C /\ Cardinality(DroppedOn(t)') = D + 1
      BY <1>2, <2>1, DropHistory, HistorySets, CardAdd
    <3>2. count'[t] = IF count[t] = 0 THEN M - 1 ELSE count[t] - 1
      BY <1>2, <2>1, <1>a, WrapDown DEF DropDetector, TypeOK
    <3>3. CASE count[t] = 0
      <4>1. (q - 1) * M = q * M - M
        BY <1>a, SMT
      <4>2. count'[t] = M - 1
        BY <3>2, <3>3
      <4>3. C - (D + 1) = q * M - M + (M - 1)
        BY <1>0, <1>a, <3>3
      <4> WITNESS q - 1 \in Int
      <4> QED BY <1>a, <3>1, <4>1, <4>2, <4>3
    <3>4. CASE count[t] # 0
      <4> WITNESS q \in Int
      <4> QED BY <1>0, <1>a, <3>1, <3>2, <3>4
    <3> QED BY <3>3, <3>4
  <2>2. CASE t # owner[d]
    <3>1. CreatedOn(t)' = CreatedOn(t) /\ DroppedOn(t)' = DroppedOn(t)
      BY <1>2, <2>2, DropHistory
    <3>2. count'[t] = count[t]
      BY <1>2, <2>2 DEF DropDetector, TypeOK
    <3> QED BY <1>0, <3>1, <3>2
  <2> QED BY <2>1, <2>2
<1>3. ASSUME NEW d \in Detectors, NEW t0 \in Threads, Move(d, t0)
      PROVE  \E r \in Int : Cardinality(CreatedOn(t)') - Cardinality(DroppedOn(t)')
                                = r * M + count'[t]
  <2>1. CreatedOn(t)' = CreatedOn(t) /\ DroppedOn(t)' = DroppedOn(t)
    BY <1>3 DEF Move, CreatedOn, DroppedOn, TypeOK
  <2> QED BY <1>0, <1>3, <2>1 DEF Move
<1>4. CASE UNCHANGED vars
  <2>1. CreatedOn(t)' = CreatedOn(t) /\ DroppedOn(t)' = DroppedOn(t)
    BY <1>4 DEF vars, CreatedOn, DroppedOn
  <2> QED BY <1>0, <1>4, <2>1 DEF vars
<1> QED BY <1>1, <1>2, <1>3, <1>4 DEF Next, Default

(* After any sequence of new(), moves and drop() calls, the NODE_COUNT of  *)
(* each thread is its own new() calls minus its own drop() calls, wrapped. *)
THEOREM CountHistoryHolds == Spec => []CountMatchesThreadHistory
<1>1. Init => IInv
  <2> SUFFICES ASSUME Init, NEW t \in Threads
               PROVE  \E q \in Int :
                          Cardinality(CreatedOn(t)) - Cardinality(DroppedOn(t))
                              = q * UsizeModulus + count[t]
    BY TypeInit DEF IInv, HistoryInv
  <2>1. CreatedOn(t) = {} /\ DroppedOn(t) = {}
    BY DEF Init, CreatedOn, DroppedOn
  <2> WITNESS 0 \in Int
  <2> QED BY <2>1, FS_EmptySet DEF Init
<1>2. IInv /\ [Next]_vars => IInv'
  BY HistoryStep, TypeStep DEF IInv
<1>3. IInv => CountMatchesThreadHistory
  <2> SUFFICES ASSUME IInv, NEW t \in Threads
               PROVE  count[t] = (Cardinality(CreatedOn(t)) - Cardinality(DroppedOn(t)))
                                     % UsizeModulus
    BY DEF CountMatchesThreadHistory
  <2>1. PICK q \in Int : Cardinality(CreatedOn(t)) - Cardinality(DroppedOn(t))
                            = q * UsizeModulus + count[t]
    BY DEF IInv, HistoryInv
  <2>2. Cardinality(CreatedOn(t)) - Cardinality(DroppedOn(t)) \in Int
    BY HistorySets, CardNat
  <2>3. count[t] \in 0 .. UsizeModulus - 1
    BY DEF IInv, TypeOK
  <2> QED BY <2>1, <2>2, <2>3, ModOfQuotient
<1> QED BY <1>1, <1>2, <1>3, PTL DEF Spec

=============================================================================
