---------------------------- MODULE LedgerProofs ----------------------------
(***************************************************************************)
(* Proofs about the two tables whose transactions lock one row before they *)
(* write: the run of a set of jobs (RunClosure) and the billing cycle of a *)
(* proxy provider (ProxyBudget).  The two share nothing but that idea; the *)
(* names of ProxyBudget's specification begin with Budget.                 *)
(***************************************************************************)
EXTENDS RunClosure, ProxyBudget, FiniteSetTheorems, TLAPS

-----------------------------------------------------------------------------
(* RunClosure: a run of any set of jobs. *)

\* _close_run_if_done stores one of the four closing statuses, whatever the
\* jobs' states are.
LEMMA StatusOfType == ASSUME NEW snapshot PROVE StatusOf(snapshot) \in Closed
  BY DEF StatusOf, Closed

\* A statement of j's transaction reads the committed rows and its own outcome.
LEMMA SeenFacts ==
  ASSUME TypeOK, NEW j \in Jobs, txn[j] # NoTxn
  PROVE  /\ Seen(j) \in [Jobs -> Active \union TERMINAL]
         /\ Seen(j)[j] = txn[j].outcome
         /\ \A i \in Jobs \ {j} : Seen(j)[i] = state[i]
  BY DEF Seen, TypeOK, NoTxn, Phases

\* The initial state: nothing is terminal, no transaction is open.
LEMMA InitIInv == Init => IInv
  <1> SUFFICES ASSUME Init PROVE IInv
    OBVIOUS
  <1> USE DEF Init, Active, TERMINAL, NoTxn, NoCancel, NoSnapshot, OpenRun
  <1>1. TypeOK
    BY MaxRetriesIsNat DEF TypeOK, Phases, Closed, Gaps
  <1>2. Locking /\ OpenIsActive /\ LeavesToSomeone
    BY NoOneIsNoJob DEF Locking, OpenIsActive, LeavesToSomeone
  <1>3. gap = {} => Recorded
    BY SomeJob DEF Recorded, Quiet, AllDone
  <1> QED BY <1>1, <1>2, <1>3 DEF IInv

\* Every step keeps the variables in their types.
LEMMA TypeStep == TypeOK /\ [Next]_vars => TypeOK'
  <1> SUFFICES ASSUME TypeOK, [Next]_vars PROVE TypeOK'
    OBVIOUS
  <1> USE DEF TypeOK, Active, TERMINAL, Phases, Closed, Gaps
  <1>1. CASE UNCHANGED vars
    BY <1>1 DEF vars
  <1>2. CASE CancelRun
    BY <1>2 DEF CancelRun
  <1>3. CASE CancelTally
    BY <1>3 DEF CancelTally, NoCancel, NoSnapshot
  <1>4. CASE CancelStore
    BY <1>4, StatusOfType DEF CancelStore, NoCancel, NoSnapshot, ClosedRun
  <1>5. ASSUME NEW j \in Jobs PROVE
          /\ StartJob(j) \/ Requeue(j) \/ ReserveExhausted(j) => TypeOK'
          /\ RetryJob(j) => TypeOK'
          /\ \A outcome \in TERMINAL : EndJob(j, outcome) => TypeOK'
          /\ LockRun(j) \/ CountSome(j) \/ CountNone(j) => TypeOK'
          /\ Abort(j) => TypeOK'
    <2>1. StartJob(j) \/ Requeue(j) \/ ReserveExhausted(j) => TypeOK'
      <3>1. StartJob(j) => TypeOK'
        BY DEF StartJob
      <3>2. Requeue(j) => TypeOK'
        BY DEF Requeue
      <3>3. ReserveExhausted(j) => TypeOK'
        BY DEF ReserveExhausted
      <3> QED BY <3>1, <3>2, <3>3
    <2>2. RetryJob(j) => TypeOK'
      BY MaxRetriesIsNat DEF RetryJob
    <2>3. \A outcome \in TERMINAL : EndJob(j, outcome) => TypeOK'
      BY DEF EndJob
    <2>4. LockRun(j) \/ CountSome(j) \/ CountNone(j) => TypeOK'
      <3>1. LockRun(j) => TypeOK'
        BY DEF LockRun
      <3>2. CountSome(j) => TypeOK'
        BY DEF CountSome
      <3>3. CountNone(j) => TypeOK'
        BY DEF CountNone
      <3> QED BY <3>1, <3>2, <3>3
    <2>5. Abort(j) => TypeOK'
      <3> SUFFICES ASSUME Abort(j) PROVE TypeOK'
        OBVIOUS
      <3>1. txn' = [txn EXCEPT ![j] = NoTxn] /\ lock' \in {lock, NoOne}
        BY DEF Abort
      <3>2. UNCHANGED <<state, run, cancel, gap, retries>>
        BY DEF Abort
      <3> QED BY <3>1, <3>2 DEF NoTxn
    <2> QED BY <2>1, <2>2, <2>3, <2>4, <2>5
  <1>6. ASSUME NEW j \in Jobs, Leave(j) \/ CloseRun(j) PROVE TypeOK'
    <2>1. /\ Seen(j) \in [Jobs -> Active \union TERMINAL]
          /\ StatusOf(Seen(j)) \in Closed
      BY <1>6, SeenFacts, StatusOfType DEF Leave, CloseRun, NoTxn
    <2>2. /\ state' = Seen(j) /\ lock' = NoOne
          /\ txn' = [txn EXCEPT ![j] = NoTxn]
          /\ UNCHANGED <<cancel, retries>>
      BY <1>6 DEF Leave, CloseRun, Commit
    <2>3. /\ run' = run \/ run' = [status |-> StatusOf(Seen(j)), summary |-> Seen(j)]
          /\ gap' \in {gap, {}}
      BY <1>6 DEF Leave, CloseRun, ClosedRun
    <2>4. run' \in [status : {"queued", "running"} \union Closed,
                   summary : [Jobs -> Active \union TERMINAL \union {"none"}]]
      BY <2>1, <2>3
    <2> QED BY <2>1, <2>2, <2>3, <2>4 DEF NoTxn
  <1> QED BY <1>1, <1>2, <1>3, <1>4, <1>5, <1>6 DEF Next

\* A step that moves the transaction of one job from one counting phase to the
\* next touches nothing the other parts of IInv speak of.
LEMMA LockingStep == IInv /\ [Next]_vars => Locking' /\ OpenIsActive'
  <1> SUFFICES ASSUME IInv, [Next]_vars PROVE Locking' /\ OpenIsActive'
    OBVIOUS
  <1> USE DEF IInv, Locking, OpenIsActive, TypeOK, Active, Phases, NoTxn
  <1>1. CASE UNCHANGED vars
    BY <1>1 DEF vars
  <1>2. CASE CancelRun
    BY <1>2 DEF CancelRun
  <1>3. CASE CancelTally \/ CancelStore
    BY <1>3 DEF CancelTally, CancelStore
  <1>4. ASSUME NEW j \in Jobs, StartJob(j) \/ Requeue(j) \/ ReserveExhausted(j)
        PROVE  Locking' /\ OpenIsActive'
    BY <1>4 DEF StartJob, Requeue, ReserveExhausted
  <1>5. ASSUME NEW j \in Jobs, RetryJob(j) PROVE Locking' /\ OpenIsActive'
    BY <1>5 DEF RetryJob, TERMINAL
  <1>6. ASSUME NEW j \in Jobs, NEW outcome \in TERMINAL, EndJob(j, outcome)
        PROVE  Locking' /\ OpenIsActive'
    BY <1>6 DEF EndJob
  <1>7. ASSUME NEW j \in Jobs, LockRun(j) PROVE Locking' /\ OpenIsActive'
    BY <1>7, NoOneIsNoJob DEF LockRun
  <1>8. ASSUME NEW j \in Jobs, CountSome(j) \/ CountNone(j)
        PROVE  Locking' /\ OpenIsActive'
    BY <1>8 DEF CountSome, CountNone
  <1>9. ASSUME NEW j \in Jobs, Leave(j) \/ CloseRun(j)
        PROVE  Locking' /\ OpenIsActive'
    <2>1. /\ state' = [state EXCEPT ![j] = txn[j].outcome]
          /\ txn' = [txn EXCEPT ![j] = NoTxn]
          /\ lock' = NoOne /\ lock = j
      BY <1>9 DEF Leave, CloseRun, Commit, Seen
    <2>2. \A i \in Jobs \ {j} : txn'[i] = txn[i] /\ state'[i] = state[i]
      BY <2>1
    <2>3. txn'[j] = NoTxn
      BY <2>1
    <2> QED BY <2>1, <2>2, <2>3, NoOneIsNoJob
  <1>10. ASSUME NEW j \in Jobs, Abort(j) PROVE Locking' /\ OpenIsActive'
    BY <1>10, NoOneIsNoJob DEF Abort
  <1> QED BY <1>1, <1>2, <1>3, <1>4, <1>5, <1>6, <1>7, <1>8, <1>9, <1>10 DEF Next

\* While a transaction holds the run row because a sibling is outstanding, that
\* sibling can only become terminal through a transaction that waits for the
\* row, or through reserve()'s exhausted branch, which opens a gap.
LEMMA LeavesStep == IInv /\ [Next]_vars => LeavesToSomeone'
  <1> SUFFICES ASSUME IInv, [Next]_vars, gap' = {},
                      NEW j \in Jobs, txn'[j].phase = "leaving"
               PROVE  \E i \in Jobs \ {j} : state'[i] \in Active
    BY DEF LeavesToSomeone
  <1> USE DEF IInv, LeavesToSomeone, Locking, OpenIsActive, TypeOK, Active, Phases, NoTxn
  <1>1. CASE UNCHANGED vars
    BY <1>1 DEF vars
  <1>2. CASE CancelRun
    BY <1>2 DEF CancelRun
  <1>3. CASE CancelTally
    BY <1>3 DEF CancelTally
  <1>4. CASE CancelStore
    BY <1>4, NoOneIsNoJob DEF CancelStore
  <1>5. ASSUME NEW k \in Jobs, StartJob(k) \/ Requeue(k) \/ RetryJob(k)
        PROVE  \E i \in Jobs \ {j} : state'[i] \in Active
    BY <1>5 DEF StartJob, Requeue, RetryJob
  <1>6. ASSUME NEW k \in Jobs, ReserveExhausted(k) PROVE FALSE
    BY <1>6 DEF ReserveExhausted
  <1>7. ASSUME NEW k \in Jobs, NEW outcome \in TERMINAL, EndJob(k, outcome)
        PROVE  \E i \in Jobs \ {j} : state'[i] \in Active
    BY <1>7 DEF EndJob
  <1>8. ASSUME NEW k \in Jobs, LockRun(k)
        PROVE  \E i \in Jobs \ {j} : state'[i] \in Active
    BY <1>8, NoOneIsNoJob DEF LockRun
  <1>9. ASSUME NEW k \in Jobs, CountSome(k)
        PROVE  \E i \in Jobs \ {j} : state'[i] \in Active
    <2>1. CASE j = k
      <3>1. txn[k] # NoTxn
        BY <1>9 DEF CountSome
      <3>2. PICK i \in Jobs : Seen(k)[i] \notin TERMINAL
        BY <1>9 DEF CountSome, AllDone
      <3>3. i # k
        BY <3>1, <3>2, SeenFacts DEF TERMINAL
      <3>4. state[i] \in Active
        BY <3>1, <3>2, <3>3, SeenFacts
      <3> QED BY <1>9, <2>1, <3>3, <3>4 DEF CountSome
    <2>2. CASE j # k
      BY <1>9, <2>2 DEF CountSome
    <2> QED BY <2>1, <2>2
  <1>10. ASSUME NEW k \in Jobs, CountNone(k)
        PROVE  \E i \in Jobs \ {j} : state'[i] \in Active
    BY <1>10 DEF CountNone
  <1>11. ASSUME NEW k \in Jobs, Leave(k) \/ CloseRun(k) PROVE FALSE
    <2>1. lock = k /\ txn' = [txn EXCEPT ![k] = NoTxn]
      BY <1>11 DEF Leave, CloseRun, Commit
    <2> QED BY <2>1
  <1>12. ASSUME NEW k \in Jobs, Abort(k)
        PROVE  \E i \in Jobs \ {j} : state'[i] \in Active
    BY <1>12 DEF Abort
  <1> QED BY <1>1, <1>2, <1>3, <1>4, <1>5, <1>6, <1>7, <1>8, <1>9, <1>10, <1>11, <1>12
          DEF Next

\* A step after which everything is quiet and terminal has just stored the
\* outcome, or changed nothing.
LEMMA RecordedStep == IInv /\ [Next]_vars => (gap = {} => Recorded)'
  <1> SUFFICES ASSUME IInv, [Next]_vars, gap' = {}, Quiet', AllDone(state)'
               PROVE  run' = ClosedRun(state')
    BY DEF Recorded, ClosedRun, StatusOf, Has, Usable
  <1> USE DEF IInv, AllDone, Quiet
  <1>1. CASE UNCHANGED vars
    BY <1>1 DEF vars, Recorded
  <1>2. CASE CancelRun
    BY <1>2 DEF CancelRun, NoCancel
  <1>3. CASE CancelTally
    <2>1. CASE AllDone(state)
      BY <1>3, <2>1 DEF CancelTally, NoCancel
    <2>2. CASE ~AllDone(state)
      BY <1>3, <2>2 DEF CancelTally
    <2> QED BY <2>1, <2>2
  <1>4. CASE CancelStore
    BY <1>4 DEF CancelStore, Gaps
  <1>5. ASSUME NEW j \in Jobs, StartJob(j) \/ Requeue(j) \/ RetryJob(j) PROVE FALSE
    BY <1>5 DEF StartJob, Requeue, RetryJob, TypeOK, TERMINAL
  <1>6. ASSUME NEW j \in Jobs, ReserveExhausted(j) PROVE FALSE
    BY <1>6 DEF ReserveExhausted
  <1>7. ASSUME NEW j \in Jobs, NEW outcome \in TERMINAL, EndJob(j, outcome)
        PROVE  FALSE
    BY <1>7 DEF EndJob, TypeOK, NoTxn
  <1>8. ASSUME NEW j \in Jobs, LockRun(j) \/ CountSome(j) \/ CountNone(j)
        PROVE  FALSE
    BY <1>8 DEF LockRun, CountSome, CountNone, TypeOK, NoTxn
  <1>9. ASSUME NEW j \in Jobs, Leave(j) PROVE FALSE
    <2>1. gap = {} /\ txn[j].phase = "leaving" /\ txn[j] # NoTxn /\ state' = Seen(j)
      BY <1>9 DEF Leave, Commit, NoTxn
    <2>2. PICK i \in Jobs \ {j} : state[i] \in Active
      BY <2>1 DEF LeavesToSomeone
    <2>3. Seen(j)[i] = state[i]
      BY <2>1, SeenFacts
    <2> QED BY <2>1, <2>2, <2>3 DEF Active, TERMINAL
  <1>10. ASSUME NEW j \in Jobs, CloseRun(j) PROVE run' = ClosedRun(state')
    BY <1>10 DEF CloseRun, Commit
  <1>11. ASSUME NEW j \in Jobs, Abort(j) PROVE FALSE
    BY <1>11 DEF Abort, OpenIsActive, Active, TERMINAL
  <1> QED BY <1>1, <1>2, <1>3, <1>4, <1>5, <1>6, <1>7, <1>8, <1>9, <1>10, <1>11
          DEF Next

\* runs.py, the claim of its module docstring and of finish_job: for a run of
\* any number of jobs and any number of retries, once the last sibling is
\* terminal the run row holds the outcome of exactly those jobs, as long as
\* neither reserve()'s exhausted branch nor cancel_run's autocommit opened a gap.
THEOREM RunOutcomeIsRecorded == Spec => []OutcomeRecorded
  <1>1. Init => IInv
    BY InitIInv
  <1>2. IInv /\ [Next]_vars => IInv'
    BY TypeStep, LockingStep, LeavesStep, RecordedStep DEF IInv
  <1>3. IInv => OutcomeRecorded
    BY DEF IInv, OutcomeRecorded
  <1> QED BY <1>1, <1>2, <1>3, PTL DEF Spec

\* The same argument gives type correctness.
THEOREM RunTypeCorrect == Spec => []TypeOK
  <1>1. Init => IInv
    BY InitIInv
  <1>2. IInv /\ [Next]_vars => IInv'
    BY TypeStep, LockingStep, LeavesStep, RecordedStep DEF IInv
  <1>3. IInv => TypeOK
    BY DEF IInv
  <1> QED BY <1>1, <1>2, <1>3, PTL DEF Spec

-----------------------------------------------------------------------------
(* Sums over the reservations. *)

\* A sum of naturals, counted out: one unit after the other.
Units(f, S) == {u \in S \X Nat : u[2] < f[u[1]]}

\* One summand is as many units as it says.
LEMMA UnitsOfOne ==
  ASSUME NEW x, NEW f, f[x] \in Nat
  PROVE  IsFiniteSet(Units(f, {x})) /\ Cardinality(Units(f, {x})) = f[x]
<1> DEFINE n == f[x]
<1>0. n \in Nat
  OBVIOUS
<1>1. IsFiniteSet(0..n - 1) /\ Cardinality(0..n - 1) = n
  <2> HIDE DEF n
  <2>1. 0 \in Int /\ n - 1 \in Int
    BY <1>0
  <2>2. IsFiniteSet(0..n - 1) /\ Cardinality(0..n - 1) = IF 0 > n - 1 THEN 0 ELSE n - 1 - 0 + 1
    BY <2>1, FS_Interval
  <2>3. QED
    BY <1>0, <2>2
<1>2. Units(f, {x}) = {x} \X (0..n - 1)
  BY <1>0 DEF Units
<1>3. IsFiniteSet({x}) /\ Cardinality({x}) = 1
  BY FS_Singleton
<1>4. IsFiniteSet({x} \X (0..n - 1)) /\ Cardinality({x} \X (0..n - 1)) = 1 * n
  <2> HIDE DEF n
  <2>1. QED
    BY <1>1, <1>3, FS_Product
<1>5. IsFiniteSet(Units(f, {x})) /\ Cardinality(Units(f, {x})) = 1 * n
  <2> HIDE DEF n
  <2>1. QED
    BY <1>2, <1>4, Zenon
<1>6. QED
  BY <1>0, <1>5

\* Sets that are apart have their units apart.
LEMMA UnitsSplit ==
  ASSUME NEW A, NEW B, A \cap B = {}, NEW f
  PROVE  Units(f, A \union B) = Units(f, A) \union Units(f, B) /\ Units(f, A) \cap Units(f, B) = {}
BY DEF Units

\* A finite sum has finitely many units: a smallest subset with infinitely many
\* would still have them without one of its elements.
LEMMA UnitsFinite ==
  ASSUME NEW S, IsFiniteSet(S), NEW f, \A x \in S : f[x] \in Nat
  PROVE  IsFiniteSet(Units(f, S))
<1> DEFINE Bad == {T \in FiniteSubsetsOf(S) : ~IsFiniteSet(Units(f, T))}
<1>1. ASSUME Bad # {}
      PROVE  FALSE
  <2>1. Bad \subseteq FiniteSubsetsOf(S)
    OBVIOUS
  <2>2. PICK T \in Bad : \A U \in Bad : <<U, T>> \notin StrictSubsetOrdering(S)
    BY <2>1, <1>1, FS_StrictSubsetOrderingWellFounded, WFMin
  <2>3. T \in SUBSET S /\ IsFiniteSet(T) /\ ~IsFiniteSet(Units(f, T))
    BY DEF FiniteSubsetsOf
  <2>4. T # {}
    <3>1. Units(f, {}) = {}
      BY DEF Units
    <3>2. QED
      BY <3>1, <2>3, FS_EmptySet
  <2>5. PICK x \in T : TRUE
    BY <2>4
  <2> DEFINE U == T \ {x}
  <2>6. IsFiniteSet(U) /\ U \in SUBSET S /\ U \subseteq T /\ U # T
    BY <2>3, FS_Subset
  <2>7. U \in FiniteSubsetsOf(S) /\ <<U, T>> \in StrictSubsetOrdering(S)
    BY <2>3, <2>6 DEF FiniteSubsetsOf, StrictSubsetOrdering
  <2>8. IsFiniteSet(Units(f, U))
    BY <2>2, <2>7
  <2>9. Units(f, T) = Units(f, U) \union Units(f, {x})
    <3>1. T = U \union {x} /\ U \cap {x} = {}
      OBVIOUS
    <3>2. QED
      BY <3>1, UnitsSplit
  <2>10. IsFiniteSet(Units(f, {x}))
    BY <2>3, UnitsOfOne
  <2>11. QED
    BY <2>3, <2>8, <2>9, <2>10, FS_Union
<1>2. QED
  <2>1. S \in FiniteSubsetsOf(S)
    BY DEF FiniteSubsetsOf
  <2>2. QED
    BY <1>1, <2>1

\* One step of the fold that MapThenSumSet is.
Adds(iter, f, S) ==
  iter = [s \in SUBSET S |-> IF s = {} THEN 0
                             ELSE LET x == CHOOSE x \in s : TRUE IN f[x] + iter[s \ {x}]]

\* The sum is what the fold chooses.
LEMMA TotalUnfolds ==
  ASSUME NEW f, NEW S
  PROVE  Total(f, S) = (CHOOSE iter : Adds(iter, f, S))[S]
BY DEF Total, MapThenSumSet, MapThenFoldSet, Adds

\* The units with one element more.
LEMMA UnitsAdd ==
  ASSUME NEW S, IsFiniteSet(S), NEW f, \A x \in S : f[x] \in Nat, NEW x \in S
  PROVE  Cardinality(Units(f, S)) = f[x] + Cardinality(Units(f, S \ {x}))
<1> DEFINE R == S \ {x}
<1>1. S = R \union {x} /\ R \cap {x} = {}
  OBVIOUS
<1>2. /\ Units(f, S) = Units(f, R) \union Units(f, {x})
      /\ Units(f, R) \cap Units(f, {x}) = {}
  <2> HIDE DEF R
  <2>1. QED
    BY <1>1, UnitsSplit
<1>3. IsFiniteSet(S \ {x})
  BY FS_Subset
<1>4. IsFiniteSet(Units(f, S \ {x})) /\ IsFiniteSet(Units(f, {x})) /\ Cardinality(Units(f, {x})) = f[x]
  BY <1>3, UnitsFinite, UnitsOfOne
<1>5. Cardinality(Units(f, S \ {x})) \in Nat /\ Cardinality({}) = 0
  BY <1>4, FS_CardinalityType, FS_EmptySet
<1>6. Cardinality(Units(f, S)) = Cardinality(Units(f, R)) + Cardinality(Units(f, {x})) - Cardinality({})
  <2>1. IsFiniteSet(Units(f, R)) /\ IsFiniteSet(Units(f, {x}))
    BY <1>4
  <2> HIDE DEF R
  <2>2. QED
    BY <1>2, <2>1, FS_Union
<1>7. QED
  BY <1>4, <1>5, <1>6

\* Whatever adds up as the fold does counts the units.
LEMMA AddingCounts ==
  ASSUME NEW S, IsFiniteSet(S), NEW f, \A x \in S : f[x] \in Nat, NEW iter, Adds(iter, f, S)
  PROVE  iter[S] = Cardinality(Units(f, S))
<1> DEFINE Bad == {T \in FiniteSubsetsOf(S) : iter[T] # Cardinality(Units(f, T))}
<1>1. ASSUME Bad # {}
      PROVE  FALSE
  <2>1. Bad \subseteq FiniteSubsetsOf(S)
    OBVIOUS
  <2>2. PICK T \in Bad : \A U \in Bad : <<U, T>> \notin StrictSubsetOrdering(S)
    BY <2>1, <1>1, FS_StrictSubsetOrderingWellFounded, WFMin
  <2>3. T \in SUBSET S /\ IsFiniteSet(T) /\ iter[T] # Cardinality(Units(f, T))
    BY DEF FiniteSubsetsOf
  <2>4. T # {}
    <3>1. Units(f, {}) = {}
      BY DEF Units
    <3>2. iter[{}] = 0
      BY DEF Adds
    <3>3. QED
      BY <3>1, <3>2, <2>3, FS_EmptySet
  <2> DEFINE x == CHOOSE x \in T : TRUE
             U == T \ {x}
  <2>5. x \in T
    BY <2>4
  <2>6. iter[T] = f[x] + iter[U]
    BY <2>3, <2>4 DEF Adds
  <2> HIDE DEF x
  <2>7. IsFiniteSet(U) /\ U \in SUBSET S /\ U \subseteq T /\ U # T
    BY <2>3, <2>5, FS_Subset
  <2>8. U \in FiniteSubsetsOf(S) /\ <<U, T>> \in StrictSubsetOrdering(S)
    BY <2>3, <2>7 DEF FiniteSubsetsOf, StrictSubsetOrdering
  <2>9. iter[U] = Cardinality(Units(f, U))
    BY <2>2, <2>8
  <2>10. QED
    BY <2>3, <2>5, <2>6, <2>9, UnitsAdd
<1>2. QED
  <2>1. S \in FiniteSubsetsOf(S)
    BY DEF FiniteSubsetsOf
  <2>2. QED
    BY <1>1, <2>1

\* A sum of naturals counts its units.
LEMMA TotalCounts ==
  ASSUME NEW S, IsFiniteSet(S), NEW f, \A x \in S : f[x] \in Nat
  PROVE  Total(f, S) = Cardinality(Units(f, S))
<1> DEFINE count == [s \in SUBSET S |-> Cardinality(Units(f, s))]
<1>1. ASSUME NEW s \in SUBSET S
      PROVE  count[s] = IF s = {} THEN 0 ELSE LET x == CHOOSE x \in s : TRUE IN f[x] + count[s \ {x}]
  <2>1. CASE s = {}
    <3>1. Units(f, {}) = {}
      BY DEF Units
    <3>2. QED
      BY <2>1, <3>1, FS_EmptySet
  <2>2. CASE s # {}
    <3> DEFINE x == CHOOSE x \in s : TRUE
    <3>1. x \in s
      BY <2>2
    <3> HIDE DEF x
    <3>2. IsFiniteSet(s)
      BY FS_Subset
    <3>3. Cardinality(Units(f, s)) = f[x] + Cardinality(Units(f, s \ {x}))
      BY <3>1, <3>2, UnitsAdd
    <3>4. count[s] = f[x] + count[s \ {x}]
      BY <3>3
    <3>5. QED
      BY <2>2, <3>4 DEF x
  <2>3. QED
    BY <2>1, <2>2
<1>2. Adds(count, f, S)
  <2> DEFINE rhs == [s \in SUBSET S |-> IF s = {} THEN 0
                             ELSE LET x == CHOOSE x \in s : TRUE IN f[x] + count[s \ {x}]]
  <2>1. \A s \in SUBSET S : count[s] = rhs[s]
    BY <1>1
  <2>2. count = rhs
    BY <2>1
  <2>3. QED
    BY <2>2 DEF Adds
<1> HIDE DEF count
<1>3. Adds(CHOOSE iter : Adds(iter, f, S), f, S)
  BY <1>2
<1>4. QED
  BY <1>3, TotalUnfolds, AddingCounts

\* Sums of naturals are naturals.
LEMMA TotalNat ==
  ASSUME NEW S, IsFiniteSet(S), NEW f, \A x \in S : f[x] \in Nat
  PROVE  Total(f, S) \in Nat
BY TotalCounts, UnitsFinite, FS_CardinalityType

\* The sum over two sets that are apart.
LEMMA TotalSplit ==
  ASSUME NEW A, IsFiniteSet(A), NEW B, IsFiniteSet(B), A \cap B = {},
         NEW f, \A x \in A \union B : f[x] \in Nat
  PROVE  Total(f, A \union B) = Total(f, A) + Total(f, B)
<1>1. IsFiniteSet(A \union B)
  BY FS_Union
<1>2. /\ Total(f, A \union B) = Cardinality(Units(f, A \union B))
      /\ Total(f, A) = Cardinality(Units(f, A)) /\ Total(f, B) = Cardinality(Units(f, B))
  <2>1. Total(f, A \union B) = Cardinality(Units(f, A \union B))
    BY <1>1, TotalCounts
  <2>2. QED
    BY <2>1, TotalCounts
<1>3. IsFiniteSet(Units(f, A)) /\ IsFiniteSet(Units(f, B))
  BY UnitsFinite
<1>4. Units(f, A \union B) = Units(f, A) \union Units(f, B) /\ Units(f, A) \cap Units(f, B) = {}
  BY UnitsSplit
<1>5. /\ Cardinality(Units(f, A)) \in Nat /\ Cardinality(Units(f, B)) \in Nat
      /\ Cardinality({}) = 0
  BY <1>3, FS_CardinalityType, FS_EmptySet
<1> DEFINE P == Units(f, A)
           Q == Units(f, B)
<1>6. Cardinality(Units(f, A \union B)) = Cardinality(P) + Cardinality(Q) - Cardinality({})
  <2>1. IsFiniteSet(P) /\ IsFiniteSet(Q) /\ Units(f, A \union B) = P \union Q /\ P \cap Q = {}
    BY <1>3, <1>4
  <2>2. Cardinality(P \union Q) = Cardinality(P) + Cardinality(Q) - Cardinality(P \cap Q)
    <3> HIDE DEF P, Q
    <3>1. QED
      BY <2>1, FS_Union
  <2>3. QED
    BY <2>1, <2>2, Zenon
<1>7. QED
  BY <1>2, <1>5, <1>6

\* A sum of larger numbers is larger.
LEMMA TotalMonotone ==
  ASSUME NEW S, IsFiniteSet(S), NEW f, NEW g,
         \A x \in S : f[x] \in Nat /\ g[x] \in Nat /\ f[x] <= g[x]
  PROVE  Total(f, S) <= Total(g, S)
<1>1. Units(f, S) \subseteq Units(g, S)
  BY DEF Units
<1>2. IsFiniteSet(Units(g, S))
  BY UnitsFinite
<1>3. Cardinality(Units(f, S)) <= Cardinality(Units(g, S))
  BY <1>1, <1>2, FS_Subset
<1>4. Total(f, S) = Cardinality(Units(f, S)) /\ Total(g, S) = Cardinality(Units(g, S))
  BY TotalCounts
<1>5. QED
  BY <1>3, <1>4

\* A sum of the same numbers is the same.
LEMMA TotalSame ==
  ASSUME NEW S, IsFiniteSet(S), NEW f, NEW g, \A x \in S : f[x] \in Nat /\ g[x] = f[x]
  PROVE  Total(f, S) = Total(g, S)
<1>1. Units(f, S) = Units(g, S)
  BY DEF Units
<1>2. Total(f, S) = Cardinality(Units(f, S)) /\ Total(g, S) = Cardinality(Units(g, S))
  BY TotalCounts
<1>3. QED
  BY <1>1, <1>2

-----------------------------------------------------------------------------
(* ProxyBudget: any finite set of reservations, any attempts, bytes and bounds. *)

ResStates == {"none", "active", "revocation_requested", "closed", "cancelled"}
AttStates == {"none", "authorized", "reconciled", "released"}
Cycles == [life : {"proposed", "active", "closed"}, ended : BOOLEAN, kill : BOOLEAN,
           ok : BOOLEAN, recent : BOOLEAN, reported : Nat, app : Nat, pilot : BOOLEAN]
Reservations == [state : ResStates, bytes : {0} \union Requested, est : Nat, gen : 0..MaxGen,
                 today : BOOLEAN]
Leases == [held : BOOLEAN, used : Nat, flying : SUBSET Att, pending : SUBSET Att, failed : BOOLEAN]

\* Records, and the bytes booked late on a reservation: some of those booked on
\* it, and none before it is made.
Books ==
  /\ cycle \in Cycles /\ profile \in [on : BOOLEAN, gen : 0..MaxGen]
  /\ res \in [Res -> Reservations] /\ lease \in [Res -> Leases] /\ late \in [Res -> Nat]
  /\ DOMAIN att = Att /\ \A a \in Att : DOMAIN att[a] = DOMAIN NoAtt /\ att[a].state \in AttStates
  /\ \A r \in Res : /\ late[r] <= res[r].est
                    /\ res[r].state = "none" => late[r] = 0

\* What a process counts as on its way is authorized under its reservation; of
\* what it counts as pending, it may have lost the reply.
OnTheWay(l, at, r) ==
  /\ \A a \in l.flying : at[a].of = r /\ at[a].state = "authorized"
  /\ \A a \in l.pending : /\ at[a].of = r /\ at[a].state # "none"
                          /\ at[a].state = "authorized" \/ l.failed
  /\ l.flying \cap l.pending = {}
AttemptsKnown == \A r \in Res : OnTheWay(lease[r], att, r)

\* What a settled reservation spent within its bytes, without what was booked
\* late; what the settled ones spent, and what the open ones may spend.
OpenOf(rs)       == {r \in Res : rs[r].state \in {"active", "revocation_requested"}}
SettledOf(rs)    == {r \in Res : rs[r].state \in {"closed", "cancelled"}}
Held(rs)         == [r \in Res |-> rs[r].bytes]
Within(rs, lt)   == [r \in Res |-> Lower(rs[r].est - lt[r], rs[r].bytes)]
ReservedOf(rs)   == Total(Held(rs), OpenOf(rs))
SpentOf(rs, lt)  == Total(Within(rs, lt), SettledOf(rs))

\* What settled reservations spent in time is in the application's count, which
\* is what reserve() looks at.
SpentIsCounted == SpentOf(res, late) <= cycle.app

\* The inductive invariant of the budget.
BudgetInv == Books /\ AttemptsKnown /\ SpentIsCounted /\ SpendFitsCeiling /\ ExhaustedIsShut

\* The row of a new reservation and an emptied lease are records of the tables.
LEMMA EmptyRows ==
  /\ NoRes \in Reservations /\ NoLease \in Leases
  /\ \A b \in Requested, g \in 0..MaxGen :
       [state |-> "active", bytes |-> b, est |-> 0, gen |-> g, today |-> TRUE] \in Reservations
BY BytesAreNaturals DEF NoRes, NoLease, Reservations, Leases, ResStates

\* An empty ledger.
LEMMA BudgetInitBooks == ASSUME BudgetInit PROVE Books /\ AttemptsKnown
<1>1. cycle \in Cycles /\ profile \in [on : BOOLEAN, gen : 0..MaxGen]
  BY BytesAreNaturals DEF BudgetInit, Cycles
<1>2. res \in [Res -> Reservations] /\ lease \in [Res -> Leases] /\ late \in [Res -> Nat]
  BY EmptyRows DEF BudgetInit
<1>3. DOMAIN att = Att /\ \A a \in Att : DOMAIN att[a] = DOMAIN NoAtt /\ att[a].state \in AttStates
  BY DEF BudgetInit, NoAtt, AttStates
<1>4. \A r \in Res : late[r] <= res[r].est /\ (res[r].state = "none" => late[r] = 0)
  BY DEF BudgetInit, NoRes
<1>5. AttemptsKnown
  BY DEF BudgetInit, NoLease, AttemptsKnown, OnTheWay
<1>6. QED
  BY <1>1, <1>2, <1>3, <1>4, <1>5 DEF Books

\* Settle writes the states of the reservations it settles and brings the cycle
\* up to date, whatever the estimates it is given are.
LEMMA SettleBooks ==
  ASSUME NEW R \in SUBSET Res, NEW mark \in {"closed", "cancelled"}, NEW rs \in [Res -> Reservations],
         Settle(R, mark, rs), cycle \in Cycles
  PROVE  /\ res' \in [Res -> Reservations] /\ cycle' \in Cycles
         /\ \A r \in Res : /\ res'[r].est = rs[r].est /\ res'[r].bytes = rs[r].bytes
                           /\ res'[r].state = IF r \in R THEN mark ELSE rs[r].state
         /\ SettledBytes(res') \in Nat
         /\ cycle'.app = Higher(cycle.app, SettledBytes(res'))
         /\ cycle'.kill = (cycle.kill \/ SettledBytes(res') >= Operational)
         /\ cycle'.life = cycle.life /\ cycle'.reported = cycle.reported
<1> DEFINE new == [r \in Res |-> IF r \in R THEN [rs[r] EXCEPT !.state = mark] ELSE rs[r]]
<1>1. /\ res' = new
      /\ cycle' = [cycle EXCEPT !.app = Higher(@, SettledBytes(new)),
                                !.kill = @ \/ SettledBytes(new) >= Operational]
  BY DEF Settle
<1>2. ASSUME NEW r \in Res
      PROVE  /\ new[r] \in Reservations /\ new[r].est = rs[r].est /\ new[r].bytes = rs[r].bytes
             /\ new[r].state = IF r \in R THEN mark ELSE rs[r].state
  BY DEF Reservations, ResStates
<1>3. new \in [Res -> Reservations]
  BY <1>2
<1> HIDE DEF new
<1>4. SettledBytes(new) \in Nat
  <2> DEFINE S == {r \in Res : new[r].state \in {"closed", "cancelled"}}
             f == [r \in Res |-> new[r].est]
  <2>1. IsFiniteSet(S)
    BY ProbesAreReservations, FS_Subset
  <2>2. \A r \in S : f[r] \in Nat
    BY <1>3 DEF Reservations
  <2>3. Total(f, S) \in Nat
    <3> HIDE DEF S, f
    <3>1. QED
      BY <2>1, <2>2, TotalNat
  <2>4. QED
    BY <2>3 DEF SettledBytes
<1>5. cycle' \in Cycles /\ cycle'.app = Higher(cycle.app, SettledBytes(new))
      /\ cycle'.kill = (cycle.kill \/ SettledBytes(new) >= Operational)
      /\ cycle'.life = cycle.life /\ cycle'.reported = cycle.reported
  BY <1>1, <1>4 DEF Cycles, Higher
<1>6. QED
  BY <1>1, <1>2, <1>3, <1>4, <1>5

\* close_reservation: it settles the open reservation, books late on a cancelled
\* one, or changes nothing; in each case what was booked in time stays.
LEMMA CloseBooks ==
  ASSUME Books, NEW r \in Res, NEW used \in Nat, CloseReservation(r, used)
  PROVE  /\ res' \in [Res -> Reservations] /\ late' \in [Res -> Nat] /\ cycle' \in Cycles
         /\ \A q \in Res : /\ late'[q] <= res'[q].est
                           /\ res'[q].state = "none" => late'[q] = 0
                           /\ res'[q].bytes = res[q].bytes
                           /\ q \in Settled => res'[q].est - late'[q] = res[q].est - late[q]
                           /\ q # r => res'[q] = res[q]
         /\ cycle'.life = cycle.life /\ cycle'.reported = cycle.reported
         /\ \/ UNCHANGED <<res, late, cycle>>
            \/ /\ SettledBytes(res') \in Nat
               /\ cycle'.app = Higher(cycle.app, SettledBytes(res'))
               /\ cycle'.kill = (cycle.kill \/ SettledBytes(res') >= Operational)
               /\ \/ OpenOf(res') = Open \ {r} /\ SettledOf(res') = Settled \union {r} /\ r \in Open
                  \/ OpenOf(res') = Open /\ SettledOf(res') = Settled
<1> DEFINE booked == Higher(res[r].est, used)
           rs == [res EXCEPT ![r].est = booked]
<1>1. /\ res \in [Res -> Reservations] /\ late \in [Res -> Nat] /\ cycle \in Cycles
      /\ \A q \in Res : late[q] <= res[q].est /\ (res[q].state = "none" => late[q] = 0)
  BY DEF Books
<1>2. booked \in Nat /\ booked >= res[r].est /\ res[r].est \in Nat
  BY <1>1 DEF Higher, Reservations
<1> HIDE DEF booked
<1>3. ASSUME NEW q \in Res
      PROVE  /\ rs[q] \in Reservations /\ rs[q].bytes = res[q].bytes /\ rs[q].state = res[q].state
             /\ rs[q].est = IF q = r THEN booked ELSE res[q].est
             /\ q # r => rs[q] = res[q]
  BY <1>1, <1>2 DEF Reservations
<1>4. rs \in [Res -> Reservations]
  BY <1>1, <1>3
<1>5. CASE r \in Open /\ Settle({r}, "closed", rs) /\ UNCHANGED late
  <2> HIDE DEF rs
  <2>1. /\ res' \in [Res -> Reservations] /\ cycle' \in Cycles
        /\ \A q \in Res : /\ res'[q].est = rs[q].est /\ res'[q].bytes = rs[q].bytes
                          /\ res'[q].state = IF q \in {r} THEN "closed" ELSE rs[q].state
        /\ SettledBytes(res') \in Nat
        /\ cycle'.app = Higher(cycle.app, SettledBytes(res'))
        /\ cycle'.kill = (cycle.kill \/ SettledBytes(res') >= Operational)
        /\ cycle'.life = cycle.life /\ cycle'.reported = cycle.reported
    BY <1>1, <1>4, <1>5, SettleBooks
  <2>2. r \notin Settled
    BY <1>5 DEF Open, Settled
  <2>3. OpenOf(res') = Open \ {r} /\ SettledOf(res') = Settled \union {r}
    BY <1>3, <2>1 DEF OpenOf, SettledOf, Open, Settled
  <2>4. \A q \in Res : q # r => res'[q] = res[q]
    BY <1>3, <1>5 DEF Settle
  <2>5. \A q \in Res : late'[q] <= res'[q].est /\ (res'[q].state = "none" => late'[q] = 0)
    BY <1>1, <1>2, <1>3, <1>5, <2>1 DEF Reservations
  <2>6. \A q \in Res : q \in Settled => res'[q].est - late'[q] = res[q].est - late[q]
    BY <1>5, <2>2, <2>4
  <2>7. QED
    BY <1>1, <1>3, <1>5, <2>1, <2>3, <2>4, <2>5, <2>6
<1>6. CASE /\ res[r].state = "cancelled" /\ Settle({}, "closed", rs)
           /\ late' = [late EXCEPT ![r] = @ + booked - res[r].est]
  <2> HIDE DEF rs
  <2>1. /\ res' \in [Res -> Reservations] /\ cycle' \in Cycles
        /\ \A q \in Res : /\ res'[q].est = rs[q].est /\ res'[q].bytes = rs[q].bytes
                          /\ res'[q].state = IF q \in {} THEN "closed" ELSE rs[q].state
        /\ SettledBytes(res') \in Nat
        /\ cycle'.app = Higher(cycle.app, SettledBytes(res'))
        /\ cycle'.kill = (cycle.kill \/ SettledBytes(res') >= Operational)
        /\ cycle'.life = cycle.life /\ cycle'.reported = cycle.reported
    BY <1>1, <1>4, <1>6, SettleBooks
  <2>2. OpenOf(res') = Open /\ SettledOf(res') = Settled
    BY <1>3, <2>1 DEF OpenOf, SettledOf, Open, Settled
  <2>3. \A q \in Res : q # r => res'[q] = res[q]
    BY <1>3, <1>6 DEF Settle
  <2>4. late[r] \in Nat /\ late[r] <= res[r].est
    BY <1>1
  <2>5. late'[r] = late[r] + booked - res[r].est /\ \A q \in Res : q # r => late'[q] = late[q]
    BY <1>1, <1>6
  <2>6. res'[r].est = booked /\ res'[r].state = "cancelled"
    BY <1>3, <1>6, <2>1
  <2>7. late'[r] \in Nat /\ late'[r] <= res'[r].est /\ res'[r].est - late'[r] = res[r].est - late[r]
    BY <1>2, <2>4, <2>5, <2>6
  <2>8. late' \in [Res -> Nat]
    BY <1>1, <1>6, <2>5, <2>7
  <2>9. \A q \in Res : /\ late'[q] <= res'[q].est
                       /\ res'[q].state = "none" => late'[q] = 0
                       /\ q \in Settled => res'[q].est - late'[q] = res[q].est - late[q]
    BY <1>1, <2>3, <2>5, <2>6, <2>7
  <2>10. QED
    BY <1>3, <2>1, <2>2, <2>3, <2>8, <2>9
<1>7. CASE UNCHANGED <<res, late, cycle>>
  BY <1>1, <1>7
<1>8. QED
  <2>1. \/ r \in Open /\ Settle({r}, "closed", rs) /\ UNCHANGED late
        \/ /\ res[r].state = "cancelled" /\ Settle({}, "closed", rs)
           /\ late' = [late EXCEPT ![r] = @ + booked - res[r].est]
        \/ UNCHANGED <<res, late, cycle>>
    BY DEF CloseReservation, booked
  <2>2. QED
    BY <2>1, <1>5, <1>6, <1>7

\* The rows and the processes' books after a step that leaves the reservations
\* and what was booked late alone.
LEMMA LeasesBooked ==
  ASSUME Books, AttemptsKnown, NEW r \in Res,
         \/ \E n \in Actuals \ {0} : ProbeSpends(r, n)
         \/ Dies(r) \/ AuthorizeDenied(r)
         \/ \E a \in Att :
              \/ \E e \in Estimates : Authorize(r, a, e)
              \/ \E lost \in BOOLEAN : AuthorizeReturns(r, a, lost)
              \/ ReconcileFails(r, a) \/ ReleaseAttempt(r, a)
  PROVE  /\ Books' /\ AttemptsKnown' /\ UNCHANGED <<res, late, cycle>>
<1>1. /\ lease \in [Res -> Leases] /\ DOMAIN att = Att
      /\ \A a \in Att : DOMAIN att[a] = DOMAIN NoAtt /\ att[a].state \in AttStates
      /\ \A q \in Res : OnTheWay(lease[q], att, q)
  BY DEF Books, AttemptsKnown
<1>2. UNCHANGED <<res, late, cycle, profile>>
  BY DEF ProbeSpends, Dies, AuthorizeDenied, Authorize, AuthorizeReturns, ReconcileFails, ReleaseAttempt
<1>3. SUFFICES /\ lease' \in [Res -> Leases] /\ DOMAIN att' = Att
               /\ \A a \in Att : DOMAIN att'[a] = DOMAIN NoAtt /\ att'[a].state \in AttStates
               /\ \A q \in Res : OnTheWay(lease'[q], att', q)
  BY <1>2 DEF Books, AttemptsKnown
<1>4. lease[r] \in Leases
  BY <1>1
<1>5. CASE \E n \in Actuals \ {0} : ProbeSpends(r, n)
  <2>1. PICK n \in Actuals \ {0} : lease' = [lease EXCEPT ![r].used = n] /\ att' = att
    BY <1>5 DEF ProbeSpends
  <2>2. n \in Nat
    BY BytesAreNaturals
  <2> QED
    BY <1>1, <1>4, <2>1, <2>2 DEF Leases, OnTheWay
<1>6. CASE Dies(r)
  <2>1. lease' = [lease EXCEPT ![r] = NoLease] /\ att' = att
    BY <1>6 DEF Dies
  <2> QED
    BY <1>1, <2>1, EmptyRows DEF OnTheWay, NoLease
<1>7. CASE AuthorizeDenied(r) \/ \E a \in Att : ReconcileFails(r, a)
  <2>1. lease' = [lease EXCEPT ![r].failed = TRUE] /\ att' = att
    BY <1>7 DEF AuthorizeDenied, ReconcileFails
  <2>2. /\ lease' \in [Res -> Leases]
        /\ \A q \in Res : /\ lease'[q].flying = lease[q].flying /\ lease'[q].pending = lease[q].pending
                          /\ lease[q].failed => lease'[q].failed
    BY <1>1, <1>4, <2>1 DEF Leases
  <2> QED
    BY <1>1, <2>1, <2>2 DEF OnTheWay
<1>8. ASSUME NEW a \in Att, NEW e \in Estimates, Authorize(r, a, e)
      PROVE  /\ lease' \in [Res -> Leases] /\ DOMAIN att' = Att
             /\ \A b \in Att : DOMAIN att'[b] = DOMAIN NoAtt /\ att'[b].state \in AttStates
             /\ \A q \in Res : OnTheWay(lease'[q], att', q)
  <2>1. /\ att[a].state = "none"
        /\ lease' = [lease EXCEPT ![r].flying = @ \union {a}]
        /\ att' = [att EXCEPT ![a] = [state |-> "authorized", of |-> r, est |-> e, sent |-> FALSE]]
    BY <1>8 DEF Authorize, AuthorizeAttempt
  <2>2. /\ lease' \in [Res -> Leases]
        /\ \A q \in Res : /\ lease'[q].flying = lease[q].flying \union (IF q = r THEN {a} ELSE {})
                          /\ lease'[q].pending = lease[q].pending /\ lease'[q].failed = lease[q].failed
    BY <1>1, <1>4, <2>1 DEF Leases
  <2>3. /\ DOMAIN att' = Att
        /\ \A b \in Att : DOMAIN att'[b] = DOMAIN NoAtt /\ att'[b].state \in AttStates
        /\ att'[a].of = r /\ att'[a].state = "authorized" /\ \A b \in Att \ {a} : att'[b] = att[b]
    BY <1>1, <2>1 DEF NoAtt, AttStates
  <2>4. \A q \in Res : a \notin lease[q].flying \union lease[q].pending
                       /\ lease[q].flying \union lease[q].pending \subseteq Att
    BY <1>1, <2>1 DEF OnTheWay, Leases
  <2>5. ASSUME NEW q \in Res PROVE OnTheWay(lease'[q], att', q)
    BY <1>1, <2>2, <2>3, <2>4 DEF OnTheWay
  <2> QED
    BY <2>2, <2>3, <2>5
<1>9. ASSUME NEW a \in Att, NEW lost \in BOOLEAN, AuthorizeReturns(r, a, lost)
      PROVE  /\ lease' \in [Res -> Leases] /\ DOMAIN att' = Att
             /\ \A b \in Att : DOMAIN att'[b] = DOMAIN NoAtt /\ att'[b].state \in AttStates
             /\ \A q \in Res : OnTheWay(lease'[q], att', q)
  <2>1. PICK sent \in BOOLEAN : att' = [att EXCEPT ![a].sent = sent]
    BY <1>9 DEF AuthorizeReturns
  <2>2. /\ a \in lease[r].flying
        /\ lease' = [lease EXCEPT ![r].flying = @ \ {a},
                                  ![r].pending = IF lost THEN @ ELSE @ \union {a},
                                  ![r].failed = @ \/ lost]
    BY <1>9 DEF AuthorizeReturns
  <2>3. /\ DOMAIN att' = Att
        /\ \A b \in Att : DOMAIN att'[b] = DOMAIN NoAtt /\ att'[b].state = att[b].state /\ att'[b].of = att[b].of
    BY <1>1, <2>1 DEF NoAtt
  <2>4. /\ lease' \in [Res -> Leases]
        /\ lease'[r].flying \subseteq lease[r].flying
        /\ lease'[r].pending \subseteq lease[r].pending \union {a}
        /\ a \notin lease'[r].flying
        /\ lease[r].failed => lease'[r].failed
        /\ \A q \in Res \ {r} : lease'[q] = lease[q]
    BY <1>1, <1>4, <2>2 DEF Leases
  <2>5. \A q \in Res : lease[q].flying \union lease[q].pending \subseteq Att
    BY <1>1 DEF Leases
  <2>6. ASSUME NEW q \in Res PROVE OnTheWay(lease'[q], att', q)
    BY <1>1, <2>2, <2>3, <2>4, <2>5 DEF OnTheWay
  <2> QED
    BY <1>1, <2>3, <2>4, <2>6
<1>10. ASSUME NEW a \in Att, ReleaseAttempt(r, a)
       PROVE  /\ lease' \in [Res -> Leases] /\ DOMAIN att' = Att
              /\ \A b \in Att : DOMAIN att'[b] = DOMAIN NoAtt /\ att'[b].state \in AttStates
              /\ \A q \in Res : OnTheWay(lease'[q], att', q)
  <2>1. /\ a \in lease[r].pending /\ att[a].state = "authorized"
        /\ att' = [att EXCEPT ![a].state = "released"]
        /\ lease' = [lease EXCEPT ![r].pending = @ \ {a}]
    BY <1>10 DEF ReleaseAttempt
  <2>2. /\ DOMAIN att' = Att
        /\ \A b \in Att : DOMAIN att'[b] = DOMAIN NoAtt /\ att'[b].state \in AttStates
        /\ att[a].of = r /\ \A b \in Att \ {a} : att'[b] = att[b]
    BY <1>1, <2>1 DEF NoAtt, AttStates, OnTheWay
  <2>3. /\ lease' \in [Res -> Leases]
        /\ lease'[r].flying = lease[r].flying /\ lease'[r].pending = lease[r].pending \ {a}
        /\ lease'[r].failed = lease[r].failed
        /\ \A q \in Res \ {r} : lease'[q] = lease[q]
    BY <1>1, <1>4, <2>1 DEF Leases
  <2>4. \A q \in Res : lease[q].flying \union lease[q].pending \subseteq Att
    BY <1>1 DEF Leases
  <2>5. a \notin lease[r].flying /\ \A q \in Res \ {r} : a \notin lease[q].flying \union lease[q].pending
    BY <1>1, <2>1, <2>2 DEF OnTheWay
  <2>6. ASSUME NEW q \in Res PROVE OnTheWay(lease'[q], att', q)
    BY <1>1, <2>2, <2>3, <2>4, <2>5 DEF OnTheWay
  <2> QED
    BY <2>2, <2>3, <2>6
<1>11. QED
  BY <1>5, <1>6, <1>7, <1>8, <1>9, <1>10

\* reserve(): one row, within the ceiling.
LEMMA AcquireBooked ==
  ASSUME Books, AttemptsKnown, NEW r \in Res, NEW b \in Requested, Acquire(r, b)
  PROVE  /\ Books' /\ AttemptsKnown' /\ UNCHANGED <<late, cycle>>
         /\ res[r].state = "none" /\ res'[r].state = "active" /\ res'[r].bytes = b
         /\ \A q \in Res \ {r} : res'[q] = res[q]
         /\ Accounted + Reserved + b <= Operational
<1>1. /\ res[r].state = "none" /\ Accounted + Reserved + b <= Operational
      /\ res' = [res EXCEPT ![r] = [state |-> "active", bytes |-> b, est |-> 0,
                                    gen |-> profile.gen, today |-> TRUE]]
      /\ lease' = [lease EXCEPT ![r].held = TRUE]
      /\ UNCHANGED <<cycle, profile, att, late>>
  BY DEF Acquire, Reserve, Fits
<1>2. /\ res \in [Res -> Reservations] /\ lease \in [Res -> Leases] /\ late \in [Res -> Nat]
      /\ profile.gen \in 0..MaxGen /\ late[r] = 0
      /\ \A q \in Res : late[q] <= res[q].est /\ (res[q].state = "none" => late[q] = 0)
  BY <1>1 DEF Books
<1>3. /\ res' \in [Res -> Reservations] /\ \A q \in Res \ {r} : res'[q] = res[q]
      /\ res'[r].state = "active" /\ res'[r].bytes = b /\ res'[r].est = 0
  BY <1>1, <1>2, EmptyRows
<1>4. lease' \in [Res -> Leases] /\ \A q \in Res : OnTheWay(lease'[q], att, q)
  <2>1. /\ lease' \in [Res -> Leases]
        /\ \A q \in Res : /\ lease'[q].flying = lease[q].flying /\ lease'[q].pending = lease[q].pending
                          /\ lease'[q].failed = lease[q].failed
    BY <1>1, <1>2 DEF Leases
  <2>2. QED
    BY <2>1 DEF AttemptsKnown, OnTheWay
<1>5. \A q \in Res : late[q] <= res'[q].est /\ (res'[q].state = "none" => late[q] = 0)
  BY <1>2, <1>3
<1>6. QED
  BY <1>1, <1>3, <1>4, <1>5 DEF Books, AttemptsKnown

\* reconcile: the bytes are booked, late if the reservation is settled; the
\* process takes the total over or loses the reply.
LEMMA ReconcileBooked ==
  ASSUME Books, AttemptsKnown, NEW r \in Res, NEW a \in Att, NEW n \in Actuals, NEW lost \in BOOLEAN,
         Reconcile(r, a, n, lost)
  PROVE  /\ Books' /\ AttemptsKnown' /\ UNCHANGED cycle
         /\ \A q \in Res : /\ res'[q].state = res[q].state /\ res'[q].bytes = res[q].bytes
                           /\ q \in Settled => res'[q].est - late'[q] = res[q].est - late[q]
<1>1. /\ a \in lease[r].pending /\ att[a].state = "authorized"
      /\ att' = [att EXCEPT ![a].state = "reconciled"]
      /\ res' = [res EXCEPT ![r].est = @ + n]
      /\ late' = IF r \in Settled THEN [late EXCEPT ![r] = @ + n] ELSE late
      /\ lease' = [lease EXCEPT ![r] = IF lost THEN [@ EXCEPT !.failed = TRUE]
                                       ELSE Counted(r, a, res[r].est + n)]
      /\ UNCHANGED <<cycle, profile>>
  BY DEF Reconcile, BookAttempt
<1>2. /\ res \in [Res -> Reservations] /\ lease \in [Res -> Leases] /\ late \in [Res -> Nat]
      /\ DOMAIN att = Att /\ \A b \in Att : DOMAIN att[b] = DOMAIN NoAtt /\ att[b].state \in AttStates
      /\ \A q \in Res : late[q] <= res[q].est /\ (res[q].state = "none" => late[q] = 0)
      /\ \A q \in Res : OnTheWay(lease[q], att, q)
  BY DEF Books, AttemptsKnown
<1>3. n \in Nat /\ res[r].est \in Nat /\ res[r].bytes \in Nat /\ late[r] \in Nat
  BY <1>2, BytesAreNaturals DEF Reservations
<1>4. /\ res' \in [Res -> Reservations]
      /\ res'[r].est = res[r].est + n /\ res'[r].state = res[r].state /\ res'[r].bytes = res[r].bytes
      /\ \A q \in Res \ {r} : res'[q] = res[q]
  BY <1>1, <1>2, <1>3 DEF Reservations
<1>5. /\ late' \in [Res -> Nat] /\ late'[r] = IF r \in Settled THEN late[r] + n ELSE late[r]
      /\ \A q \in Res \ {r} : late'[q] = late[q]
  BY <1>1, <1>2, <1>3
<1>6. /\ late'[r] <= res'[r].est /\ (res'[r].state = "none" => late'[r] = 0)
      /\ r \in Settled => res'[r].est - late'[r] = res[r].est - late[r]
  BY <1>2, <1>3, <1>4, <1>5 DEF Settled
<1>7. /\ DOMAIN att' = Att /\ \A b \in Att : DOMAIN att'[b] = DOMAIN NoAtt /\ att'[b].state \in AttStates
      /\ att'[a].state = "reconciled" /\ att'[a].of = att[a].of /\ \A b \in Att \ {a} : att'[b] = att[b]
  BY <1>1, <1>2 DEF NoAtt, AttStates
<1>8. Counted(r, a, res[r].est + n) \in Leases
  <2> DEFINE stops == \/ lease[r].failed \/ res[r].state = "revocation_requested"
                      \/ res[r].est + n > res[r].bytes
  <2>1. Counted(r, a, res[r].est + n) = [lease[r] EXCEPT !.used = res[r].est + n, !.pending = @ \ {a},
                                                         !.failed = stops]
    BY DEF Counted
  <2>2. stops \in BOOLEAN /\ lease[r] \in Leases /\ res[r].est + n \in Nat
    BY <1>2, <1>3
  <2> HIDE DEF stops
  <2>3. QED
    BY <2>1, <2>2 DEF Leases
<1>9. /\ lease' \in [Res -> Leases] /\ \A q \in Res \ {r} : lease'[q] = lease[q]
      /\ lease'[r].flying = lease[r].flying /\ lease'[r].pending \subseteq lease[r].pending
      /\ lease[r].failed => lease'[r].failed
      /\ a \in lease'[r].pending => lease'[r].failed
  <2>1. lease[r] \in Leases
    BY <1>2
  <2>2. CASE lost
    BY <1>1, <1>2, <2>1, <2>2 DEF Leases
  <2>3. CASE ~lost
    <3>1. /\ lease' \in [Res -> Leases] /\ lease'[r] = Counted(r, a, res[r].est + n)
          /\ \A q \in Res \ {r} : lease'[q] = lease[q]
      BY <1>1, <1>2, <1>8, <2>3
    <3>2. QED
      BY <3>1, <2>1 DEF Counted, Leases
  <2>4. QED
    BY <2>2, <2>3
<1>10. \A q \in Res : lease[q].flying \union lease[q].pending \subseteq Att
  BY <1>2 DEF Leases
<1>11. /\ att[a].of = r /\ a \notin lease[r].flying
       /\ \A q \in Res \ {r} : a \notin lease[q].flying \union lease[q].pending
  BY <1>1, <1>2 DEF OnTheWay
<1>12. ASSUME NEW q \in Res PROVE OnTheWay(lease'[q], att', q)
  BY <1>2, <1>7, <1>9, <1>10, <1>11 DEF OnTheWay
<1>13. \A q \in Res : late'[q] <= res'[q].est /\ (res'[q].state = "none" => late'[q] = 0)
  BY <1>2, <1>4, <1>5, <1>6
<1>14. Books' /\ AttemptsKnown'
  BY <1>1, <1>4, <1>5, <1>7, <1>9, <1>12, <1>13 DEF Books, AttemptsKnown
<1>15. QED
  BY <1>1, <1>4, <1>5, <1>6, <1>14

\* release: the reservation is closed and the lease emptied.
LEMMA ReleaseBooked ==
  ASSUME Books, AttemptsKnown, NEW r \in Res, Release(r)
  PROVE  Books' /\ AttemptsKnown'
<1>1. /\ CloseReservation(r, lease[r].used)
      /\ lease' = [lease EXCEPT ![r] = NoLease] /\ UNCHANGED <<profile, att>>
  BY DEF Release
<1>2. lease[r].used \in Nat /\ lease \in [Res -> Leases]
  BY DEF Books, Leases
<1>3. /\ res' \in [Res -> Reservations] /\ late' \in [Res -> Nat] /\ cycle' \in Cycles
      /\ \A q \in Res : late'[q] <= res'[q].est /\ (res'[q].state = "none" => late'[q] = 0)
  BY <1>1, <1>2, CloseBooks
<1>4. lease' \in [Res -> Leases] /\ \A q \in Res : OnTheWay(lease'[q], att, q)
  BY <1>1, <1>2, EmptyRows DEF AttemptsKnown, OnTheWay, NoLease
<1>5. QED
  BY <1>1, <1>3, <1>4 DEF Books, AttemptsKnown

\* close_stale_reservations: the envelopes of those who are gone are cancelled.
LEMMA CloseStaleBooked ==
  ASSUME Books, AttemptsKnown, CloseStale
  PROVE  /\ Books' /\ AttemptsKnown' /\ UNCHANGED late
         /\ SettledBytes(res') \in Nat
         /\ cycle'.app = Higher(cycle.app, SettledBytes(res'))
         /\ cycle'.kill = (cycle.kill \/ SettledBytes(res') >= Operational)
         /\ cycle'.life = cycle.life /\ cycle'.reported = cycle.reported
         /\ \A q \in Res : res'[q].est = res[q].est /\ res'[q].bytes = res[q].bytes
         /\ \E R \in SUBSET Open : OpenOf(res') = Open \ R /\ SettledOf(res') = Settled \union R
<1> DEFINE R == Open \intersect lapsed
<1>1. Settle(R, "cancelled", res) /\ UNCHANGED <<profile, att, lease, late>>
  BY DEF CloseStale
<1>2. R \in SUBSET Res /\ R \in SUBSET Open
  BY DEF Open
<1>3. res \in [Res -> Reservations] /\ cycle \in Cycles
  BY DEF Books
<1> HIDE DEF R
<1>4. /\ res' \in [Res -> Reservations] /\ cycle' \in Cycles
      /\ \A q \in Res : /\ res'[q].est = res[q].est /\ res'[q].bytes = res[q].bytes
                        /\ res'[q].state = IF q \in R THEN "cancelled" ELSE res[q].state
      /\ SettledBytes(res') \in Nat
      /\ cycle'.app = Higher(cycle.app, SettledBytes(res'))
      /\ cycle'.kill = (cycle.kill \/ SettledBytes(res') >= Operational)
      /\ cycle'.life = cycle.life /\ cycle'.reported = cycle.reported
  BY <1>1, <1>2, <1>3, SettleBooks
<1>5. OpenOf(res') = Open \ R /\ SettledOf(res') = Settled \union R
  BY <1>2, <1>4 DEF OpenOf, SettledOf, Open, Settled
<1>6. Books' /\ AttemptsKnown'
  BY <1>1, <1>4 DEF Books, AttemptsKnown
<1>7. QED
  BY <1>1, <1>2, <1>4, <1>5, <1>6

\* Time, operators, the provider and the profile change no amount.
LEMMA OutsideBooked ==
  ASSUME Books, AttemptsKnown,
         \/ \E r \in Res : Lapse(r)
         \/ (\E n \in Reports : ReconcileSucceeds(n)) \/ ReconcileNowFails
         \/ ActivateKill \/ RevokeLeases \/ ClearKill
         \/ \E on \in BOOLEAN : SetPilot(on)
         \/ OpenCycle \/ CloseCycle \/ TimePasses
         \/ \E on \in BOOLEAN, gen \in 0..MaxGen : ProfileChanges(on, gen)
  PROVE  /\ Books' /\ AttemptsKnown' /\ UNCHANGED late
         /\ \A q \in Res : /\ res'[q].est = res[q].est /\ res'[q].bytes = res[q].bytes
                           /\ q \in Open <=> q \in OpenOf(res')
                           /\ q \in Settled <=> q \in SettledOf(res')
         /\ cycle'.app = cycle.app
<1>1. /\ cycle \in Cycles /\ profile \in [on : BOOLEAN, gen : 0..MaxGen] /\ res \in [Res -> Reservations]
      /\ \A r \in Res : late[r] <= res[r].est /\ (res[r].state = "none" => late[r] = 0)
  BY DEF Books
<1>2. UNCHANGED <<att, lease, late>>
  BY DEF Lapse, ReconcileSucceeds, ReconcileNowFails, ActivateKill, RevokeLeases, ClearKill, SetPilot,
         OpenCycle, CloseCycle, TimePasses, ProfileChanges, OnCycle
<1>3. profile' \in [on : BOOLEAN, gen : 0..MaxGen]
  <2>1. CASE \E on \in BOOLEAN, gen \in 0..MaxGen : ProfileChanges(on, gen)
    BY <2>1 DEF ProfileChanges
  <2>2. CASE UNCHANGED profile
    BY <1>1, <2>2
  <2>3. QED
    BY <2>1, <2>2 DEF Lapse, ReconcileSucceeds, ReconcileNowFails, ActivateKill, RevokeLeases, ClearKill,
       SetPilot, OpenCycle, CloseCycle, TimePasses, OnCycle
<1>4. cycle' \in Cycles /\ cycle'.app = cycle.app
  <2>1. CASE UNCHANGED cycle
    BY <1>1, <2>1
  <2>2. CASE \E n \in Reports : ReconcileSucceeds(n)
    <3>1. PICK n \in Reports : cycle' = Reconciled(n)
      BY <2>2 DEF ReconcileSucceeds
    <3>2. n \in Nat /\ Higher(cycle.reported, n) \in Nat
      BY <1>1, BytesAreNaturals DEF Cycles, Higher
    <3> DEFINE shut == cycle.kill \/ Higher(cycle.reported, n) >= Operational
               high == Higher(cycle.reported, n)
    <3>3. cycle' = [cycle EXCEPT !.reported = high, !.ok = TRUE, !.recent = TRUE, !.kill = shut]
      BY <3>1 DEF Reconciled
    <3>4. shut \in BOOLEAN /\ high \in Nat
      BY <1>1, <3>2
    <3> HIDE DEF shut, high
    <3>5. QED
      BY <1>1, <3>3, <3>4 DEF Cycles
  <2>3. CASE ReconcileNowFails
    BY <1>1, <2>3 DEF ReconcileNowFails, Cycles
  <2>4. CASE ActivateKill \/ RevokeLeases
    BY <1>1, <2>4 DEF ActivateKill, RevokeLeases, OnCycle, Cycles
  <2>5. CASE ClearKill
    BY <1>1, <2>5 DEF ClearKill, OnCycle, Cycles
  <2>6. CASE \E on \in BOOLEAN : SetPilot(on)
    BY <1>1, <2>6 DEF SetPilot, OnCycle, Cycles
  <2>7. CASE OpenCycle
    BY <1>1, <2>7 DEF OpenCycle, OnCycle, Cycles
  <2>8. CASE CloseCycle
    BY <1>1, <2>8 DEF CloseCycle, OnCycle, Cycles
  <2>9. CASE TimePasses
    <3>1. \/ cycle' = [cycle EXCEPT !.ended = TRUE]
          \/ cycle' = [cycle EXCEPT !.recent = FALSE]
          \/ cycle' = cycle
      BY <2>9 DEF TimePasses, OnCycle
    <3>2. QED
      BY <1>1, <3>1 DEF Cycles
  <2>10. QED
    BY <2>1, <2>2, <2>3, <2>4, <2>5, <2>6, <2>7, <2>8, <2>9 DEF Lapse, ProfileChanges
<1>5. /\ res' \in [Res -> Reservations]
      /\ \A q \in Res : /\ res'[q].est = res[q].est /\ res'[q].bytes = res[q].bytes
                        /\ \/ res'[q].state = res[q].state
                           \/ res[q].state = "active" /\ res'[q].state = "revocation_requested"
  <2>1. CASE UNCHANGED res
    BY <1>1, <2>1
  <2>2. CASE RevokeLeases
    <3>1. res' = [r \in Res |-> IF res[r].state = "active"
                                THEN [res[r] EXCEPT !.state = "revocation_requested"] ELSE res[r]]
      BY <2>2 DEF RevokeLeases
    <3>2. \A q \in Res : res[q] \in Reservations
      BY <1>1
    <3>3. QED
      BY <3>1, <3>2 DEF Reservations, ResStates
  <2>3. CASE res' = [r \in Res |-> [res[r] EXCEPT !.today = FALSE]]
    <3>1. \A q \in Res : res[q] \in Reservations
      BY <1>1
    <3>2. QED
      BY <3>1, <2>3 DEF Reservations
  <2>4. QED
    BY <2>1, <2>2, <2>3 DEF Lapse, ReconcileSucceeds, ReconcileNowFails, ActivateKill, ClearKill, SetPilot,
       OpenCycle, CloseCycle, TimePasses, ProfileChanges, OnCycle
<1>6. \A q \in Res : (q \in Open <=> q \in OpenOf(res')) /\ (q \in Settled <=> q \in SettledOf(res'))
  BY <1>5 DEF Open, OpenOf, Settled, SettledOf
<1>7. \A q \in Res : late[q] <= res'[q].est /\ (res'[q].state = "none" => late[q] = 0)
  BY <1>1, <1>5
<1>8. Books' /\ AttemptsKnown'
  BY <1>2, <1>3, <1>4, <1>5, <1>7 DEF Books, AttemptsKnown
<1>9. QED
  BY <1>2, <1>4, <1>5, <1>6, <1>8

-----------------------------------------------------------------------------
(* The sums of the two properties. *)

\* What is open and what is settled are finitely many reservations, apart.
LEMMA OpenAndSettled ==
  ASSUME NEW rs
  PROVE  /\ IsFiniteSet(OpenOf(rs)) /\ IsFiniteSet(SettledOf(rs)) /\ OpenOf(rs) \cap SettledOf(rs) = {}
         /\ OpenOf(rs) \subseteq Res /\ SettledOf(rs) \subseteq Res
BY ProbesAreReservations, FS_Subset DEF OpenOf, SettledOf

\* The names the properties use.
LEMMA SumsNamed ==
  /\ Open = OpenOf(res) /\ Settled = SettledOf(res) /\ Reserved = ReservedOf(res)
  /\ SpendFitsCeiling <=> ReservedOf(res) + SpentOf(res, late) <= Operational
BY DEF Open, OpenOf, Settled, SettledOf, Reserved, ReservedOf, Held, SpendFitsCeiling, SpentOf, Within

\* A reservation and what was booked late on it.
BooksOf(rs, lt) ==
  rs \in [Res -> Reservations] /\ lt \in [Res -> Nat] /\ \A r \in Res : lt[r] <= rs[r].est

\* What a reservation holds and what it spent in time are naturals.
LEMMA Amounts ==
  ASSUME NEW rs, NEW lt, BooksOf(rs, lt)
  PROVE  \A r \in Res : /\ Held(rs)[r] \in Nat /\ Within(rs, lt)[r] \in Nat
                        /\ Within(rs, lt)[r] <= Held(rs)[r] /\ Within(rs, lt)[r] <= rs[r].est
                        /\ Held(rs)[r] = rs[r].bytes
<1>1. ASSUME NEW r \in Res
      PROVE  rs[r].bytes \in Nat /\ rs[r].est \in Nat /\ lt[r] \in Nat /\ lt[r] <= rs[r].est
  BY BytesAreNaturals DEF BooksOf, Reservations
<1>2. QED
  BY <1>1 DEF Held, Within, Lower

\* The two sums are naturals.
LEMMA SumsNat ==
  ASSUME NEW rs, NEW lt, BooksOf(rs, lt)
  PROVE  ReservedOf(rs) \in Nat /\ SpentOf(rs, lt) \in Nat
<1>1. \A r \in OpenOf(rs) : Held(rs)[r] \in Nat
  BY Amounts, OpenAndSettled
<1>2. \A r \in SettledOf(rs) : Within(rs, lt)[r] \in Nat
  BY Amounts, OpenAndSettled
<1>3. QED
  BY <1>1, <1>2, OpenAndSettled, TotalNat DEF ReservedOf, SpentOf

\* Nothing is settled and what is booked is booked late, if at all: both sums stay.
LEMMA SumsStay ==
  ASSUME NEW rs, NEW lt, BooksOf(rs, lt), NEW ns, NEW nt, BooksOf(ns, nt),
         OpenOf(ns) = OpenOf(rs), SettledOf(ns) = SettledOf(rs),
         \A r \in Res : /\ ns[r].bytes = rs[r].bytes
                        /\ r \in SettledOf(rs) => ns[r].est - nt[r] = rs[r].est - lt[r]
  PROVE  ReservedOf(ns) = ReservedOf(rs) /\ SpentOf(ns, nt) = SpentOf(rs, lt)
<1>1. \A r \in OpenOf(rs) : Held(rs)[r] \in Nat /\ Held(ns)[r] = Held(rs)[r]
  BY Amounts, OpenAndSettled DEF Held
<1>2. \A r \in SettledOf(rs) : Within(rs, lt)[r] \in Nat /\ Within(ns, nt)[r] = Within(rs, lt)[r]
  BY Amounts, OpenAndSettled DEF Within
<1>3. Total(Held(rs), OpenOf(rs)) = Total(Held(ns), OpenOf(rs))
  BY <1>1, OpenAndSettled, TotalSame
<1>4. Total(Within(rs, lt), SettledOf(rs)) = Total(Within(ns, nt), SettledOf(rs))
  BY <1>2, OpenAndSettled, TotalSame
<1>5. QED
  BY <1>3, <1>4 DEF ReservedOf, SpentOf

\* Reservations are settled: what they held comes back, and at most that much is
\* counted as spent.
LEMMA SumsSettle ==
  ASSUME NEW rs, NEW lt, BooksOf(rs, lt), NEW ns, NEW nt, BooksOf(ns, nt), NEW R \in SUBSET OpenOf(rs),
         OpenOf(ns) = OpenOf(rs) \ R, SettledOf(ns) = SettledOf(rs) \union R,
         \A r \in Res : /\ ns[r].bytes = rs[r].bytes
                        /\ r \in SettledOf(rs) => ns[r].est - nt[r] = rs[r].est - lt[r]
  PROVE  ReservedOf(ns) + SpentOf(ns, nt) <= ReservedOf(rs) + SpentOf(rs, lt)
<1> DEFINE O == OpenOf(ns)
           S == SettledOf(rs)
           h == Held(rs)
           w == Within(rs, lt)
           k == Held(ns)
           v == Within(ns, nt)
<1>1. /\ IsFiniteSet(O) /\ IsFiniteSet(S) /\ IsFiniteSet(R)
      /\ O \cap R = {} /\ S \cap R = {} /\ OpenOf(rs) = O \union R
      /\ O \subseteq Res /\ S \subseteq Res /\ R \subseteq Res
  <2>1. IsFiniteSet(R)
    BY OpenAndSettled, FS_Subset
  <2>2. QED
    BY <2>1, OpenAndSettled
<1>2. \A r \in Res : h[r] \in Nat /\ w[r] \in Nat /\ v[r] \in Nat /\ k[r] = h[r] /\ v[r] <= h[r]
  BY Amounts DEF Held
<1>3. \A r \in S : v[r] = w[r]
  BY OpenAndSettled DEF Within
<1> HIDE DEF O, S, h, w, k, v
<1>4. Total(h, O \union R) = Total(h, O) + Total(h, R)
  BY <1>1, <1>2, TotalSplit
<1>5. Total(v, S \union R) = Total(v, S) + Total(v, R)
  BY <1>1, <1>2, TotalSplit
<1>6. Total(v, R) <= Total(h, R)
  BY <1>1, <1>2, TotalMonotone
<1>7. Total(w, S) = Total(v, S)
  BY <1>1, <1>2, <1>3, TotalSame
<1>8. Total(h, O) = Total(k, O)
  BY <1>1, <1>2, TotalSame
<1>9. /\ Total(h, O) \in Nat /\ Total(h, R) \in Nat /\ Total(v, S) \in Nat /\ Total(v, R) \in Nat
  BY <1>1, <1>2, TotalNat
<1>10. /\ ReservedOf(rs) = Total(h, O \union R) /\ SpentOf(rs, lt) = Total(w, S)
       /\ ReservedOf(ns) = Total(k, O) /\ SpentOf(ns, nt) = Total(v, S \union R)
  BY <1>1 DEF ReservedOf, SpentOf, O, S, h, w, k, v
<1>11. QED
  BY <1>4, <1>5, <1>6, <1>7, <1>8, <1>9, <1>10

\* What was spent in time is part of the sum that both settlements write.
LEMMA SpentIsSettled ==
  ASSUME NEW rs, NEW lt, BooksOf(rs, lt)
  PROVE  SpentOf(rs, lt) <= SettledBytes(rs)
<1> DEFINE e == [r \in Res |-> rs[r].est]
<1>1. \A r \in SettledOf(rs) : Within(rs, lt)[r] \in Nat /\ e[r] \in Nat /\ Within(rs, lt)[r] <= e[r]
  BY Amounts, OpenAndSettled DEF BooksOf, Reservations
<1>2. Total(Within(rs, lt), SettledOf(rs)) <= Total(e, SettledOf(rs))
  <2> HIDE DEF e
  <2>1. QED
    BY <1>1, OpenAndSettled, TotalMonotone
<1>3. QED
  BY <1>2 DEF SpentOf, SettledBytes, SettledOf

\* A new reservation adds its bytes to what is reserved.
LEMMA SumsReserve ==
  ASSUME NEW rs, NEW lt, BooksOf(rs, lt), NEW ns, BooksOf(ns, lt), NEW r \in Res,
         rs[r].state = "none", ns[r].state = "active", \A q \in Res \ {r} : ns[q] = rs[q]
  PROVE  ReservedOf(ns) = ReservedOf(rs) + ns[r].bytes /\ SpentOf(ns, lt) = SpentOf(rs, lt)
<1> DEFINE O == OpenOf(rs)
           h == Held(rs)
           k == Held(ns)
<1>1. OpenOf(ns) = O \union {r} /\ r \notin O /\ SettledOf(ns) = SettledOf(rs) /\ r \notin SettledOf(rs)
  BY DEF OpenOf, SettledOf
<1>2. \A q \in Res : h[q] \in Nat /\ k[q] \in Nat /\ (q # r => k[q] = h[q]) /\ k[r] = ns[r].bytes
  BY Amounts DEF Held
<1>3. \A q \in SettledOf(rs) : Within(rs, lt)[q] \in Nat /\ Within(ns, lt)[q] = Within(rs, lt)[q]
  BY <1>1, Amounts, OpenAndSettled DEF Within
<1>4. Total(Within(rs, lt), SettledOf(rs)) = Total(Within(ns, lt), SettledOf(rs))
  BY <1>3, OpenAndSettled, TotalSame
<1>5. IsFiniteSet(O) /\ O \subseteq Res /\ O \cap {r} = {} /\ IsFiniteSet({r})
  BY <1>1, OpenAndSettled, FS_Singleton
<1>6. ReservedOf(rs) = Total(h, O) /\ ReservedOf(ns) = Total(k, O \union {r})
  BY <1>1 DEF ReservedOf
<1> HIDE DEF O, h, k
<1>7. Total(k, O \union {r}) = Total(k, O) + Total(k, {r})
  BY <1>2, <1>5, TotalSplit
<1>8. Total(h, O) = Total(k, O)
  <2>1. \A q \in O : h[q] \in Nat /\ k[q] = h[q]
    BY <1>2, <1>5
  <2>2. QED
    BY <2>1, <1>5, TotalSame
<1>9. Total(k, {r}) = k[r]
  <2>1. Total(k, {r}) = Cardinality(Units(k, {r}))
    BY <1>2, <1>5, TotalCounts
  <2>2. QED
    BY <2>1, <1>2, UnitsOfOne
<1>10. QED
  BY <1>1, <1>2, <1>4, <1>6, <1>7, <1>8, <1>9 DEF SpentOf

-----------------------------------------------------------------------------
(* The ceiling and the switch. *)

\* The two sums and the cycle, as the invariant compares them.
Spends(rs, lt, c) ==
  SpentOf(rs, lt) <= c.app /\ ReservedOf(rs) + SpentOf(rs, lt) <= Operational
Shut(c) == c.life = "active" /\ Higher(c.reported, c.app) >= Operational => c.kill

\* They say what the properties say, before and after a step.
LEMMA SpendsNamed ==
  /\ Spends(res, late, cycle) <=> SpentIsCounted /\ SpendFitsCeiling
  /\ Spends(res', late', cycle') <=> (SpentIsCounted /\ SpendFitsCeiling)'
  /\ Shut(cycle) <=> ExhaustedIsShut
  /\ Shut(cycle') <=> ExhaustedIsShut'
BY DEF Spends, Shut, SpentIsCounted, SpendFitsCeiling, ExhaustedIsShut, Accounted, Reserved, Open, Settled,
       ReservedOf, SpentOf, OpenOf, SettledOf, Held, Within

\* The books, without the amounts.
LEMMA BooksAre == Books => BooksOf(res, late)
BY DEF Books, BooksOf

\* The books after a step, without the amounts.
LEMMA BooksWillBe == Books' => BooksOf(res', late')
BY DEF Books, BooksOf

\* An empty ledger has spent nothing.
LEMMA BudgetInitSpends == ASSUME BudgetInit PROVE Spends(res, late, cycle) /\ Shut(cycle)
<1>1. BooksOf(res, late)
  BY BudgetInitBooks, BooksAre
<1>2. OpenOf(res) = {} /\ SettledOf(res) = {}
  BY DEF BudgetInit, NoRes, OpenOf, SettledOf
<1>3. ASSUME NEW f PROVE Total(f, {}) = 0
  <2>1. Units(f, {}) = {}
    BY DEF Units
  <2>2. QED
    BY <2>1, TotalCounts, FS_EmptySet
<1>4. ReservedOf(res) = 0 /\ SpentOf(res, late) = 0
  BY <1>2, <1>3 DEF ReservedOf, SpentOf
<1>5. cycle.app = 0 /\ cycle.life = "proposed"
  BY DEF BudgetInit
<1>6. QED
  BY <1>4, <1>5, BytesAreNaturals DEF Spends, Shut

\* A settlement keeps the sums within the ceiling, counts what it settles and
\* shuts an exhausted cycle.
LEMMA SettlementSpends ==
  ASSUME NEW rs, NEW lt, BooksOf(rs, lt), NEW ns, NEW nt, BooksOf(ns, nt), NEW c \in Cycles, NEW d \in Cycles,
         Spends(rs, lt, c), Shut(c), NEW R \in SUBSET OpenOf(rs),
         OpenOf(ns) = OpenOf(rs) \ R, SettledOf(ns) = SettledOf(rs) \union R,
         \A r \in Res : /\ ns[r].bytes = rs[r].bytes
                        /\ r \in SettledOf(rs) => ns[r].est - nt[r] = rs[r].est - lt[r],
         SettledBytes(ns) \in Nat, d.app = Higher(c.app, SettledBytes(ns)),
         d.kill = (c.kill \/ SettledBytes(ns) >= Operational),
         d.life = c.life, d.reported = c.reported
  PROVE  Spends(ns, nt, d) /\ Shut(d)
<1>1. ReservedOf(ns) + SpentOf(ns, nt) <= ReservedOf(rs) + SpentOf(rs, lt)
  BY SumsSettle
<1>2. /\ ReservedOf(ns) \in Nat /\ SpentOf(ns, nt) \in Nat
      /\ ReservedOf(rs) \in Nat /\ SpentOf(rs, lt) \in Nat
  BY SumsNat
<1>3. SpentOf(ns, nt) <= SettledBytes(ns)
  BY SpentIsSettled
<1>4. /\ c.app \in Nat /\ c.reported \in Nat /\ d.app \in Nat /\ Operational \in Nat
  BY BytesAreNaturals DEF Cycles
<1>5. Spends(ns, nt, d)
  BY <1>1, <1>2, <1>3, <1>4 DEF Spends, Higher
<1>6. ASSUME d.life = "active", Higher(d.reported, d.app) >= Operational
      PROVE  d.kill
  <2>1. c.life = "active" /\ (SettledBytes(ns) >= Operational \/ Higher(c.reported, c.app) >= Operational)
    BY <1>4, <1>6 DEF Higher
  <2>2. SettledBytes(ns) >= Operational \/ c.kill
    BY <2>1 DEF Shut
  <2>3. QED
    BY <2>2, Zenon
<1>7. QED
  BY <1>5, <1>6 DEF Shut

\* A step of the ledger that settles nothing.
LEMMA NoSettlementSpends ==
  ASSUME Books, Books', Spends(res, late, cycle), cycle'.app = cycle.app,
         OpenOf(res') = OpenOf(res), SettledOf(res') = SettledOf(res),
         \A r \in Res : /\ res'[r].bytes = res[r].bytes
                        /\ r \in SettledOf(res) => res'[r].est - late'[r] = res[r].est - late[r]
  PROVE  Spends(res', late', cycle')
<1>1. BooksOf(res, late) /\ BooksOf(res', late')
  BY BooksAre, BooksWillBe
<1>2. ReservedOf(res') = ReservedOf(res) /\ SpentOf(res', late') = SpentOf(res, late)
  BY <1>1, SumsStay
<1>3. QED
  BY <1>2 DEF Spends

\* Time, operators and the provider never leave an exhausted cycle open.
LEMMA OutsideShuts ==
  ASSUME Books, Shut(cycle),
         \/ \E r \in Res : Lapse(r)
         \/ (\E n \in Reports : ReconcileSucceeds(n)) \/ ReconcileNowFails
         \/ ActivateKill \/ RevokeLeases \/ ClearKill
         \/ \E on \in BOOLEAN : SetPilot(on)
         \/ OpenCycle \/ CloseCycle \/ TimePasses
         \/ \E on \in BOOLEAN, gen \in 0..MaxGen : ProfileChanges(on, gen)
  PROVE  Shut(cycle')
<1>1. cycle \in Cycles /\ Operational \in Nat
  BY BytesAreNaturals DEF Books
<1>2. CASE UNCHANGED cycle
  BY <1>2
<1>3. CASE \E n \in Reports : ReconcileSucceeds(n)
  <2>1. PICK n \in Reports : cycle' = Reconciled(n)
    BY <1>3 DEF ReconcileSucceeds
  <2>2. n \in Nat /\ cycle.reported \in Nat /\ cycle.app \in Nat
    BY <1>1, BytesAreNaturals DEF Cycles
  <2>3. /\ cycle'.life = cycle.life /\ cycle'.app = cycle.app
        /\ cycle'.reported = Higher(cycle.reported, n)
        /\ cycle'.kill = (cycle.kill \/ Higher(cycle.reported, n) >= Operational)
    BY <1>1, <2>1 DEF Reconciled, Cycles
  <2>4. ASSUME cycle'.life = "active", Higher(cycle'.reported, cycle'.app) >= Operational
        PROVE  cycle'.kill
    <3>1. \/ Higher(cycle.reported, n) >= Operational
          \/ cycle.life = "active" /\ Higher(cycle.reported, cycle.app) >= Operational
      BY <1>1, <2>2, <2>3, <2>4 DEF Higher
    <3>2. Higher(cycle.reported, n) >= Operational \/ cycle.kill
      BY <3>1 DEF Shut
    <3>3. QED
      BY <2>3, <3>2, Zenon
  <2>5. QED
    BY <2>4 DEF Shut
<1>4. CASE ClearKill
  <2>1. Accounted < Operational /\ cycle'.reported = cycle.reported /\ cycle'.app = cycle.app
    BY <1>1, <1>4 DEF ClearKill, SafeToClear, OnCycle, Cycles
  <2>2. QED
    BY <1>1, <2>1 DEF Shut, Accounted, Higher, Cycles
<1>5. CASE ActivateKill \/ RevokeLeases \/ OpenCycle \/ CloseCycle
  <2>1. cycle'.kill = TRUE
    BY <1>1, <1>5 DEF ActivateKill, RevokeLeases, OpenCycle, CloseCycle, OnCycle, Cycles
  <2>2. QED
    BY <2>1 DEF Shut
<1>6. CASE ReconcileNowFails \/ (\E on \in BOOLEAN : SetPilot(on)) \/ TimePasses
  <2>1. \/ cycle' = [cycle EXCEPT !.ok = FALSE]
        \/ \E on \in BOOLEAN : cycle' = [cycle EXCEPT !.pilot = on]
        \/ cycle' = [cycle EXCEPT !.ended = TRUE]
        \/ cycle' = [cycle EXCEPT !.recent = FALSE]
        \/ cycle' = cycle
    BY <1>6 DEF ReconcileNowFails, SetPilot, TimePasses, OnCycle
  <2>2. /\ cycle'.life = cycle.life /\ cycle'.app = cycle.app
        /\ cycle'.reported = cycle.reported /\ cycle'.kill = cycle.kill
    BY <1>1, <2>1 DEF Cycles
  <2>3. QED
    BY <2>2 DEF Shut
<1>7. QED
  BY <1>2, <1>3, <1>4, <1>5, <1>6 DEF Lapse, ProfileChanges

\* Every step keeps the invariant of the budget.
LEMMA BudgetStep == BudgetInv /\ [BudgetNext]_budgetVars => BudgetInv'
<1> SUFFICES ASSUME BudgetInv, [BudgetNext]_budgetVars
             PROVE  Books' /\ AttemptsKnown' /\ Spends(res', late', cycle') /\ Shut(cycle')
  BY SpendsNamed DEF BudgetInv
<1>1. Books /\ AttemptsKnown /\ Spends(res, late, cycle) /\ Shut(cycle)
  BY SpendsNamed DEF BudgetInv
<1>2. BooksOf(res, late) /\ Open = OpenOf(res) /\ Settled = SettledOf(res) /\ Reserved = ReservedOf(res)
  BY <1>1, BooksAre, SumsNamed
<1>3. cycle \in Cycles
  BY <1>1 DEF Books
<1>4. ASSUME NEW r \in Res, NEW b \in Requested, Acquire(r, b)
      PROVE  Books' /\ AttemptsKnown' /\ Spends(res', late', cycle') /\ Shut(cycle')
  <2>1. /\ Books' /\ AttemptsKnown' /\ UNCHANGED <<late, cycle>>
        /\ res[r].state = "none" /\ res'[r].state = "active" /\ res'[r].bytes = b
        /\ \A q \in Res \ {r} : res'[q] = res[q]
        /\ Accounted + Reserved + b <= Operational
    BY <1>1, <1>4, AcquireBooked
  <2>2. BooksOf(res', late)
    BY <2>1, BooksWillBe
  <2>3. ReservedOf(res') = ReservedOf(res) + b /\ SpentOf(res', late) = SpentOf(res, late)
    BY <1>2, <2>1, <2>2, SumsReserve
  <2>4. /\ ReservedOf(res) \in Nat /\ SpentOf(res, late) \in Nat /\ b \in Nat /\ Operational \in Nat
        /\ cycle.app \in Nat /\ cycle.reported \in Nat
    BY <1>2, <1>3, SumsNat, BytesAreNaturals DEF Cycles
  <2>5. Accounted \in Nat /\ cycle.app <= Accounted
    BY <2>4 DEF Accounted, Higher
  <2>6. Spends(res', late, cycle)
    BY <1>1, <1>2, <2>1, <2>3, <2>4, <2>5 DEF Spends
  <2>7. QED
    BY <1>1, <2>1, <2>6
<1>5. ASSUME NEW r \in Res, Release(r)
      PROVE  Books' /\ AttemptsKnown' /\ Spends(res', late', cycle') /\ Shut(cycle')
  <2>1. Books' /\ AttemptsKnown'
    BY <1>1, <1>5, ReleaseBooked
  <2>2. BooksOf(res', late') /\ cycle' \in Cycles
    BY <2>1, BooksWillBe DEF Books
  <2>3. CloseReservation(r, lease[r].used) /\ lease[r].used \in Nat
    BY <1>1, <1>5 DEF Release, Books, Leases
  <2>4. /\ \A q \in Res : /\ res'[q].bytes = res[q].bytes
                          /\ q \in Settled => res'[q].est - late'[q] = res[q].est - late[q]
        /\ cycle'.life = cycle.life /\ cycle'.reported = cycle.reported
        /\ \/ UNCHANGED <<res, late, cycle>>
           \/ /\ SettledBytes(res') \in Nat
              /\ cycle'.app = Higher(cycle.app, SettledBytes(res'))
              /\ cycle'.kill = (cycle.kill \/ SettledBytes(res') >= Operational)
              /\ \/ OpenOf(res') = Open \ {r} /\ SettledOf(res') = Settled \union {r} /\ r \in Open
                 \/ OpenOf(res') = Open /\ SettledOf(res') = Settled
    BY <1>1, <2>3, CloseBooks
  <2>5. CASE UNCHANGED <<res, late, cycle>>
    BY <1>1, <2>1, <2>5
  <2>6. CASE ~UNCHANGED <<res, late, cycle>>
    <3>1. PICK R \in SUBSET OpenOf(res) : OpenOf(res') = OpenOf(res) \ R /\ SettledOf(res') = SettledOf(res) \union R
      <4>1. CASE OpenOf(res') = Open \ {r} /\ SettledOf(res') = Settled \union {r} /\ r \in Open
        BY <1>2, <4>1
      <4>2. CASE OpenOf(res') = Open /\ SettledOf(res') = Settled
        <5>1. {} \in SUBSET OpenOf(res) /\ OpenOf(res') = OpenOf(res) \ {} /\ SettledOf(res') = SettledOf(res) \union {}
          BY <1>2, <4>2
        <5>2. QED
          BY <5>1
      <4>3. QED
        BY <2>4, <2>6, <4>1, <4>2
    <3>2. Spends(res', late', cycle') /\ Shut(cycle')
      BY <1>1, <1>2, <1>3, <2>2, <2>4, <2>6, <3>1, SettlementSpends
    <3>3. QED
      BY <2>1, <3>2
  <2>7. QED
    BY <2>5, <2>6
<1>6. ASSUME CloseStale
      PROVE  Books' /\ AttemptsKnown' /\ Spends(res', late', cycle') /\ Shut(cycle')
  <2>1. /\ Books' /\ AttemptsKnown' /\ UNCHANGED late
        /\ SettledBytes(res') \in Nat
        /\ cycle'.app = Higher(cycle.app, SettledBytes(res'))
        /\ cycle'.kill = (cycle.kill \/ SettledBytes(res') >= Operational)
        /\ cycle'.life = cycle.life /\ cycle'.reported = cycle.reported
        /\ \A q \in Res : res'[q].est = res[q].est /\ res'[q].bytes = res[q].bytes
        /\ \E R \in SUBSET Open : OpenOf(res') = Open \ R /\ SettledOf(res') = Settled \union R
    BY <1>1, <1>6, CloseStaleBooked
  <2>2. BooksOf(res', late') /\ cycle' \in Cycles
    BY <2>1, BooksWillBe DEF Books
  <2>3. PICK R \in SUBSET OpenOf(res) : OpenOf(res') = OpenOf(res) \ R /\ SettledOf(res') = SettledOf(res) \union R
    BY <1>2, <2>1
  <2>4. \A q \in Res : /\ res'[q].bytes = res[q].bytes
                       /\ q \in SettledOf(res) => res'[q].est - late'[q] = res[q].est - late[q]
    BY <2>1
  <2>5. Spends(res', late', cycle') /\ Shut(cycle')
    BY <1>1, <1>2, <1>3, <2>1, <2>2, <2>3, <2>4, SettlementSpends
  <2>6. QED
    BY <2>1, <2>5
<1>7. ASSUME NEW r \in Res, NEW a \in Att, NEW n \in Actuals, NEW lost \in BOOLEAN, Reconcile(r, a, n, lost)
      PROVE  Books' /\ AttemptsKnown' /\ Spends(res', late', cycle') /\ Shut(cycle')
  <2>1. /\ Books' /\ AttemptsKnown' /\ UNCHANGED cycle
        /\ \A q \in Res : /\ res'[q].state = res[q].state /\ res'[q].bytes = res[q].bytes
                          /\ q \in Settled => res'[q].est - late'[q] = res[q].est - late[q]
    BY <1>1, <1>7, ReconcileBooked
  <2>2. OpenOf(res') = OpenOf(res) /\ SettledOf(res') = SettledOf(res)
    BY <2>1 DEF OpenOf, SettledOf
  <2>3. Spends(res', late', cycle')
    BY <1>1, <1>2, <2>1, <2>2, NoSettlementSpends
  <2>4. QED
    BY <1>1, <2>1, <2>3
<1>8. ASSUME NEW r \in Res,
             \/ \E n \in Actuals \ {0} : ProbeSpends(r, n)
             \/ Dies(r) \/ AuthorizeDenied(r)
             \/ \E a \in Att :
                  \/ \E e \in Estimates : Authorize(r, a, e)
                  \/ \E lost \in BOOLEAN : AuthorizeReturns(r, a, lost)
                  \/ ReconcileFails(r, a) \/ ReleaseAttempt(r, a)
      PROVE  Books' /\ AttemptsKnown' /\ Spends(res', late', cycle') /\ Shut(cycle')
  <2>1. Books' /\ AttemptsKnown' /\ UNCHANGED <<res, late, cycle>>
    BY <1>1, <1>8, LeasesBooked
  <2>2. QED
    BY <1>1, <2>1
<1>9. ASSUME \/ \E r \in Res : Lapse(r)
             \/ (\E n \in Reports : ReconcileSucceeds(n)) \/ ReconcileNowFails
             \/ ActivateKill \/ RevokeLeases \/ ClearKill
             \/ \E on \in BOOLEAN : SetPilot(on)
             \/ OpenCycle \/ CloseCycle \/ TimePasses
             \/ \E on \in BOOLEAN, gen \in 0..MaxGen : ProfileChanges(on, gen)
      PROVE  Books' /\ AttemptsKnown' /\ Spends(res', late', cycle') /\ Shut(cycle')
  <2>1. /\ Books' /\ AttemptsKnown' /\ UNCHANGED late
        /\ \A q \in Res : /\ res'[q].est = res[q].est /\ res'[q].bytes = res[q].bytes
                          /\ q \in Open <=> q \in OpenOf(res')
                          /\ q \in Settled <=> q \in SettledOf(res')
        /\ cycle'.app = cycle.app
    BY <1>1, <1>9, OutsideBooked
  <2>2. OpenOf(res') = OpenOf(res) /\ SettledOf(res') = SettledOf(res)
    BY <1>2, <2>1, OpenAndSettled
  <2>3. Spends(res', late', cycle')
    BY <1>1, <2>1, <2>2, NoSettlementSpends
  <2>4. Shut(cycle')
    BY <1>1, <1>9, OutsideShuts
  <2>5. QED
    BY <2>1, <2>3, <2>4
<1>10. CASE UNCHANGED budgetVars
  <2>1. Books' /\ AttemptsKnown' /\ UNCHANGED <<res, late, cycle>>
    BY <1>1, <1>10 DEF budgetVars, Books, AttemptsKnown
  <2>2. QED
    BY <1>1, <2>1
<1>11. QED
  BY <1>4, <1>5, <1>6, <1>7, <1>8, <1>9, <1>10 DEF BudgetNext

\* The invariant keeps the tables' shapes.
LEMMA BudgetTyped == BudgetInv => BudgetTypeOK
<1> SUFFICES ASSUME Books, AttemptsKnown PROVE BudgetTypeOK
  BY DEF BudgetInv
<1>1. /\ cycle \in Cycles /\ profile \in [on : BOOLEAN, gen : 0..MaxGen]
      /\ \A a \in Att : att[a].state \in AttStates
  BY DEF Books
<1>2. ASSUME NEW r \in Res
      PROVE  /\ res[r].state \in {"none", "active", "revocation_requested", "closed", "cancelled"}
             /\ res[r].est \in Nat /\ res[r].bytes \in {0} \union Requested
  BY DEF Books, Reservations, ResStates
<1>3. ASSUME NEW r \in Res
      PROVE  /\ \A a \in lease[r].pending \union lease[r].flying : att[a].of = r
             /\ \A a \in lease[r].pending : att[a].state = "authorized" \/ lease[r].failed
  BY DEF AttemptsKnown, OnTheWay
<1>4. QED
  BY <1>1, <1>2, <1>3 DEF BudgetTypeOK, Cycles, AttStates

\* The invariant always holds.
LEMMA BudgetAlways == BudgetSpec => []BudgetInv
<1>1. BudgetInit => BudgetInv
  BY BudgetInitBooks, BudgetInitSpends, SpendsNamed DEF BudgetInv
<1>2. QED
  BY <1>1, BudgetStep, PTL DEF BudgetSpec

\* Whatever jobs and probes reserve, spend and lose track of, what is reserved
\* and what settled reservations spent in time fit the operational ceiling.
THEOREM SpendStaysWithinCeiling == BudgetSpec => []SpendFitsCeiling
<1>1. BudgetInv => SpendFitsCeiling
  BY DEF BudgetInv
<1>2. QED
  BY <1>1, BudgetAlways, PTL

\* A cycle whose counts reached the ceiling is shut, in whichever order the
\* counts arrive and operators work the switch.
THEOREM ExhaustedCycleIsShut == BudgetSpec => []ExhaustedIsShut
<1>1. BudgetInv => ExhaustedIsShut
  BY DEF BudgetInv
<1>2. QED
  BY <1>1, BudgetAlways, PTL

\* The rows keep their shapes, and what a process counts as pending is authorized
\* under its own reservation unless it lost a reply.
THEOREM BudgetTypeCorrect == BudgetSpec => []BudgetTypeOK
BY BudgetTyped, BudgetAlways, PTL

=============================================================================
