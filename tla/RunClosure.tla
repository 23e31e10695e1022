----------------------------- MODULE RunClosure -----------------------------
(***************************************************************************)
(* How a run is closed: mb_ceramics_catalogue/ops/runs.py, and the other   *)
(* places that put a job into a terminal state (ops/queue.py and the       *)
(* operator API).                                                          *)
(*                                                                         *)
(* A run is a set of jobs.  Every writer that ends a job opens a           *)
(* PostgreSQL transaction, updates the job row, locks the run row with     *)
(* SELECT ... FOR UPDATE, counts the siblings that are not terminal and,   *)
(* when there is none, records the run's status and summary.  The model    *)
(* keeps those statements apart: under READ COMMITTED an update is         *)
(* invisible to the other transactions until its commit, and each          *)
(* statement reads what is committed when it runs.                         *)
(***************************************************************************)
EXTENDS Naturals, FiniteSets

CONSTANTS
  Jobs,        \* the jobs of one run (create_jobs inserts one per source)
  MaxRetries,  \* bound: operator retries of a finished job
  NoOne        \* the run row is not locked

\* create_jobs closes a run that got no job itself.
ASSUME SomeJob == Jobs # {}
ASSUME NoOneIsNoJob == NoOne \notin Jobs
ASSUME MaxRetriesIsNat == MaxRetries \in Nat

VARIABLES
  state,       \* catalogue.jobs.state as committed, per job
  txn,         \* the transaction that is ending the job, if one is open
  lock,        \* the job whose transaction holds the run row, or NoOne
  run,         \* catalogue.runs: status and summary
  cancel,      \* how far a cancel_run request is, and the tally it has read
  gap,         \* history: ways in which the run row may be out of date
  retries      \* operator retries so far

vars == <<state, txn, lock, run, cancel, gap, retries>>

TERMINAL == {"succeeded", "degraded", "failed", "cancelled", "skipped"}
Active   == {"queued", "running"}

\* What the transaction ending job j has done so far.  "open": the job row is
\* updated; "locked": the run row is locked too; "leaving", "counted": some, or
\* no, sibling was outstanding when they were counted.
Phases == {"none", "open", "locked", "leaving", "counted"}
Closed == {"cancelled", "degraded", "failed", "complete"}

NoTxn == [phase |-> "none", outcome |-> "none"]

\* cancel_run runs in autocommit, one statement after the other: "updated"
\* after CANCEL_RUN, "tallied" once close_run_if_done has read its tally.
NoSnapshot == [j \in Jobs |-> "none"]
NoCancel == [phase |-> "none", tally |-> NoSnapshot]

\* "exhausted": reserve() failed a job and left the run alone.
\* "autocommit": cancel_run stored a tally that was no longer the jobs'.
Gaps == {"exhausted", "autocommit"}

-----------------------------------------------------------------------------
(* The rule of _close_run_if_done.  The summary it stores counts the jobs  *)
(* in each state; the snapshot of the states carries the same information. *)

Has(snapshot, s) == \E j \in Jobs : snapshot[j] = s

\* `usable` in the code: at least one source produced a catalogue.
Usable(snapshot) == Has(snapshot, "succeeded") \/ Has(snapshot, "degraded")

StatusOf(snapshot) ==
  IF Has(snapshot, "cancelled") /\ ~Usable(snapshot) /\ ~Has(snapshot, "failed")
    THEN "cancelled"
  ELSE IF Usable(snapshot) /\ \E s \in {"degraded", "failed", "cancelled"} : Has(snapshot, s)
    THEN "degraded"
  ELSE IF Has(snapshot, "failed") THEN "failed"
  ELSE "complete"

AllDone(snapshot) == \A j \in Jobs : snapshot[j] \in TERMINAL

\* What a statement of j's transaction reads: the committed rows and its own.
Seen(j) == [state EXCEPT ![j] = txn[j].outcome]

OpenRun(status) == [status |-> status, summary |-> NoSnapshot]
ClosedRun(snapshot) == [status |-> StatusOf(snapshot), summary |-> snapshot]

-----------------------------------------------------------------------------

Init ==
  /\ state = [j \in Jobs |-> "queued"]
  /\ txn = [j \in Jobs |-> NoTxn]
  /\ lock = NoOne
  /\ run = OpenRun("queued")
  /\ cancel = NoCancel
  /\ gap = {}
  /\ retries = 0

\* queue.start then runs.start_run: the first job to start moves the run out
\* of `queued`; a run that was closed keeps its status.
StartJob(j) ==
  /\ state[j] = "queued"
  /\ txn[j] = NoTxn
  /\ run.status = "queued" => lock = NoOne
  /\ state' = [state EXCEPT ![j] = "running"]
  /\ run' = IF run.status = "queued" THEN [run EXCEPT !.status = "running"] ELSE run
  /\ UNCHANGED <<txn, lock, cancel, gap, retries>>

\* reconcile and release give a job back to the queue.
Requeue(j) ==
  /\ state[j] = "running"
  /\ txn[j] = NoTxn
  /\ state' = [state EXCEPT ![j] = "queued"]
  /\ UNCHANGED <<txn, lock, run, cancel, gap, retries>>

\* The first statement of a transaction that ends j: finish_job by its worker,
\* reserve (cancelled or skipped), reconcile (failed), or the operator's
\* CANCEL_JOB / DISABLE_SOURCE_JOBS.  The row stays locked by it until commit.
EndJob(j, outcome) ==
  /\ state[j] \in Active
  /\ txn[j] = NoTxn
  /\ outcome \in {"succeeded", "degraded"} => state[j] = "running"
  /\ txn' = [txn EXCEPT ![j] = [phase |-> "open", outcome |-> outcome]]
  /\ UNCHANGED <<state, lock, run, cancel, gap, retries>>

\* Fault: the run row is read without FOR UPDATE, so nobody waits for it.
LockRunNoWait(j) ==
  /\ txn[j].phase = "open"
  /\ lock' = j
  /\ txn' = [txn EXCEPT ![j].phase = "locked"]
  /\ UNCHANGED <<state, run, cancel, gap, retries>>

\* select id from catalogue.runs where id = ... for update
LockRun(j) ==
  /\ txn[j].phase = "open"
  /\ lock = NoOne
  /\ lock' = j
  /\ txn' = [txn EXCEPT ![j].phase = "locked"]
  /\ UNCHANGED <<state, run, cancel, gap, retries>>

\* Commit of j's transaction: its row becomes visible, its locks are freed.
Commit(j) ==
  /\ state' = Seen(j)
  /\ txn' = [txn EXCEPT ![j] = NoTxn]
  /\ lock' = NoOne
  /\ UNCHANGED <<cancel, retries>>

\* The count of outstanding siblings: some remain, so the run is left alone.
CountSome(j) ==
  /\ txn[j].phase = "locked"
  /\ ~AllDone(Seen(j))
  /\ txn' = [txn EXCEPT ![j].phase = "leaving"]
  /\ UNCHANGED <<state, lock, run, cancel, gap, retries>>

\* ... and the transaction commits.
Leave(j) ==
  /\ txn[j].phase = "leaving"
  /\ Commit(j)
  /\ UNCHANGED <<run, gap>>

\* None remains: go on to the tally.
CountNone(j) ==
  /\ txn[j].phase = "locked"
  /\ AllDone(Seen(j))
  /\ txn' = [txn EXCEPT ![j].phase = "counted"]
  /\ UNCHANGED <<state, lock, run, cancel, gap, retries>>

\* The tally is a second statement; status and summary are stored and the
\* transaction commits.
CloseRun(j) ==
  /\ txn[j].phase = "counted"
  /\ run' = ClosedRun(Seen(j))
  /\ gap' = {}
  /\ Commit(j)

\* The connection is lost, or the worker dies, before the commit.
Abort(j) ==
  /\ txn[j] # NoTxn
  /\ txn' = [txn EXCEPT ![j] = NoTxn]
  /\ lock' = IF lock = j THEN NoOne ELSE lock
  /\ UNCHANGED <<state, run, cancel, gap, retries>>

\* reserve() finds the attempt budget spent: the job is failed and the
\* transaction commits without looking at the run.
ReserveExhausted(j) ==
  /\ state[j] \in Active
  /\ txn[j] = NoTxn
  /\ state' = [state EXCEPT ![j] = "failed"]
  /\ gap' = gap \union {"exhausted"}
  /\ UNCHANGED <<txn, lock, run, cancel, retries>>

\* cancel_run, first statement (CANCEL_RUN): every queued job is cancelled; a
\* running one only gets its flag and is ended by its worker.  The update
\* waits for the rows that open transactions have changed.
CancelRun ==
  /\ cancel = NoCancel
  /\ \E j \in Jobs : state[j] \in Active
  /\ \A j \in Jobs : txn[j] = NoTxn
  /\ state' = [j \in Jobs |-> IF state[j] = "queued" THEN "cancelled" ELSE state[j]]
  /\ cancel' = [cancel EXCEPT !.phase = "updated"]
  /\ UNCHANGED <<txn, lock, run, gap, retries>>

\* cancel_run, close_run_if_done: in autocommit the row lock is gone as soon as
\* the SELECT ... FOR UPDATE has returned, before the siblings are counted.
CancelTally ==
  /\ cancel.phase = "updated"
  /\ lock = NoOne
  /\ cancel' = IF AllDone(state) THEN [phase |-> "tallied", tally |-> state]
                ELSE NoCancel
  /\ UNCHANGED <<state, txn, lock, run, gap, retries>>

CancelStore ==
  /\ cancel.phase = "tallied"
  /\ lock = NoOne
  /\ run' = ClosedRun(cancel.tally)
  /\ cancel' = NoCancel
  /\ gap' = IF cancel.tally = state THEN {} ELSE gap \union {"autocommit"}
  /\ UNCHANGED <<state, txn, lock, retries>>

\* RETRY_JOB: a finished job is queued again; the run row is not touched.
RetryJob(j) ==
  /\ state[j] \in TERMINAL
  /\ retries < MaxRetries
  /\ state' = [state EXCEPT ![j] = "queued"]
  /\ retries' = retries + 1
  /\ UNCHANGED <<txn, lock, run, cancel, gap>>

Next ==
  \/ CancelRun
  \/ CancelTally
  \/ CancelStore
  \/ \E j \in Jobs :
       \/ StartJob(j) \/ Requeue(j) \/ ReserveExhausted(j) \/ RetryJob(j)
       \/ \E outcome \in TERMINAL : EndJob(j, outcome)
       \/ LockRun(j) \/ CountSome(j) \/ Leave(j) \/ CountNone(j) \/ CloseRun(j)
       \/ Abort(j)

Spec == Init /\ [][Next]_vars

-----------------------------------------------------------------------------

TypeOK ==
  /\ state \in [Jobs -> Active \union TERMINAL]
  /\ txn \in [Jobs -> [phase : Phases, outcome : TERMINAL \union {"none"}]]
  /\ \A j \in Jobs : txn[j].phase = "none" <=> txn[j].outcome = "none"
  /\ lock \in Jobs \union {NoOne}
  /\ run \in [status : {"queued", "running"} \union Closed,
             summary : [Jobs -> Active \union TERMINAL \union {"none"}]]
  /\ cancel \in [phase : {"none", "updated", "tallied"},
                tally : [Jobs -> Active \union TERMINAL \union {"none"}]]
  /\ gap \in SUBSET Gaps
  /\ retries \in 0..MaxRetries

\* Nobody is in the middle of ending a job or cancelling the run.
Quiet == cancel = NoCancel /\ \A j \in Jobs : txn[j] = NoTxn

Recorded == Quiet /\ AllDone(state) => run = ClosedRun(state)

\* The inductive core of OutcomeRecorded.  The run row is locked by exactly the
\* transactions that have counted or are about to; an open transaction's job is
\* not terminal for anybody else; and a transaction that leaves the run open
\* does so because another job is still active, which the lock keeps true.
Locking ==
  \A j \in Jobs : lock = j <=> txn[j].phase \in {"locked", "leaving", "counted"}
OpenIsActive == \A j \in Jobs : txn[j] # NoTxn => state[j] \in Active
LeavesToSomeone ==
  gap = {} => \A j \in Jobs : txn[j].phase = "leaving" =>
                 \E i \in Jobs \ {j} : state[i] \in Active
IInv == TypeOK /\ Locking /\ OpenIsActive /\ LeavesToSomeone /\ (gap = {} => Recorded)

\* finish_job, reserve (cancelled, skipped), reconcile and the operator's
\* cancel_job: whatever the interleaving of their transactions, of cancel_run
\* and of retries, once the last sibling is terminal the run row holds the
\* status and the summary of exactly those outcomes - unless one of the two
\* gaps is open.
OutcomeRecorded == gap = {} => Recorded

=============================================================================
