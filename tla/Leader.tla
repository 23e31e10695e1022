------------------------------- MODULE Leader -------------------------------
(***************************************************************************)
(* What exactly one worker does: firing schedules and bringing sources     *)
(* back.                                                                   *)
(*                                                                         *)
(* Every worker tries a transaction-scoped advisory lock each tick.  The   *)
(* one that gets it locks the due rows of catalogue.schedules, turns each  *)
(* into a run with its jobs, now and then probes the sites of disabled     *)
(* sources, and commits.  Operators edit schedules and sources meanwhile.  *)
(* (ops/schedule.py, ops/runs.py create_run and create_jobs, ops/health.py,*)
(* ops/worker.py lead, catalogue_control/app.py)                           *)
(*                                                                         *)
(* Time counts in ticks.  A cron expression in its time zone is the list   *)
(* of instants it names, modelled by a period; a worker's clock may be     *)
(* some ticks off the database's.  What the leader's transaction wrote is  *)
(* staged until it commits; a probe commits on a connection of its own.    *)
(***************************************************************************)
EXTENDS Integers, FiniteSets

CONSTANTS
  Workers, Scheds, Sources,
  Crons,        \* periods a schedule may have
  Selections,   \* what _select_sources may return for a filter
  Skews,        \* a worker's clock minus the database's
  MissedCap,    \* _missed_between looks at this many occurrences
  RequiredOk,   \* source_health_probes.required_ok
  Poisonable,   \* sources whose proxy policy may come to name a disabled route
  Ailing,       \* sources whose site goes down
  MaxTime,      \* bound: the last tick
  MaxEvents,    \* bound: edits by operators, outages and failures of workers
  Null, Nobody

ASSUME CronsArePos == Crons \subseteq Nat \ {0}
ASSUME CronsAreBounded == \E c \in Crons : \A d \in Crons : d <= c
ASSUME SkewsAreInt == Skews \subseteq Int /\ 0 \in Skews
ASSUME SelectionsOfSources == Selections \subseteq SUBSET Sources
ASSUME SomeSources == Poisonable \subseteq Sources /\ Ailing \subseteq Sources
ASSUME CapIsPos == MissedCap \in Nat \ {0} /\ RequiredOk \in Nat \ {0}
ASSUME BoundsAreNat == MaxTime \in Nat /\ MaxEvents \in Nat
ASSUME NullIsNoTime == Null \notin Int
ASSUME NobodyIsNoWorker == Nobody \notin Workers

VARIABLES
  now,      \* the database's clock
  sched,    \* catalogue.schedules
  runs,     \* catalogue.runs of schedules, with the sources that got a job
  enabled,  \* source_settings.enabled
  probe,    \* source_health_probes: consecutive_ok and whether it is pending
  poison,   \* sources create_jobs refuses with a ValueError
  up,       \* worker processes that are running
  leader,   \* who holds the advisory lock
  locked,   \* schedule rows its transaction locked
  owed,     \* those it has not fired yet
  staged,   \* its uncommitted rows
  made,     \* its uncommitted runs
  asking,   \* sites it still has to probe
  probed,   \* it has read which sites to probe, once per tick
  held,     \* sites that held up, not brought back yet
  events

txn  == <<leader, locked, owed, staged, made, asking, probed, held>>
db   == <<sched, runs>>
vars == <<now, sched, runs, enabled, probe, poison, up, leader, locked, owed, staged, made, asking, probed, held, events>>

Time == Int
Sched == [enabled : BOOLEAN, cron : Crons, sel : Selections,
          next : Time \union {Null}, last : Time \union {Null}]
Run   == [id : Nat, sched : Scheds, at : Time, made : Time, jobs : SUBSET Sources, open : BOOLEAN]

Init ==
  /\ now = (CHOOSE c \in Crons : \A d \in Crons : d <= c)
  /\ \E c \in Crons, f \in Selections :
       sched = [s \in Scheds |-> [enabled |-> TRUE, cron |-> c, sel |-> f, next |-> Null, last |-> Null]]
  /\ runs = {}
  /\ enabled = [x \in Sources |-> TRUE]
  /\ probe = [x \in Sources |-> [pending |-> FALSE, ok |-> 0]]
  /\ poison = {}
  /\ up = Workers
  /\ leader = Nobody
  /\ locked = {} /\ owed = {} /\ made = {} /\ asking = {} /\ probed = FALSE /\ held = {}
  /\ staged = sched
  /\ events = 0

-----------------------------------------------------------------------------
(* schedule.py *)

next_fire(c, t)     == (t \div c + 1) * c
previous_fire(c, t) == ((t - 1) \div c) * c

\* Occurrences in (start, end], the first MissedCap of them, or start alone.
missed_between(c, start, end) ==
  LET all == {t \in start + 1 .. end : t % c = 0}
      few == {t \in all : Cardinality({u \in all : u <= t}) <= MissedCap}
  IN IF all = {} THEN {start} ELSE few

\* Which occurrence a due schedule is fired for, at worker time t.
FireAt(r, t) ==
  LET first  == IF r.next = Null THEN previous_fire(r.cron, t) ELSE r.next
      missed == missed_between(r.cron, first, t)
  IN IF Cardinality(missed) > 1 THEN CHOOSE x \in missed : \A y \in missed : y <= x ELSE first

\* Fault: the cursor advances from the occurrence that fired.
CursorFromOccurrence(r, at, t) == next_fire(r.cron, at)

\* next_fire_at after a firing: the next occurrence after the worker's clock.
Cursor(r, at, t) == next_fire(r.cron, t)

DueNow(r) == r.enabled /\ (r.next = Null \/ r.next <= now)

\* Fault: on conflict is forgotten.
TakenNever(s, at) == FALSE

\* create_run: the unique (schedule_id, scheduled_fire_at) rejects a second run.
Taken(s, at) == \E r \in runs \union made : r.sched = s /\ r.at = at

\* create_jobs: one job per selected source that is not disabled.
JobsFor(sel) == {x \in sel : enabled[x]}

\* create_run and create_jobs: a run that got no job is closed at once.
NewRun(s, at, t, sel) ==
  [id |-> Cardinality(runs \union made), sched |-> s, at |-> at, made |-> t, jobs |-> JobsFor(sel),
   open |-> JobsFor(sel) # {}]

-----------------------------------------------------------------------------
(* Worker.lead *)

\* try_become_leader and DUE: the lock is free, the due rows are locked.
Lead(w) ==
  /\ w \in up
  /\ leader = Nobody
  /\ leader' = w
  /\ locked' = {s \in Scheds : DueNow(sched[s])}
  /\ owed' = locked'
  /\ staged' = sched
  /\ made' = {}
  /\ asking' = {} /\ probed' = FALSE /\ held' = {}
  /\ UNCHANGED <<now, db, enabled, probe, poison, up, events>>

\* _fire for one row, read and written in the leader's transaction.
Fire(s) ==
  /\ leader # Nobody
  /\ s \in owed
  /\ \E d \in Skews :
       LET r   == staged[s]
           t   == now + d
           at  == FireAt(r, t)
           new == ~Taken(s, at)
       IN /\ new => JobsFor(r.sel) \intersect poison = {}
          /\ made' = IF new THEN made \union {NewRun(s, at, t, r.sel)} ELSE made
          /\ staged' = [staged EXCEPT ![s].last = IF new THEN at ELSE @,
                                      ![s].next = Cursor(r, at, t)]
  /\ owed' = owed \ {s}
  /\ UNCHANGED <<now, db, enabled, probe, poison, up, leader, locked, asking, probed, held, events>>

\* The transaction of a leader that is done, failed or dead leaves nothing.
EndTxn ==
  /\ leader' = Nobody
  /\ locked' = {} /\ owed' = {} /\ made' = {} /\ asking' = {} /\ probed' = FALSE /\ held' = {}

\* create_jobs raises ValueError: the transaction rolls back and, as lead() only
\* expects a psycopg.Error, the exception ends the worker.
FirePoisoned(s) ==
  /\ leader # Nobody
  /\ s \in owed
  /\ JobsFor(staged[s].sel) \intersect poison # {}
  /\ \E d \in Skews : ~Taken(s, FireAt(staged[s], now + d))
  /\ EndTxn
  /\ staged' = sched
  /\ up' = up \ {leader}
  /\ UNCHANGED <<now, db, enabled, probe, poison, events>>

\* check_recovered begins: PENDING is read, the leader's transaction still open.
StartProbes ==
  /\ leader # Nobody /\ owed = {} /\ ~probed
  /\ asking' = {x \in Sources : probe[x].pending}
  /\ probed' = TRUE
  /\ UNCHANGED <<now, db, enabled, probe, poison, up, leader, locked, owed, staged, made, held, events>>

\* _probe and _record of an answer that does not count.
ProbeFails(x) ==
  /\ x \in asking /\ held = {}
  /\ probe' = [probe EXCEPT ![x].ok = 0]
  /\ asking' = asking \ {x}
  /\ UNCHANGED <<now, db, enabled, poison, up, leader, locked, owed, staged, made, probed, held, events>>

\* consecutive_ok has reached required_ok.
HeldUp(n) == n >= RequiredOk

\* _probe and _record of a good answer: it is counted at once.
ProbeSucceeds(x) ==
  /\ x \in asking /\ held = {}
  /\ probe' = [probe EXCEPT ![x].ok = @ + 1]
  /\ asking' = asking \ {x}
  /\ held' = IF HeldUp(probe[x].ok + 1) THEN {x} ELSE {}
  /\ UNCHANGED <<now, db, enabled, poison, up, leader, locked, owed, staged, made, probed, events>>

\* Fault: the source is enabled again outside the transaction that closes its probe.
ReviveProbeOnly(x) ==
  /\ x \in held
  /\ held' = {}
  /\ probe' = [probe EXCEPT ![x].pending = FALSE]
  /\ UNCHANGED <<now, db, enabled, poison, up, leader, locked, owed, staged, made, asking, probed, events>>

\* The rest of _record, a transaction of its own: the source is back in runs and
\* its probe is over, whatever happened to either since the answer was counted.
Revive(x) ==
  /\ x \in held
  /\ held' = {}
  /\ enabled' = [enabled EXCEPT ![x] = TRUE]
  /\ probe' = [probe EXCEPT ![x].pending = FALSE]
  /\ UNCHANGED <<now, db, poison, up, leader, locked, owed, staged, made, asking, probed, events>>

\* Fault: the connection goes back to the pool without a commit.
CommitForgotten(w) ==
  /\ leader = w /\ owed = {} /\ asking = {} /\ held = {}
  /\ EndTxn
  /\ staged' = sched
  /\ UNCHANGED <<now, db, enabled, probe, poison, up, events>>

Commit(w) ==
  /\ leader = w /\ owed = {} /\ asking = {} /\ held = {}
  /\ sched' = [s \in Scheds |-> IF s \in locked THEN staged[s] ELSE sched[s]]
  /\ runs' = runs \union made
  /\ EndTxn
  /\ staged' = sched'
  /\ UNCHANGED <<now, enabled, probe, poison, up, events>>

\* A statement fails (lead_failed) or the process dies: everything rolls back.
Rollback(w) ==
  /\ leader = w
  /\ events < MaxEvents
  /\ EndTxn
  /\ staged' = sched
  /\ up' \in {up, up \ {w}}
  /\ events' = events + 1
  /\ UNCHANGED <<now, db, enabled, probe, poison>>

\* The container's restart policy.
Restart(w) ==
  /\ w \notin up
  /\ up' = up \union {w}
  /\ UNCHANGED <<now, db, enabled, probe, poison, txn, events>>

-----------------------------------------------------------------------------
(* Operators and time. *)

\* update_schedule: UPSERT_SCHEDULE waits for the row's lock and keeps the cursor.
UpdateSchedule(s) ==
  /\ events < MaxEvents
  /\ s \notin locked
  /\ \E b \in BOOLEAN, c \in Crons, f \in Selections :
       sched' = [sched EXCEPT ![s].enabled = b, ![s].cron = c, ![s].sel = f]
  /\ events' = events + 1
  /\ UNCHANGED <<now, runs, enabled, probe, poison, up, txn>>

\* health.disable: the switch and the probe, in one transaction.
Disable(x) ==
  /\ events < MaxEvents
  /\ enabled' = [enabled EXCEPT ![x] = FALSE]
  /\ probe' = [probe EXCEPT ![x] = [pending |-> TRUE, ok |-> 0]]
  /\ events' = events + 1
  /\ UNCHANGED <<now, db, poison, up, txn>>

\* The route or profile a source's policy names is disabled, or enabled again.
SwitchRoute(x) ==
  /\ events < MaxEvents
  /\ poison' = IF x \in poison THEN poison \ {x} ELSE poison \union {x}
  /\ events' = events + 1
  /\ UNCHANGED <<now, db, enabled, probe, up, txn>>

Tick ==
  /\ now < MaxTime
  /\ now' = now + 1
  /\ UNCHANGED <<db, enabled, probe, poison, up, txn, events>>

Work ==
  \/ \E s \in Scheds : Fire(s) \/ FirePoisoned(s)
  \/ StartProbes
  \/ \E x \in Sources : ProbeFails(x) \/ ProbeSucceeds(x) \/ Revive(x)

Next ==
  \/ Work \/ Tick
  \/ \E w \in Workers : Lead(w) \/ Commit(w) \/ Rollback(w) \/ Restart(w)
  \/ \E s \in Scheds : UpdateSchedule(s)
  \/ \E x \in Ailing : Disable(x)
  \/ \E x \in Poisonable : SwitchRoute(x)

Spec == Init /\ [][Next]_vars

\* Workers keep ticking, dead ones are restarted by their container's policy, and
\* the database answers again after a failure (failures are bounded).
FairSpec ==
  /\ Spec
  /\ WF_vars(Work)
  /\ WF_vars(\E w \in Workers : Lead(w))
  /\ WF_vars(\E w \in Workers : Commit(w))
  /\ WF_vars(\E w \in Workers : Restart(w))

-----------------------------------------------------------------------------
(* Properties. *)

\* Types of the tables and of the leader's transaction (catalogue.schedules,
\* catalogue.runs, source_health_probes).
TypeOK ==
  /\ now \in Nat /\ events \in 0..MaxEvents
  /\ sched \in [Scheds -> Sched] /\ staged \in [Scheds -> Sched]
  /\ \A r \in runs \union made : r \in Run
  /\ enabled \in [Sources -> BOOLEAN]
  /\ probe \in [Sources -> [pending : BOOLEAN, ok : Nat]]
  /\ poison \subseteq Poisonable /\ up \subseteq Workers /\ asking \subseteq Sources /\ held \subseteq Sources
  /\ leader \in up \union {Nobody} /\ owed \subseteq locked /\ locked \subseteq Scheds
  /\ leader = Nobody => locked = {} /\ made = {} /\ asking = {} /\ ~probed /\ held = {}

\* One occurrence of a schedule is materialised once, whatever leaders follow
\* each other, crash, roll back or read a clock that is off (schedule.py
\* fire_due, runs.py create_run: "idempotent rather than merely mutually
\* exclusive").
OncePerOccurrence ==
  \A r, q \in runs \union made : r.sched = q.sched /\ r.at = q.at => r = q

\* No catch-up herd: an occurrence that was already past when a run of its
\* schedule was made is never materialised after it, through downtime, edits of
\* the cron, rollbacks and clocks that are off (schedule.py _fire).
NoCatchUpHerd ==
  \A r, q \in runs : r.sched = q.sched /\ r.id < q.id => q.at > r.made /\ q.at > r.at

\* A source the health probe took out has a pending probe until it is back in
\* runs: disabling and recovering race without leaving it out for ever
\* (health.py disable: "a source disabled without a probe is one nobody will
\* re-enable").
DisabledIsProbed == \A x \in Sources : ~enabled[x] => probe[x].pending

\* A due schedule is fired, unless an operator switches it off or one of its
\* sources cannot get jobs (worker.py lead: "another worker will hold the lock
\* next tick").
Owing(s) ==
  /\ DueNow(sched[s])
  /\ ~\E r \in runs : r.sched = s /\ (sched[s].next = Null \/ r.at >= sched[s].next)
DueScheduleFires ==
  \A s \in Scheds : Owing(s) ~> (~Owing(s) \/ JobsFor(sched[s].sel) \intersect poison # {})

=============================================================================
