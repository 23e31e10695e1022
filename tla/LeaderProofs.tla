---------------------------- MODULE LeaderProofs ----------------------------
(***************************************************************************)
(* What holds of schedules and health probes for any number of workers,    *)
(* schedules, sources, edits and crashes, and for any cron periods.        *)
(*                                                                         *)
(* That an occurrence is materialised once rests on the unique key of      *)
(* catalogue.runs alone.  That no occurrence of the past is materialised   *)
(* after a run of its schedule needs more: the cursor next_fire_at is past *)
(* the moment every run was made at and not behind its occurrence, in the  *)
(* committed row and in the leader's uncommitted one (CursorsAhead), and a *)
(* due row that the leader has locked is still the one it read (Staging).  *)
(* The cursor is computed from the worker's clock, so this holds for       *)
(* workers whose clock is at most one tick behind the database's           *)
(* (ClocksKeepUp), and fails for others: a cron edited to a shorter period *)
(* then lets the cursor go back.                                           *)
(***************************************************************************)
EXTENDS Leader, FiniteSetTheorems, TLAPS

\* A worker's clock may be ahead of the database's, and one tick behind it.
ClocksKeepUp == \A d \in Skews : d >= -1

\* The leader's view of the rows it has still to fire is the committed one, they
\* are due, and it has made runs only of the rows it has fired.  Runs are finite
\* in number.
Staging ==
  /\ IsFiniteSet(runs) /\ IsFiniteSet(made)
  /\ \A s \in owed : /\ staged[s] = sched[s]
                     /\ sched[s].next = Null \/ sched[s].next <= now
  /\ \A r \in made : r.sched \in locked \ owed

TableInv == TypeOK /\ OncePerOccurrence /\ DisabledIsProbed /\ Staging

\* Runs are numbered in the order they are made in, with and without those of
\* the open transaction.
Numbered(R) == \A r \in R : r.id < Cardinality(R)

\* A cursor that no later run can fall behind.
Ahead(n, r) == n \in Int /\ n > r.made /\ n >= r.at

CursorsAhead ==
  /\ \A r \in runs : Ahead(sched[r.sched].next, r)
  /\ \A r \in runs \union made : r.sched \in locked => Ahead(staged[r.sched].next, r)

\* NoCatchUpHerd, for the runs of the open transaction, too.
NoHerdYet ==
  \A r, q \in runs \union made : r.sched = q.sched /\ r.id < q.id => q.at > r.made /\ q.at > r.at

HerdInv == /\ TableInv /\ Numbered(runs) /\ Numbered(runs \union made)
           /\ CursorsAhead /\ NoHerdYet

-----------------------------------------------------------------------------
(* Occurrences. *)

\* Every set of natural numbers that is not empty has a least member.
LEMMA LeastMember ==
  ASSUME NEW T \in SUBSET Nat, T # {}
  PROVE  \E n \in T : \A m \in T : n <= m
  <1> DEFINE Below == {0..n : n \in T}
  <1>1. Below \subseteq FiniteSubsetsOf(Nat)
    <2>1. \A n \in Nat : IsFiniteSet(0..n)
      BY FS_Interval
    <2> QED
      BY <2>1 DEF FiniteSubsetsOf
  <1>2. Below # {}
    OBVIOUS
  <1>3. PICK b \in Below : \A c \in Below : <<c, b>> \notin StrictSubsetOrdering(Nat)
    BY <1>1, <1>2, FS_StrictSubsetOrderingWellFounded, WFMin
  <1>4. PICK n \in T : b = 0..n
    OBVIOUS
  <1>5. ASSUME NEW m \in T, ~ (n <= m)
        PROVE  FALSE
    <2>1. 0..m \subseteq 0..n /\ 0..m # 0..n
      BY <1>5
    <2>2. 0..m \in Below /\ 0..m \in SUBSET Nat /\ 0..n \in SUBSET Nat
      OBVIOUS
    <2>3. <<0..m, 0..n>> \in StrictSubsetOrdering(Nat)
      BY <2>1, <2>2 DEF StrictSubsetOrdering
    <2> QED
      BY <2>2, <2>3, <1>3, <1>4
  <1> QED
    BY <1>5

\* Occurrences up to some time have a latest one.
LEMMA LatestOccurrence ==
  ASSUME NEW end \in Int, NEW T \in SUBSET Int, T # {}, \A x \in T : x <= end
  PROVE  \E x \in T : \A y \in T : y <= x
  <1> DEFINE gaps == {end - x : x \in T}
  <1>1. gaps \in SUBSET Nat /\ gaps # {}
    <2>1. \A x \in T : end - x \in Nat
      OBVIOUS
    <2> QED
      BY <2>1
  <1>2. PICK n \in gaps : \A m \in gaps : n <= m
    BY <1>1, LeastMember
  <1>3. PICK x \in T : n = end - x
    BY <1>2
  <1>4. \A y \in T : n <= end - y
    BY <1>2
  <1> QED
    BY <1>3, <1>4

\* next_fire is later than the time it is asked for.
LEMMA NextFireIsLater ==
  ASSUME NEW c \in Crons, NEW t \in Int
  PROVE  next_fire(c, t) \in Int /\ next_fire(c, t) > t
  BY CronsArePos DEF next_fire

\* previous_fire is earlier.
LEMMA PreviousFireIsEarlier ==
  ASSUME NEW c \in Crons, NEW t \in Int
  PROVE  previous_fire(c, t) \in Int /\ previous_fire(c, t) < t
  BY CronsArePos DEF previous_fire

\* Of the occurrences missed since the cursor only later ones are looked at, up
\* to the worker's clock.
LEMMA MissedAreLater ==
  ASSUME NEW c \in Crons, NEW first \in Int, NEW t \in Int,
         Cardinality(missed_between(c, first, t)) > 1
  PROVE  \A x \in missed_between(c, first, t) : x \in Int /\ x <= t /\ x > first
  <1> DEFINE all == {x \in first + 1 .. t : x % c = 0}
             few == {x \in all : Cardinality({u \in all : u <= x}) <= MissedCap}
  <1>1. missed_between(c, first, t) = IF all = {} THEN {first} ELSE few
    BY DEF missed_between
  <1>2. Cardinality({first}) = 1
    BY FS_Singleton
  <1>3. \A x \in all : x \in Int /\ x <= t /\ x > first
    OBVIOUS
  <1>4. few \subseteq all
    OBVIOUS
  <1> HIDE DEF all, few
  <1>5. missed_between(c, first, t) = few
    BY <1>1, <1>2
  <1> QED
    BY <1>3, <1>4, <1>5

\* The occurrence a due schedule is fired for is not before its cursor, and not
\* after the worker's clock unless it is the cursor itself.
LEMMA OccurrenceToFire ==
  ASSUME NEW r \in Sched, NEW t \in Int, NEW first,
         first = IF r.next = Null THEN previous_fire(r.cron, t) ELSE r.next
  PROVE  /\ FireAt(r, t) \in Int
         /\ FireAt(r, t) >= first
         /\ FireAt(r, t) = first \/ FireAt(r, t) <= t
  <1> DEFINE missed == missed_between(r.cron, first, t)
             latest == CHOOSE x \in missed : \A y \in missed : y <= x
  <1>1. r.cron \in Crons /\ r.next \in Int \union {Null}
    BY DEF Sched, Time
  <1>2. first \in Int
    BY <1>1, PreviousFireIsEarlier
  <1>3. FireAt(r, t) = IF Cardinality(missed) > 1 THEN latest ELSE first
    BY DEF FireAt
  <1>4. CASE ~(Cardinality(missed) > 1)
    BY <1>2, <1>3, <1>4
  <1>5. CASE Cardinality(missed) > 1
    <2>1. \A x \in missed : x \in Int /\ x <= t /\ x > first
      BY <1>1, <1>2, <1>5, MissedAreLater
    <2> HIDE DEF missed
    <2>2. missed # {}
      BY <1>5, FS_EmptySet
    <2>3. \E x \in missed : \A y \in missed : y <= x
      BY <2>1, <2>2, LatestOccurrence
    <2>4. latest \in missed
      BY <2>3
    <2> HIDE DEF latest
    <2> QED
      BY <1>2, <1>3, <1>5, <2>1, <2>4
  <1> QED
    BY <1>4, <1>5

-----------------------------------------------------------------------------
(* Tables: what needs no clock. *)

\* The tables are as they should be at the start.
LEMMA TablesAtStart == Init => TableInv
  <1>1. SUFFICES ASSUME Init PROVE TableInv
    OBVIOUS
  <1>2. now \in Nat
    BY <1>1, CronsArePos, CronsAreBounded DEF Init
  <1>3. sched \in [Scheds -> Sched] /\ staged = sched
    <2>1. PICK c \in Crons, f \in Selections :
            sched = [s \in Scheds |-> [enabled |-> TRUE, cron |-> c, sel |-> f,
                                       next |-> Null, last |-> Null]]
      BY <1>1 DEF Init
    <2>2. [enabled |-> TRUE, cron |-> c, sel |-> f, next |-> Null, last |-> Null] \in Sched
      BY DEF Sched
    <2> QED
      BY <2>1, <2>2, <1>1 DEF Init
  <1>4. enabled \in [Sources -> BOOLEAN] /\ \A x \in Sources : enabled[x]
    BY <1>1 DEF Init
  <1>5. probe \in [Sources -> [pending : BOOLEAN, ok : Nat]]
    BY <1>1 DEF Init
  <1>6. runs = {} /\ made = {} /\ owed = {} /\ locked = {} /\ asking = {} /\ held = {}
        /\ poison = {} /\ up = Workers /\ leader = Nobody /\ ~probed
    BY <1>1 DEF Init
  <1>7. events \in 0..MaxEvents
    BY <1>1, BoundsAreNat DEF Init
  <1> QED
    BY <1>2, <1>3, <1>4, <1>5, <1>6, <1>7, FS_EmptySet
    DEF TableInv, TypeOK, OncePerOccurrence, DisabledIsProbed, Staging

\* One more event is still within the bound.
LEMMA EventCounts ==
  ASSUME TypeOK, events < MaxEvents, events' = events + 1
  PROVE  events' \in 0..MaxEvents
  BY BoundsAreNat DEF TypeOK

\* The leader's transaction begins: the tables keep, the due rows are the ones
\* it owes a firing.
LEMMA LeadKeepsTables ==
  ASSUME TableInv, NEW w \in Workers, Lead(w)
  PROVE  TableInv' /\ runs' = runs /\ sched' = sched /\ made' = {} /\ staged' = sched
  <1> USE DEF TableInv
  <1>1. /\ w \in up /\ leader' = w /\ locked' = {s \in Scheds : DueNow(sched[s])}
        /\ owed' = locked' /\ staged' = sched /\ made' = {} /\ asking' = {} /\ probed' = FALSE
        /\ held' = {}
        /\ UNCHANGED <<now, sched, runs, enabled, probe, poison, up, events>>
    BY DEF Lead, db
  <1>2. leader' # Nobody
    BY <1>1, NobodyIsNoWorker
  <1>3. TypeOK'
    BY <1>1, <1>2 DEF TypeOK
  <1>4. OncePerOccurrence' /\ DisabledIsProbed'
    BY <1>1 DEF OncePerOccurrence, DisabledIsProbed
  <1>5. Staging'
    BY <1>1, FS_EmptySet DEF Staging, DueNow
  <1> QED
    BY <1>1, <1>3, <1>4, <1>5

\* A transaction that rolls back leaves the tables as they were.
LEMMA RolledBackTables ==
  ASSUME TableInv, EndTxn, staged' = sched, up' \subseteq Workers, events' \in 0..MaxEvents,
         UNCHANGED <<now, sched, runs, enabled, probe, poison>>
  PROVE  TableInv' /\ runs' = runs /\ sched' = sched /\ made' = {} /\ staged' = sched
  <1> USE DEF TableInv
  <1>1. /\ leader' = Nobody /\ locked' = {} /\ owed' = {} /\ made' = {} /\ asking' = {}
        /\ probed' = FALSE /\ held' = {}
    BY DEF EndTxn
  <1>2. TypeOK'
    BY <1>1 DEF TypeOK
  <1>3. OncePerOccurrence' /\ DisabledIsProbed'
    BY <1>1 DEF OncePerOccurrence, DisabledIsProbed
  <1>4. Staging'
    BY <1>1, FS_EmptySet DEF Staging
  <1> QED
    BY <1>1, <1>2, <1>3, <1>4

\* create_jobs that raises ends the worker, and a statement that fails or a
\* process that dies ends the transaction.
LEMMA FailuresKeepTables ==
  ASSUME TableInv, (\E s \in Scheds : FirePoisoned(s)) \/ \E w \in Workers : Rollback(w)
  PROVE  TableInv' /\ runs' = runs /\ sched' = sched /\ made' = {} /\ staged' = sched
  <1>1. CASE \E s \in Scheds : FirePoisoned(s)
    <2>1. /\ EndTxn /\ staged' = sched /\ up' = up \ {leader}
          /\ UNCHANGED <<now, sched, runs, enabled, probe, poison, events>>
      BY <1>1 DEF FirePoisoned, db
    <2>2. up' \subseteq Workers /\ events' \in 0..MaxEvents
      BY <2>1 DEF TableInv, TypeOK
    <2> QED
      BY <2>1, <2>2, RolledBackTables
  <1>2. CASE \E w \in Workers : Rollback(w)
    <2>1. /\ EndTxn /\ staged' = sched /\ events < MaxEvents /\ events' = events + 1
          /\ UNCHANGED <<now, sched, runs, enabled, probe, poison>>
      BY <1>2 DEF Rollback, db
    <2>2. up' \subseteq up
      BY <1>2 DEF Rollback
    <2>3. events' \in 0..MaxEvents
      BY <2>1, EventCounts DEF TableInv
    <2>4. up' \subseteq Workers
      BY <2>2 DEF TableInv, TypeOK
    <2> QED
      BY <2>1, <2>3, <2>4, RolledBackTables
  <1> QED
    BY <1>1, <1>2

\* What a leader does beside firing, and a worker's restart: the schedules and
\* the runs are not touched, and a probe ends only with its source back.
LEMMA ProbesKeepTables ==
  ASSUME TableInv,
         \/ StartProbes
         \/ \E x \in Sources : ProbeFails(x) \/ ProbeSucceeds(x) \/ Revive(x)
         \/ \E w \in Workers : Restart(w)
  PROVE  TableInv' /\ UNCHANGED <<runs, made, locked, staged, sched>>
  <1> USE DEF TableInv
  <1>1. probe \in [Sources -> [pending : BOOLEAN, ok : Nat]] /\ enabled \in [Sources -> BOOLEAN]
    BY DEF TypeOK
  <1>2. CASE StartProbes
    <2>1. /\ leader # Nobody /\ asking' = {x \in Sources : probe[x].pending} /\ probed' = TRUE
          /\ UNCHANGED <<now, sched, runs, enabled, probe, poison, up, leader, locked, owed, staged,
                         made, held, events>>
      BY <1>2 DEF StartProbes, db
    <2>2. TypeOK'
      BY <2>1 DEF TypeOK
    <2> QED
      BY <2>1, <2>2 DEF OncePerOccurrence, DisabledIsProbed, Staging
  <1>3. ASSUME NEW x \in Sources, ProbeFails(x)
        PROVE  TableInv' /\ UNCHANGED <<runs, made, locked, staged, sched>>
    <2> DEFINE row == [probe[x] EXCEPT !.ok = 0]
    <2>1. /\ x \in asking /\ asking' = asking \ {x}
          /\ UNCHANGED <<now, sched, runs, enabled, poison, up, leader, locked, owed, staged, made,
                         probed, held, events>>
      BY <1>3 DEF ProbeFails, db
    <2>2. probe' = [probe EXCEPT ![x] = row]
      BY <1>1, <1>3 DEF ProbeFails
    <2>3. row \in [pending : BOOLEAN, ok : Nat] /\ row.pending = probe[x].pending
      BY <1>1
    <2> HIDE DEF row
    <2>4. probe' \in [Sources -> [pending : BOOLEAN, ok : Nat]]
      BY <1>1, <2>2, <2>3
    <2>5. \A y \in Sources : probe'[y].pending = probe[y].pending
      BY <1>1, <2>2, <2>3
    <2>6. TypeOK'
      BY <2>1, <2>4 DEF TypeOK
    <2>7. DisabledIsProbed'
      BY <2>1, <2>5 DEF DisabledIsProbed
    <2> QED
      BY <2>1, <2>6, <2>7 DEF OncePerOccurrence, Staging
  <1>4. ASSUME NEW x \in Sources, ProbeSucceeds(x)
        PROVE  TableInv' /\ UNCHANGED <<runs, made, locked, staged, sched>>
    <2> DEFINE row == [probe[x] EXCEPT !.ok = @ + 1]
    <2>1. /\ x \in asking /\ asking' = asking \ {x} /\ held' \subseteq {x}
          /\ UNCHANGED <<now, sched, runs, enabled, poison, up, leader, locked, owed, staged, made,
                         probed, events>>
      BY <1>4 DEF ProbeSucceeds, db
    <2>2. probe' = [probe EXCEPT ![x] = row]
      BY <1>1, <1>4 DEF ProbeSucceeds
    <2>3. row \in [pending : BOOLEAN, ok : Nat] /\ row.pending = probe[x].pending
      BY <1>1
    <2> HIDE DEF row
    <2>4. probe' \in [Sources -> [pending : BOOLEAN, ok : Nat]]
      BY <1>1, <2>2, <2>3
    <2>5. \A y \in Sources : probe'[y].pending = probe[y].pending
      BY <1>1, <2>2, <2>3
    <2>6. leader # Nobody
      BY <2>1 DEF TypeOK
    <2>7. TypeOK'
      BY <2>1, <2>4, <2>6 DEF TypeOK
    <2>8. DisabledIsProbed'
      BY <2>1, <2>5 DEF DisabledIsProbed
    <2> QED
      BY <2>1, <2>7, <2>8 DEF OncePerOccurrence, Staging
  <1>5. ASSUME NEW x \in Sources, Revive(x)
        PROVE  TableInv' /\ UNCHANGED <<runs, made, locked, staged, sched>>
    <2> DEFINE row == [probe[x] EXCEPT !.pending = FALSE]
    <2>1. /\ x \in held /\ held' = {} /\ enabled' = [enabled EXCEPT ![x] = TRUE]
          /\ UNCHANGED <<now, sched, runs, poison, up, leader, locked, owed, staged, made, asking,
                         probed, events>>
      BY <1>5 DEF Revive, db
    <2>2. probe' = [probe EXCEPT ![x] = row]
      BY <1>1, <1>5 DEF Revive
    <2>3. row \in [pending : BOOLEAN, ok : Nat]
      BY <1>1
    <2> HIDE DEF row
    <2>4. /\ probe' \in [Sources -> [pending : BOOLEAN, ok : Nat]]
          /\ \A y \in Sources : y # x => probe'[y] = probe[y]
      BY <1>1, <2>2, <2>3
    <2>5. /\ enabled' \in [Sources -> BOOLEAN] /\ enabled'[x]
          /\ \A y \in Sources : y # x => enabled'[y] = enabled[y]
      BY <1>1, <2>1
    <2>6. TypeOK'
      BY <2>1, <2>4, <2>5 DEF TypeOK
    <2>7. DisabledIsProbed'
      BY <2>4, <2>5 DEF DisabledIsProbed
    <2> QED
      BY <2>1, <2>6, <2>7 DEF OncePerOccurrence, Staging
  <1>6. ASSUME NEW w \in Workers, Restart(w)
        PROVE  TableInv' /\ UNCHANGED <<runs, made, locked, staged, sched>>
    <2>1. /\ up' = up \union {w}
          /\ UNCHANGED <<now, sched, runs, enabled, probe, poison, leader, locked, owed, staged,
                         made, asking, probed, held, events>>
      BY <1>6 DEF Restart, db, txn
    <2>2. TypeOK'
      BY <2>1 DEF TypeOK
    <2> QED
      BY <2>1, <2>2 DEF OncePerOccurrence, DisabledIsProbed, Staging
  <1> QED
    BY <1>2, <1>3, <1>4, <1>5, <1>6

\* Operators and time: an edit of a schedule keeps its cursor and waits for the
\* lock of its row; a source is switched off together with its probe.
LEMMA OperatorsKeepTables ==
  ASSUME TableInv,
         \/ Tick
         \/ \E s \in Scheds : UpdateSchedule(s)
         \/ \E x \in Ailing : Disable(x)
         \/ \E x \in Poisonable : SwitchRoute(x)
  PROVE  /\ TableInv' /\ UNCHANGED <<runs, made, locked, staged>>
         /\ \A s \in Scheds : sched'[s].next = sched[s].next
  <1> USE DEF TableInv
  <1>1. CASE Tick
    <2>1. /\ now' = now + 1
          /\ UNCHANGED <<sched, runs, enabled, probe, poison, up, leader, locked, owed, staged,
                         made, asking, probed, held, events>>
      BY <1>1 DEF Tick, db, txn
    <2>2. TypeOK'
      BY <2>1 DEF TypeOK
    <2>3. \A s \in owed : s \in Scheds
      BY DEF TypeOK
    <2>4. \A s \in Scheds : sched[s].next \in Int \union {Null}
      BY DEF TypeOK, Sched, Time
    <2>5. now \in Int
      BY DEF TypeOK
    <2>6. \A s \in owed : sched[s].next = Null \/ sched[s].next <= now + 1
      BY <2>3, <2>4, <2>5, NullIsNoTime DEF Staging
    <2>7. Staging'
      BY <2>1, <2>6 DEF Staging
    <2> QED
      BY <2>1, <2>2, <2>7 DEF OncePerOccurrence, DisabledIsProbed
  <1>2. ASSUME NEW s \in Scheds, UpdateSchedule(s)
        PROVE  /\ TableInv' /\ UNCHANGED <<runs, made, locked, staged>>
               /\ \A z \in Scheds : sched'[z].next = sched[z].next
    <2>1. PICK b \in BOOLEAN, c \in Crons, f \in Selections :
            sched' = [sched EXCEPT ![s].enabled = b, ![s].cron = c, ![s].sel = f]
      BY <1>2 DEF UpdateSchedule
    <2>2. /\ s \notin locked /\ events < MaxEvents /\ events' = events + 1
          /\ UNCHANGED <<now, runs, enabled, probe, poison, up, leader, locked, owed, staged,
                         made, asking, probed, held>>
      BY <1>2 DEF UpdateSchedule, txn
    <2> DEFINE row == [sched[s] EXCEPT !.enabled = b, !.cron = c, !.sel = f]
    <2>3. sched \in [Scheds -> Sched] /\ sched[s] \in Sched
      BY DEF TypeOK
    <2>4. sched' = [sched EXCEPT ![s] = row]
      BY <2>1, <2>3
    <2>5. row \in Sched /\ row.next = sched[s].next
      BY <2>3 DEF Sched
    <2> HIDE DEF row
    <2>6. /\ sched' \in [Scheds -> Sched]
          /\ \A z \in Scheds : sched'[z].next = sched[z].next
          /\ \A z \in Scheds : z # s => sched'[z] = sched[z]
      BY <2>3, <2>4, <2>5
    <2>7. TypeOK'
      BY <2>2, <2>6, EventCounts DEF TypeOK
    <2>8. \A z \in owed : z \in Scheds /\ z # s
      BY <2>2 DEF TypeOK
    <2>9. Staging'
      BY <2>2, <2>6, <2>8 DEF Staging
    <2> QED
      BY <2>2, <2>6, <2>7, <2>9 DEF OncePerOccurrence, DisabledIsProbed
  <1>3. ASSUME NEW x \in Ailing, Disable(x)
        PROVE  TableInv' /\ UNCHANGED <<runs, made, locked, staged, sched>>
    <2>1. /\ events < MaxEvents /\ events' = events + 1
          /\ enabled' = [enabled EXCEPT ![x] = FALSE]
          /\ probe' = [probe EXCEPT ![x] = [pending |-> TRUE, ok |-> 0]]
          /\ UNCHANGED <<now, sched, runs, poison, up, leader, locked, owed, staged, made,
                         asking, probed, held>>
      BY <1>3 DEF Disable, db, txn
    <2>2. x \in Sources
      BY SomeSources
    <2>3. /\ probe' \in [Sources -> [pending : BOOLEAN, ok : Nat]] /\ probe'[x].pending
          /\ \A y \in Sources : y # x => probe'[y] = probe[y]
      BY <2>1, <2>2 DEF TypeOK
    <2>4. /\ enabled' \in [Sources -> BOOLEAN]
          /\ \A y \in Sources : y # x => enabled'[y] = enabled[y]
      BY <2>1, <2>2 DEF TypeOK
    <2>5. TypeOK'
      BY <2>1, <2>3, <2>4, EventCounts DEF TypeOK
    <2>6. DisabledIsProbed'
      BY <2>3, <2>4 DEF DisabledIsProbed
    <2> QED
      BY <2>1, <2>5, <2>6 DEF OncePerOccurrence, Staging
  <1>4. ASSUME NEW x \in Poisonable, SwitchRoute(x)
        PROVE  TableInv' /\ UNCHANGED <<runs, made, locked, staged, sched>>
    <2>1. /\ events < MaxEvents /\ events' = events + 1 /\ poison' \subseteq poison \union {x}
          /\ UNCHANGED <<now, sched, runs, enabled, probe, up, leader, locked, owed, staged, made,
                         asking, probed, held>>
      BY <1>4 DEF SwitchRoute, db, txn
    <2>2. TypeOK'
      BY <2>1, EventCounts DEF TypeOK
    <2> QED
      BY <2>1, <2>2 DEF OncePerOccurrence, DisabledIsProbed, Staging
  <1> QED
    BY <1>1, <1>2, <1>3, <1>4

\* _fire: a run is made only of an occurrence that has none, and the row's
\* cursor is computed from the worker's clock.
LEMMA FireKeepsTables ==
  ASSUME TableInv, NEW s \in Scheds, Fire(s)
  PROVE  /\ TableInv'
         /\ UNCHANGED <<now, sched, runs, locked>> /\ s \in locked
         /\ sched[s].next = Null \/ sched[s].next <= now
         /\ \E d \in Skews :
              LET t  == now + d
                  at == FireAt(sched[s], t)
              IN  /\ \/ made' = made
                     \/ /\ ~Taken(s, at)
                        /\ made' = made \union {NewRun(s, at, t, sched[s].sel)}
                  /\ staged'[s].next = next_fire(sched[s].cron, t)
                  /\ \A z \in Scheds : z # s => staged'[z] = staged[z]
  <1> USE DEF TableInv
  <1>1. /\ leader # Nobody /\ s \in owed /\ owed' = owed \ {s}
        /\ UNCHANGED <<now, sched, runs, enabled, probe, poison, up, leader, locked, asking, probed,
                       held, events>>
    BY DEF Fire, db
  <1>2. staged[s] = sched[s] /\ (sched[s].next = Null \/ sched[s].next <= now) /\ s \in locked
    BY <1>1 DEF Staging, TypeOK
  <1>3. PICK d \in Skews :
          LET r == staged[s] t == now + d at == FireAt(r, t) new == ~Taken(s, at)
          IN  /\ made' = IF new THEN made \union {NewRun(s, at, t, r.sel)} ELSE made
              /\ staged' = [staged EXCEPT ![s].last = IF new THEN at ELSE @,
                                          ![s].next = Cursor(r, at, t)]
    BY DEF Fire
  <1> DEFINE t == now + d
             at == FireAt(sched[s], t)
             last == IF ~Taken(s, at) THEN at ELSE sched[s].last
             run == NewRun(s, at, t, sched[s].sel)
             row == [sched[s] EXCEPT !.last = last, !.next = next_fire(sched[s].cron, t)]
  <1>4. staged \in [Scheds -> Sched] /\ sched[s] \in Sched
    BY DEF TypeOK
  <1>5. sched[s].cron \in Crons /\ sched[s].sel \in Selections
        /\ sched[s].next \in Int \union {Null} /\ sched[s].last \in Int \union {Null}
    BY <1>4 DEF Sched, Time
  <1>6. t \in Int
    BY SkewsAreInt DEF TypeOK
  <1>7. staged' = [staged EXCEPT ![s] = row]
    BY <1>2, <1>3, <1>4 DEF Cursor
  <1>8. \/ made' = made
        \/ ~Taken(s, at) /\ made' = made \union {run}
    BY <1>2, <1>3
  <1> HIDE DEF t
  <1>9. at \in Int
    BY <1>4, <1>6, OccurrenceToFire
  <1> HIDE DEF at
  <1>10. last \in Int \union {Null}
    BY <1>5, <1>9
  <1> HIDE DEF last
  <1>11. next_fire(sched[s].cron, t) \in Int
    BY <1>5, <1>6, NextFireIsLater
  <1>12. row \in Sched /\ row.next = next_fire(sched[s].cron, t)
    BY <1>4, <1>10, <1>11 DEF Sched, Time
  <1> HIDE DEF row
  <1>13. /\ staged' \in [Scheds -> Sched] /\ staged'[s].next = next_fire(sched[s].cron, t)
         /\ \A z \in Scheds : z # s => staged'[z] = staged[z]
    BY <1>4, <1>7, <1>12
  <1>14. run.sched = s /\ run.at = at
    BY DEF NewRun
  <1>15. Staging'
    <2>1. \A r \in made' : r.sched \in locked \ owed'
      BY <1>1, <1>2, <1>8, <1>14 DEF Staging
    <2>2. \A z \in owed' : z \in Scheds /\ z # s /\ z \in owed
      BY <1>1 DEF TypeOK
    <2>3. IsFiniteSet(made \union {run})
      BY FS_AddElement DEF Staging
    <2>4. IsFiniteSet(made')
      BY <1>8, <2>3 DEF Staging
    <2> QED
      BY <1>1, <1>13, <2>1, <2>2, <2>4 DEF Staging
  <1>16. OncePerOccurrence'
    <2>1. CASE made' = made
      BY <2>1, <1>1 DEF OncePerOccurrence
    <2>2. CASE ~Taken(s, at) /\ made' = made \union {run}
      BY <2>2, <1>1, <1>14 DEF OncePerOccurrence, Taken
    <2> QED
      BY <1>8, <2>1, <2>2
  <1>17. DisabledIsProbed'
    BY <1>1 DEF DisabledIsProbed
  <1>18. run \in Run
    <2>1. IsFiniteSet(runs \union made)
      BY FS_Union DEF Staging
    <2>2. Cardinality(runs \union made) \in Nat
      BY <2>1, FS_CardinalityType
    <2>3. JobsFor(sched[s].sel) \in SUBSET Sources
      BY <1>5, SelectionsOfSources DEF JobsFor
    <2>4. (JobsFor(sched[s].sel) # {}) \in BOOLEAN
      OBVIOUS
    <2> QED
      BY <1>6, <1>9, <2>2, <2>3, <2>4 DEF NewRun, Run, Time
  <1>19. \A r \in runs' \union made' : r \in Run
    <2>1. \A r \in runs \union made : r \in Run
      BY DEF TypeOK
    <2> QED
      BY <2>1, <1>1, <1>8, <1>18
  <1>20. TypeOK'
    BY <1>1, <1>13, <1>19 DEF TypeOK
  <1>21. TableInv'
    BY <1>15, <1>16, <1>17, <1>20
  <1>22. /\ made' = made \/ (~Taken(s, at) /\ made' = made \union {NewRun(s, at, t, sched[s].sel)})
         /\ staged'[s].next = next_fire(sched[s].cron, t)
         /\ \A z \in Scheds : z # s => staged'[z] = staged[z]
    BY <1>8, <1>13
  <1> QED
    BY <1>1, <1>2, <1>21, <1>22 DEF t, at

\* The commit brings the rows the transaction locked and the runs it made.
LEMMA CommitKeepsTables ==
  ASSUME TableInv, NEW w \in Workers, Commit(w)
  PROVE  /\ TableInv'
         /\ sched' = [s \in Scheds |-> IF s \in locked THEN staged[s] ELSE sched[s]]
         /\ runs' = runs \union made /\ made' = {} /\ locked' = {}
  <1> USE DEF TableInv
  <1>1. /\ sched' = [s \in Scheds |-> IF s \in locked THEN staged[s] ELSE sched[s]]
        /\ runs' = runs \union made /\ staged' = sched'
        /\ leader' = Nobody /\ locked' = {} /\ owed' = {} /\ made' = {} /\ asking' = {}
        /\ probed' = FALSE /\ held' = {}
        /\ UNCHANGED <<now, enabled, probe, poison, up, events>>
    BY DEF Commit, EndTxn
  <1>2. sched' \in [Scheds -> Sched]
    BY <1>1 DEF TypeOK
  <1>3. TypeOK'
    BY <1>1, <1>2 DEF TypeOK
  <1>4. OncePerOccurrence' /\ DisabledIsProbed'
    BY <1>1 DEF OncePerOccurrence, DisabledIsProbed
  <1>5. IsFiniteSet(runs') /\ IsFiniteSet(made')
    BY <1>1, FS_Union, FS_EmptySet DEF Staging
  <1>6. Staging'
    BY <1>1, <1>5 DEF Staging
  <1> QED
    BY <1>1, <1>3, <1>4, <1>6

\* Every step keeps the tables.
LEMMA StepsKeepTables == TableInv /\ [Next]_vars => TableInv'
  <1>1. SUFFICES ASSUME TableInv, [Next]_vars PROVE TableInv'
    OBVIOUS
  <1>2. CASE UNCHANGED vars
    BY <1>1, <1>2
    DEF vars, TableInv, TypeOK, OncePerOccurrence, DisabledIsProbed, Staging
  <1>3. CASE Work
    BY <1>1, <1>3, FireKeepsTables, FailuresKeepTables, ProbesKeepTables DEF Work
  <1>4. CASE \E w \in Workers : Lead(w) \/ Commit(w) \/ Rollback(w) \/ Restart(w)
    BY <1>1, <1>4, LeadKeepsTables, CommitKeepsTables, FailuresKeepTables, ProbesKeepTables
  <1>5. CASE \/ Tick
             \/ \E s \in Scheds : UpdateSchedule(s)
             \/ \E x \in Ailing : Disable(x)
             \/ \E x \in Poisonable : SwitchRoute(x)
    BY <1>1, <1>5, OperatorsKeepTables
  <1> QED
    BY <1>1, <1>2, <1>3, <1>4, <1>5 DEF Next

\* The tables are as they should be throughout.
LEMMA TableInvariant == Spec => []TableInv
  BY TablesAtStart, StepsKeepTables, PTL DEF Spec

-----------------------------------------------------------------------------
(* Cursors: what needs clocks that keep up. *)

\* A transaction that begins, or ends without a commit, has no runs and the
\* committed cursors.
LEMMA CursorsWithoutRuns ==
  ASSUME HerdInv, TableInv', runs' = runs, sched' = sched, made' = {}, staged' = sched
  PROVE  HerdInv'
  <1>1. runs' \union made' = runs
    OBVIOUS
  <1>2. Numbered(runs') /\ Numbered(runs' \union made')
    BY <1>1 DEF HerdInv
  <1>3. CursorsAhead' /\ NoHerdYet'
    BY <1>1 DEF HerdInv, CursorsAhead, NoHerdYet
  <1> QED
    BY <1>2, <1>3 DEF HerdInv, Numbered

\* Steps that leave runs and cursors alone.
LEMMA CursorsKept ==
  ASSUME HerdInv, TableInv', UNCHANGED <<runs, made, locked, staged>>,
         \A s \in Scheds : sched'[s].next = sched[s].next
  PROVE  HerdInv'
  <1>1. \A r \in runs : r.sched \in Scheds
    BY DEF HerdInv, TableInv, TypeOK, Run
  <1>2. CursorsAhead' /\ NoHerdYet'
    BY <1>1 DEF HerdInv, CursorsAhead, NoHerdYet
  <1> QED
    BY <1>2 DEF HerdInv, Numbered

\* _fire puts the cursor past the worker's clock, so that it never goes back as
\* long as that clock is not more than one tick behind; and a new run is of an
\* occurrence at the old cursor or later.
LEMMA FireKeepsCursors ==
  ASSUME ClocksKeepUp, HerdInv, NEW s \in Scheds, Fire(s)
  PROVE  HerdInv'
  <1> USE DEF HerdInv
  <1>1. /\ TableInv' /\ UNCHANGED <<now, sched, runs, locked>> /\ s \in locked
        /\ sched[s].next = Null \/ sched[s].next <= now
    BY FireKeepsTables
  <1>2. PICK d \in Skews :
          LET t  == now + d
              at == FireAt(sched[s], t)
          IN  /\ \/ made' = made
                 \/ /\ ~Taken(s, at)
                    /\ made' = made \union {NewRun(s, at, t, sched[s].sel)}
              /\ staged'[s].next = next_fire(sched[s].cron, t)
              /\ \A z \in Scheds : z # s => staged'[z] = staged[z]
    BY FireKeepsTables
  <1> DEFINE t == now + d
             at == FireAt(sched[s], t)
             run == NewRun(s, at, t, sched[s].sel)
             cursor == next_fire(sched[s].cron, t)
             first == IF sched[s].next = Null THEN previous_fire(sched[s].cron, t)
                      ELSE sched[s].next
  <1>3. t \in Int /\ now \in Int /\ t + 1 >= now
    BY SkewsAreInt DEF ClocksKeepUp, TableInv, TypeOK
  <1>4. sched[s] \in Sched /\ sched[s].cron \in Crons /\ sched[s].next \in Int \union {Null}
    BY DEF TableInv, TypeOK, Sched, Time
  <1>5. \/ made' = made
        \/ ~Taken(s, at) /\ made' = made \union {run}
    BY <1>2
  <1>6. staged'[s].next = cursor /\ \A z \in Scheds : z # s => staged'[z] = staged[z]
    BY <1>2
  <1> HIDE DEF t
  <1>7. at \in Int /\ at >= first /\ (at = first \/ at <= t)
    BY <1>3, <1>4, OccurrenceToFire
  <1>8. cursor \in Int /\ cursor > t
    BY <1>3, <1>4, NextFireIsLater
  <1>9. previous_fire(sched[s].cron, t) \in Int /\ previous_fire(sched[s].cron, t) < t
    BY <1>3, <1>4, PreviousFireIsEarlier
  <1>10. /\ run.sched = s /\ run.at = at /\ run.made = t
         /\ run.id = Cardinality(runs \union made)
    BY DEF NewRun
  <1> HIDE DEF run, at, cursor
  <1>11. cursor >= at
    BY <1>1, <1>3, <1>4, <1>7, <1>8, <1>9
  <1>12. \A r \in runs \union made : r.sched \in Scheds /\ r.at \in Int /\ r.made \in Int /\ r.id \in Nat
    BY DEF TableInv, TypeOK, Run, Time
  <1>13. \A r \in runs \union made : r.sched = s =>
           /\ sched[s].next \in Int /\ sched[s].next > r.made /\ sched[s].next >= r.at
    <2>1. \A r \in made : r.sched # s
      <3>1. s \in owed
        BY DEF Fire
      <3> QED
        BY <3>1 DEF TableInv, Staging
    <2> QED
      BY <2>1 DEF CursorsAhead, Ahead
  <1>14. \A r \in runs \union made : r.sched = s => cursor > r.made /\ cursor >= r.at
    BY <1>1, <1>3, <1>8, <1>12, <1>13, NullIsNoTime
  <1>15. CursorsAhead'
    <2>1. \A r \in runs' : Ahead(sched'[r.sched].next, r)
      BY <1>1 DEF CursorsAhead
    <2>2. ASSUME NEW r \in runs' \union made', r.sched \in locked'
          PROVE  Ahead(staged'[r.sched].next, r)
      <3>1. CASE r = run
        BY <3>1, <1>6, <1>8, <1>10, <1>11 DEF Ahead
      <3>2. CASE r \in runs \union made /\ r.sched = s
        BY <3>2, <1>6, <1>8, <1>14 DEF Ahead
      <3>3. CASE r \in runs \union made /\ r.sched # s
        <4>1. r.sched \in Scheds
          BY <3>3, <1>12
        <4>2. staged'[r.sched] = staged[r.sched]
          BY <3>3, <4>1, <1>6
        <4> QED
          BY <3>3, <4>2, <2>2, <1>1 DEF CursorsAhead
      <3> QED
        BY <2>2, <3>1, <3>2, <3>3, <1>1, <1>5
    <2> QED
      BY <2>1, <2>2 DEF CursorsAhead
  <1>16. IsFiniteSet(runs \union made)
    BY FS_Union DEF TableInv, Staging
  <1>17. Cardinality(runs \union made) \in Nat
    BY <1>16, FS_CardinalityType
  <1>18. CASE made' = made
    BY <1>1, <1>15, <1>18 DEF NoHerdYet, Numbered
  <1>19. CASE ~Taken(s, at) /\ made' = made \union {run}
    <2> DEFINE old == runs \union made
               n == Cardinality(old)
    <2>1. runs' \union made' = old \union {run}
      BY <1>1, <1>19
    <2>2. \A r \in old : r.id < n
      BY DEF Numbered
    <2>3. run \notin old
      BY <1>10, <1>17, <2>2
    <2>4. Cardinality(old \union {run}) = n + 1
      BY <1>16, <2>3, FS_AddElement
    <2> HIDE DEF old, n
    <2>5. \A r \in old \union {run} : r.id < n + 1
      BY <1>10, <1>12, <1>17, <2>2 DEF old, n
    <2>6. Numbered(runs' \union made')
      BY <2>1, <2>4, <2>5 DEF Numbered
    <2>7. \A r \in old : r.sched = s => run.at > r.made /\ run.at > r.at
      <3>1. SUFFICES ASSUME NEW r \in old, r.sched = s
                     PROVE  run.at > r.made /\ run.at > r.at
        OBVIOUS
      <3>2. first = sched[s].next /\ first \in Int /\ first > r.made /\ first >= r.at
        BY <3>1, <1>13, NullIsNoTime DEF old
      <3>3. r.at # at
        BY <3>1, <1>19 DEF Taken, old
      <3>4. r.at \in Int /\ r.made \in Int
        BY <3>1, <1>12 DEF old
      <3> HIDE DEF first
      <3> QED
        BY <3>2, <3>3, <3>4, <1>7, <1>10
    <2>8. NoHerdYet'
      <3>1. SUFFICES ASSUME NEW r \in old \union {run}, NEW q \in old \union {run},
                            r.sched = q.sched, r.id < q.id
                     PROVE  q.at > r.made /\ q.at > r.at
        BY <2>1 DEF NoHerdYet
      <3>2. r # run
        <4>1. run.id = n /\ n \in Nat /\ \A x \in old : x.id \in Nat
          BY <1>10, <1>12, <1>17 DEF old, n
        <4>2. q.id \in Nat /\ q.id < n + 1
          BY <3>1, <4>1, <2>5
        <4> QED
          BY <3>1, <4>1, <4>2
      <3>3. CASE q = run
        BY <3>1, <3>2, <3>3, <2>7, <1>10
      <3>4. CASE q # run
        BY <3>1, <3>2, <3>4 DEF NoHerdYet, old
      <3> QED
        BY <3>3, <3>4
    <2>9. Numbered(runs')
      BY <1>1
    <2> QED
      BY <1>1, <1>15, <2>6, <2>8, <2>9 DEF Numbered
  <1> QED
    BY <1>5, <1>18, <1>19

\* The commit makes the leader's cursors and runs the committed ones.
LEMMA CommitKeepsCursors ==
  ASSUME HerdInv, NEW w \in Workers, Commit(w)
  PROVE  HerdInv'
  <1> USE DEF HerdInv
  <1>1. /\ TableInv'
        /\ sched' = [s \in Scheds |-> IF s \in locked THEN staged[s] ELSE sched[s]]
        /\ runs' = runs \union made /\ made' = {} /\ locked' = {}
    BY CommitKeepsTables
  <1>2. runs' \union made' = runs \union made
    BY <1>1
  <1>3. \A r \in runs \union made : r.sched \in Scheds
    BY DEF TableInv, TypeOK, Run
  <1>4. \A r \in runs \union made : r.sched \notin locked => r \in runs
    BY DEF TableInv, Staging
  <1>5. \A r \in runs' : Ahead(sched'[r.sched].next, r)
    BY <1>1, <1>3, <1>4 DEF CursorsAhead
  <1>6. CursorsAhead'
    BY <1>1, <1>5 DEF CursorsAhead
  <1>7. NoHerdYet'
    BY <1>2 DEF NoHerdYet
  <1>8. Numbered(runs') /\ Numbered(runs' \union made')
    BY <1>1, <1>2
  <1> QED
    BY <1>1, <1>6, <1>7, <1>8 DEF Numbered

\* Every step keeps the cursors ahead.
LEMMA StepsKeepCursors ==
  ASSUME ClocksKeepUp
  PROVE  HerdInv /\ [Next]_vars => HerdInv'
  <1>1. SUFFICES ASSUME HerdInv, [Next]_vars PROVE HerdInv'
    OBVIOUS
  <1>2. TableInv
    BY <1>1 DEF HerdInv
  <1>3. CASE UNCHANGED vars
    <2>1. TableInv'
      BY <1>2, <1>3, StepsKeepTables
    <2> QED
      BY <1>1, <1>3, <2>1 DEF vars, HerdInv, Numbered, CursorsAhead, Ahead, NoHerdYet
  <1>4. CASE \E s \in Scheds : Fire(s)
    BY <1>1, <1>4, FireKeepsCursors
  <1>5. CASE (\E s \in Scheds : FirePoisoned(s)) \/ \E w \in Workers : Rollback(w)
    BY <1>1, <1>2, <1>5, FailuresKeepTables, CursorsWithoutRuns
  <1>6. CASE \/ StartProbes
             \/ \E x \in Sources : ProbeFails(x) \/ ProbeSucceeds(x) \/ Revive(x)
             \/ \E w \in Workers : Restart(w)
    <2>1. TableInv' /\ UNCHANGED <<runs, made, locked, staged, sched>>
      BY <1>2, <1>6, ProbesKeepTables
    <2> QED
      BY <1>1, <2>1, CursorsKept
  <1>7. CASE \E w \in Workers : Lead(w)
    BY <1>1, <1>2, <1>7, LeadKeepsTables, CursorsWithoutRuns
  <1>8. CASE \E w \in Workers : Commit(w)
    BY <1>1, <1>8, CommitKeepsCursors
  <1>9. CASE \/ Tick
             \/ \E s \in Scheds : UpdateSchedule(s)
             \/ \E x \in Ailing : Disable(x)
             \/ \E x \in Poisonable : SwitchRoute(x)
    <2>1. /\ TableInv' /\ UNCHANGED <<runs, made, locked, staged>>
          /\ \A s \in Scheds : sched'[s].next = sched[s].next
      BY <1>2, <1>9, OperatorsKeepTables
    <2> QED
      BY <1>1, <2>1, CursorsKept
  <1> QED
    BY <1>1, <1>3, <1>4, <1>5, <1>6, <1>7, <1>8, <1>9 DEF Next, Work

\* There is no run at the start.
LEMMA CursorsAtStart == Init => HerdInv
  <1>1. SUFFICES ASSUME Init PROVE HerdInv
    OBVIOUS
  <1>2. runs = {} /\ made = {}
    BY <1>1 DEF Init
  <1>3. TableInv
    BY <1>1, TablesAtStart
  <1> QED
    BY <1>2, <1>3 DEF HerdInv, Numbered, CursorsAhead, NoHerdYet

-----------------------------------------------------------------------------
(* The theorems. *)

\* The tables and the leader's transaction keep their types.
THEOREM LeaderTypes == Spec => []TypeOK
  <1>1. TableInv => TypeOK
    BY DEF TableInv
  <1> QED
    BY <1>1, TableInvariant, PTL

\* One occurrence of a schedule is materialised once, whatever leaders follow
\* each other and whatever their clocks say (runs.py create_run).
THEOREM OccurrencesFireOnce == Spec => []OncePerOccurrence
  <1>1. TableInv => OncePerOccurrence
    BY DEF TableInv
  <1> QED
    BY <1>1, TableInvariant, PTL

\* A source that health.disable took out of the runs has a probe pending until
\* it is back.
THEOREM NoSourceIsForgotten == Spec => []DisabledIsProbed
  <1>1. TableInv => DisabledIsProbed
    BY DEF TableInv
  <1> QED
    BY <1>1, TableInvariant, PTL

\* With clocks that are at most one tick behind the database's, no occurrence
\* that was past when a run of its schedule was made is materialised after it
\* (schedule.py _fire), for any cron periods and any edits of them.
THEOREM PastOccurrencesStayPast ==
  ASSUME ClocksKeepUp
  PROVE  Spec => []NoCatchUpHerd
  <1>1. Init => HerdInv
    BY CursorsAtStart
  <1>2. HerdInv /\ [Next]_vars => HerdInv'
    BY StepsKeepCursors
  <1>3. HerdInv => NoCatchUpHerd
    BY DEF HerdInv, NoHerdYet, NoCatchUpHerd
  <1> QED
    BY <1>1, <1>2, <1>3, PTL DEF Spec
=============================================================================
