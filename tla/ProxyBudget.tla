---------------------------- MODULE ProxyBudget ----------------------------
(***************************************************************************)
(* The budget of paid proxy traffic: one provider's billing cycle, the     *)
(* reservations jobs and probes take of it, and the attempts a worker is   *)
(* authorized to send under a reservation.                                 *)
(*                                                                         *)
(* Every transition of the ledger is one transaction that locks the cycle  *)
(* first (mb_ceramics_catalogue/proxy.py, catalogue_control/               *)
(* proxy_control.py).  Between transactions a worker keeps its own books   *)
(* (ops/commerce_scraper_proxy.py), may lose a reply, may die, and may     *)
(* outlive the job lease under which it reserved.  Operators work the kill *)
(* switch, the pilot and the cycle (catalogue_control/proxy_api.py).       *)
(*                                                                         *)
(* Bytes are small numbers; one profile with one route; a cycle's          *)
(* reconciled_at is not null exactly when one reconciliation succeeded,    *)
(* which reconciliation_ok implies.                                        *)
(***************************************************************************)
EXTENDS Naturals, FiniteSets, FiniteSetsExt

CONSTANTS
  Res,          \* reservations that may ever be made
  Probes,       \* those made by probe_route; the others are made by jobs
  Att,          \* attempt authorizations that may ever be made
  Operational,  \* operational_bytes
  Daily,        \* daily_bytes
  PilotBytes,   \* pilot_bytes
  Allocated,    \* allocated_bytes of the profile
  DaysLeft,     \* whole days to the end of the cycle, at least 1
  Requested,    \* requested_bytes of a reservation
  Estimates,    \* estimated_bytes of an attempt
  Actuals,      \* bytes an attempt turns out to have moved
  Reports,      \* totals the provider reports
  MaxGen,       \* bound: rotations of the profile's secret
  MaxMoves      \* bound: interventions of operators and of time, and provider outages

ASSUME ProbesAreReservations == Probes \subseteq Res /\ IsFiniteSet(Res)
ASSUME BytesAreNaturals ==
  /\ {Operational, Daily, PilotBytes, Allocated, MaxGen, MaxMoves} \subseteq Nat
  /\ Requested \union Estimates \union Actuals \union Reports \subseteq Nat
  /\ 0 \notin Requested /\ DaysLeft \in Nat \ {0}

VARIABLES
  cycle,    \* the row of catalogue.proxy_budget_cycles
  profile,  \* the profile and its route: usable, and the secret's generation
  res,      \* catalogue.proxy_reservations
  att,      \* catalogue.proxy_attempt_authorizations
  lease,    \* what the reserving process remembers of each reservation
  lapsed,   \* reservations whose job ended or lost its lease, or whose probe timed out
  late,     \* history: bytes booked on a reservation after it was settled
  moves     \* bound: what is left of MaxMoves

budgetVars == <<cycle, profile, res, att, lease, lapsed, late, moves>>

Open    == {r \in Res : res[r].state \in {"active", "revocation_requested"}}
Settled == {r \in Res : res[r].state \in {"closed", "cancelled"}}

Lower(a, b)  == IF a < b THEN a ELSE b
Higher(a, b) == IF a > b THEN a ELSE b
Total(f, S)  == MapThenSumSet(LAMBDA x : f[x], S)

\* The bytes of the settled reservations: the sum both settlements write.
SettledBytes(rs) ==
  Total([r \in Res |-> rs[r].est], {r \in Res : rs[r].state \in {"closed", "cancelled"}})

Reserved == Total([r \in Res |-> res[r].bytes], Open)

\* max(provider_reported_bytes, application_bytes)
Accounted == Higher(cycle.reported, cycle.app)

NoRes   == [state |-> "none", bytes |-> 0, est |-> 0, gen |-> 0, today |-> FALSE]
NoAtt   == [state |-> "none", of |-> CHOOSE r \in Res : TRUE, est |-> 0, sent |-> FALSE]
NoLease == [held |-> FALSE, used |-> 0, flying |-> {}, pending |-> {}, failed |-> FALSE]

BudgetInit ==
  /\ cycle = [life |-> "proposed", ended |-> FALSE, kill |-> TRUE, ok |-> FALSE,
              recent |-> FALSE, reported |-> 0, app |-> 0, pilot |-> FALSE]
  /\ profile = [on |-> TRUE, gen |-> 0]
  /\ res = [r \in Res |-> NoRes]
  /\ att = [a \in Att |-> NoAtt]
  /\ lease = [r \in Res |-> NoLease]
  /\ lapsed = {}
  /\ late = [r \in Res |-> 0]
  /\ moves = MaxMoves

-----------------------------------------------------------------------------
(* Reservations. *)

\* The cycle lets new paid traffic start.
CycleAllows == cycle.life = "active" /\ ~cycle.ended /\ ~cycle.kill /\ cycle.ok

\* min(daily_bytes, what is left spread over the days left)
DynamicDaily ==
  LET left == Operational - Accounted - Reserved
  IN  Lower(Daily, (IF left < 0 THEN 0 ELSE left) \div DaysLeft)

\* The four limits of reserve(): the profile's allocation, the cycle's
\* operational ceiling, the day and, for a pilot route, the pilot.
Fits(b, pilot) ==
  /\ Reserved + b <= Allocated
  /\ Accounted + Reserved + b <= Operational
  /\ Total([r \in Res |-> res[r].est], {r \in Res : res[r].today}) + Reserved + b <= DynamicDaily
  /\ pilot => /\ cycle.pilot
              /\ Total([r \in Res |-> res[r].est], Probes) + Reserved + b <= PilotBytes

\* reserve(), under the generation the job or the probe read.
Reserve(r, b) ==
  /\ res[r].state = "none" /\ CycleAllows /\ profile.on
  /\ Fits(b, r \in Probes)
  /\ res' = [res EXCEPT ![r] = [state |-> "active", bytes |-> b, est |-> 0,
                                gen |-> profile.gen, today |-> TRUE]]

\* acquire: the process keeps books on what it reserved.
Acquire(r, b) ==
  /\ Reserve(r, b)
  /\ lease' = [lease EXCEPT ![r].held = TRUE]
  /\ UNCHANGED <<cycle, profile, att, lapsed, late, moves>>

\* Fault: a stale reservation is cancelled without booking what it spent.
SettleClosedOnly(R, state, rs) ==
  LET new == [r \in Res |-> IF r \in R THEN [rs[r] EXCEPT !.state = state] ELSE rs[r]]
      sum == Total([r \in Res |-> new[r].est], {r \in Res : new[r].state = "closed"})
  IN  /\ res' = new
      /\ cycle' = [cycle EXCEPT !.app = Higher(@, sum), !.kill = @ \/ sum >= Operational]

\* Settle the reservations R as `state` and bring application_bytes and the
\* kill switch up to date, in the transaction that settles them.
Settle(R, state, rs) ==
  LET new == [r \in Res |-> IF r \in R THEN [rs[r] EXCEPT !.state = state] ELSE rs[r]]
      sum == SettledBytes(new)
  IN  /\ res' = new
      /\ cycle' = [cycle EXCEPT !.app = Higher(@, sum), !.kill = @ \/ sum >= Operational]

\* close_reservation: an open reservation is closed; one that was cancelled
\* meanwhile is settled late if the process counted more than the ledger has.
CloseReservation(r, used) ==
  LET booked == Higher(res[r].est, used)
      rs     == [res EXCEPT ![r].est = booked]
  IN  CASE r \in Open -> Settle({r}, "closed", rs) /\ UNCHANGED late
        [] res[r].state = "cancelled" /\ res[r].est < used ->
             /\ Settle({}, "closed", rs)
             /\ late' = [late EXCEPT ![r] = @ + booked - res[r].est]
        [] OTHER -> UNCHANGED <<res, cycle, late>>

\* release: refused while an attempt is pending or in flight.
Release(r) ==
  /\ lease[r].held /\ lease[r].pending = {} /\ lease[r].flying = {}
  /\ CloseReservation(r, lease[r].used)
  /\ lease' = [lease EXCEPT ![r] = NoLease]
  /\ UNCHANGED <<profile, att, lapsed, moves>>

\* The probe counts its own bytes on the lease and never asks for an attempt.
ProbeSpends(r, n) ==
  /\ r \in Probes /\ lease[r].held /\ lease[r].used = 0
  /\ n <= res[r].bytes
  /\ lease' = [lease EXCEPT ![r].used = n]
  /\ UNCHANGED <<cycle, profile, res, att, lapsed, late, moves>>

\* The process that held the lease is gone, and its books with it.
Dies(r) ==
  /\ lease[r].held
  /\ lease' = [lease EXCEPT ![r] = NoLease]
  /\ UNCHANGED <<cycle, profile, res, att, lapsed, late, moves>>

\* The job ended or its lease expired, or the probe is older than its timeout.
Lapse(r) ==
  /\ r \in Open /\ r \notin lapsed
  /\ lapsed' = lapsed \union {r}
  /\ UNCHANGED <<cycle, profile, res, att, lease, late, moves>>

\* Fault: only the envelopes that nobody revoked are looked at.
CloseStaleActive ==
  LET stale == {r \in lapsed : res[r].state = "active"}
  IN  /\ stale # {}
      /\ Settle(stale, "cancelled", res)
      /\ UNCHANGED <<profile, att, lease, lapsed, late, moves>>

\* close_stale_reservations: envelopes whose owner is gone are cancelled.
CloseStale ==
  LET stale == Open \intersect lapsed
  IN  /\ stale # {}
      /\ Settle(stale, "cancelled", res)
      /\ UNCHANGED <<profile, att, lease, lapsed, late, moves>>

-----------------------------------------------------------------------------
(* Attempts of a job under its reservation. *)

AttemptsOf(r, states) == {a \in Att : att[a].of = r /\ att[a].state \in states}

\* Everything authorize_reservation_attempt demands of the rows it locks.
Authorizes(r) ==
  /\ CycleAllows
  /\ profile.on /\ profile.gen = res[r].gen
  /\ res[r].state = "active"

\* What is booked, what is pending and the new estimate fit the reservation.
HoldsCapacity(r, e) ==
  res[r].est + Total([a \in Att |-> att[a].est], AttemptsOf(r, {"authorized"})) + e
    <= res[r].bytes

\* authorize_reservation_attempt: a row that holds the estimate.
AuthorizeAttempt(r, a, e) ==
  /\ att[a].state = "none"
  /\ Authorizes(r) /\ HoldsCapacity(r, e)
  /\ att' = [att EXCEPT ![a] = [state |-> "authorized", of |-> r, est |-> e, sent |-> FALSE]]

\* The lease still starts attempts.
CanStart(r, e) ==
  lease[r].held /\ ~lease[r].failed /\ lease[r].used + e <= res[r].bytes

\* authorize: the transaction commits while the call is in flight.
Authorize(r, a, e) ==
  /\ r \notin Probes /\ CanStart(r, e)
  /\ AuthorizeAttempt(r, a, e)
  /\ lease' = [lease EXCEPT ![r].flying = @ \union {a}]
  /\ UNCHANGED <<cycle, profile, res, lapsed, late, moves>>

\* A denial stops the lease; a full reservation only refuses the attempt.
AuthorizeDenied(r) ==
  /\ r \notin Probes /\ lease[r].held /\ ~lease[r].failed
  /\ ~Authorizes(r)
  /\ lease' = [lease EXCEPT ![r].failed = TRUE]
  /\ UNCHANGED <<cycle, profile, res, att, lapsed, late, moves>>

\* The reply arrives and the attempt goes out, or the reply is lost: the row is
\* then authorized for ever and the lease starts nothing more.
AuthorizeReturns(r, a, lost) ==
  /\ lease[r].held /\ a \in lease[r].flying
  /\ lease' = [lease EXCEPT ![r].flying = @ \ {a},
                            ![r].pending = IF lost THEN @ ELSE @ \union {a},
                            ![r].failed = @ \/ lost]
  /\ \E sent \in BOOLEAN :
       /\ lost => ~sent
       /\ att' = [att EXCEPT ![a].sent = sent]
  /\ UNCHANGED <<cycle, profile, res, lapsed, late, moves>>

\* The process takes the ledger's total over, and stops a revoked or exhausted
\* lease.
Counted(r, a, total) ==
  [lease[r] EXCEPT !.used = total, !.pending = @ \ {a},
                   !.failed = @ \/ res[r].state = "revocation_requested" \/ total > res[r].bytes]

\* reconcile_reservation_attempt: the actual bytes are booked once, whatever
\* became of the reservation.
BookAttempt(r, a, n) ==
  /\ att[a].state = "authorized"
  /\ att' = [att EXCEPT ![a].state = "reconciled"]
  /\ res' = [res EXCEPT ![r].est = @ + n]
  /\ late' = IF r \in Settled THEN [late EXCEPT ![r] = @ + n] ELSE late

\* reconcile: a lost reply leaves the attempt pending in the books.
Reconcile(r, a, n, lost) ==
  /\ lease[r].held /\ a \in lease[r].pending
  /\ att[a].sent /\ BookAttempt(r, a, n)
  /\ lease' = [lease EXCEPT ![r] = IF lost THEN [@ EXCEPT !.failed = TRUE]
                                   ELSE Counted(r, a, res[r].est + n)]
  /\ UNCHANGED <<cycle, profile, lapsed, moves>>

\* The transaction of a reconciliation failed: the row stays authorized.
ReconcileFails(r, a) ==
  /\ lease[r].held /\ a \in lease[r].pending
  /\ att[a].state = "authorized" /\ att[a].sent /\ ~lease[r].failed
  /\ lease' = [lease EXCEPT ![r].failed = TRUE]
  /\ UNCHANGED <<cycle, profile, res, att, lapsed, late, moves>>

\* An attempt that was never dispatched gives its estimate back.
ReleaseAttempt(r, a) ==
  /\ lease[r].held /\ a \in lease[r].pending
  /\ att[a].state = "authorized" /\ ~att[a].sent
  /\ att' = [att EXCEPT ![a].state = "released"]
  /\ lease' = [lease EXCEPT ![r].pending = @ \ {a}]
  /\ UNCHANGED <<cycle, profile, res, lapsed, late, moves>>

-----------------------------------------------------------------------------
(* Reconciliation with the provider. *)

Moves == moves > 0 /\ moves' = moves - 1

\* The ledger only ever rises, and reaching the ceiling shuts the switch.
Reconciled(n) ==
  [cycle EXCEPT !.reported = Higher(@, n), !.ok = TRUE, !.recent = TRUE,
                !.kill = @ \/ Higher(cycle.reported, n) >= Operational]

\* reconcile_now read the cycle while it was active; it may have been closed
\* while the provider was asked.
MayReconcile == cycle.life # "proposed"

\* The provider answered: one transaction books the total and completes every
\* open request; the requests that settlements insert only make the scheduler
\* ask sooner, and it may ask at any time.
ReconcileSucceeds(n) ==
  /\ MayReconcile
  /\ cycle' = Reconciled(n)
  /\ UNCHANGED <<profile, res, att, lease, lapsed, late, moves>>

\* The provider did not answer: traffic stays shut until it does.
ReconcileNowFails ==
  /\ MayReconcile /\ cycle.ok /\ Moves
  /\ cycle' = [cycle EXCEPT !.ok = FALSE]
  /\ UNCHANGED <<profile, res, att, lease, lapsed, late>>

-----------------------------------------------------------------------------
(* Operators, and time. *)

OnCycle(c) == cycle' = c /\ UNCHANGED <<profile, att, lapsed, late>>

\* kill_switch activate
ActivateKill ==
  /\ cycle.life = "active" /\ Moves
  /\ OnCycle([cycle EXCEPT !.kill = TRUE]) /\ UNCHANGED <<res, lease>>

\* kill_switch revoke: the switch, and every active reservation
RevokeLeases ==
  /\ cycle.life = "active" /\ Moves
  /\ OnCycle([cycle EXCEPT !.kill = TRUE])
  /\ res' = [r \in Res |-> IF res[r].state = "active"
                           THEN [res[r] EXCEPT !.state = "revocation_requested"] ELSE res[r]]
  /\ UNCHANGED lease

\* Fault: only the application's own count is compared.
SafeToClearOwn ==
  /\ cycle.life = "active" /\ cycle.ok /\ cycle.recent
  /\ cycle.app < Operational
  /\ profile.on

\* The gates of kill_switch clear.
SafeToClear ==
  /\ cycle.life = "active" /\ cycle.ok /\ cycle.recent
  /\ Accounted < Operational
  /\ profile.on

ClearKill ==
  /\ SafeToClear
  /\ OnCycle([cycle EXCEPT !.kill = FALSE]) /\ UNCHANGED <<res, lease, moves>>

\* pilot_action: starting needs a recent reconciliation, stopping does not.
SetPilot(on) ==
  /\ cycle.life = "active" /\ cycle.pilot # on
  /\ IF on THEN cycle.ok /\ cycle.recent /\ UNCHANGED moves ELSE Moves
  /\ OnCycle([cycle EXCEPT !.pilot = on]) /\ UNCHANGED <<res, lease>>

\* A proposed cycle is opened, and starts out shut and unreconciled.
OpenCycle ==
  /\ cycle.life = "proposed"
  /\ OnCycle([cycle EXCEPT !.life = "active", !.kill = TRUE, !.ok = FALSE])
  /\ UNCHANGED <<res, lease, moves>>

\* An ended cycle is closed once no reservation of it is open.
CloseCycle ==
  /\ cycle.life = "active" /\ cycle.ended /\ Open = {}
  /\ OnCycle([cycle EXCEPT !.life = "closed", !.kill = TRUE]) /\ UNCHANGED <<res, lease, moves>>

\* cycle_end passes; reconciled_at grows older than twenty minutes; the day the
\* reservations were made on ends.
TimePasses ==
  /\ Moves
  /\ \/ /\ ~cycle.ended
        /\ OnCycle([cycle EXCEPT !.ended = TRUE]) /\ UNCHANGED res
     \/ /\ cycle.recent
        /\ OnCycle([cycle EXCEPT !.recent = FALSE]) /\ UNCHANGED res
     \/ /\ \E r \in Res : res[r].today
        /\ res' = [r \in Res |-> [res[r] EXCEPT !.today = FALSE]]
        /\ OnCycle(cycle)
  /\ UNCHANGED lease

\* The profile is disabled, or its secret is rotated (see ProxyProfiles).
ProfileChanges(on, gen) ==
  /\ profile.on /\ Moves
  /\ \/ ~on /\ gen = profile.gen
     \/ on /\ gen = profile.gen + 1
  /\ profile' = [on |-> on, gen |-> gen]
  /\ UNCHANGED <<cycle, res, att, lease, lapsed, late>>

BudgetNext ==
  \/ \E r \in Res :
       \/ \E b \in Requested : Acquire(r, b)
       \/ \E n \in Actuals \ {0} : ProbeSpends(r, n)
       \/ Release(r) \/ Dies(r) \/ Lapse(r) \/ AuthorizeDenied(r)
       \/ \E a \in Att :
            \/ \E e \in Estimates : Authorize(r, a, e)
            \/ \E lost \in BOOLEAN : AuthorizeReturns(r, a, lost)
            \/ \E n \in Actuals, lost \in BOOLEAN : Reconcile(r, a, n, lost)
            \/ ReconcileFails(r, a)
            \/ ReleaseAttempt(r, a)
  \/ CloseStale
  \/ (\E n \in Reports : ReconcileSucceeds(n)) \/ ReconcileNowFails
  \/ ActivateKill \/ RevokeLeases \/ ClearKill
  \/ \E on \in BOOLEAN : SetPilot(on)
  \/ OpenCycle \/ CloseCycle \/ TimePasses
  \/ \E on \in BOOLEAN, gen \in 0..MaxGen : ProfileChanges(on, gen)

\* ReconciliationScheduler runs close_stale_reservations every five seconds; a
\* job ends or loses its lease when its worker is gone, and a probe times out.
Fairness ==
  /\ WF_budgetVars(CloseStale)
  /\ \A r \in Res : WF_budgetVars(~lease[r].held /\ Lapse(r))

BudgetSpec == BudgetInit /\ [][BudgetNext]_budgetVars /\ Fairness

-----------------------------------------------------------------------------
(* Properties. *)

\* Every row keeps the shape its table gives it, and a process only counts as
\* pending what is authorized under its own reservation, unless a reply was lost.
BudgetTypeOK ==
  /\ cycle \in [life : {"proposed", "active", "closed"}, ended : BOOLEAN, kill : BOOLEAN,
                ok : BOOLEAN, recent : BOOLEAN, reported : Nat, app : Nat, pilot : BOOLEAN]
  /\ profile \in [on : BOOLEAN, gen : 0..MaxGen]
  /\ \A r \in Res :
       /\ res[r].state \in {"none", "active", "revocation_requested", "closed", "cancelled"}
       /\ res[r].est \in Nat /\ res[r].bytes \in {0} \union Requested
       /\ \A a \in lease[r].pending \union lease[r].flying : att[a].of = r
       /\ \A a \in lease[r].pending : att[a].state = "authorized" \/ lease[r].failed
  /\ \A a \in Att : att[a].state \in {"none", "authorized", "reconciled", "released"}

\* The promise of reserve(): what open reservations may still spend and what
\* settled ones spent stay within the operational ceiling together, whichever
\* worker died, lost a reply or was cancelled while it still ran.  Left out are
\* only the bytes an attempt moved beyond its reservation and the bytes that
\* arrive after the reservation was settled: those the code books late.
SpendFitsCeiling ==
  Reserved + Total([r \in Res |-> Lower(res[r].est - late[r], res[r].bytes)], Settled)
    <= Operational

\* A cycle whose provider or application count has reached the ceiling is shut,
\* whatever operators clear and in whichever order the counts arrive.
ExhaustedIsShut ==
  cycle.life = "active" /\ Accounted >= Operational => cycle.kill

\* No envelope is stranded: when the process that reserved it is gone, the
\* reservation is settled in the end and its capacity comes back.
EnvelopeSettles ==
  \A r \in Res : (r \in Open /\ ~lease[r].held) ~> (r \in Settled)
=============================================================================
