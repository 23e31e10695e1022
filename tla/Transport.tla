----------------------------- MODULE Transport -----------------------------
(***************************************************************************)
(* The requests of one collection of commerce-scraper: the retry loop of   *)
(* MiddlewareTransport, the direct or proxy route RoutedTransport picks    *)
(* for every attempt, the permits of the rate limiter, and the end of the  *)
(* collection, which takes the lease back.                                 *)
(*                                                                         *)
(* Tasks are coroutines of one event loop.  The critical sections of       *)
(* RoutedTransport hold the lock of an asyncio.Condition across no await   *)
(* but wait(), so each is one step; a task in wait() is parked until some  *)
(* step calls notify_all.  A task may be cancelled at every await.         *)
(***************************************************************************)
EXTENDS Naturals, FiniteSets

CONSTANTS
  Tasks,     \* requests of the collection
  Modes,     \* proxy policies to look at
  Retries,   \* retries of MiddlewareTransport
  Permits,   \* FetchPolicy.concurrency
  Attempts,  \* attempts the request budget allows
  MaxLeases, \* bound: leases the pool can still hand out
  MaxFaults  \* bound: failures, refusals and cancellations

ASSUME ModesAreKnown == Modes \subseteq {"fallback", "always", "failover"}
ASSUME TasksAreFinite == IsFiniteSet(Tasks)
ASSUME NumbersAreNaturals == {Retries, Permits, Attempts, MaxLeases, MaxFaults} \subseteq Nat

VARIABLES
  mode,    \* ProxyPolicyConfig.mode
  rt,      \* RoutedTransport: lease, pending rotation, active requests, ...
  held,    \* leases the pool has handed out and not got back
  spent,   \* leases handed out so far
  refused, \* leases whose release the pool refused
  late,    \* tasks whose reconciliation runs on without them
  permits, \* free permits per route
  budget,  \* attempts used, and the tasks holding an authorization
  task,    \* tasks
  closer,  \* aclose()
  faults   \* bound: what is left of MaxFaults

vars == <<mode, rt, held, spent, refused, late, permits, budget, task, closer, faults>>

None == 0

Init ==
  /\ mode \in Modes
  /\ rt = [lease |-> None, pending |-> FALSE, active |-> 0, moving |-> FALSE,
           gen |-> 0, closed |-> FALSE]
  /\ held = {} /\ spent = 0 /\ refused = {} /\ late = {}
  /\ permits = [r \in {"direct", "proxy"} |-> Permits]
  /\ budget = [used |-> 0, by |-> {}]
  /\ task = [t \in Tasks |-> [at |-> "idle", for |-> "send", try |-> 0, lease |-> None,
                              gen |-> 0, bad |-> 0, stale |-> FALSE, out |-> "ok"]]
  /\ closer = [at |-> "none", lease |-> None]
  /\ faults = MaxFaults

Fault == faults > 0 /\ faults' = faults - 1
Goes(t, step) == [task EXCEPT ![t].at = step]

\* notify_all: whoever waits looks again.
Woken(f) == [t \in Tasks |->
  CASE f[t].at = "parked" -> [f[t] EXCEPT !.at = "checkout"]
    [] f[t].at = "waiting" -> [f[t] EXCEPT !.at = "waited"]
    [] OTHER -> f[t]]
CloserWoken == IF closer.at = "parked" THEN [closer EXCEPT !.at = "draining"] ELSE closer

\* The steps in which a task counts among the active requests of its route.
Using == {"authorize", "send", "sending", "settle", "checkin"}

-----------------------------------------------------------------------------
(* MiddlewareTransport. *)

\* The request is allowed by robots.txt, and not answered by a fresh entry of
\* the cache; an entry that has expired is kept at hand.
Begin(t, stale) ==
  /\ task[t].at = "idle"
  /\ task' = [task EXCEPT ![t].at = "attempt", ![t].try = 1, ![t].stale = stale]
  /\ UNCHANGED <<mode, rt, held, spent, refused, late, permits, budget, closer, faults>>

\* One attempt needs one authorization of the request budget.
AuthorizeBudget(t) ==
  /\ task[t].at = "attempt"
  /\ IF budget.used < Attempts
     THEN /\ budget' = [used |-> budget.used + 1, by |-> budget.by \union {t}]
          /\ task' = [task EXCEPT ![t].at = "route", ![t].for = "send"]
     ELSE task' = [task EXCEPT ![t].at = "ended", ![t].out = "error"] /\ UNCHANGED budget
  /\ UNCHANGED <<mode, rt, held, spent, refused, late, permits, closer, faults>>

\* Statuses and failures that are tried again, and those that blame the identity.
\* ("blocked" is 403; "failed" stands for a transport failure and for 429.)
Transient == {"busy", "blocked", "failed"}
Blames    == {"blocked", "failed"}

\* _can_use_stale: everything transient but a 403.
CanUseStale(t) == task[t].stale /\ task[t].out \in {"busy", "failed"}

\* The attempt is over: the authorization is reconciled, and the outcome ends
\* the request (with the expired entry, if it may) or starts the next attempt,
\* after a change of identity if that is to blame and no entry is at hand.
Retry(t) ==
  /\ task[t].at = "answered"
  /\ budget' = [budget EXCEPT !.by = budget.by \ {t}]
  /\ IF task[t].out \in Transient /\ task[t].try <= Retries
     THEN task' = [task EXCEPT ![t].try = task[t].try + 1,
                     ![t].at = IF task[t].out \in Blames /\ ~CanUseStale(t) THEN "rotate" ELSE "attempt"]
     ELSE task' = [task EXCEPT ![t].at = "ended",
                               ![t].out = IF CanUseStale(t) THEN "ok" ELSE task[t].out]
  /\ UNCHANGED <<mode, rt, held, spent, refused, late, permits, closer, faults>>

\* An exception of the routing leaves the attempt, or the rotation, behind.
Raises(t) == [task EXCEPT ![t].out = "error",
                          ![t].at = IF task[t].for = "send" THEN "answered" ELSE "ended"]

-----------------------------------------------------------------------------
(* RoutedTransport. *)

\* request(): a fallback policy stays direct until a rotation was asked for.
SelectRoute(t) ==
  /\ task[t].at = "route"
  /\ task' = CASE rt.closed -> Raises(t)
               [] ~rt.closed /\ mode = "fallback" /\ rt.lease = None /\ ~rt.pending /\ ~rt.moving ->
                    Goes(t, "direct")
               [] OTHER -> Goes(t, "checkout")
  /\ UNCHANGED <<mode, rt, held, spent, refused, late, permits, budget, closer, faults>>

\* Fault: the route is replaced although requests are using it.
RouteIsFreeAlways == TRUE

\* No request is using the route.
RouteIsFree == rt.active = 0

\* Fault: the route is used although its rotation was asked for.
RouteIsGoodAnyway == rt.lease # None

\* There is a route, and nobody asked for its rotation.
RouteIsGood == rt.lease # None /\ ~rt.pending

\* _checkout_proxy_route: use the route, wait, or start to replace it.
Checkout(t) ==
  /\ task[t].at = "checkout"
  /\ \/ rt.closed /\ task' = Raises(t) /\ UNCHANGED rt
     \/ /\ ~rt.closed /\ ~rt.moving /\ RouteIsGood
        /\ rt' = [rt EXCEPT !.active = rt.active + 1]
        /\ task' = [task EXCEPT ![t].lease = rt.lease, ![t].gen = rt.gen,
                                ![t].at = IF task[t].for = "send" THEN "authorize" ELSE "checkin"]
     \/ /\ ~rt.closed /\ ~rt.moving /\ ~RouteIsGood /\ RouteIsFree
        /\ rt' = [rt EXCEPT !.moving = TRUE, !.lease = None, !.pending = FALSE]
        /\ task' = [task EXCEPT ![t].lease = rt.lease, ![t].at = "replace"]
     \/ /\ ~rt.closed /\ (rt.moving \/ (~RouteIsGood /\ ~RouteIsFree))
        /\ task' = Goes(t, "parked") /\ UNCHANGED rt
  /\ UNCHANGED <<mode, held, spent, refused, late, permits, budget, closer, faults>>

\* The pool refuses to rotate or release a lease with unreconciled attempts.
PoolRefuses(l) == l # None /\ late # {}

\* _replace_route succeeds: a lease is acquired, or the old one rotated.
Replace(t) ==
  /\ task[t].at = "replace" /\ ~PoolRefuses(task[t].lease) /\ spent < MaxLeases
  /\ spent' = spent + 1
  /\ held' = (held \ {task[t].lease}) \union {spent + 1}
  /\ rt' = [rt EXCEPT !.lease = spent + 1, !.gen = rt.gen + 1, !.moving = FALSE]
  /\ task' = Woken(Goes(t, "checkout")) /\ closer' = CloserWoken
  /\ UNCHANGED <<mode, refused, late, permits, budget, faults>>

\* Fault: a failed rotation forgets the lease it detached.
AfterFailedReplaceKept(t) == [held |-> held, refused |-> refused]

\* The detached lease is released, unless the pool refuses that too.
AfterFailedReplace(t) ==
  IF PoolRefuses(task[t].lease)
  THEN [held |-> held, refused |-> refused \union {task[t].lease}]
  ELSE [held |-> held \ {task[t].lease}, refused |-> refused]

\* It fails, or is cancelled: nothing is installed and everybody looks again.
ReplaceFails(t) ==
  /\ task[t].at = "replace"
  /\ IF PoolRefuses(task[t].lease) \/ spent = MaxLeases THEN UNCHANGED faults ELSE Fault
  /\ held' = AfterFailedReplace(t).held /\ refused' = AfterFailedReplace(t).refused
  /\ rt' = [rt EXCEPT !.moving = FALSE]
  /\ task' = Woken(Raises(t)) /\ closer' = CloserWoken
  /\ UNCHANGED <<mode, spent, late, permits, budget>>

\* The pool authorizes the attempt; a refusal is an error of the request.
AuthorizeAttempt(t, ok) ==
  /\ task[t].at = "authorize"
  /\ IF ok THEN task' = Goes(t, "send") /\ UNCHANGED faults
     ELSE task' = [task EXCEPT ![t].at = "checkin", ![t].out = "error"] /\ Fault
  /\ UNCHANGED <<mode, rt, held, spent, refused, late, permits, budget, closer>>

\* PerOriginRateLimiter.wait, one limiter per route.
RouteOf(t) == IF task[t].at \in {"direct", "directing"} THEN "direct" ELSE "proxy"
AcquirePermit(t) ==
  /\ task[t].at \in {"direct", "send"} /\ permits[RouteOf(t)] > 0
  /\ permits' = [permits EXCEPT ![RouteOf(t)] = @ - 1]
  /\ task' = Goes(t, IF task[t].at = "direct" THEN "directing" ELSE "sending")
  /\ UNCHANGED <<mode, rt, held, spent, refused, late, budget, closer, faults>>

\* The direct transport answers.
DirectAnswers(t, out) ==
  /\ task[t].at = "directing"
  /\ permits' = [permits EXCEPT !["direct"] = @ + 1]
  /\ task' = [task EXCEPT ![t].at = "answered", ![t].out = out]
  /\ IF out = "ok" THEN UNCHANGED faults ELSE Fault
  /\ UNCHANGED <<mode, rt, held, spent, refused, late, budget, closer>>

\* _schedule_rotation: closed, moving or a newer generation: the report is void.
ReportCounts(t) == ~rt.closed /\ ~rt.moving /\ task[t].gen = rt.gen

Answered(t, out) ==
  [task EXCEPT ![t].at = "settle", ![t].out = out,
               ![t].bad = IF out \in Blames THEN task[t].gen ELSE task[t].bad]

\* The proxy answers: the outcome is reported and, under failover, a block or a
\* failure asks for a rotation of that generation.
ProxyAnswers(t, out) ==
  /\ task[t].at = "sending"
  /\ permits' = [permits EXCEPT !["proxy"] = @ + 1]
  /\ IF out = "ok" THEN UNCHANGED faults ELSE Fault
  /\ IF mode = "failover" /\ out \in Blames /\ ReportCounts(t)
     THEN /\ rt' = [rt EXCEPT !.pending = TRUE]
          /\ task' = Woken(Answered(t, out)) /\ closer' = CloserWoken
     ELSE task' = Answered(t, out) /\ UNCHANGED <<rt, closer>>
  /\ UNCHANGED <<mode, held, spent, refused, late, budget>>

\* The authorization is reconciled with the pool.
Settle(t) ==
  /\ task[t].at = "settle" /\ task' = Goes(t, "checkin")
  /\ UNCHANGED <<mode, rt, held, spent, refused, late, permits, budget, closer, faults>>

\* The reconciliation of a cancelled request ends in the background.
SettleLate(t) ==
  /\ t \in late /\ late' = late \ {t}
  /\ UNCHANGED <<mode, rt, held, spent, refused, permits, budget, task, closer, faults>>

\* Fault: the waiters are not told that a request returned its route.
WokenByCheckinNever(f) == f

WokenByCheckin(f) == Woken(f)

\* _checkin_proxy_route.
Checkin(t) ==
  /\ task[t].at = "checkin"
  /\ rt' = [rt EXCEPT !.active = rt.active - 1]
  /\ task' = WokenByCheckin(Goes(t, IF task[t].for = "send" THEN "answered" ELSE "attempt"))
  /\ closer' = CloserWoken
  /\ UNCHANGED <<mode, held, spent, refused, late, permits, budget, faults>>

\* rotate_identity_for_request: a rotation under way serves this request too.
Rotate(t) ==
  /\ \/ /\ rt.closed /\ task[t].at \in {"rotate", "waited"}
        /\ task' = [task EXCEPT ![t].at = "ended", ![t].out = "error"] /\ UNCHANGED rt
     \/ /\ ~rt.closed /\ rt.moving /\ task[t].at \in {"rotate", "waited"}
        /\ task' = Goes(t, "waiting") /\ UNCHANGED rt
     \/ /\ ~rt.closed /\ ~rt.moving /\ task[t].at = "waited" /\ rt.lease # None
        /\ task' = Goes(t, "attempt") /\ UNCHANGED rt
     \/ /\ ~rt.closed /\ ~rt.moving
        /\ task[t].at = "rotate" \/ (task[t].at = "waited" /\ rt.lease = None)
        /\ rt' = [rt EXCEPT !.pending = TRUE]
        /\ task' = [task EXCEPT ![t].at = "checkout", ![t].for = "rotate"]
  /\ UNCHANGED <<mode, held, spent, refused, late, permits, budget, closer, faults>>

-----------------------------------------------------------------------------
(* Cancellation. *)

Cancelled(t, step) == [task EXCEPT ![t].at = step, ![t].out = "cancelled", ![t].for = "send"]

\* Fault: a request cancelled in flight keeps its permit.
PermitBackNever(route) == permits

PermitBack(route) == [permits EXCEPT ![route] = @ + 1]

\* A task is cancelled where it waits: it leaves the wait, gives its permit back
\* and runs its finally blocks.  A reconciliation is shielded: it goes on alone.
Cancel(t) ==
  /\ Fault
  /\ \/ /\ task[t].at \in {"parked", "direct"}
        /\ task' = Cancelled(t, "answered") /\ UNCHANGED <<permits, late>>
     \/ /\ task[t].at \in {"waiting", "attempt"}
        /\ task' = Cancelled(t, "ended") /\ UNCHANGED <<permits, late>>
     \/ /\ task[t].at = "directing"
        /\ task' = Cancelled(t, "answered") /\ UNCHANGED late
        /\ permits' = PermitBack("direct")
     \/ /\ task[t].at = "send"
        /\ task' = Cancelled(t, "settle") /\ UNCHANGED <<permits, late>>
     \/ /\ task[t].at = "sending"
        /\ task' = Cancelled(t, "settle") /\ UNCHANGED late
        /\ permits' = PermitBack("proxy")
     \/ /\ task[t].at = "settle"
        /\ task' = Cancelled(t, "checkin") /\ late' = late \union {t} /\ UNCHANGED permits
  /\ UNCHANGED <<mode, rt, held, spent, refused, budget, closer>>

-----------------------------------------------------------------------------
(* The end of the collection. *)

\* aclose(): refuse new work, then wait for the requests under way.
BeginClose ==
  /\ closer.at = "none"
  /\ rt' = [rt EXCEPT !.closed = TRUE]
  /\ closer' = [closer EXCEPT !.at = "draining"] /\ task' = Woken(task)
  /\ UNCHANGED <<mode, held, spent, refused, late, permits, budget, faults>>

Drain ==
  /\ closer.at = "draining"
  /\ IF rt.moving \/ rt.active > 0
     THEN closer' = [closer EXCEPT !.at = "parked"] /\ UNCHANGED rt
     ELSE /\ closer' = [at |-> "releasing", lease |-> rt.lease]
          /\ rt' = [rt EXCEPT !.moving = TRUE, !.lease = None]
  /\ UNCHANGED <<mode, held, spent, refused, late, permits, budget, task, faults>>

Release ==
  /\ closer.at = "releasing"
  /\ IF PoolRefuses(closer.lease)
     THEN refused' = refused \union {closer.lease} /\ UNCHANGED held
     ELSE held' = held \ {closer.lease} /\ UNCHANGED refused
  /\ rt' = [rt EXCEPT !.moving = FALSE]
  /\ closer' = [at |-> "done", lease |-> None] /\ task' = Woken(task)
  /\ UNCHANGED <<mode, spent, late, permits, budget, faults>>

-----------------------------------------------------------------------------
Outcomes == {"ok"} \union Transient

Step(t) ==
  \/ AcquirePermit(t) \/ AuthorizeBudget(t) \/ Retry(t) \/ SelectRoute(t) \/ Checkout(t)
  \/ Replace(t) \/ ReplaceFails(t) \/ Settle(t) \/ Checkin(t) \/ Rotate(t)
  \/ \E ok \in BOOLEAN : AuthorizeAttempt(t, ok)
  \/ \E out \in Outcomes : DirectAnswers(t, out) \/ ProxyAnswers(t, out)

Next ==
  \/ \E t \in Tasks : (\E stale \in BOOLEAN : Begin(t, stale)) \/ Step(t) \/ SettleLate(t) \/ Cancel(t)
  \/ BeginClose \/ Drain \/ Release

\* The event loop runs every ready coroutine, and transports and pools answer or
\* time out.
Fairness ==
  /\ \A t \in Tasks : WF_vars(Step(t)) /\ WF_vars(SettleLate(t))
  /\ WF_vars(Drain \/ Release)

Spec == Init /\ [][Next]_vars /\ Fairness

-----------------------------------------------------------------------------
(* Properties. *)

\* Types.
TypeOK ==
  /\ mode \in Modes /\ spent \in 0..MaxLeases /\ faults \in 0..MaxFaults
  /\ rt \in [lease : 0..spent, pending : BOOLEAN, active : Nat, moving : BOOLEAN,
             gen : Nat, closed : BOOLEAN]
  /\ held \subseteq 1..spent /\ refused \subseteq 1..spent /\ late \subseteq Tasks
  /\ permits \in [{"direct", "proxy"} -> 0..Permits]
  /\ budget \in [used : 0..Attempts, by : SUBSET Tasks]
  /\ task \in [Tasks -> [at : Using \union {"idle", "attempt", "route", "direct", "directing", "checkout",
                                          "parked", "replace", "answered", "rotate", "waiting",
                                          "waited", "ended"},
                         for : {"send", "rotate"}, try : 0..(Retries + 1), lease : 0..spent, gen : Nat,
                         bad : Nat, stale : BOOLEAN, out : Transient \union {"ok", "error", "cancelled"}]]
  /\ closer \in [at : {"none", "draining", "parked", "releasing", "done"}, lease : 0..spent]

\* Nothing that is counted leaks: every request that holds the route, a permit of
\* its origin or a physical attempt of the budget is still there to give it back,
\* and no permit was given back twice, at whichever await a request was cancelled
\* (proxy/transport.py, rate_limit.py, transports/base.py).
PermitsConserved ==
  /\ rt.active = Cardinality({t \in Tasks : task[t].at \in Using})
  /\ permits["direct"] + Cardinality({t \in Tasks : task[t].at = "directing"}) = Permits
  /\ permits["proxy"] + Cardinality({t \in Tasks : task[t].at = "sending"}) = Permits
  /\ budget.used <= Attempts
  /\ \A t \in budget.by : task[t].at # "ended"

\* A request keeps the lease it was given until it has returned its route: no
\* rotation, failed rotation or close takes it away meanwhile.
RouteKeptWhileUsed ==
  \A t \in Tasks : task[t].at \in Using => task[t].lease \in held /\ task[t].lease = rt.lease

\* No paid lease is lost: what the pool has handed out is the route in use, on
\* its way to be replaced or released, or was refused by the pool because a
\* cancelled request's reconciliation was still under way.
NoLeaseLost ==
  \A l \in held :
    \/ l = rt.lease \/ l \in refused
    \/ l = closer.lease
    \/ \E t \in Tasks : task[t].at = "replace" /\ task[t].lease = l

\* A request that was blocked or failed on one identity does not meet it again,
\* whoever rotates it, and although other requests ask for rotations meanwhile;
\* unless it has an expired entry of the cache to fall back on.
BlockedIdentityLeft ==
  \A t \in Tasks : task[t].at \in {"authorize", "send", "sending"} =>
    task[t].gen > task[t].bad \/ task[t].stale

\* Nobody waits for ever: the requests that were made end, and so does the
\* close, whoever is cancelled, refused or rotated away meanwhile.
EverybodyEnds ==
  <>[](closer.at \in {"none", "done"} /\ \A t \in Tasks : task[t].at \in {"idle", "ended"})
=============================================================================
