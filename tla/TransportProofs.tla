---------------------------- MODULE TransportProofs ----------------------------
(***************************************************************************)
(* Proofs about Transport, for every finite set of requests, every number  *)
(* of permits, attempts, retries and leases, and every proxy policy: what  *)
(* is counted is conserved, a route is kept while it is used, no lease is  *)
(* lost, and a request does not meet again the identity that blocked it.   *)
(*                                                                         *)
(* The four invariants need one another.  The route may be replaced only   *)
(* when the count of active requests is 0, so that RouteKeptWhileUsed      *)
(* rests on PermitsConserved; and both rest on the replacement being       *)
(* exclusive (OneMover).  BlockedIdentityLeft is about the moment of the   *)
(* checkout: what has to be carried there from the failed attempt, over    *)
(* every wait, is that the bad generation is still due to be replaced      *)
(* (IdentityCarried).                                                      *)
(***************************************************************************)
EXTENDS Transport, FiniteSetTheorems, TLAPS

\* One replacement or release of the route at a time, and none of them while a
\* lease is installed (proxy/transport.py, _route_changing).
OneMover ==
  /\ rt.lease # None => rt.lease \in held
  /\ rt.moving => rt.lease = None
  /\ closer.at = "releasing" => rt.moving
  /\ closer.lease # None => closer.at = "releasing"
  /\ \A t \in Tasks : task[t].at = "replace" => rt.moving /\ closer.at # "releasing"
  /\ \A t, u \in Tasks : task[t].at = "replace" /\ task[u].at = "replace" => t = u

\* A task that holds an authorization of the budget is inside the attempt that
\* took it (transports/base.py, the try of the retry loop).
BudgetIsInAttempt ==
  \A t \in budget.by :
    /\ task[t].for = "send"
    /\ task[t].at \in Using \union {"route", "direct", "directing", "checkout", "parked",
                                    "replace", "answered"}

\* The bad generation of a task is not the one it would get now: it was left, or
\* there is no route, or its rotation is pending.
Left(t) == task[t].stale \/ (rt.gen = task[t].bad => rt.lease = None \/ rt.pending)

\* What one task carries from a failed attempt to the next one, over every wait.
CarriedBy(t) ==
  /\ task[t].bad <= rt.gen /\ task[t].gen <= rt.gen
  /\ task[t].at \in {"authorize", "send", "sending", "settle"} => task[t].for = "send"
  /\ task[t].at \in {"authorize", "send", "sending"} => task[t].gen > task[t].bad \/ task[t].stale
  /\ task[t].at = "idle" => ~task[t].stale
  /\ task[t].at \in {"idle", "attempt", "route", "direct", "directing", "checkout", "parked",
                     "replace"} => Left(t)
  /\ task[t].at \in {"waiting", "waited"} =>
       task[t].stale \/ (rt.gen = task[t].bad => rt.lease = None)
  /\ task[t].at \in {"settle", "checkin", "answered"} /\ task[t].out = "busy" => Left(t)
  /\ task[t].at = "checkin" /\ task[t].for = "rotate" => Left(t)

IdentityCarried == \A t \in Tasks : CarriedBy(t)

\* The inductive invariant of a collection's requests.
TransportInv ==
  /\ TypeOK /\ PermitsConserved /\ RouteKeptWhileUsed /\ NoLeaseLost
  /\ OneMover /\ BudgetIsInAttempt /\ IdentityCarried

-----------------------------------------------------------------------------
(* Tasks. *)

Ats == Using \union {"idle", "attempt", "route", "direct", "directing", "checkout", "parked",
                     "replace", "answered", "rotate", "waiting", "waited", "ended"}
Outs == Transient \union {"ok", "error", "cancelled"}

\* A task, once the pool has handed out n leases.
TaskUpTo(n) ==
  [at : Ats, for : {"send", "rotate"}, try : 0..(Retries + 1), lease : 0..n, gen : Nat,
   bad : Nat, stale : BOOLEAN, out : Outs]

\* A step leaves a task alone, or wakes it.
Undisturbed(u) ==
  \/ task'[u] = task[u]
  \/ task[u].at = "parked" /\ task'[u] = [task[u] EXCEPT !.at = "checkout"]
  \/ task[u].at = "waiting" /\ task'[u] = [task[u] EXCEPT !.at = "waited"]

\* The constants are naturals.
LEMMA Numbers ==
  /\ Retries \in Nat /\ Permits \in Nat /\ Attempts \in Nat
  /\ MaxLeases \in Nat /\ MaxFaults \in Nat
BY NumbersAreNaturals

\* A task's type while the pool hands out no fewer leases.
LEMMA TasksGrow ==
  ASSUME NEW m \in Nat, NEW n \in Nat, m <= n, NEW r \in TaskUpTo(m)
  PROVE  r \in TaskUpTo(n)
BY DEF TaskUpTo

\* What the types say of one task.
LEMMA TypeOfTask ==
  ASSUME TypeOK
  PROVE  task \in [Tasks -> TaskUpTo(spent)] /\ spent \in Nat
BY Numbers DEF TypeOK, TaskUpTo, Ats, Outs

\* notify_all wakes who waits and changes nothing else of them.
LEMMA WokenTasks ==
  ASSUME NEW n \in Nat, NEW f \in [Tasks -> TaskUpTo(n)]
  PROVE  /\ Woken(f) \in [Tasks -> TaskUpTo(n)]
         /\ \A u \in Tasks :
              \/ Woken(f)[u] = f[u] /\ f[u].at \notin {"parked", "waiting"}
              \/ f[u].at = "parked" /\ Woken(f)[u] = [f[u] EXCEPT !.at = "checkout"]
              \/ f[u].at = "waiting" /\ Woken(f)[u] = [f[u] EXCEPT !.at = "waited"]
<1>1. ASSUME NEW u \in Tasks
      PROVE  /\ [f[u] EXCEPT !.at = "checkout"] \in TaskUpTo(n)
             /\ [f[u] EXCEPT !.at = "waited"] \in TaskUpTo(n)
  BY DEF TaskUpTo, Ats
<1>2. QED
  BY <1>1 DEF Woken

\* What an undisturbed task keeps: everything but a wait that is over.
LEMMA UndisturbedFields ==
  ASSUME NEW n \in Nat, NEW u \in Tasks, task[u] \in TaskUpTo(n), Undisturbed(u)
  PROVE  /\ task'[u] \in TaskUpTo(n)
         /\ task'[u].for = task[u].for /\ task'[u].lease = task[u].lease
         /\ task'[u].gen = task[u].gen /\ task'[u].bad = task[u].bad
         /\ task'[u].stale = task[u].stale /\ task'[u].out = task[u].out
         /\ \/ task'[u].at = task[u].at
            \/ task[u].at = "parked" /\ task'[u].at = "checkout"
            \/ task[u].at = "waiting" /\ task'[u].at = "waited"
BY DEF Undisturbed, TaskUpTo, Ats

\* The route only gets worse for a generation: it keeps it and at most loses its
\* lease or has its rotation asked for, or the next generation begins.
RouteWorsens ==
  \/ /\ rt'.gen = rt.gen
     /\ rt.lease = None => rt'.lease = None
     /\ rt.pending => rt'.pending \/ rt'.lease = None
  \/ rt'.gen = rt.gen + 1

\* Whatever becomes of the route, the tasks that do not move carry their
\* identity on.
LEMMA OthersCarry ==
  ASSUME TypeOK, NEW u \in Tasks, CarriedBy(u), Undisturbed(u), RouteWorsens
  PROVE  CarriedBy(u)'
<1>1. task[u] \in TaskUpTo(spent) /\ spent \in Nat
  BY TypeOfTask
<1>2. /\ task'[u].for = task[u].for /\ task'[u].gen = task[u].gen /\ task'[u].bad = task[u].bad
      /\ task'[u].stale = task[u].stale /\ task'[u].out = task[u].out
      /\ \/ task'[u].at = task[u].at
         \/ task[u].at = "parked" /\ task'[u].at = "checkout"
         \/ task[u].at = "waiting" /\ task'[u].at = "waited"
  BY <1>1, UndisturbedFields
<1>3. rt.gen \in Nat /\ task[u].bad \in Nat /\ task[u].gen \in Nat
  BY <1>1 DEF TypeOK, TaskUpTo
<1>4. CASE rt'.gen = rt.gen + 1
  BY <1>2, <1>3, <1>4 DEF CarriedBy, Left
<1>5. CASE /\ rt'.gen = rt.gen
           /\ rt.lease = None => rt'.lease = None
           /\ rt.pending => rt'.pending \/ rt'.lease = None
  BY <1>2, <1>3, <1>5 DEF CarriedBy, Left
<1>6. QED
  BY <1>4, <1>5 DEF RouteWorsens

\* The number of tasks in some steps changes by the one task that moves.
LEMMA CountMoves ==
  ASSUME TypeOK, NEW t \in Tasks, NEW S,
         \A u \in Tasks \ {t} : task'[u].at \in S <=> task[u].at \in S
  PROVE  /\ Cardinality({u \in Tasks : task[u].at \in S}) \in Nat
         /\ Cardinality({u \in Tasks : task'[u].at \in S})
              = Cardinality({u \in Tasks : task[u].at \in S})
                + (IF task'[t].at \in S THEN 1 ELSE 0) - (IF task[t].at \in S THEN 1 ELSE 0)
<1> DEFINE A == {u \in Tasks : task[u].at \in S}
           B == {u \in Tasks : task'[u].at \in S}
<1>1. IsFiniteSet(A) /\ IsFiniteSet(B)
  BY TasksAreFinite, FS_Subset
<1>2. Cardinality(A) \in Nat /\ Cardinality(B) \in Nat
  BY <1>1, FS_CardinalityType
<1>3. CASE task'[t].at \in S <=> task[t].at \in S
  <2>1. A = B
    BY <1>3
  <2>2. Cardinality(B) = Cardinality(A)
    BY <2>1
  <2> HIDE DEF A, B
  <2>3. Cardinality(B) = Cardinality(A) + (IF task'[t].at \in S THEN 1 ELSE 0)
                           - (IF task[t].at \in S THEN 1 ELSE 0)
    BY <1>2, <1>3, <2>2
  <2>4. QED
    BY <1>2, <2>3 DEF A, B
<1>4. CASE task'[t].at \in S /\ task[t].at \notin S
  <2>1. B = A \union {t} /\ t \notin A
    BY <1>4
  <2>2. Cardinality(B) = Cardinality(A) + 1
    BY <1>1, <2>1, FS_AddElement
  <2>3. QED
    BY <1>2, <1>4, <2>2
<1>5. CASE task'[t].at \notin S /\ task[t].at \in S
  <2>1. A = B \union {t} /\ t \notin B
    BY <1>5
  <2>2. Cardinality(A) = Cardinality(B) + 1
    BY <1>1, <2>1, FS_AddElement
  <2>3. QED
    BY <1>2, <1>5, <2>2
<1>6. QED
  BY <1>3, <1>4, <1>5

-----------------------------------------------------------------------------
(* What a step of one task keeps. *)

InAttempt == Using \union {"route", "direct", "directing", "checkout", "parked", "replace",
                           "answered"}

\* 1 if a task is in one of the steps S, and 0 if not.
Is(at, S) == IF at \in S THEN 1 ELSE 0

\* The budget: only the task that moves takes an authorization or gives it back.
LEMMA BudgetKept ==
  ASSUME TransportInv, NEW t \in Tasks, \A u \in Tasks \ {t} : Undisturbed(u),
         budget'.by \subseteq budget.by \union {t},
         t \in budget'.by => task'[t].for = "send" /\ task'[t].at \in InAttempt
  PROVE  BudgetIsInAttempt'
<1> USE DEF TransportInv
<1> SUFFICES ASSUME NEW u \in budget'.by
             PROVE  task'[u].for = "send" /\ task'[u].at \in InAttempt
  BY DEF BudgetIsInAttempt, InAttempt
<1>1. CASE u = t
  BY <1>1
<1>2. CASE u # t
  <2>1. u \in budget.by /\ u \in Tasks
    BY <1>2 DEF TypeOK
  <2>2. task[u].for = "send" /\ task[u].at \in InAttempt
    BY <2>1 DEF BudgetIsInAttempt, InAttempt
  <2>3. task[u] \in TaskUpTo(spent) /\ spent \in Nat
    BY <2>1, TypeOfTask
  <2>4. QED
    BY <1>2, <2>1, <2>2, <2>3, UndisturbedFields DEF InAttempt, Using
<1>3. QED
  BY <1>1, <1>2

\* The counts: the active requests, the permits and the budget change as the one
\* task that moves enters and leaves the steps they count.
LEMMA CountsKept ==
  ASSUME TransportInv, NEW t \in Tasks, \A u \in Tasks \ {t} : Undisturbed(u),
         permits' \in [{"direct", "proxy"} -> Nat],
         rt'.active = rt.active + Is(task'[t].at, Using) - Is(task[t].at, Using),
         permits'["direct"] = permits["direct"]
            + Is(task[t].at, {"directing"}) - Is(task'[t].at, {"directing"}),
         permits'["proxy"] = permits["proxy"]
            + Is(task[t].at, {"sending"}) - Is(task'[t].at, {"sending"}),
         budget'.used <= Attempts, BudgetIsInAttempt'
  PROVE  /\ PermitsConserved'
         /\ permits' \in [{"direct", "proxy"} -> 0..Permits]
         /\ rt'.active \in Nat
<1> USE DEF TransportInv
<1> DEFINE In(S) == Cardinality({u \in Tasks : task[u].at \in S})
           Then(S) == Cardinality({u \in Tasks : task'[u].at \in S})
<1>1. ASSUME NEW u \in Tasks \ {t}
      PROVE  /\ task'[u].at \in Using <=> task[u].at \in Using
             /\ task'[u].at \in {"directing"} <=> task[u].at \in {"directing"}
             /\ task'[u].at \in {"sending"} <=> task[u].at \in {"sending"}
  <2>1. task[u] \in TaskUpTo(spent) /\ spent \in Nat
    BY TypeOfTask
  <2>2. QED
    BY <2>1, UndisturbedFields DEF Using
<1>2. /\ In(Using) \in Nat
      /\ Then(Using) = In(Using) + Is(task'[t].at, Using) - Is(task[t].at, Using)
  BY <1>1, CountMoves DEF Is
<1>3. /\ In({"directing"}) \in Nat
      /\ Then({"directing"}) = In({"directing"})
           + Is(task'[t].at, {"directing"}) - Is(task[t].at, {"directing"})
  BY <1>1, CountMoves DEF Is
<1>4. /\ In({"sending"}) \in Nat
      /\ Then({"sending"}) = In({"sending"})
           + Is(task'[t].at, {"sending"}) - Is(task[t].at, {"sending"})
  BY <1>1, CountMoves DEF Is
<1>5. /\ rt.active = In(Using)
      /\ permits["direct"] + In({"directing"}) = Permits
      /\ permits["proxy"] + In({"sending"}) = Permits
  <2>1. /\ {u \in Tasks : task[u].at = "directing"} = {u \in Tasks : task[u].at \in {"directing"}}
        /\ {u \in Tasks : task[u].at = "sending"} = {u \in Tasks : task[u].at \in {"sending"}}
    OBVIOUS
  <2>2. QED
    BY <2>1 DEF PermitsConserved
<1>6. /\ {u \in Tasks : task'[u].at = "directing"} = {u \in Tasks : task'[u].at \in {"directing"}}
      /\ {u \in Tasks : task'[u].at = "sending"} = {u \in Tasks : task'[u].at \in {"sending"}}
  OBVIOUS
<1>7. /\ permits["direct"] \in Nat /\ permits["proxy"] \in Nat
      /\ permits'["direct"] \in Nat /\ permits'["proxy"] \in Nat
  BY Numbers DEF TypeOK
<1>8. Then(Using) \in Nat /\ Then({"directing"}) \in Nat /\ Then({"sending"}) \in Nat
  <2>1. \A S : IsFiniteSet({u \in Tasks : task'[u].at \in S})
    BY TasksAreFinite, FS_Subset
  <2>2. QED
    BY <2>1, FS_CardinalityType
<1> HIDE DEF In, Then
<1>9. /\ rt'.active = Then(Using)
      /\ permits'["direct"] + Then({"directing"}) = Permits
      /\ permits'["proxy"] + Then({"sending"}) = Permits
  BY <1>2, <1>3, <1>4, <1>5, <1>7 DEF Is
<1>10. PermitsConserved'
  <2>1. \A u \in budget'.by : task'[u].at # "ended"
    BY DEF BudgetIsInAttempt, Using
  <2>2. QED
    BY <1>6, <1>9, <2>1 DEF PermitsConserved, Then
<1>11. \A r \in {"direct", "proxy"} : permits'[r] \in 0..Permits
  BY <1>7, <1>8, <1>9, Numbers
<1>12. permits' \in [{"direct", "proxy"} -> 0..Permits]
  BY <1>11
<1>13. QED
  BY <1>8, <1>9, <1>10, <1>12

\* A step that touches neither the route nor the leases keeps what is said of
\* them, unless its task enters or leaves the use or the replacement of the route.
LEMMA RouteUntouched ==
  ASSUME TransportInv, NEW t \in Tasks, \A u \in Tasks \ {t} : Undisturbed(u),
         UNCHANGED <<rt, held, spent, refused, closer>>,
         task'[t].lease = task[t].lease,
         task[t].at # "replace", task'[t].at # "replace",
         task'[t].at \in Using => task[t].at \in Using,
         CarriedBy(t)'
  PROVE  RouteKeptWhileUsed' /\ NoLeaseLost' /\ OneMover' /\ IdentityCarried'
<1> USE DEF TransportInv
<1>1. ASSUME NEW u \in Tasks
      PROVE  /\ task'[u].lease = task[u].lease
             /\ task'[u].at = "replace" <=> task[u].at = "replace"
             /\ task'[u].at \in Using => task[u].at \in Using
  <2>1. task[u] \in TaskUpTo(spent) /\ spent \in Nat
    BY TypeOfTask
  <2>2. QED
    BY <2>1, UndisturbedFields DEF Using
<1>2. RouteKeptWhileUsed'
  BY <1>1 DEF RouteKeptWhileUsed
<1>3. NoLeaseLost'
  BY <1>1 DEF NoLeaseLost
<1>4. OneMover'
  BY <1>1 DEF OneMover
<1>5. IdentityCarried'
  <2>1. RouteWorsens
    BY DEF RouteWorsens
  <2>2. QED
    BY <2>1, OthersCarry DEF IdentityCarried
<1>6. QED
  BY <1>2, <1>3, <1>4, <1>5

\* All of it together: a step of one task beside the route.
LEMMA StepBesideTheRoute ==
  ASSUME TransportInv, NEW t \in Tasks, \A u \in Tasks \ {t} : task'[u] = task[u],
         task' \in [Tasks -> TaskUpTo(spent)],
         UNCHANGED <<mode, rt, held, spent, refused, closer>>,
         late' \subseteq Tasks, faults' \in 0..MaxFaults,
         budget' \in [used : 0..Attempts, by : SUBSET Tasks],
         budget'.by \subseteq budget.by \union {t},
         t \in budget'.by => task'[t].for = "send" /\ task'[t].at \in InAttempt,
         permits' \in [{"direct", "proxy"} -> Nat],
         permits'["direct"] = permits["direct"]
            + Is(task[t].at, {"directing"}) - Is(task'[t].at, {"directing"}),
         permits'["proxy"] = permits["proxy"]
            + Is(task[t].at, {"sending"}) - Is(task'[t].at, {"sending"}),
         task'[t].at \in Using <=> task[t].at \in Using,
         task'[t].lease = task[t].lease,
         task[t].at # "replace", task'[t].at # "replace",
         CarriedBy(t)'
  PROVE  TransportInv'
<1>1. \A u \in Tasks \ {t} : Undisturbed(u)
  BY DEF Undisturbed
<1>2. BudgetIsInAttempt'
  BY <1>1, BudgetKept
<1>3. rt'.active = rt.active + Is(task'[t].at, Using) - Is(task[t].at, Using)
  <2>1. rt.active \in Nat
    BY DEF TransportInv, TypeOK
  <2>2. QED
    BY <2>1 DEF Is
<1>4. budget'.used <= Attempts
  BY Numbers
<1>5. PermitsConserved' /\ permits' \in [{"direct", "proxy"} -> 0..Permits]
  BY <1>1, <1>2, <1>3, <1>4, CountsKept
<1>6. RouteKeptWhileUsed' /\ NoLeaseLost' /\ OneMover' /\ IdentityCarried'
  BY <1>1, RouteUntouched
<1>7. TypeOK'
  BY <1>5 DEF TransportInv, TypeOK, TaskUpTo, Ats, Outs
<1>8. QED
  BY <1>2, <1>5, <1>6, <1>7 DEF TransportInv

\* What a step that does not count anything leaves alone.
LEMMA NothingCounted ==
  ASSUME TransportInv, UNCHANGED <<late, budget, permits>>
  PROVE  /\ late' \subseteq Tasks
         /\ budget' \in [used : 0..Attempts, by : SUBSET Tasks]
         /\ permits' \in [{"direct", "proxy"} -> Nat]
         /\ permits["direct"] \in Nat /\ permits["proxy"] \in Nat
BY Numbers DEF TransportInv, TypeOK

\* A fault is spent, or not.
LEMMA FaultsLeft ==
  ASSUME TransportInv, Fault \/ UNCHANGED faults
  PROVE  faults' \in 0..MaxFaults
BY Numbers DEF TransportInv, TypeOK, Fault

-----------------------------------------------------------------------------
(* MiddlewareTransport. *)

\* A request begins its first attempt.
LEMMA BeginKeeps ==
  ASSUME TransportInv, NEW t \in Tasks, NEW stale \in BOOLEAN, Begin(t, stale)
  PROVE  TransportInv'
<1>1. task \in [Tasks -> TaskUpTo(spent)] /\ spent \in Nat
  BY TypeOfTask DEF TransportInv
<1>2. /\ task' \in [Tasks -> TaskUpTo(spent)]
      /\ \A u \in Tasks \ {t} : task'[u] = task[u]
      /\ task[t].at = "idle" /\ task'[t].at = "attempt" /\ task'[t].stale = stale
      /\ task'[t].for = task[t].for /\ task'[t].lease = task[t].lease
      /\ task'[t].gen = task[t].gen /\ task'[t].bad = task[t].bad
  <2> DEFINE r == [task[t] EXCEPT !.at = "attempt", !.try = 1, !.stale = stale]
  <2>1. task' = [task EXCEPT ![t] = r] /\ task[t].at = "idle"
    BY <1>1 DEF Begin
  <2>2. task[t] \in TaskUpTo(spent) /\ 1 \in 0..(Retries + 1)
    BY <1>1, Numbers
  <2>3. /\ r \in TaskUpTo(spent) /\ r.at = "attempt" /\ r.stale = stale
        /\ r.for = task[t].for /\ r.lease = task[t].lease
        /\ r.gen = task[t].gen /\ r.bad = task[t].bad
    BY <2>2 DEF TaskUpTo, Ats
  <2> HIDE DEF r
  <2>4. QED
    BY <1>1, <2>1, <2>3
<1>3. UNCHANGED <<mode, rt, held, spent, refused, late, permits, budget, closer, faults>>
  BY DEF Begin
<1>4. t \notin budget.by
  BY <1>2 DEF TransportInv, BudgetIsInAttempt, Using
<1>5. CarriedBy(t)'
  BY <1>2, <1>3 DEF TransportInv, IdentityCarried, CarriedBy, Left
<1>6. QED
  BY <1>2, <1>3, <1>4, <1>5, NothingCounted, FaultsLeft, StepBesideTheRoute DEF Is, Using

\* The budget gives an authorization to the attempt, or ends the request.
LEMMA AuthorizeBudgetKeeps ==
  ASSUME TransportInv, NEW t \in Tasks, AuthorizeBudget(t)
  PROVE  TransportInv'
<1>1. task \in [Tasks -> TaskUpTo(spent)] /\ spent \in Nat
  BY TypeOfTask DEF TransportInv
<1>2. /\ task' \in [Tasks -> TaskUpTo(spent)]
      /\ \A u \in Tasks \ {t} : task'[u] = task[u]
      /\ task[t].at = "attempt"
      /\ \/ task'[t].at = "route" /\ task'[t].for = "send"
         \/ task'[t].at = "ended" /\ UNCHANGED budget
      /\ task'[t].lease = task[t].lease /\ task'[t].stale = task[t].stale
      /\ task'[t].gen = task[t].gen /\ task'[t].bad = task[t].bad
  BY <1>1 DEF AuthorizeBudget, TaskUpTo, Ats, Outs
<1>3. UNCHANGED <<mode, rt, held, spent, refused, late, permits, closer, faults>>
  BY DEF AuthorizeBudget
<1>4. t \notin budget.by
  BY <1>2 DEF TransportInv, BudgetIsInAttempt, Using
<1>5. /\ budget' \in [used : 0..Attempts, by : SUBSET Tasks]
      /\ budget'.by \subseteq budget.by \union {t}
  BY Numbers DEF AuthorizeBudget, TransportInv, TypeOK
<1>6. CarriedBy(t)'
  BY <1>2, <1>3 DEF TransportInv, IdentityCarried, CarriedBy, Left
<1>7. /\ late' \subseteq Tasks /\ permits' \in [{"direct", "proxy"} -> Nat]
      /\ permits["direct"] \in Nat /\ permits["proxy"] \in Nat
  BY <1>3, Numbers DEF TransportInv, TypeOK
<1>8. QED
  BY <1>2, <1>3, <1>4, <1>5, <1>6, <1>7, FaultsLeft, StepBesideTheRoute DEF Is, Using, InAttempt

\* The attempt is over: its authorization is given back whatever comes next, and
\* a bad identity is left behind by a rotation.
LEMMA RetryKeeps ==
  ASSUME TransportInv, NEW t \in Tasks, Retry(t)
  PROVE  TransportInv'
<1>1. task \in [Tasks -> TaskUpTo(spent)] /\ spent \in Nat
  BY TypeOfTask DEF TransportInv
<1>2. task[t].at = "answered"
      /\ UNCHANGED <<mode, rt, held, spent, refused, late, permits, closer, faults>>
  BY DEF Retry
<1>3. /\ task' \in [Tasks -> TaskUpTo(spent)]
      /\ \A u \in Tasks \ {t} : task'[u] = task[u]
      /\ \/ task'[t].at = "rotate"
         \/ task'[t].at = "attempt" /\ (task[t].out = "busy" \/ task[t].stale)
         \/ task'[t].at = "ended"
      /\ task'[t].lease = task[t].lease /\ task'[t].stale = task[t].stale
      /\ task'[t].gen = task[t].gen /\ task'[t].bad = task[t].bad
  <2>1. CASE task[t].out \in Transient /\ task[t].try <= Retries
    <3> DEFINE a == IF task[t].out \in Blames /\ ~CanUseStale(t) THEN "rotate" ELSE "attempt"
    <3>1. task' = [task EXCEPT ![t].try = task[t].try + 1, ![t].at = a]
      BY <2>1 DEF Retry
    <3>2. a = "rotate" \/ (a = "attempt" /\ (task[t].out = "busy" \/ task[t].stale))
      BY <2>1 DEF CanUseStale, Blames, Transient
    <3>3. task[t].try + 1 \in 0..(Retries + 1)
      BY <1>1, <2>1, Numbers DEF TaskUpTo
    <3> HIDE DEF a
    <3> DEFINE r == [task[t] EXCEPT !.try = task[t].try + 1, !.at = a]
    <3>4. task' = [task EXCEPT ![t] = r]
      BY <1>1, <3>1
    <3>5. /\ r \in TaskUpTo(spent) /\ r.at = a /\ r.lease = task[t].lease
          /\ r.stale = task[t].stale /\ r.gen = task[t].gen /\ r.bad = task[t].bad
      BY <1>1, <3>2, <3>3 DEF TaskUpTo, Ats
    <3> HIDE DEF r
    <3>6. QED
      BY <1>1, <3>2, <3>4, <3>5
  <2>2. CASE ~(task[t].out \in Transient /\ task[t].try <= Retries)
    BY <1>1, <2>2 DEF Retry, TaskUpTo, Ats, Outs
  <2>3. QED
    BY <2>1, <2>2
<1>4. /\ budget' \in [used : 0..Attempts, by : SUBSET Tasks]
      /\ budget'.by \subseteq budget.by \union {t} /\ t \notin budget'.by
  BY DEF Retry, TransportInv, TypeOK
<1>5. CarriedBy(t)'
  BY <1>2, <1>3 DEF TransportInv, IdentityCarried, CarriedBy, Left
<1>6. /\ late' \subseteq Tasks /\ permits' \in [{"direct", "proxy"} -> Nat]
      /\ permits["direct"] \in Nat /\ permits["proxy"] \in Nat
  BY <1>2, Numbers DEF TransportInv, TypeOK
<1>7. QED
  BY <1>2, <1>3, <1>4, <1>5, <1>6, FaultsLeft, StepBesideTheRoute DEF Is, Using

-----------------------------------------------------------------------------
(* The ways a task goes on. *)

\* A task goes to its next step.
LEMMA GoesTo ==
  ASSUME TypeOK, NEW t \in Tasks, NEW a \in Ats
  PROVE  /\ Goes(t, a) \in [Tasks -> TaskUpTo(spent)]
         /\ \A u \in Tasks \ {t} : Goes(t, a)[u] = task[u]
         /\ Goes(t, a)[t].at = a
         /\ Goes(t, a)[t].for = task[t].for /\ Goes(t, a)[t].lease = task[t].lease
         /\ Goes(t, a)[t].gen = task[t].gen /\ Goes(t, a)[t].bad = task[t].bad
         /\ Goes(t, a)[t].stale = task[t].stale /\ Goes(t, a)[t].out = task[t].out
BY TypeOfTask DEF Goes, TaskUpTo

\* It goes there with an outcome.
LEMMA EndsWith ==
  ASSUME TypeOK, NEW t \in Tasks, NEW a \in Ats, NEW o \in Outs,
         NEW f, f = [task EXCEPT ![t].at = a, ![t].out = o]
  PROVE  /\ f \in [Tasks -> TaskUpTo(spent)]
         /\ \A u \in Tasks \ {t} : f[u] = task[u]
         /\ f[t].at = a /\ f[t].out = o
         /\ f[t].for = task[t].for /\ f[t].lease = task[t].lease
         /\ f[t].gen = task[t].gen /\ f[t].bad = task[t].bad /\ f[t].stale = task[t].stale
<1> DEFINE r == [task[t] EXCEPT !.at = a, !.out = o]
<1>1. task \in [Tasks -> TaskUpTo(spent)]
  BY TypeOfTask
<1>2. f = [task EXCEPT ![t] = r]
  BY <1>1
<1>3. /\ r \in TaskUpTo(spent) /\ r.at = a /\ r.out = o
      /\ r.for = task[t].for /\ r.lease = task[t].lease
      /\ r.gen = task[t].gen /\ r.bad = task[t].bad /\ r.stale = task[t].stale
  BY <1>1 DEF TaskUpTo
<1> HIDE DEF r
<1>4. QED
  BY <1>1, <1>2, <1>3

\* An exception of the routing ends the attempt, or the rotation.
LEMMA RaisesEnds ==
  ASSUME TypeOK, NEW t \in Tasks
  PROVE  /\ Raises(t) \in [Tasks -> TaskUpTo(spent)]
         /\ \A u \in Tasks \ {t} : Raises(t)[u] = task[u]
         /\ Raises(t)[t].at = IF task[t].for = "send" THEN "answered" ELSE "ended"
         /\ Raises(t)[t].out = "error"
         /\ Raises(t)[t].for = task[t].for /\ Raises(t)[t].lease = task[t].lease
         /\ Raises(t)[t].gen = task[t].gen /\ Raises(t)[t].bad = task[t].bad
         /\ Raises(t)[t].stale = task[t].stale
<1> DEFINE a == IF task[t].for = "send" THEN "answered" ELSE "ended"
<1>1. a \in Ats /\ "error" \in Outs
  BY DEF Ats, Outs
<1>2. Raises(t) = [task EXCEPT ![t].at = a, ![t].out = "error"]
  <2>1. task \in [Tasks -> TaskUpTo(spent)]
    BY TypeOfTask
  <2>2. QED
    BY <2>1 DEF Raises, TaskUpTo
<1> HIDE DEF a
<1>3. /\ Raises(t) \in [Tasks -> TaskUpTo(spent)]
      /\ \A u \in Tasks \ {t} : Raises(t)[u] = task[u]
      /\ Raises(t)[t].at = a /\ Raises(t)[t].out = "error"
      /\ Raises(t)[t].for = task[t].for /\ Raises(t)[t].lease = task[t].lease
      /\ Raises(t)[t].gen = task[t].gen /\ Raises(t)[t].bad = task[t].bad
      /\ Raises(t)[t].stale = task[t].stale
  BY <1>1, <1>2, EndsWith
<1>4. QED
  BY <1>3 DEF a

\* A cancelled task leaves its wait, as the request it is.
LEMMA CancelledEnds ==
  ASSUME TypeOK, NEW t \in Tasks, NEW a \in Ats
  PROVE  /\ Cancelled(t, a) \in [Tasks -> TaskUpTo(spent)]
         /\ \A u \in Tasks \ {t} : Cancelled(t, a)[u] = task[u]
         /\ Cancelled(t, a)[t].at = a /\ Cancelled(t, a)[t].out = "cancelled"
         /\ Cancelled(t, a)[t].for = "send" /\ Cancelled(t, a)[t].lease = task[t].lease
         /\ Cancelled(t, a)[t].gen = task[t].gen /\ Cancelled(t, a)[t].bad = task[t].bad
         /\ Cancelled(t, a)[t].stale = task[t].stale
<1> DEFINE r == [task[t] EXCEPT !.at = a, !.out = "cancelled", !.for = "send"]
<1>1. task \in [Tasks -> TaskUpTo(spent)]
  BY TypeOfTask
<1>2. Cancelled(t, a) = [task EXCEPT ![t] = r]
  BY <1>1 DEF Cancelled
<1>3. /\ r \in TaskUpTo(spent) /\ r.at = a /\ r.out = "cancelled" /\ r.for = "send"
      /\ r.lease = task[t].lease
      /\ r.gen = task[t].gen /\ r.bad = task[t].bad /\ r.stale = task[t].stale
  BY <1>1 DEF TaskUpTo, Outs
<1> HIDE DEF r
<1>4. QED
  BY <1>1, <1>2, <1>3

-----------------------------------------------------------------------------
(* Steps beside the route. *)

\* request() picks the direct transport or the proxy, or the collection is closed.
LEMMA SelectRouteKeeps ==
  ASSUME TransportInv, NEW t \in Tasks, SelectRoute(t)
  PROVE  TransportInv'
<1> USE DEF TransportInv
<1>1. task[t].at = "route"
      /\ UNCHANGED <<mode, rt, held, spent, refused, late, permits, budget, closer, faults>>
  BY DEF SelectRoute
<1>2. task' \in {Raises(t), Goes(t, "direct"), Goes(t, "checkout")}
  BY DEF SelectRoute
<1>3. "direct" \in Ats /\ "checkout" \in Ats
  BY DEF Ats
<1>4. /\ task' \in [Tasks -> TaskUpTo(spent)]
      /\ \A u \in Tasks \ {t} : task'[u] = task[u]
      /\ \/ task'[t].at = "direct"
         \/ task'[t].at = "checkout"
         \/ /\ task'[t].at = IF task[t].for = "send" THEN "answered" ELSE "ended"
            /\ task'[t].out = "error"
      /\ task'[t].for = task[t].for /\ task'[t].lease = task[t].lease
      /\ task'[t].gen = task[t].gen /\ task'[t].bad = task[t].bad
      /\ task'[t].stale = task[t].stale
  <2>1. CASE task' = Raises(t)
    BY <2>1, RaisesEnds
  <2>2. CASE task' = Goes(t, "direct")
    BY <2>2, <1>3, GoesTo
  <2>3. CASE task' = Goes(t, "checkout")
    BY <2>3, <1>3, GoesTo
  <2>4. QED
    BY <1>2, <2>1, <2>2, <2>3
<1>5. t \in budget.by => task[t].for = "send"
  BY DEF BudgetIsInAttempt
<1>6. CarriedBy(t)'
  BY <1>1, <1>4 DEF IdentityCarried, CarriedBy, Left
<1>7. QED
  BY <1>1, <1>4, <1>5, <1>6, NothingCounted, FaultsLeft, StepBesideTheRoute DEF Is, Using, InAttempt

\* The pool authorizes the attempt or refuses it: the route stays in use.
LEMMA AuthorizeAttemptKeeps ==
  ASSUME TransportInv, NEW t \in Tasks, NEW ok \in BOOLEAN, AuthorizeAttempt(t, ok)
  PROVE  TransportInv'
<1> USE DEF TransportInv
<1>1. /\ task[t].at = "authorize" /\ (Fault \/ UNCHANGED faults)
      /\ UNCHANGED <<mode, rt, held, spent, refused, late, permits, budget, closer>>
  BY DEF AuthorizeAttempt
<1>2. "send" \in Ats /\ "checkin" \in Ats /\ "error" \in Outs
  BY DEF Ats, Outs, Using
<1>3. /\ task' \in [Tasks -> TaskUpTo(spent)]
      /\ \A u \in Tasks \ {t} : task'[u] = task[u]
      /\ task'[t].at = "send" \/ (task'[t].at = "checkin" /\ task'[t].out = "error")
      /\ task'[t].for = task[t].for /\ task'[t].lease = task[t].lease
      /\ task'[t].gen = task[t].gen /\ task'[t].bad = task[t].bad
      /\ task'[t].stale = task[t].stale
  <2>1. CASE task' = Goes(t, "send")
    BY <2>1, <1>2, GoesTo
  <2>2. CASE task' = [task EXCEPT ![t].at = "checkin", ![t].out = "error"]
    BY <2>2, <1>2, EndsWith
  <2>3. QED
    BY <2>1, <2>2 DEF AuthorizeAttempt
<1>4. t \in budget.by => task[t].for = "send"
  BY DEF BudgetIsInAttempt
<1>5. CarriedBy(t)'
  BY <1>1, <1>3 DEF IdentityCarried, CarriedBy, Left
<1>6. QED
  BY <1>1, <1>3, <1>4, <1>5, NothingCounted, FaultsLeft, StepBesideTheRoute DEF Is, Using, InAttempt

\* The rate limiter's permit of the route is taken.
LEMMA AcquirePermitKeeps ==
  ASSUME TransportInv, NEW t \in Tasks, AcquirePermit(t)
  PROVE  TransportInv'
<1> USE DEF TransportInv
<1> DEFINE a == IF task[t].at = "direct" THEN "directing" ELSE "sending"
<1>1. /\ task[t].at \in {"direct", "send"} /\ task' = Goes(t, a)
      /\ UNCHANGED <<mode, rt, held, spent, refused, late, budget, closer, faults>>
  BY DEF AcquirePermit
<1>2. a \in Ats /\ a = IF task[t].at = "direct" THEN "directing" ELSE "sending"
  BY DEF Ats, Using
<1> HIDE DEF a
<1>3. /\ task' \in [Tasks -> TaskUpTo(spent)]
      /\ \A u \in Tasks \ {t} : task'[u] = task[u]
      /\ task'[t].at = a
      /\ task'[t].for = task[t].for /\ task'[t].lease = task[t].lease
      /\ task'[t].gen = task[t].gen /\ task'[t].bad = task[t].bad
      /\ task'[t].stale = task[t].stale /\ task'[t].out = task[t].out
  BY <1>1, <1>2, GoesTo
<1>4. /\ permits' \in [{"direct", "proxy"} -> Nat]
      /\ permits["direct"] \in Nat /\ permits["proxy"] \in Nat
      /\ task[t].at = "direct" => permits'["direct"] = permits["direct"] - 1
                                  /\ permits'["proxy"] = permits["proxy"]
      /\ task[t].at = "send" => permits'["proxy"] = permits["proxy"] - 1
                                /\ permits'["direct"] = permits["direct"]
  BY <1>1, Numbers DEF AcquirePermit, RouteOf, TypeOK
<1>5. t \in budget.by => task[t].for = "send"
  BY DEF BudgetIsInAttempt
<1>6. CarriedBy(t)'
  BY <1>1, <1>2, <1>3 DEF IdentityCarried, CarriedBy, Left
<1>7. /\ late' \subseteq Tasks /\ budget' \in [used : 0..Attempts, by : SUBSET Tasks]
  BY <1>1 DEF TypeOK
<1>8. QED
  BY <1>1, <1>2, <1>3, <1>4, <1>5, <1>6, <1>7, FaultsLeft, StepBesideTheRoute
     DEF Is, Using, InAttempt

\* The direct transport answers: its permit goes back.
LEMMA DirectAnswersKeeps ==
  ASSUME TransportInv, NEW t \in Tasks, NEW out \in Outcomes, DirectAnswers(t, out)
  PROVE  TransportInv'
<1> USE DEF TransportInv
<1>1. /\ task[t].at = "directing" /\ (Fault \/ UNCHANGED faults)
      /\ task' = [task EXCEPT ![t].at = "answered", ![t].out = out]
      /\ permits' = [permits EXCEPT !["direct"] = @ + 1]
      /\ UNCHANGED <<mode, rt, held, spent, refused, late, budget, closer>>
  BY DEF DirectAnswers
<1>2. "answered" \in Ats /\ out \in Outs
  BY DEF Ats, Outs, Outcomes
<1>3. /\ task' \in [Tasks -> TaskUpTo(spent)]
      /\ \A u \in Tasks \ {t} : task'[u] = task[u]
      /\ task'[t].at = "answered" /\ task'[t].out = out
      /\ task'[t].for = task[t].for /\ task'[t].lease = task[t].lease
      /\ task'[t].gen = task[t].gen /\ task'[t].bad = task[t].bad
      /\ task'[t].stale = task[t].stale
  BY <1>1, <1>2, EndsWith
<1>4. /\ permits' \in [{"direct", "proxy"} -> Nat]
      /\ permits["direct"] \in Nat /\ permits["proxy"] \in Nat
      /\ permits'["direct"] = permits["direct"] + 1 /\ permits'["proxy"] = permits["proxy"]
  BY <1>1, Numbers DEF TypeOK
<1>5. t \in budget.by => task[t].for = "send"
  BY DEF BudgetIsInAttempt
<1>6. CarriedBy(t)'
  BY <1>1, <1>3 DEF IdentityCarried, CarriedBy, Left
<1>7. /\ late' \subseteq Tasks /\ budget' \in [used : 0..Attempts, by : SUBSET Tasks]
  BY <1>1 DEF TypeOK
<1>8. QED
  BY <1>1, <1>3, <1>4, <1>5, <1>6, <1>7, FaultsLeft, StepBesideTheRoute DEF Is, Using, InAttempt

\* The attempt is reconciled with the pool.
LEMMA SettleKeeps ==
  ASSUME TransportInv, NEW t \in Tasks, Settle(t)
  PROVE  TransportInv'
<1> USE DEF TransportInv
<1>1. /\ task[t].at = "settle" /\ task' = Goes(t, "checkin")
      /\ UNCHANGED <<mode, rt, held, spent, refused, late, permits, budget, closer, faults>>
  BY DEF Settle
<1>2. "checkin" \in Ats
  BY DEF Ats, Using
<1>3. /\ task' \in [Tasks -> TaskUpTo(spent)]
      /\ \A u \in Tasks \ {t} : task'[u] = task[u]
      /\ task'[t].at = "checkin"
      /\ task'[t].for = task[t].for /\ task'[t].lease = task[t].lease
      /\ task'[t].gen = task[t].gen /\ task'[t].bad = task[t].bad
      /\ task'[t].stale = task[t].stale /\ task'[t].out = task[t].out
  BY <1>1, <1>2, GoesTo
<1>4. t \in budget.by => task[t].for = "send"
  BY DEF BudgetIsInAttempt
<1>5. CarriedBy(t)'
  BY <1>1, <1>3 DEF IdentityCarried, CarriedBy, Left
<1>6. QED
  BY <1>1, <1>3, <1>4, <1>5, NothingCounted, FaultsLeft, StepBesideTheRoute DEF Is, Using, InAttempt

\* A cancelled request gives its permit back and keeps its route until it has
\* run its finally blocks.
LEMMA CancelKeeps ==
  ASSUME TransportInv, NEW t \in Tasks, Cancel(t)
  PROVE  TransportInv'
<1> USE DEF TransportInv
<1>1. Fault /\ UNCHANGED <<mode, rt, held, spent, refused, budget, closer>>
  BY DEF Cancel
<1>2. PICK a \in {"answered", "ended", "settle", "checkin"} :
        /\ task' = Cancelled(t, a)
        /\ \/ /\ task[t].at \in {"parked", "direct"} /\ a = "answered" /\ UNCHANGED <<permits, late>>
           \/ /\ task[t].at \in {"waiting", "attempt"} /\ a = "ended" /\ UNCHANGED <<permits, late>>
           \/ /\ task[t].at = "directing" /\ a = "answered" /\ UNCHANGED late
              /\ permits' = PermitBack("direct")
           \/ /\ task[t].at = "send" /\ a = "settle" /\ UNCHANGED <<permits, late>>
           \/ /\ task[t].at = "sending" /\ a = "settle" /\ UNCHANGED late
              /\ permits' = PermitBack("proxy")
           \/ /\ task[t].at = "settle" /\ a = "checkin" /\ late' = late \union {t}
              /\ UNCHANGED permits
  BY DEF Cancel
<1>3. a \in Ats
  BY DEF Ats, Using
<1>4. /\ task' \in [Tasks -> TaskUpTo(spent)]
      /\ \A u \in Tasks \ {t} : task'[u] = task[u]
      /\ task'[t].at = a /\ task'[t].out = "cancelled" /\ task'[t].for = "send"
      /\ task'[t].lease = task[t].lease
      /\ task'[t].gen = task[t].gen /\ task'[t].bad = task[t].bad
      /\ task'[t].stale = task[t].stale
  BY <1>2, <1>3, CancelledEnds
<1>5. /\ permits' \in [{"direct", "proxy"} -> Nat]
      /\ permits["direct"] \in Nat /\ permits["proxy"] \in Nat
      /\ permits'["direct"] = permits["direct"] + Is(task[t].at, {"directing"})
      /\ permits'["proxy"] = permits["proxy"] + Is(task[t].at, {"sending"})
  BY <1>2, Numbers DEF PermitBack, TypeOK, Is
<1>6. late' \subseteq Tasks /\ budget' \in [used : 0..Attempts, by : SUBSET Tasks]
  BY <1>1, <1>2 DEF TypeOK
<1>7. t \in budget.by => a # "ended"
  BY <1>2 DEF BudgetIsInAttempt, Using
<1>8. CarriedBy(t)'
  BY <1>1, <1>2, <1>4 DEF IdentityCarried, CarriedBy, Left
<1>9. /\ task'[t].at \in Using <=> task[t].at \in Using
      /\ task[t].at # "replace" /\ task'[t].at # "replace"
      /\ task'[t].at \notin {"directing", "sending"}
      /\ t \in budget'.by => task'[t].at \in InAttempt
  BY <1>1, <1>2, <1>4, <1>7 DEF Using, InAttempt
<1>10. /\ permits'["direct"] = permits["direct"]
            + Is(task[t].at, {"directing"}) - Is(task'[t].at, {"directing"})
       /\ permits'["proxy"] = permits["proxy"]
            + Is(task[t].at, {"sending"}) - Is(task'[t].at, {"sending"})
  BY <1>5, <1>9 DEF Is
<1>11. QED
  BY <1>1, <1>4, <1>5, <1>6, <1>8, <1>9, <1>10, FaultsLeft, StepBesideTheRoute

-----------------------------------------------------------------------------
(* Steps of the route. *)

\* The route, once the pool has handed out n leases.
RouteUpTo(n) ==
  [lease : 0..n, pending : BOOLEAN, active : Nat, moving : BOOLEAN, gen : Nat, closed : BOOLEAN]

\* What is left to show of a step that moves one task and changes the route.
LEMMA StepOfTheRoute ==
  ASSUME TransportInv, NEW t \in Tasks, \A u \in Tasks \ {t} : Undisturbed(u),
         task' \in [Tasks -> TaskUpTo(spent')],
         UNCHANGED mode, spent' \in 0..MaxLeases,
         rt' \in RouteUpTo(spent'), held' \subseteq 1..spent', refused' \subseteq 1..spent',
         closer' \in [at : {"none", "draining", "parked", "releasing", "done"}, lease : 0..spent'],
         late' \subseteq Tasks, faults' \in 0..MaxFaults,
         budget' = budget,
         t \in budget'.by => task'[t].for = "send" /\ task'[t].at \in InAttempt,
         permits' \in [{"direct", "proxy"} -> Nat],
         permits'["direct"] = permits["direct"]
            + Is(task[t].at, {"directing"}) - Is(task'[t].at, {"directing"}),
         permits'["proxy"] = permits["proxy"]
            + Is(task[t].at, {"sending"}) - Is(task'[t].at, {"sending"}),
         rt'.active = rt.active + Is(task'[t].at, Using) - Is(task[t].at, Using),
         RouteWorsens, CarriedBy(t)',
         RouteKeptWhileUsed', NoLeaseLost', OneMover'
  PROVE  TransportInv'
<1>1. budget' \in [used : 0..Attempts, by : SUBSET Tasks] /\ budget'.used <= Attempts
  BY Numbers DEF TransportInv, TypeOK
<1>2. BudgetIsInAttempt'
  BY BudgetKept
<1>3. PermitsConserved' /\ permits' \in [{"direct", "proxy"} -> 0..Permits]
  BY <1>1, <1>2, CountsKept
<1>4. IdentityCarried'
  BY OthersCarry DEF IdentityCarried, TransportInv
<1>5. TypeOK'
  BY <1>1, <1>3 DEF TransportInv, TypeOK, TaskUpTo, RouteUpTo, Ats, Outs
<1>6. QED
  BY <1>2, <1>3, <1>4, <1>5 DEF TransportInv

\* When no request counts as active, none uses the route.
LEMMA NobodyUses ==
  ASSUME TransportInv, rt.active = 0, NEW t \in Tasks
  PROVE  task[t].at \notin Using
<1> DEFINE A == {u \in Tasks : task[u].at \in Using}
<1>1. IsFiniteSet(A) /\ Cardinality(A) = 0
  BY TasksAreFinite, FS_Subset DEF TransportInv, PermitsConserved
<1>2. A = {}
  BY <1>1, FS_EmptySet
<1>3. QED
  BY <1>2

\* While the route is being replaced or released, no request uses it.
LEMMA NobodyUsesAMovingRoute ==
  ASSUME TransportInv, rt.moving, NEW t \in Tasks
  PROVE  task[t].at \notin Using
BY DEF TransportInv, TypeOK, OneMover, RouteKeptWhileUsed, None

\* A step that leaves the lease and the replacing tasks alone loses no lease.
LEMMA LeasesUntouched ==
  ASSUME TransportInv, UNCHANGED <<held, refused>>,
         closer'.lease = closer.lease, closer'.at = "releasing" <=> closer.at = "releasing",
         rt'.lease = rt.lease, rt'.moving = rt.moving,
         \A u \in Tasks : /\ task'[u].at = "replace" <=> task[u].at = "replace"
                          /\ task'[u].at = "replace" => task'[u].lease = task[u].lease
  PROVE  NoLeaseLost' /\ OneMover'
<1>1. NoLeaseLost'
  BY DEF TransportInv, NoLeaseLost
<1>2. OneMover'
  BY DEF TransportInv, OneMover
<1>3. QED
  BY <1>1, <1>2

\* What an undisturbed task is to the route.
LEMMA OthersKeepTheRoute ==
  ASSUME TypeOK, NEW u \in Tasks, Undisturbed(u)
  PROVE  /\ task'[u].lease = task[u].lease
         /\ task'[u].at = "replace" <=> task[u].at = "replace"
         /\ task'[u].at \in Using <=> task[u].at \in Using
<1>1. task[u] \in TaskUpTo(spent) /\ spent \in Nat
  BY TypeOfTask
<1>2. QED
  BY <1>1, UndisturbedFields DEF Using

\* One task moves, and everybody who waits is woken.
LEMMA MovesAndWakes ==
  ASSUME TypeOK, NEW t \in Tasks, NEW n \in Nat, NEW f \in [Tasks -> TaskUpTo(n)],
         \A u \in Tasks \ {t} : f[u] = task[u],
         f[t].at \notin {"parked", "waiting"},
         task' = Woken(f)
  PROVE  /\ task' \in [Tasks -> TaskUpTo(n)] /\ task'[t] = f[t]
         /\ \A u \in Tasks \ {t} : Undisturbed(u)
<1>1. /\ Woken(f) \in [Tasks -> TaskUpTo(n)]
      /\ \A u \in Tasks :
           \/ Woken(f)[u] = f[u] /\ f[u].at \notin {"parked", "waiting"}
           \/ f[u].at = "parked" /\ Woken(f)[u] = [f[u] EXCEPT !.at = "checkout"]
           \/ f[u].at = "waiting" /\ Woken(f)[u] = [f[u] EXCEPT !.at = "waited"]
  BY WokenTasks
<1>2. task'[t] = f[t]
  BY <1>1
<1>3. \A u \in Tasks \ {t} : Undisturbed(u)
  BY <1>1 DEF Undisturbed
<1>4. QED
  BY <1>1, <1>2, <1>3

\* The close is woken, too.
LEMMA CloserIsWoken ==
  ASSUME TypeOK
  PROVE  /\ CloserWoken \in [at : {"none", "draining", "parked", "releasing", "done"}, lease : 0..spent]
         /\ CloserWoken.lease = closer.lease
         /\ CloserWoken.at = "releasing" <=> closer.at = "releasing"
BY DEF TypeOK, CloserWoken

\* _checkout_proxy_route, when the route is good: its lease is held, and its
\* generation is not the one that failed the request before.
LEMMA CheckoutUses ==
  ASSUME TransportInv, NEW t \in Tasks, task[t].at = "checkout",
         ~rt.moving, RouteIsGood,
         rt' = [rt EXCEPT !.active = rt.active + 1],
         task' = [task EXCEPT ![t].lease = rt.lease, ![t].gen = rt.gen,
                              ![t].at = IF task[t].for = "send" THEN "authorize" ELSE "checkin"],
         UNCHANGED <<mode, held, spent, refused, late, permits, budget, closer, faults>>
  PROVE  TransportInv'
<1> USE DEF TransportInv
<1>1. task \in [Tasks -> TaskUpTo(spent)] /\ rt \in RouteUpTo(spent) /\ spent \in Nat
  BY TypeOfTask DEF TypeOK, RouteUpTo
<1>2. /\ task' \in [Tasks -> TaskUpTo(spent)]
      /\ \A u \in Tasks \ {t} : task'[u] = task[u]
      /\ task'[t].at = IF task[t].for = "send" THEN "authorize" ELSE "checkin"
      /\ task'[t].lease = rt.lease /\ task'[t].gen = rt.gen
      /\ task'[t].for = task[t].for /\ task'[t].bad = task[t].bad
      /\ task'[t].stale = task[t].stale /\ task'[t].out = task[t].out
  <2> DEFINE a == IF task[t].for = "send" THEN "authorize" ELSE "checkin"
             r == [task[t] EXCEPT !.lease = rt.lease, !.gen = rt.gen, !.at = a]
  <2>1. a \in Ats /\ rt.lease \in 0..spent /\ rt.gen \in Nat
    BY <1>1 DEF Ats, Using, RouteUpTo
  <2>2. task' = [task EXCEPT ![t] = r]
    BY <1>1
  <2> HIDE DEF a
  <2>3. /\ r \in TaskUpTo(spent) /\ r.at = a /\ r.lease = rt.lease /\ r.gen = rt.gen
        /\ r.for = task[t].for /\ r.bad = task[t].bad
        /\ r.stale = task[t].stale /\ r.out = task[t].out
    BY <1>1, <2>1 DEF TaskUpTo
  <2> HIDE DEF r
  <2>4. QED
    BY <1>1, <2>2, <2>3 DEF a
<1>3. /\ rt' \in RouteUpTo(spent') /\ rt'.active = rt.active + 1 /\ rt'.lease = rt.lease
      /\ rt'.pending = rt.pending /\ rt'.moving = rt.moving /\ rt'.gen = rt.gen
  BY <1>1 DEF RouteUpTo
<1>4. rt.lease # None /\ ~rt.pending /\ rt.lease \in held
  BY DEF RouteIsGood, OneMover
<1>5. \A u \in Tasks \ {t} : Undisturbed(u)
  BY <1>2 DEF Undisturbed
<1>6. RouteWorsens
  BY <1>3 DEF RouteWorsens
<1>7. CarriedBy(t)'
  <2>1. task[t].stale \/ rt.gen # task[t].bad
    BY <1>4 DEF IdentityCarried, CarriedBy, Left
  <2>2. task[t].bad \in Nat /\ rt.gen \in Nat /\ task[t].bad <= rt.gen
    BY <1>1 DEF TaskUpTo, RouteUpTo, IdentityCarried, CarriedBy
  <2>3. task[t].stale \/ rt.gen > task[t].bad
    BY <2>1, <2>2
  <2>4. QED
    BY <1>1, <1>2, <1>3, <2>2, <2>3 DEF CarriedBy, Left, TaskUpTo
<1>8. RouteKeptWhileUsed'
  BY <1>2, <1>3, <1>4 DEF RouteKeptWhileUsed
<1>9. \A u \in Tasks : /\ task'[u].at = "replace" <=> task[u].at = "replace"
                       /\ task'[u].at = "replace" => task'[u].lease = task[u].lease
  BY <1>2
<1>10. NoLeaseLost' /\ OneMover'
  BY <1>3, <1>9, LeasesUntouched
<1>11. /\ rt'.active = rt.active + Is(task'[t].at, Using) - Is(task[t].at, Using)
       /\ t \in budget.by => task[t].for = "send"
  BY <1>1, <1>2, <1>3 DEF Is, Using, RouteUpTo, BudgetIsInAttempt
<1>12. /\ closer' \in [at : {"none", "draining", "parked", "releasing", "done"}, lease : 0..spent']
       /\ held' \subseteq 1..spent' /\ refused' \subseteq 1..spent' /\ spent' \in 0..MaxLeases
  BY DEF TypeOK
<1>13. /\ late' \subseteq Tasks /\ faults' \in 0..MaxFaults
       /\ permits' \in [{"direct", "proxy"} -> Nat]
       /\ permits'["direct"] = permits["direct"]
            + Is(task[t].at, {"directing"}) - Is(task'[t].at, {"directing"})
       /\ permits'["proxy"] = permits["proxy"]
            + Is(task[t].at, {"sending"}) - Is(task'[t].at, {"sending"})
  BY <1>2, NothingCounted, FaultsLeft DEF Is
<1>14. t \in budget'.by => task'[t].for = "send" /\ task'[t].at \in InAttempt
  BY <1>2, <1>11 DEF InAttempt, Using
<1>15. QED
  BY <1>2, <1>3, <1>5, <1>6, <1>7, <1>8, <1>10, <1>11, <1>12, <1>13, <1>14, StepOfTheRoute

\* _checkout_proxy_route, when the route has to be replaced: nobody is using it,
\* and its lease goes with the task that replaces it.
LEMMA CheckoutReplaces ==
  ASSUME TransportInv, NEW t \in Tasks, task[t].at = "checkout",
         ~rt.moving, RouteIsFree,
         rt' = [rt EXCEPT !.moving = TRUE, !.lease = None, !.pending = FALSE],
         task' = [task EXCEPT ![t].lease = rt.lease, ![t].at = "replace"],
         UNCHANGED <<mode, held, spent, refused, late, permits, budget, closer, faults>>
  PROVE  TransportInv'
<1> USE DEF TransportInv
<1>1. task \in [Tasks -> TaskUpTo(spent)] /\ rt \in RouteUpTo(spent) /\ spent \in Nat
  BY TypeOfTask DEF TypeOK, RouteUpTo
<1>2. /\ task' \in [Tasks -> TaskUpTo(spent)]
      /\ \A u \in Tasks \ {t} : task'[u] = task[u]
      /\ task'[t].at = "replace" /\ task'[t].lease = rt.lease
      /\ task'[t].for = task[t].for /\ task'[t].gen = task[t].gen
      /\ task'[t].bad = task[t].bad /\ task'[t].stale = task[t].stale
  <2> DEFINE r == [task[t] EXCEPT !.lease = rt.lease, !.at = "replace"]
  <2>1. task' = [task EXCEPT ![t] = r]
    BY <1>1
  <2>2. rt.lease \in 0..spent
    BY <1>1 DEF RouteUpTo
  <2>3. /\ r \in TaskUpTo(spent) /\ r.at = "replace" /\ r.lease = rt.lease
        /\ r.for = task[t].for /\ r.gen = task[t].gen
        /\ r.bad = task[t].bad /\ r.stale = task[t].stale
    BY <1>1, <2>2 DEF TaskUpTo, Ats
  <2> HIDE DEF r
  <2>4. QED
    BY <1>1, <2>1, <2>3
<1>3. /\ rt' \in RouteUpTo(spent') /\ rt'.active = rt.active /\ rt'.lease = None
      /\ rt'.moving /\ rt'.gen = rt.gen /\ ~rt'.pending
  <2>1. None \in 0..spent /\ spent' = spent
    BY <1>1 DEF None
  <2>2. /\ rt'.active = rt.active /\ rt'.lease = None
        /\ rt'.moving /\ rt'.gen = rt.gen /\ ~rt'.pending
    BY <1>1 DEF RouteUpTo
  <2>3. rt' \in RouteUpTo(spent)
    BY <1>1, <2>1 DEF RouteUpTo
  <2>4. QED
    BY <2>1, <2>2, <2>3
<1>4. \A u \in Tasks : task[u].at \notin Using
  BY NobodyUses DEF RouteIsFree
<1>5. \A u \in Tasks \ {t} : Undisturbed(u)
  BY <1>2 DEF Undisturbed
<1>6. RouteWorsens
  BY <1>3 DEF RouteWorsens
<1>7. CarriedBy(t)'
  BY <1>2, <1>3 DEF IdentityCarried, CarriedBy, Left
<1>8. RouteKeptWhileUsed'
  BY <1>2, <1>4 DEF RouteKeptWhileUsed, Using
<1>9. closer.at # "releasing" /\ \A u \in Tasks : task[u].at # "replace"
  BY DEF OneMover
<1>10. OneMover'
  BY <1>2, <1>3, <1>9 DEF OneMover
<1>11. NoLeaseLost'
  <2> SUFFICES ASSUME NEW l \in held
               PROVE  \/ l = rt'.lease \/ l \in refused' \/ l = closer'.lease
                      \/ \E u \in Tasks : task'[u].at = "replace" /\ task'[u].lease = l
    BY DEF NoLeaseLost
  <2>1. CASE l = rt.lease
    BY <1>2, <2>1
  <2>2. CASE l \in refused \/ l = closer.lease
    BY <2>2
  <2>3. QED
    BY <2>1, <2>2, <1>9 DEF NoLeaseLost
<1>12. /\ closer' \in [at : {"none", "draining", "parked", "releasing", "done"}, lease : 0..spent']
       /\ held' \subseteq 1..spent' /\ refused' \subseteq 1..spent' /\ spent' \in 0..MaxLeases
  BY DEF TypeOK
<1>13. /\ late' \subseteq Tasks /\ faults' \in 0..MaxFaults
       /\ permits' \in [{"direct", "proxy"} -> Nat]
       /\ permits'["direct"] = permits["direct"]
            + Is(task[t].at, {"directing"}) - Is(task'[t].at, {"directing"})
       /\ permits'["proxy"] = permits["proxy"]
            + Is(task[t].at, {"sending"}) - Is(task'[t].at, {"sending"})
  BY <1>2, NothingCounted, FaultsLeft DEF Is
<1>14. t \in budget'.by => task'[t].for = "send" /\ task'[t].at \in InAttempt
  BY <1>2 DEF InAttempt, Using, BudgetIsInAttempt
<1>15. rt'.active = rt.active + Is(task'[t].at, Using) - Is(task[t].at, Using)
  BY <1>1, <1>2, <1>3 DEF Is, Using, RouteUpTo
<1>16. QED
  BY <1>2, <1>3, <1>5, <1>6, <1>7, <1>8, <1>10, <1>11, <1>12, <1>13, <1>14, <1>15, StepOfTheRoute

\* _checkout_proxy_route as a whole.
LEMMA CheckoutKeeps ==
  ASSUME TransportInv, NEW t \in Tasks, Checkout(t)
  PROVE  TransportInv'
<1> USE DEF TransportInv
<1>1. /\ task[t].at = "checkout"
      /\ UNCHANGED <<mode, held, spent, refused, late, permits, budget, closer, faults>>
  BY DEF Checkout
<1>2. CASE (task' = Raises(t) \/ task' = Goes(t, "parked")) /\ UNCHANGED rt
  <2>1. "parked" \in Ats
    BY DEF Ats
  <2>2. /\ task' \in [Tasks -> TaskUpTo(spent)]
        /\ \A u \in Tasks \ {t} : task'[u] = task[u]
        /\ \/ task'[t].at = "parked"
           \/ /\ task'[t].at = IF task[t].for = "send" THEN "answered" ELSE "ended"
              /\ task'[t].out = "error"
        /\ task'[t].for = task[t].for /\ task'[t].lease = task[t].lease
        /\ task'[t].gen = task[t].gen /\ task'[t].bad = task[t].bad
        /\ task'[t].stale = task[t].stale
    <3>1. CASE task' = Raises(t)
      BY <3>1, RaisesEnds
    <3>2. CASE task' = Goes(t, "parked")
      BY <3>2, <2>1, GoesTo
    <3>3. QED
      BY <1>2, <3>1, <3>2
  <2>3. t \in budget.by => task[t].for = "send"
    BY DEF BudgetIsInAttempt
  <2>4. CarriedBy(t)'
    BY <1>1, <1>2, <2>2 DEF IdentityCarried, CarriedBy, Left
  <2>5. QED
    BY <1>1, <1>2, <2>2, <2>3, <2>4, NothingCounted, FaultsLeft, StepBesideTheRoute
       DEF Is, Using, InAttempt
<1>3. CASE /\ ~rt.moving /\ RouteIsGood
           /\ rt' = [rt EXCEPT !.active = rt.active + 1]
           /\ task' = [task EXCEPT ![t].lease = rt.lease, ![t].gen = rt.gen,
                                   ![t].at = IF task[t].for = "send" THEN "authorize" ELSE "checkin"]
  BY <1>1, <1>3, CheckoutUses
<1>4. CASE /\ ~rt.moving /\ RouteIsFree
           /\ rt' = [rt EXCEPT !.moving = TRUE, !.lease = None, !.pending = FALSE]
           /\ task' = [task EXCEPT ![t].lease = rt.lease, ![t].at = "replace"]
  BY <1>1, <1>4, CheckoutReplaces
<1>5. QED
  BY <1>2, <1>3, <1>4 DEF Checkout

\* _replace_route succeeds: the next generation has a new lease, and the old one
\* went back with the rotation.
LEMMA ReplaceKeeps ==
  ASSUME TransportInv, NEW t \in Tasks, Replace(t)
  PROVE  TransportInv'
<1> USE DEF TransportInv
<1>1. /\ task[t].at = "replace" /\ spent < MaxLeases /\ spent' = spent + 1
      /\ held' = (held \ {task[t].lease}) \union {spent + 1}
      /\ rt' = [rt EXCEPT !.lease = spent + 1, !.gen = rt.gen + 1, !.moving = FALSE]
      /\ task' = Woken(Goes(t, "checkout")) /\ closer' = CloserWoken
      /\ UNCHANGED <<mode, refused, late, permits, budget, faults>>
  BY DEF Replace
<1>2. rt \in RouteUpTo(spent) /\ spent \in Nat /\ spent + 1 \in Nat
  BY Numbers DEF TypeOK, RouteUpTo
<1>3. /\ Goes(t, "checkout") \in [Tasks -> TaskUpTo(spent)]
      /\ \A u \in Tasks \ {t} : Goes(t, "checkout")[u] = task[u]
      /\ Goes(t, "checkout")[t].at = "checkout"
      /\ Goes(t, "checkout")[t].for = task[t].for
      /\ Goes(t, "checkout")[t].gen = task[t].gen /\ Goes(t, "checkout")[t].bad = task[t].bad
      /\ Goes(t, "checkout")[t].stale = task[t].stale
  <2>1. "checkout" \in Ats
    BY DEF Ats
  <2>2. QED
    BY <2>1, GoesTo
<1>4. /\ task' \in [Tasks -> TaskUpTo(spent)]
      /\ \A u \in Tasks \ {t} : Undisturbed(u)
      /\ task'[t].at = "checkout" /\ task'[t].for = task[t].for
      /\ task'[t].gen = task[t].gen /\ task'[t].bad = task[t].bad
      /\ task'[t].stale = task[t].stale
  BY <1>1, <1>2, <1>3, MovesAndWakes
<1>5. task' \in [Tasks -> TaskUpTo(spent')]
  <2>1. \A r \in TaskUpTo(spent) : r \in TaskUpTo(spent + 1)
    BY <1>2, TasksGrow
  <2>2. QED
    BY <1>1, <1>4, <2>1
<1>6. /\ rt' \in RouteUpTo(spent') /\ rt'.active = rt.active /\ rt'.lease = spent + 1
      /\ ~rt'.moving /\ rt'.gen = rt.gen + 1
  <2>1. spent + 1 \in 0..(spent + 1) /\ \A i \in 0..spent : i \in 0..(spent + 1)
    BY <1>2
  <2>2. rt.gen + 1 \in Nat
    BY <1>2 DEF RouteUpTo
  <2>3. /\ rt'.active = rt.active /\ rt'.lease = spent + 1
        /\ ~rt'.moving /\ rt'.gen = rt.gen + 1
    BY <1>1, <1>2 DEF RouteUpTo
  <2>4. rt' \in RouteUpTo(spent + 1)
    BY <1>1, <1>2, <2>1, <2>2 DEF RouteUpTo
  <2>5. QED
    BY <1>1, <2>3, <2>4
<1>7. RouteWorsens
  BY <1>6 DEF RouteWorsens
<1>8. CarriedBy(t)'
  <2>1. rt.gen \in Nat /\ task[t].bad \in Nat /\ task[t].gen \in Nat
    BY <1>2, TypeOfTask DEF RouteUpTo, TaskUpTo
  <2>2. task[t].bad <= rt.gen /\ task[t].gen <= rt.gen
    BY DEF IdentityCarried, CarriedBy
  <2>3. QED
    BY <1>4, <1>6, <2>1, <2>2 DEF CarriedBy, Left
<1>9. rt.moving /\ rt.lease = None /\ closer.at # "releasing"
      /\ \A u \in Tasks : task[u].at = "replace" => u = t
  BY <1>1 DEF OneMover
<1>10. \A u \in Tasks : task'[u].at # "replace" /\ task'[u].at \notin Using
  <2>1. \A u \in Tasks : task[u].at \notin Using
    BY <1>9, NobodyUsesAMovingRoute
  <2>2. \A u \in Tasks \ {t} : task'[u].at # "replace" /\ task'[u].at \notin Using
    BY <1>4, <1>9, <2>1, OthersKeepTheRoute
  <2>3. QED
    BY <1>4, <2>2 DEF Using
<1>11. RouteKeptWhileUsed'
  BY <1>10 DEF RouteKeptWhileUsed
<1>12. /\ closer' \in [at : {"none", "draining", "parked", "releasing", "done"}, lease : 0..spent]
       /\ closer'.lease = closer.lease /\ (closer'.at = "releasing" <=> closer.at = "releasing")
  BY <1>1, CloserIsWoken
<1>13. OneMover'
  BY <1>1, <1>6, <1>9, <1>10, <1>12 DEF OneMover
<1>14. NoLeaseLost'
  <2> SUFFICES ASSUME NEW l \in held'
               PROVE  l = rt'.lease \/ l \in refused' \/ l = closer'.lease
    BY DEF NoLeaseLost
  <2>1. CASE l = spent + 1
    BY <1>6, <2>1
  <2>2. CASE l \in held /\ l # task[t].lease
    <3>1. l # None
      BY <2>2 DEF TypeOK, None
    <3>2. \/ l = rt.lease \/ l \in refused \/ l = closer.lease
          \/ \E u \in Tasks : task[u].at = "replace" /\ task[u].lease = l
      BY <2>2 DEF NoLeaseLost
    <3>3. QED
      BY <1>1, <1>9, <1>12, <2>2, <3>1, <3>2
  <2>3. QED
    BY <1>1, <2>1, <2>2
<1>15. /\ closer' \in [at : {"none", "draining", "parked", "releasing", "done"}, lease : 0..spent']
       /\ held' \subseteq 1..spent' /\ refused' \subseteq 1..spent' /\ spent' \in 0..MaxLeases
  <2>1. \A i \in 0..spent : i \in 0..(spent + 1)
    BY <1>2
  <2>2. \A i \in 1..spent : i \in 1..(spent + 1)
    BY <1>2
  <2>3. spent + 1 \in 1..(spent + 1) /\ spent + 1 \in 0..MaxLeases
    BY <1>1, <1>2, Numbers
  <2>4. QED
    BY <1>1, <1>12, <2>1, <2>2, <2>3 DEF TypeOK
<1>16. /\ late' \subseteq Tasks /\ faults' \in 0..MaxFaults
       /\ permits' \in [{"direct", "proxy"} -> Nat]
       /\ permits'["direct"] = permits["direct"]
            + Is(task[t].at, {"directing"}) - Is(task'[t].at, {"directing"})
       /\ permits'["proxy"] = permits["proxy"]
            + Is(task[t].at, {"sending"}) - Is(task'[t].at, {"sending"})
  BY <1>1, <1>4, NothingCounted, FaultsLeft DEF Is
<1>17. t \in budget'.by => task'[t].for = "send" /\ task'[t].at \in InAttempt
  BY <1>1, <1>4 DEF InAttempt, BudgetIsInAttempt
<1>18. rt'.active = rt.active + Is(task'[t].at, Using) - Is(task[t].at, Using)
  BY <1>1, <1>2, <1>4, <1>6 DEF Is, Using, RouteUpTo
<1>19. QED
  BY <1>1, <1>4, <1>5, <1>6, <1>7, <1>8, <1>11, <1>13, <1>14, <1>15, <1>16, <1>17, <1>18,
     StepOfTheRoute

\* It fails: the detached lease goes back, or the pool refuses that.
LEMMA ReplaceFailsKeeps ==
  ASSUME TransportInv, NEW t \in Tasks, ReplaceFails(t)
  PROVE  TransportInv'
<1> USE DEF TransportInv
<1>1. /\ task[t].at = "replace" /\ (Fault \/ UNCHANGED faults)
      /\ held' = AfterFailedReplace(t).held /\ refused' = AfterFailedReplace(t).refused
      /\ rt' = [rt EXCEPT !.moving = FALSE]
      /\ task' = Woken(Raises(t)) /\ closer' = CloserWoken
      /\ UNCHANGED <<mode, spent, late, permits, budget>>
  BY DEF ReplaceFails
<1>2. rt \in RouteUpTo(spent) /\ spent \in Nat
  BY Numbers DEF TypeOK, RouteUpTo
<1>3. /\ task' \in [Tasks -> TaskUpTo(spent)]
      /\ \A u \in Tasks \ {t} : Undisturbed(u)
      /\ task'[t].at = IF task[t].for = "send" THEN "answered" ELSE "ended"
      /\ task'[t].out = "error" /\ task'[t].for = task[t].for
      /\ task'[t].gen = task[t].gen /\ task'[t].bad = task[t].bad
  <2>1. /\ Raises(t) \in [Tasks -> TaskUpTo(spent)]
        /\ \A u \in Tasks \ {t} : Raises(t)[u] = task[u]
        /\ Raises(t)[t].at = IF task[t].for = "send" THEN "answered" ELSE "ended"
        /\ Raises(t)[t].out = "error" /\ Raises(t)[t].for = task[t].for
        /\ Raises(t)[t].gen = task[t].gen /\ Raises(t)[t].bad = task[t].bad
    BY RaisesEnds
  <2>2. Raises(t)[t].at \notin {"parked", "waiting"}
    BY <2>1
  <2>3. /\ task' \in [Tasks -> TaskUpTo(spent)] /\ task'[t] = Raises(t)[t]
        /\ \A u \in Tasks \ {t} : Undisturbed(u)
    BY <1>1, <1>2, <2>1, <2>2, MovesAndWakes
  <2>4. QED
    BY <2>1, <2>3
<1>4. /\ rt' \in RouteUpTo(spent') /\ rt'.active = rt.active /\ rt'.lease = rt.lease
      /\ ~rt'.moving /\ rt'.gen = rt.gen /\ rt'.pending = rt.pending
  BY <1>1, <1>2 DEF RouteUpTo
<1>5. RouteWorsens
  BY <1>4 DEF RouteWorsens
<1>6. CarriedBy(t)'
  BY <1>3, <1>4 DEF IdentityCarried, CarriedBy
<1>7. rt.moving /\ rt.lease = None /\ closer.at # "releasing"
      /\ \A u \in Tasks : task[u].at = "replace" => u = t
  BY <1>1 DEF OneMover
<1>8. \A u \in Tasks : task'[u].at # "replace" /\ task'[u].at \notin Using
  <2>1. \A u \in Tasks : task[u].at \notin Using
    BY <1>7, NobodyUsesAMovingRoute
  <2>2. \A u \in Tasks \ {t} : task'[u].at # "replace" /\ task'[u].at \notin Using
    BY <1>3, <1>7, <2>1, OthersKeepTheRoute
  <2>3. QED
    BY <1>3, <2>2 DEF Using
<1>9. RouteKeptWhileUsed'
  BY <1>8 DEF RouteKeptWhileUsed
<1>10. /\ closer' \in [at : {"none", "draining", "parked", "releasing", "done"}, lease : 0..spent]
       /\ closer'.lease = closer.lease /\ (closer'.at = "releasing" <=> closer.at = "releasing")
  BY <1>1, CloserIsWoken
<1>11. OneMover'
  BY <1>4, <1>7, <1>8, <1>10 DEF OneMover
<1>12. \/ held' = held /\ refused' = refused \union {task[t].lease} /\ task[t].lease # None
       \/ held' = held \ {task[t].lease} /\ refused' = refused
  BY <1>1 DEF AfterFailedReplace, PoolRefuses
<1>13. NoLeaseLost'
  <2> SUFFICES ASSUME NEW l \in held'
               PROVE  l = rt'.lease \/ l \in refused' \/ l = closer'.lease
    BY DEF NoLeaseLost
  <2>1. l \in held /\ l # None
    BY <1>12 DEF TypeOK, None
  <2>2. \/ l = rt.lease \/ l \in refused \/ l = closer.lease
        \/ \E u \in Tasks : task[u].at = "replace" /\ task[u].lease = l
    BY <2>1 DEF NoLeaseLost
  <2>3. QED
    BY <1>7, <1>10, <1>12, <2>1, <2>2
<1>14. held' \subseteq 1..spent' /\ refused' \subseteq 1..spent' /\ spent' \in 0..MaxLeases
  <2>1. task[t].lease \in 0..spent
    BY TypeOfTask DEF TaskUpTo
  <2>2. task[t].lease # None => task[t].lease \in 1..spent
    BY <1>2, <2>1 DEF None
  <2>3. QED
    BY <1>1, <1>12, <2>2 DEF TypeOK
<1>15. /\ late' \subseteq Tasks /\ faults' \in 0..MaxFaults
       /\ permits' \in [{"direct", "proxy"} -> Nat]
       /\ permits'["direct"] = permits["direct"]
            + Is(task[t].at, {"directing"}) - Is(task'[t].at, {"directing"})
       /\ permits'["proxy"] = permits["proxy"]
            + Is(task[t].at, {"sending"}) - Is(task'[t].at, {"sending"})
  BY <1>1, <1>3, NothingCounted, FaultsLeft DEF Is
<1>16. t \in budget'.by => task'[t].for = "send" /\ task'[t].at \in InAttempt
  BY <1>1, <1>3 DEF InAttempt, BudgetIsInAttempt
<1>17. rt'.active = rt.active + Is(task'[t].at, Using) - Is(task[t].at, Using)
  BY <1>1, <1>2, <1>3, <1>4 DEF Is, Using, RouteUpTo
<1>18. QED
  BY <1>1, <1>3, <1>4, <1>5, <1>6, <1>9, <1>10, <1>11, <1>13, <1>14, <1>15, <1>16, <1>17,
     StepOfTheRoute

\* The proxy answers: the request remembers the generation that failed it, the
\* permit goes back, and the route is kept until the checkin.
LEMMA ProxyAnswersKeeps ==
  ASSUME TransportInv, NEW t \in Tasks, NEW out \in Outcomes, ProxyAnswers(t, out)
  PROVE  TransportInv'
<1> USE DEF TransportInv
<1>1. /\ task[t].at = "sending" /\ (Fault \/ UNCHANGED faults)
      /\ permits' = [permits EXCEPT !["proxy"] = @ + 1]
      /\ \/ /\ rt' = [rt EXCEPT !.pending = TRUE]
            /\ task' = Woken(Answered(t, out)) /\ closer' = CloserWoken
         \/ task' = Answered(t, out) /\ UNCHANGED <<rt, closer>>
      /\ UNCHANGED <<mode, held, spent, refused, late, budget>>
  BY DEF ProxyAnswers
<1>2. task \in [Tasks -> TaskUpTo(spent)] /\ rt \in RouteUpTo(spent) /\ spent \in Nat
  BY TypeOfTask DEF TypeOK, RouteUpTo
<1>3. /\ Answered(t, out) \in [Tasks -> TaskUpTo(spent)]
      /\ \A u \in Tasks \ {t} : Answered(t, out)[u] = task[u]
      /\ Answered(t, out)[t].at = "settle" /\ Answered(t, out)[t].out = out
      /\ Answered(t, out)[t].bad = IF out \in Blames THEN task[t].gen ELSE task[t].bad
      /\ Answered(t, out)[t].for = task[t].for /\ Answered(t, out)[t].lease = task[t].lease
      /\ Answered(t, out)[t].gen = task[t].gen /\ Answered(t, out)[t].stale = task[t].stale
  <2> DEFINE b == IF out \in Blames THEN task[t].gen ELSE task[t].bad
             r == [task[t] EXCEPT !.at = "settle", !.out = out, !.bad = b]
  <2>1. b \in Nat /\ out \in Outs /\ "settle" \in Ats
    BY <1>2 DEF TaskUpTo, Outs, Outcomes, Ats, Using
  <2>2. Answered(t, out) = [task EXCEPT ![t] = r]
    BY <1>2 DEF Answered
  <2> HIDE DEF b
  <2>3. /\ r \in TaskUpTo(spent) /\ r.at = "settle" /\ r.out = out /\ r.bad = b
        /\ r.for = task[t].for /\ r.lease = task[t].lease
        /\ r.gen = task[t].gen /\ r.stale = task[t].stale
    BY <1>2, <2>1 DEF TaskUpTo
  <2> HIDE DEF r
  <2>4. QED
    BY <1>2, <2>2, <2>3 DEF b
<1>4. /\ task' \in [Tasks -> TaskUpTo(spent)]
      /\ \A u \in Tasks \ {t} : Undisturbed(u)
      /\ task'[t] = Answered(t, out)[t]
  <2>1. CASE task' = Woken(Answered(t, out))
    <3>1. Answered(t, out)[t].at \notin {"parked", "waiting"}
      BY <1>3
    <3>2. QED
      BY <1>2, <1>3, <2>1, <3>1, MovesAndWakes
  <2>2. CASE task' = Answered(t, out)
    BY <1>3, <2>2 DEF Undisturbed
  <2>3. QED
    BY <1>1, <2>1, <2>2
<1>5. /\ rt' \in RouteUpTo(spent') /\ rt'.active = rt.active /\ rt'.lease = rt.lease
      /\ rt'.moving = rt.moving /\ rt'.gen = rt.gen /\ (rt.pending => rt'.pending)
  BY <1>1, <1>2 DEF RouteUpTo
<1>6. /\ closer' \in [at : {"none", "draining", "parked", "releasing", "done"}, lease : 0..spent']
      /\ closer'.lease = closer.lease /\ (closer'.at = "releasing" <=> closer.at = "releasing")
  BY <1>1, CloserIsWoken DEF TypeOK
<1>7. RouteWorsens
  BY <1>5 DEF RouteWorsens
<1>8. CarriedBy(t)'
  <2>1. /\ task[t].bad \in Nat /\ task[t].gen \in Nat /\ rt.gen \in Nat
        /\ task[t].bad <= rt.gen /\ task[t].gen <= rt.gen /\ task[t].for = "send"
        /\ task[t].gen > task[t].bad \/ task[t].stale
    BY <1>1, <1>2 DEF IdentityCarried, CarriedBy, TaskUpTo, RouteUpTo
  <2>2. out = "busy" => out \notin Blames
    BY DEF Blames
  <2>3. QED
    BY <1>3, <1>4, <1>5, <2>1, <2>2 DEF CarriedBy, Left
<1>9. \A u \in Tasks : /\ task'[u].lease = task[u].lease
                       /\ task'[u].at = "replace" <=> task[u].at = "replace"
                       /\ task'[u].at \in Using <=> task[u].at \in Using
  <2>1. \A u \in Tasks \ {t} : /\ task'[u].lease = task[u].lease
                               /\ task'[u].at = "replace" <=> task[u].at = "replace"
                               /\ task'[u].at \in Using <=> task[u].at \in Using
    BY <1>4, OthersKeepTheRoute
  <2>2. QED
    BY <1>1, <1>3, <1>4, <2>1 DEF Using
<1>10. RouteKeptWhileUsed'
  BY <1>1, <1>5, <1>9 DEF RouteKeptWhileUsed
<1>11. NoLeaseLost' /\ OneMover'
  BY <1>1, <1>5, <1>6, <1>9, LeasesUntouched
<1>12. /\ late' \subseteq Tasks /\ faults' \in 0..MaxFaults
       /\ held' \subseteq 1..spent' /\ refused' \subseteq 1..spent' /\ spent' \in 0..MaxLeases
  BY <1>1, FaultsLeft DEF TypeOK
<1>13. /\ permits' \in [{"direct", "proxy"} -> Nat]
       /\ permits'["direct"] = permits["direct"]
            + Is(task[t].at, {"directing"}) - Is(task'[t].at, {"directing"})
       /\ permits'["proxy"] = permits["proxy"]
            + Is(task[t].at, {"sending"}) - Is(task'[t].at, {"sending"})
  <2>1. /\ permits' \in [{"direct", "proxy"} -> Nat]
        /\ permits["direct"] \in Nat /\ permits["proxy"] \in Nat
        /\ permits'["direct"] = permits["direct"] /\ permits'["proxy"] = permits["proxy"] + 1
    BY <1>1, Numbers DEF TypeOK
  <2>2. QED
    BY <1>1, <1>3, <1>4, <2>1 DEF Is
<1>14. t \in budget'.by => task'[t].for = "send" /\ task'[t].at \in InAttempt
  BY <1>1, <1>3, <1>4 DEF InAttempt, Using, BudgetIsInAttempt
<1>15. rt'.active = rt.active + Is(task'[t].at, Using) - Is(task[t].at, Using)
  BY <1>1, <1>2, <1>5, <1>9 DEF Is, RouteUpTo
<1>16. QED
  BY <1>1, <1>4, <1>5, <1>6, <1>7, <1>8, <1>10, <1>11, <1>12, <1>13, <1>14, <1>15, StepOfTheRoute

\* _checkin_proxy_route: the request no longer counts as active.
LEMMA CheckinKeeps ==
  ASSUME TransportInv, NEW t \in Tasks, Checkin(t)
  PROVE  TransportInv'
<1> USE DEF TransportInv
<1> DEFINE a == IF task[t].for = "send" THEN "answered" ELSE "attempt"
<1>1. /\ task[t].at = "checkin" /\ rt' = [rt EXCEPT !.active = rt.active - 1]
      /\ task' = Woken(Goes(t, a)) /\ closer' = CloserWoken
      /\ UNCHANGED <<mode, held, spent, refused, late, permits, budget, faults>>
  BY DEF Checkin, WokenByCheckin
<1>2. rt \in RouteUpTo(spent) /\ spent \in Nat
  BY Numbers DEF TypeOK, RouteUpTo
<1>3. a \in Ats /\ a \notin {"parked", "waiting", "replace", "directing", "sending"} \union Using
  BY DEF Ats, Using
<1>4. (a = "answered" <=> task[t].for = "send") /\ (a = "attempt" <=> task[t].for # "send")
  OBVIOUS
<1> HIDE DEF a
<1>5. /\ task' \in [Tasks -> TaskUpTo(spent)]
      /\ \A u \in Tasks \ {t} : Undisturbed(u)
      /\ task'[t].at = a /\ task'[t].for = task[t].for /\ task'[t].out = task[t].out
      /\ task'[t].gen = task[t].gen /\ task'[t].bad = task[t].bad
      /\ task'[t].stale = task[t].stale
  <2>1. /\ Goes(t, a) \in [Tasks -> TaskUpTo(spent)]
        /\ \A u \in Tasks \ {t} : Goes(t, a)[u] = task[u]
        /\ Goes(t, a)[t].at = a
        /\ Goes(t, a)[t].for = task[t].for /\ Goes(t, a)[t].out = task[t].out
        /\ Goes(t, a)[t].gen = task[t].gen /\ Goes(t, a)[t].bad = task[t].bad
        /\ Goes(t, a)[t].stale = task[t].stale
    BY <1>3, GoesTo
  <2>2. /\ task' \in [Tasks -> TaskUpTo(spent)] /\ task'[t] = Goes(t, a)[t]
        /\ \A u \in Tasks \ {t} : Undisturbed(u)
    BY <1>1, <1>2, <1>3, <2>1, MovesAndWakes
  <2>3. QED
    BY <2>1, <2>2
<1>6. rt.active \in Nat \ {0}
  <2>1. rt.active # 0
    BY <1>1, NobodyUses DEF Using
  <2>2. QED
    BY <1>2, <2>1 DEF RouteUpTo
<1>7. /\ rt' \in RouteUpTo(spent') /\ rt'.active = rt.active - 1 /\ rt'.lease = rt.lease
      /\ rt'.moving = rt.moving /\ rt'.gen = rt.gen /\ rt'.pending = rt.pending
  BY <1>1, <1>2, <1>6 DEF RouteUpTo
<1>8. /\ closer' \in [at : {"none", "draining", "parked", "releasing", "done"}, lease : 0..spent']
      /\ closer'.lease = closer.lease /\ (closer'.at = "releasing" <=> closer.at = "releasing")
  BY <1>1, CloserIsWoken
<1>9. RouteWorsens
  BY <1>7 DEF RouteWorsens
<1>10. CarriedBy(t)'
  <2>1. task[t].for \in {"send", "rotate"}
    BY TypeOfTask DEF TaskUpTo
  <2>2. QED
    BY <1>1, <1>3, <1>4, <1>5, <1>7, <2>1 DEF IdentityCarried, CarriedBy, Left
<1>11. /\ \A u \in Tasks : /\ task'[u].at = "replace" <=> task[u].at = "replace"
                           /\ task'[u].at = "replace" => task'[u].lease = task[u].lease
       /\ \A u \in Tasks : task'[u].at \in Using =>
                             task[u].at \in Using /\ task'[u].lease = task[u].lease
  <2>1. \A u \in Tasks \ {t} : /\ task'[u].lease = task[u].lease
                               /\ task'[u].at = "replace" <=> task[u].at = "replace"
                               /\ task'[u].at \in Using <=> task[u].at \in Using
    BY <1>5, OthersKeepTheRoute
  <2>2. QED
    BY <1>1, <1>3, <1>5, <2>1
<1>12. RouteKeptWhileUsed'
  BY <1>1, <1>7, <1>11 DEF RouteKeptWhileUsed
<1>13. NoLeaseLost' /\ OneMover'
  BY <1>1, <1>7, <1>8, <1>11, LeasesUntouched
<1>14. /\ late' \subseteq Tasks /\ faults' \in 0..MaxFaults
       /\ held' \subseteq 1..spent' /\ refused' \subseteq 1..spent' /\ spent' \in 0..MaxLeases
  BY <1>1, FaultsLeft DEF TypeOK
<1>15. /\ permits' \in [{"direct", "proxy"} -> Nat]
       /\ permits'["direct"] = permits["direct"]
            + Is(task[t].at, {"directing"}) - Is(task'[t].at, {"directing"})
       /\ permits'["proxy"] = permits["proxy"]
            + Is(task[t].at, {"sending"}) - Is(task'[t].at, {"sending"})
  BY <1>1, <1>3, <1>5, NothingCounted DEF Is
<1>16. t \in budget'.by => task'[t].for = "send" /\ task'[t].at \in InAttempt
  BY <1>1, <1>4, <1>5 DEF InAttempt, BudgetIsInAttempt
<1>17. rt'.active = rt.active + Is(task'[t].at, Using) - Is(task[t].at, Using)
  BY <1>1, <1>3, <1>5, <1>6, <1>7 DEF Is, Using
<1>18. QED
  BY <1>1, <1>5, <1>7, <1>8, <1>9, <1>10, <1>12, <1>13, <1>14, <1>15, <1>16, <1>17, StepOfTheRoute

\* rotate_identity_for_request: a request that waited for somebody else's
\* rotation goes on only if there is a route again; otherwise it asks itself.
LEMMA RotateKeeps ==
  ASSUME TransportInv, NEW t \in Tasks, Rotate(t)
  PROVE  TransportInv'
<1> USE DEF TransportInv
<1>1. /\ task[t].at \in {"rotate", "waited"}
      /\ UNCHANGED <<mode, held, spent, refused, late, permits, budget, closer, faults>>
  BY DEF Rotate
<1>2. task \in [Tasks -> TaskUpTo(spent)] /\ rt \in RouteUpTo(spent) /\ spent \in Nat
  BY TypeOfTask DEF TypeOK, RouteUpTo
<1>3. t \notin budget.by
  BY <1>1 DEF BudgetIsInAttempt, Using
<1>4. CASE /\ UNCHANGED rt
           /\ \/ task' = [task EXCEPT ![t].at = "ended", ![t].out = "error"]
              \/ rt.moving /\ task' = Goes(t, "waiting")
              \/ task[t].at = "waited" /\ rt.lease # None /\ task' = Goes(t, "attempt")
  <2>1. {"ended", "waiting", "attempt"} \subseteq Ats /\ "error" \in Outs
    BY DEF Ats, Outs
  <2>2. /\ task' \in [Tasks -> TaskUpTo(spent)]
        /\ \A u \in Tasks \ {t} : task'[u] = task[u]
        /\ \/ task'[t].at = "ended"
           \/ task'[t].at = "waiting" /\ rt.moving
           \/ task'[t].at = "attempt" /\ task[t].at = "waited" /\ rt.lease # None
        /\ task'[t].lease = task[t].lease /\ task'[t].stale = task[t].stale
        /\ task'[t].gen = task[t].gen /\ task'[t].bad = task[t].bad
    <3>1. CASE task' = [task EXCEPT ![t].at = "ended", ![t].out = "error"]
      BY <3>1, <2>1, EndsWith
    <3>2. CASE rt.moving /\ task' = Goes(t, "waiting")
      BY <3>2, <2>1, GoesTo
    <3>3. CASE task[t].at = "waited" /\ rt.lease # None /\ task' = Goes(t, "attempt")
      BY <3>3, <2>1, GoesTo
    <3>4. QED
      BY <1>4, <3>1, <3>2, <3>3
  <2>3. CarriedBy(t)'
    <3>1. rt.moving => rt.lease = None
      BY DEF OneMover
    <3>2. QED
      BY <1>1, <1>4, <2>2, <3>1 DEF IdentityCarried, CarriedBy, Left
  <2>4. QED
    BY <1>1, <1>3, <1>4, <2>2, <2>3, NothingCounted, FaultsLeft, StepBesideTheRoute DEF Is, Using
<1>5. CASE /\ rt' = [rt EXCEPT !.pending = TRUE]
           /\ task' = [task EXCEPT ![t].at = "checkout", ![t].for = "rotate"]
  <2>1. /\ task' \in [Tasks -> TaskUpTo(spent)]
        /\ \A u \in Tasks \ {t} : task'[u] = task[u]
        /\ task'[t].at = "checkout" /\ task'[t].gen = task[t].gen /\ task'[t].bad = task[t].bad
    <3> DEFINE r == [task[t] EXCEPT !.at = "checkout", !.for = "rotate"]
    <3>1. task' = [task EXCEPT ![t] = r]
      BY <1>2, <1>5
    <3>2. /\ r \in TaskUpTo(spent) /\ r.at = "checkout"
          /\ r.gen = task[t].gen /\ r.bad = task[t].bad
      BY <1>2 DEF TaskUpTo, Ats
    <3> HIDE DEF r
    <3>3. QED
      BY <1>2, <3>1, <3>2
  <2>2. /\ rt' \in RouteUpTo(spent') /\ rt'.active = rt.active /\ rt'.lease = rt.lease
        /\ rt'.moving = rt.moving /\ rt'.gen = rt.gen /\ rt'.pending
    BY <1>1, <1>2, <1>5 DEF RouteUpTo
  <2>3. \A u \in Tasks \ {t} : Undisturbed(u)
    BY <2>1 DEF Undisturbed
  <2>4. RouteWorsens
    BY <2>2 DEF RouteWorsens
  <2>5. CarriedBy(t)'
    BY <2>1, <2>2 DEF IdentityCarried, CarriedBy, Left
  <2>6. \A u \in Tasks : /\ task'[u].at = "replace" <=> task[u].at = "replace"
                         /\ task'[u].at = "replace" => task'[u].lease = task[u].lease
                         /\ task'[u].at \in Using =>
                              task[u].at \in Using /\ task'[u].lease = task[u].lease
    BY <1>1, <2>1 DEF Using
  <2>7. RouteKeptWhileUsed'
    BY <1>1, <2>2, <2>6 DEF RouteKeptWhileUsed
  <2>8. NoLeaseLost' /\ OneMover'
    BY <1>1, <2>2, <2>6, LeasesUntouched
  <2>9. /\ late' \subseteq Tasks /\ faults' \in 0..MaxFaults
        /\ closer' \in [at : {"none", "draining", "parked", "releasing", "done"}, lease : 0..spent']
        /\ held' \subseteq 1..spent' /\ refused' \subseteq 1..spent' /\ spent' \in 0..MaxLeases
    BY <1>1, FaultsLeft DEF TypeOK
  <2>10. /\ permits' \in [{"direct", "proxy"} -> Nat]
         /\ permits'["direct"] = permits["direct"]
              + Is(task[t].at, {"directing"}) - Is(task'[t].at, {"directing"})
         /\ permits'["proxy"] = permits["proxy"]
              + Is(task[t].at, {"sending"}) - Is(task'[t].at, {"sending"})
    BY <1>1, <2>1, NothingCounted DEF Is
  <2>11. rt'.active = rt.active + Is(task'[t].at, Using) - Is(task[t].at, Using)
    BY <1>1, <1>2, <2>1, <2>2 DEF Is, Using, RouteUpTo
  <2>12. QED
    BY <1>1, <1>3, <2>1, <2>2, <2>3, <2>4, <2>5, <2>7, <2>8, <2>9, <2>10, <2>11, StepOfTheRoute
<1>6. QED
  BY <1>4, <1>5 DEF Rotate

-----------------------------------------------------------------------------
(* The background reconciliation and the close. *)

\* What is left to show of a step that moves no task.
LEMMA StepOfNoTask ==
  ASSUME TransportInv, \A u \in Tasks : Undisturbed(u),
         task' \in [Tasks -> TaskUpTo(spent)],
         UNCHANGED <<mode, spent, permits, budget, faults>>, late' \subseteq Tasks,
         rt' \in RouteUpTo(spent), rt'.active = rt.active,
         held' \subseteq 1..spent, refused' \subseteq 1..spent,
         closer' \in [at : {"none", "draining", "parked", "releasing", "done"}, lease : 0..spent],
         RouteWorsens, RouteKeptWhileUsed', NoLeaseLost', OneMover'
  PROVE  TransportInv'
<1> USE DEF TransportInv
<1>1. ASSUME NEW u \in Tasks
      PROVE  /\ task'[u].for = task[u].for
             /\ task'[u].at \in Using <=> task[u].at \in Using
             /\ task'[u].at = "directing" <=> task[u].at = "directing"
             /\ task'[u].at = "sending" <=> task[u].at = "sending"
             /\ task[u].at \in InAttempt => task'[u].at \in InAttempt
             /\ task'[u].at = "ended" => task[u].at = "ended"
  <2>1. task[u] \in TaskUpTo(spent) /\ spent \in Nat
    BY TypeOfTask
  <2>2. QED
    BY <2>1, UndisturbedFields DEF Using, InAttempt
<1>2. BudgetIsInAttempt'
  <2>1. \A u \in budget.by : u \in Tasks /\ task[u].for = "send" /\ task[u].at \in InAttempt
    BY DEF BudgetIsInAttempt, InAttempt, TypeOK
  <2>2. QED
    BY <1>1, <2>1 DEF BudgetIsInAttempt, InAttempt
<1>3. PermitsConserved'
  <2>1. /\ {u \in Tasks : task'[u].at \in Using} = {u \in Tasks : task[u].at \in Using}
        /\ {u \in Tasks : task'[u].at = "directing"} = {u \in Tasks : task[u].at = "directing"}
        /\ {u \in Tasks : task'[u].at = "sending"} = {u \in Tasks : task[u].at = "sending"}
    BY <1>1
  <2>2. \A u \in budget.by : u \in Tasks
    BY DEF TypeOK
  <2>3. QED
    BY <1>1, <2>1, <2>2 DEF PermitsConserved
<1>4. IdentityCarried'
  BY OthersCarry DEF IdentityCarried
<1>5. TypeOK'
  BY DEF TypeOK, TaskUpTo, RouteUpTo, Ats, Outs
<1>6. QED
  BY <1>2, <1>3, <1>4, <1>5

\* The reconciliation of a cancelled request ends.
LEMMA SettleLateKeeps ==
  ASSUME TransportInv, NEW t \in Tasks, SettleLate(t)
  PROVE  TransportInv'
<1> USE DEF TransportInv, SettleLate
<1>1. task' \in [Tasks -> TaskUpTo(spent)] /\ \A u \in Tasks : Undisturbed(u)
  BY TypeOfTask DEF Undisturbed
<1>2. rt' \in RouteUpTo(spent) /\ RouteWorsens /\ late' \subseteq Tasks
  BY DEF TypeOK, RouteUpTo, RouteWorsens
<1>3. RouteKeptWhileUsed' /\ NoLeaseLost' /\ OneMover'
  BY LeasesUntouched DEF RouteKeptWhileUsed
<1>4. QED
  BY <1>1, <1>2, <1>3, StepOfNoTask DEF TypeOK

\* aclose() refuses new work and wakes who waits.
LEMMA BeginCloseKeeps ==
  ASSUME TransportInv, BeginClose
  PROVE  TransportInv'
<1> USE DEF TransportInv
<1>1. /\ closer.at = "none" /\ rt' = [rt EXCEPT !.closed = TRUE]
      /\ closer' = [closer EXCEPT !.at = "draining"] /\ task' = Woken(task)
      /\ UNCHANGED <<mode, held, spent, refused, late, permits, budget, faults>>
  BY DEF BeginClose
<1>2. task \in [Tasks -> TaskUpTo(spent)] /\ rt \in RouteUpTo(spent) /\ spent \in Nat
  BY TypeOfTask DEF TypeOK, RouteUpTo
<1>3. task' \in [Tasks -> TaskUpTo(spent)] /\ \A u \in Tasks : Undisturbed(u)
  <2>1. /\ Woken(task) \in [Tasks -> TaskUpTo(spent)]
        /\ \A u \in Tasks :
             \/ Woken(task)[u] = task[u] /\ task[u].at \notin {"parked", "waiting"}
             \/ task[u].at = "parked" /\ Woken(task)[u] = [task[u] EXCEPT !.at = "checkout"]
             \/ task[u].at = "waiting" /\ Woken(task)[u] = [task[u] EXCEPT !.at = "waited"]
    BY <1>2, WokenTasks
  <2>2. QED
    BY <1>1, <2>1 DEF Undisturbed
<1>4. /\ rt' \in RouteUpTo(spent) /\ rt'.active = rt.active /\ rt'.lease = rt.lease
      /\ rt'.moving = rt.moving /\ rt'.gen = rt.gen /\ rt'.pending = rt.pending
  BY <1>1, <1>2 DEF RouteUpTo
<1>5. /\ closer' \in [at : {"none", "draining", "parked", "releasing", "done"}, lease : 0..spent]
      /\ closer'.lease = closer.lease /\ closer'.at # "releasing"
  BY <1>1 DEF TypeOK
<1>6. RouteWorsens
  BY <1>4 DEF RouteWorsens
<1>7. \A u \in Tasks : /\ task'[u].lease = task[u].lease
                       /\ task'[u].at = "replace" <=> task[u].at = "replace"
                       /\ task'[u].at \in Using <=> task[u].at \in Using
  BY <1>3, OthersKeepTheRoute
<1>8. RouteKeptWhileUsed'
  BY <1>1, <1>4, <1>7 DEF RouteKeptWhileUsed
<1>9. NoLeaseLost' /\ OneMover'
  BY <1>1, <1>4, <1>5, <1>7, LeasesUntouched
<1>10. late' \subseteq Tasks /\ held' \subseteq 1..spent /\ refused' \subseteq 1..spent
  BY <1>1 DEF TypeOK
<1>11. QED
  BY <1>1, <1>3, <1>4, <1>5, <1>6, <1>8, <1>9, <1>10, StepOfNoTask

\* The close waits, or detaches the lease that nobody uses.
LEMMA DrainKeeps ==
  ASSUME TransportInv, Drain
  PROVE  TransportInv'
<1> USE DEF TransportInv
<1>1. /\ closer.at = "draining"
      /\ UNCHANGED <<mode, held, spent, refused, late, permits, budget, task, faults>>
  BY DEF Drain
<1>2. task \in [Tasks -> TaskUpTo(spent)] /\ rt \in RouteUpTo(spent) /\ spent \in Nat
  BY TypeOfTask DEF TypeOK, RouteUpTo
<1>3. task' \in [Tasks -> TaskUpTo(spent)] /\ \A u \in Tasks : Undisturbed(u)
  BY <1>1, <1>2 DEF Undisturbed
<1>4. late' \subseteq Tasks /\ held' \subseteq 1..spent /\ refused' \subseteq 1..spent
  BY <1>1 DEF TypeOK
<1>5. CASE closer' = [closer EXCEPT !.at = "parked"] /\ UNCHANGED rt
  <2>1. /\ closer' \in [at : {"none", "draining", "parked", "releasing", "done"}, lease : 0..spent]
        /\ closer'.lease = closer.lease /\ closer'.at # "releasing"
    BY <1>5 DEF TypeOK
  <2>2. RouteKeptWhileUsed' /\ NoLeaseLost' /\ OneMover'
    <3>1. RouteKeptWhileUsed'
      BY <1>1, <1>5 DEF RouteKeptWhileUsed
    <3>2. NoLeaseLost' /\ OneMover'
      BY <1>1, <1>5, <2>1, LeasesUntouched
    <3>3. QED
      BY <3>1, <3>2
  <2>3. RouteWorsens /\ rt' \in RouteUpTo(spent) /\ rt'.active = rt.active
    BY <1>2, <1>5 DEF RouteWorsens
  <2>4. QED
    BY <1>1, <1>3, <1>4, <2>1, <2>2, <2>3, StepOfNoTask
<1>6. CASE /\ ~(rt.moving \/ rt.active > 0)
           /\ closer' = [at |-> "releasing", lease |-> rt.lease]
           /\ rt' = [rt EXCEPT !.moving = TRUE, !.lease = None]
  <2>1. rt.active = 0 /\ rt.lease \in 0..spent /\ None \in 0..spent
    BY <1>2, <1>6 DEF RouteUpTo, None
  <2>2. \A u \in Tasks : task[u].at \notin Using
    BY <2>1, NobodyUses
  <2>3. /\ rt' \in RouteUpTo(spent) /\ rt'.active = rt.active /\ rt'.lease = None
        /\ rt'.moving /\ rt'.gen = rt.gen
    BY <1>2, <1>6, <2>1 DEF RouteUpTo
  <2>4. /\ closer' \in [at : {"none", "draining", "parked", "releasing", "done"}, lease : 0..spent]
        /\ closer'.at = "releasing" /\ closer'.lease = rt.lease
    BY <1>6, <2>1
  <2>5. closer.lease = None /\ \A u \in Tasks : task[u].at # "replace"
    BY <1>1, <1>6 DEF OneMover
  <2>6. RouteKeptWhileUsed' /\ RouteWorsens
    BY <1>1, <2>2, <2>3 DEF RouteKeptWhileUsed, RouteWorsens
  <2>7. OneMover'
    BY <1>1, <2>3, <2>4, <2>5 DEF OneMover
  <2>8. NoLeaseLost'
    <3>1. None \notin held
      BY DEF TypeOK, None
    <3>2. QED
      BY <1>1, <2>4, <2>5, <3>1 DEF NoLeaseLost
  <2>9. QED
    BY <1>1, <1>3, <1>4, <2>3, <2>4, <2>6, <2>7, <2>8, StepOfNoTask
<1>7. QED
  BY <1>5, <1>6 DEF Drain

\* The close gives its lease back, or the pool refuses it.
LEMMA ReleaseKeeps ==
  ASSUME TransportInv, Release
  PROVE  TransportInv'
<1> USE DEF TransportInv
<1>1. /\ closer.at = "releasing"
      /\ \/ refused' = refused \union {closer.lease} /\ held' = held /\ closer.lease # None
         \/ held' = held \ {closer.lease} /\ refused' = refused
      /\ rt' = [rt EXCEPT !.moving = FALSE]
      /\ closer' = [at |-> "done", lease |-> None] /\ task' = Woken(task)
      /\ UNCHANGED <<mode, spent, late, permits, budget, faults>>
  BY DEF Release, PoolRefuses
<1>2. task \in [Tasks -> TaskUpTo(spent)] /\ rt \in RouteUpTo(spent) /\ spent \in Nat
  BY TypeOfTask DEF TypeOK, RouteUpTo
<1>3. task' \in [Tasks -> TaskUpTo(spent)] /\ \A u \in Tasks : Undisturbed(u)
  <2>1. /\ Woken(task) \in [Tasks -> TaskUpTo(spent)]
        /\ \A u \in Tasks :
             \/ Woken(task)[u] = task[u] /\ task[u].at \notin {"parked", "waiting"}
             \/ task[u].at = "parked" /\ Woken(task)[u] = [task[u] EXCEPT !.at = "checkout"]
             \/ task[u].at = "waiting" /\ Woken(task)[u] = [task[u] EXCEPT !.at = "waited"]
    BY <1>2, WokenTasks
  <2>2. QED
    BY <1>1, <2>1 DEF Undisturbed
<1>4. /\ rt' \in RouteUpTo(spent) /\ rt'.active = rt.active /\ rt'.lease = rt.lease
      /\ ~rt'.moving /\ rt'.gen = rt.gen /\ rt'.pending = rt.pending
  BY <1>1, <1>2 DEF RouteUpTo
<1>5. /\ rt.moving /\ rt.lease = None /\ None \notin held
      /\ \A u \in Tasks : task[u].at # "replace"
  BY <1>1 DEF OneMover, TypeOK, None
<1>6. \A u \in Tasks : task'[u].at # "replace" /\ task'[u].at \notin Using
  <2>1. \A u \in Tasks : task[u].at \notin Using
    BY <1>5, NobodyUsesAMovingRoute
  <2>2. QED
    BY <1>3, <1>5, <2>1, OthersKeepTheRoute
<1>7. /\ closer' \in [at : {"none", "draining", "parked", "releasing", "done"}, lease : 0..spent]
      /\ closer'.lease = None /\ closer'.at = "done"
  BY <1>1, <1>2 DEF None
<1>8. RouteKeptWhileUsed' /\ RouteWorsens
  BY <1>4, <1>6 DEF RouteKeptWhileUsed, RouteWorsens
<1>9. OneMover'
  BY <1>4, <1>5, <1>6, <1>7 DEF OneMover
<1>10. NoLeaseLost'
  BY <1>1, <1>5 DEF NoLeaseLost
<1>11. held' \subseteq 1..spent /\ refused' \subseteq 1..spent /\ late' \subseteq Tasks
  <2>1. closer.lease # None => closer.lease \in 1..spent
    BY <1>2 DEF TypeOK, None
  <2>2. QED
    BY <1>1, <2>1 DEF TypeOK
<1>12. QED
  BY <1>1, <1>3, <1>4, <1>7, <1>8, <1>9, <1>10, <1>11, StepOfNoTask

-----------------------------------------------------------------------------
(* The inductive invariant holds. *)

\* At first there is no route, no lease and no request under way.
LEMMA TransportInvInit == Init => TransportInv
<1> SUFFICES ASSUME Init
             PROVE  TransportInv
  OBVIOUS
<1> USE DEF Init
<1>1. \A t \in Tasks : task[t] = [at |-> "idle", for |-> "send", try |-> 0, lease |-> None,
                                  gen |-> 0, bad |-> 0, stale |-> FALSE, out |-> "ok"]
  OBVIOUS
<1>2. TypeOK
  <2>1. task \in [Tasks -> TaskUpTo(0)]
    BY Numbers DEF TaskUpTo, Ats, Outs, None
  <2>2. /\ spent \in 0..MaxLeases /\ faults \in 0..MaxFaults
        /\ permits \in [{"direct", "proxy"} -> 0..Permits]
        /\ budget \in [used : 0..Attempts, by : SUBSET Tasks]
    BY Numbers
  <2>3. QED
    BY <2>1, <2>2 DEF TypeOK, TaskUpTo, Ats, Outs, None
<1>3. PermitsConserved
  <2>1. /\ {t \in Tasks : task[t].at \in Using} = {}
        /\ {t \in Tasks : task[t].at = "directing"} = {}
        /\ {t \in Tasks : task[t].at = "sending"} = {}
    BY <1>1 DEF Using
  <2>2. /\ Cardinality({t \in Tasks : task[t].at \in Using}) = 0
        /\ Cardinality({t \in Tasks : task[t].at = "directing"}) = 0
        /\ Cardinality({t \in Tasks : task[t].at = "sending"}) = 0
    <3> HIDE DEF Init
    <3>1. QED
      BY <2>1, FS_EmptySet
  <2>3. rt.active = 0 /\ permits["direct"] = Permits /\ permits["proxy"] = Permits
        /\ budget.used = 0 /\ budget.by = {}
    OBVIOUS
  <2> HIDE DEF Init
  <2>4. QED
    BY <2>2, <2>3, Numbers DEF PermitsConserved
<1>4. RouteKeptWhileUsed /\ NoLeaseLost
  BY <1>1 DEF RouteKeptWhileUsed, NoLeaseLost, Using
<1>5. OneMover
  BY <1>1 DEF OneMover
<1>6. BudgetIsInAttempt /\ IdentityCarried
  BY <1>1 DEF BudgetIsInAttempt, IdentityCarried, CarriedBy, Left
<1>7. QED
  BY <1>2, <1>3, <1>4, <1>5, <1>6 DEF TransportInv

\* Every step of a request, of the pool, of a cancellation and of the close keeps
\* the invariant.
LEMMA TransportInvNext == TransportInv /\ [Next]_vars => TransportInv'
<1> SUFFICES ASSUME TransportInv, [Next]_vars
             PROVE  TransportInv'
  OBVIOUS
<1>1. ASSUME NEW t \in Tasks, NEW stale \in BOOLEAN, Begin(t, stale)
      PROVE  TransportInv'
  BY <1>1, BeginKeeps
<1>2. ASSUME NEW t \in Tasks, AcquirePermit(t) \/ AuthorizeBudget(t) \/ Retry(t)
      PROVE  TransportInv'
  BY <1>2, AcquirePermitKeeps, AuthorizeBudgetKeeps, RetryKeeps
<1>3. ASSUME NEW t \in Tasks, SelectRoute(t) \/ Checkout(t) \/ Replace(t) \/ ReplaceFails(t)
      PROVE  TransportInv'
  BY <1>3, SelectRouteKeeps, CheckoutKeeps, ReplaceKeeps, ReplaceFailsKeeps
<1>4. ASSUME NEW t \in Tasks, Settle(t) \/ Checkin(t) \/ Rotate(t) \/ SettleLate(t) \/ Cancel(t)
      PROVE  TransportInv'
  BY <1>4, SettleKeeps, CheckinKeeps, RotateKeeps, SettleLateKeeps, CancelKeeps
<1>5. ASSUME NEW t \in Tasks, NEW ok \in BOOLEAN, AuthorizeAttempt(t, ok)
      PROVE  TransportInv'
  BY <1>5, AuthorizeAttemptKeeps
<1>6. ASSUME NEW t \in Tasks, NEW out \in Outcomes, DirectAnswers(t, out) \/ ProxyAnswers(t, out)
      PROVE  TransportInv'
  BY <1>6, DirectAnswersKeeps, ProxyAnswersKeeps
<1>7. CASE BeginClose \/ Drain \/ Release
  BY <1>7, BeginCloseKeeps, DrainKeeps, ReleaseKeeps
<1>8. CASE UNCHANGED vars
  <2>1. task' \in [Tasks -> TaskUpTo(spent)] /\ \A u \in Tasks : Undisturbed(u)
    BY <1>8, TypeOfTask DEF TransportInv, vars, Undisturbed
  <2>2. rt' \in RouteUpTo(spent) /\ RouteWorsens /\ late' \subseteq Tasks
    BY <1>8 DEF TransportInv, TypeOK, RouteUpTo, RouteWorsens, vars
  <2>3. RouteKeptWhileUsed' /\ NoLeaseLost' /\ OneMover'
    BY <1>8, LeasesUntouched DEF TransportInv, RouteKeptWhileUsed, vars
  <2>4. /\ closer' \in [at : {"none", "draining", "parked", "releasing", "done"}, lease : 0..spent]
        /\ held' \subseteq 1..spent /\ refused' \subseteq 1..spent
        /\ UNCHANGED <<mode, spent, permits, budget, faults, rt>>
    BY <1>8 DEF TransportInv, TypeOK, vars
  <2>5. QED
    BY <2>1, <2>2, <2>3, <2>4, StepOfNoTask
<1>9. QED
  BY <1>1, <1>2, <1>3, <1>4, <1>5, <1>6, <1>7, <1>8 DEF Next, Step

\* The inductive invariant holds throughout every collection.
LEMMA TransportInvHolds == Spec => []TransportInv
BY TransportInvInit, TransportInvNext, PTL DEF Spec

-----------------------------------------------------------------------------
(* What the run checks, for every instance. *)

\* Nothing that is counted leaks: the active requests of a route, the permits of
\* the rate limiter and the attempts of the budget, at whichever await a request
\* is cancelled (proxy/transport.py, rate_limit.py, transports/base.py).
THEOREM NothingLeaks == Spec => []PermitsConserved
<1>1. TransportInv => PermitsConserved
  BY DEF TransportInv
<1>2. QED
  BY <1>1, TransportInvHolds, PTL

\* A request keeps its lease until it has returned the route (_checkout_proxy_route,
\* _checkin_proxy_route, aclose).
THEOREM RouteIsKept == Spec => []RouteKeptWhileUsed
<1>1. TransportInv => RouteKeptWhileUsed
  BY DEF TransportInv
<1>2. QED
  BY <1>1, TransportInvHolds, PTL

\* No lease the pool has handed out is forgotten by a rotation, a failed rotation
\* or the close (_replace_route, aclose).
THEOREM LeasesAreAccountedFor == Spec => []NoLeaseLost
<1>1. TransportInv => NoLeaseLost
  BY DEF TransportInv
<1>2. QED
  BY <1>1, TransportInvHolds, PTL

\* A request that an identity failed does not use it again, whoever rotates it
\* (rotate_identity_for_request, _schedule_rotation).
THEOREM BadIdentityIsLeft == Spec => []BlockedIdentityLeft
<1>1. TransportInv => BlockedIdentityLeft
  BY DEF TransportInv, IdentityCarried, CarriedBy, BlockedIdentityLeft
<1>2. QED
  BY <1>1, TransportInvHolds, PTL
=============================================================================
