----------------------------- MODULE HostLeases -----------------------------
(***************************************************************************)
(* The politeness bound: how many jobs may crawl one host at a time.       *)
(*                                                                         *)
(* catalogue.hosts holds a limit per politeness key (a shop's host, or the *)
(* provider edge several shops answer from) and catalogue.host_leases one  *)
(* row per slot.  A worker takes a slot of every key of its job before it  *)
(* crawls, the heartbeat renews them, and a slot nobody renewed may be     *)
(* taken over.  (ops/leases.py, catalogue.reconcile_host_slots,            *)
(* ops/worker.py execute, _beat and shutdown)                              *)
(*                                                                         *)
(* An execution is one worker process running one job under one execution  *)
(* token.  Time is the step Lapse: a lease is live or its leased_until is  *)
(* in the past.  Each transaction is one step.                             *)
(***************************************************************************)
EXTENDS Naturals, Sequences, FiniteSets

CONSTANTS
  Keys,      \* politeness keys: hosts and shared edges
  Execs,     \* executions, one token each
  JobOf,     \* the job an execution runs
  ShopOf,    \* jobs.host of that job
  EdgeOf,    \* scrapers.shared_edge of its scraper, or NoKey
  Tuned,     \* bound: the keys whose limit operators change
  MaxSlot,   \* bound: the largest max_concurrency an operator configures
  MayLapse,  \* a live worker's heartbeat may miss a whole slot lease
  NoKey,
  Nobody     \* SQL null of job_id and execution_token

ASSUME ShopOfType == ShopOf \in [Execs -> Keys]
ASSUME EdgeOfType == EdgeOf \in [Execs -> Keys \union {NoKey}]
ASSUME OneKeyEach == \A e \in Execs : EdgeOf[e] # ShopOf[e]
ASSUME TunedAreKeys == Tuned \subseteq Keys
ASSUME NobodyIsNoExec == Nobody \notin Execs
ASSUME NoKeyIsNoKey == NoKey \notin Keys
ASSUME MaxSlotIsPos == MaxSlot \in Nat \ {0}
ASSUME MayLapseIsBoolean == MayLapse \in BOOLEAN

VARIABLES
  max_concurrency, \* of catalogue.hosts
  slot,    \* catalogue.host_leases
  step,    \* where each execution is in Worker.execute
  missed   \* history: the executions whose heartbeat missed a slot lease

vars == <<max_concurrency, slot, step, missed>>

Slots  == 1..MaxSlot
Steps  == {"waiting", "shop", "edge", "refused", "starting", "crawling", "ending", "done", "dead"}
Active == Steps \ {"waiting", "done", "dead"}

\* A row of host_leases, or none: job_id and execution_token are null together.
Row    == [row : BOOLEAN, exec : Execs \union {Nobody}, live : BOOLEAN]
NoRow  == [row |-> FALSE, exec |-> Nobody, live |-> FALSE]
Idle   == [row |-> TRUE, exec |-> Nobody, live |-> FALSE]
Held(e) == [row |-> TRUE, exec |-> e, live |-> TRUE]

Init ==
  /\ max_concurrency = [k \in Keys |-> 1]   \* default of a host nobody crawled
  /\ slot = [k \in Keys |-> [n \in Slots |-> NoRow]]
  /\ step = [e \in Execs |-> "waiting"]
  /\ missed = {}

-----------------------------------------------------------------------------
(* The tables. *)

\* Fault: an idle slot above the limit is left behind.
ReconciledKeepsIdle(s, m) ==
  [n \in Slots |-> IF n <= m /\ ~s[n].row THEN Idle ELSE s[n]]

\* catalogue.reconcile_host_slots: create what is missing up to the limit, drop
\* what is idle above it, leave what is occupied above it alone.
Reconciled(s, m) ==
  [n \in Slots |-> IF n <= m /\ ~s[n].row THEN Idle
                   ELSE IF n > m /\ s[n].exec = Nobody THEN NoRow
                   ELSE s[n]]

\* ACQUIRE: the rows that are free, or held by something that stopped renewing.
Free(s) == {n \in Slots : s[n].row /\ (s[n].exec = Nobody \/ ~s[n].live)}

\* Fault: the slots of the job are given back whichever execution took them.
WithoutJob(e) ==
  [k \in Keys |-> [n \in Slots |->
     IF slot[k][n].exec # Nobody /\ JobOf[slot[k][n].exec] = JobOf[e] THEN Idle
     ELSE slot[k][n]]]

\* RELEASE_ALL: every slot of this job and token, under whichever key.
Without(e) ==
  [k \in Keys |-> [n \in Slots |->
     IF slot[k][n].exec = e THEN Idle ELSE slot[k][n]]]

\* Fault: one job takes its keys the other way round.
KeyAtEdgeFirst(e, at) ==
  IF EdgeOf[e] = NoKey \/ e # CHOOSE f \in Execs : EdgeOf[f] # NoKey
  THEN IF at = "shop" THEN ShopOf[e] ELSE EdgeOf[e]
  ELSE IF at = "shop" THEN EdgeOf[e] ELSE ShopOf[e]

\* The key an execution takes next: shop first, then the edge.
KeyAt(e, at) == IF at = "shop" THEN ShopOf[e] ELSE EdgeOf[e]

-----------------------------------------------------------------------------
(* Worker.execute *)

\* queue.reserve gives the job to this execution: no other one is running it,
\* or the other one's lease is over, which is longer than a slot lease.
Begin(e) ==
  /\ step[e] = "waiting"
  /\ \A f \in Execs \ {e} : JobOf[f] = JobOf[e] /\ step[f] \in Active =>
       MayLapse /\ \A k \in Keys, n \in Slots : slot[k][n] # Held(f)
  /\ step' = [step EXCEPT ![e] = "shop"]
  /\ UNCHANGED <<max_concurrency, slot, missed>>

\* leases.acquire: reconcile and take the lowest free slot, skipping rows that a
\* concurrent renewal or release has locked.
Acquire(e) ==
  /\ step[e] \in {"shop", "edge"}
  /\ LET k   == KeyAt(e, step[e])
         tab == Reconciled(slot[k], max_concurrency[k])
     IN \E locked \in SUBSET {n \in Slots : tab[n].exec # Nobody /\ step[tab[n].exec] \in Active} :
          LET free == Free(tab) \ locked
              low  == CHOOSE n \in free : \A m \in free : n <= m
          IN IF free = {}
             THEN /\ slot' = [slot EXCEPT ![k] = tab]
                  /\ step' = [step EXCEPT ![e] = "refused"]
             ELSE /\ slot' = [slot EXCEPT ![k] = [tab EXCEPT ![low] = Held(e)]]
                  /\ step' = [step EXCEPT ![e] =
                       IF step[e] = "shop" /\ EdgeOf[e] # NoKey THEN "edge" ELSE "starting"]
  /\ UNCHANGED <<max_concurrency, missed>>

\* Fault: a refused job keeps the slot it already took.
GiveBackNothing(e) ==
  /\ step[e] = "refused"
  /\ step' = [step EXCEPT ![e] = "waiting"]
  /\ UNCHANGED <<max_concurrency, slot, missed>>

\* A key was contended: release_all and queue.release, to be delivered again.
GiveBack(e) ==
  /\ step[e] = "refused"
  /\ slot' = Without(e)
  /\ step' = [step EXCEPT ![e] = "waiting"]
  /\ UNCHANGED <<max_concurrency, missed>>

\* queue.start accepts the execution or has lost its job meanwhile.
Start(e) ==
  /\ step[e] = "starting"
  /\ \E s \in {"crawling", "ending"} : step' = [step EXCEPT ![e] = s]
  /\ UNCHANGED <<max_concurrency, slot, missed>>

\* The crawl returns, raises or is cancelled.
CrawlEnds(e) ==
  /\ step[e] = "crawling"
  /\ step' = [step EXCEPT ![e] = "ending"]
  /\ UNCHANGED <<max_concurrency, slot, missed>>

\* The finally of execute, the refused start and shutdown: release_all.
Release(e) ==
  /\ step[e] = "ending"
  /\ slot' = Without(e)
  /\ step' = [step EXCEPT ![e] = "done"]
  /\ UNCHANGED <<max_concurrency, missed>>

\* shutdown: the slots of every job in flight go back before the queue does.
Shutdown(e) ==
  /\ step[e] \in Active
  /\ slot' = Without(e)
  /\ step' = [step EXCEPT ![e] = "done"]
  /\ UNCHANGED <<max_concurrency, missed>>

\* The worker process is gone and gives nothing back.
Crash(e) ==
  /\ step[e] \in Active
  /\ step' = [step EXCEPT ![e] = "dead"]
  /\ UNCHANGED <<max_concurrency, slot, missed>>

-----------------------------------------------------------------------------
(* Heartbeat, time and operators. *)

\* _beat: RENEW extends the slots of the worker's tokens, lapsed ones too.
Beat(e) ==
  /\ step[e] \in Active
  /\ slot' = [k \in Keys |-> [n \in Slots |->
                IF slot[k][n].exec = e THEN Held(e) ELSE slot[k][n]]]
  /\ UNCHANGED <<max_concurrency, step, missed>>

\* SLOT_SECONDS pass without a renewal of this row.
Lapse(k, n) ==
  /\ slot[k][n].live
  /\ step[slot[k][n].exec] = "dead" \/ MayLapse
  /\ slot' = [slot EXCEPT ![k][n].live = FALSE]
  /\ missed' = IF step[slot[k][n].exec] = "dead" THEN missed ELSE missed \union {slot[k][n].exec}
  /\ UNCHANGED <<max_concurrency, step>>

\* leases.configure: set the limit and reconcile.
Configure(k, m) ==
  /\ max_concurrency[k] # m
  /\ max_concurrency' = [max_concurrency EXCEPT ![k] = m]
  /\ slot' = [slot EXCEPT ![k] = Reconciled(slot[k], m)]
  /\ UNCHANGED <<step, missed>>

Execute(e) ==
  \/ Begin(e) \/ Acquire(e) \/ GiveBack(e) \/ Start(e) \/ CrawlEnds(e) \/ Release(e)

Next ==
  \/ \E e \in Execs : Execute(e) \/ Shutdown(e) \/ Crash(e) \/ Beat(e)
  \/ \E k \in Keys, n \in Slots : Lapse(k, n)
  \/ \E k \in Tuned, m \in Slots : Configure(k, m)

Spec == Init /\ [][Next]_vars

\* An event loop runs each execution, a refused job is delivered again, and the
\* lease of a worker that died runs out.
FairSpec ==
  /\ Spec
  /\ \A e \in Execs : WF_vars(Execute(e))
  /\ \A k \in Keys, n \in Slots :
       WF_vars(Lapse(k, n) /\ step[slot[k][n].exec] = "dead")

-----------------------------------------------------------------------------
(* Properties. *)

\* Types of the tables and of the execution steps (catalogue.hosts,
\* catalogue.host_leases, Worker.execute).
TypeOK ==
  /\ max_concurrency \in [Keys -> Slots]
  /\ slot \in [Keys -> [Slots -> Row]]
  /\ step \in [Execs -> Steps]
  /\ missed \subseteq Execs

\* The keys an execution must hold at each step of execute().
KeysDue(e) ==
  {KeyAt(e, at) : at \in CASE step[e] = "edge" -> {"shop"}
                           [] step[e] \in {"starting", "crawling"} -> {"shop", "edge"}
                           [] OTHER -> {}} \ {NoKey}

\* While its heartbeat keeps up, an execution that got its slots holds a live one
\* of every key it is polite under until it gives them back: no other acquire,
\* release, renewal, reconcile or change of a limit takes one away
\* (leases.py ACQUIRE, RELEASE_ALL, reconcile_host_slots).
KeptWhileBeating ==
  \A e \in Execs \ missed : \A k \in KeysDue(e) : \E n \in Slots : slot[k][n] = Held(e)

\* No slot is stranded: every occupied row belongs to an execution that will
\* still give it back, or to a dead worker whose lease runs out.  A job sent back
\* because its second key was busy keeps nothing (worker.py execute).
NoStrandedSlot ==
  \A k \in Keys, n \in Slots :
    slot[k][n].exec # Nobody => step[slot[k][n].exec] \notin {"waiting", "done"}

\* Lowering a limit drains: after it, no slot above the limit becomes occupied
\* that was not (reconcile_host_slots drops the idle ones in the transaction that
\* acquires).
OverLimit(k) == {n \in Slots : n > max_concurrency[k] /\ slot[k][n].exec # Nobody}
LoweredLimitDrains ==
  [][\A k \in Keys : max_concurrency'[k] = max_concurrency[k] => OverLimit(k)' \subseteq OverLimit(k)]_vars

\* Politeness never starves a job: taking the shop before the edge, and giving
\* both back when one is busy, every job that asks gets through once the others
\* end or die (worker.py execute, "so two workers claiming the same pair cannot
\* deadlock against each other").
EveryJobServed ==
  \A e \in Execs : (step[e] = "shop") ~> (step[e] \in {"crawling", "done", "dead"})
=============================================================================
