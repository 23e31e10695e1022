------------------------------ MODULE JobQueue ------------------------------
(***************************************************************************)
(* Delivery and execution of collection jobs.                              *)
(*                                                                         *)
(* catalogue.jobs in PostgreSQL is the authority: a job row carries the    *)
(* delivery generation that is current, the token of the execution that    *)
(* owns it and a lease.  The dispatcher copies outbox rows to a broker     *)
(* (NATS JetStream or Cloudflare Queues), workers reserve the generation a *)
(* message names, run it and settle the message; operators pause, resume,  *)
(* cancel and retry jobs and pause or disable sources meanwhile.           *)
(* (ops/queue.py, ops/outbox.py, ops/dispatcher.py, ops/worker.py,         *)
(* catalogue_control/queries.py and app.py)                                *)
(*                                                                         *)
(* Each transaction, and each statement outside one, is one step.  Time is *)
(* the steps LeaseLapse and Elapse: a lease is live or expired and         *)
(* scheduled_for is past (due) or not.  A message stays with the broker    *)
(* until it is acknowledged and may be delivered again at any moment: a    *)
(* nak, an expired ack wait and a worker that dies leave it where it is.   *)
(***************************************************************************)
EXTENDS Naturals, FiniteSets

CONSTANTS
  Jobs, Sources,
  SourceOf,     \* jobs.source_id
  NeedBrowser,  \* jobs created with 'browser' in requires
  Staggered,    \* jobs created with scheduled_for in the future
  Workers,      \* job slots of the worker processes
  BackendsOf,   \* the browser backends each worker advertises
  Provider,     \* "nats" or "cloudflare"
  MaxAttempts,  \* jobs.max_attempts
  MaxGen,       \* bound: operators and redrives stop at this generation
  MayOperate,   \* operators act on jobs and sources
  MayLapse,     \* a live worker's heartbeat may miss a whole lease
  MayStop,      \* a worker process may be stopped with jobs in flight
  MayFail,      \* the database may fail a statement of an execution
  Nobody        \* SQL null of execution_token

ASSUME SourceOfType == SourceOf \in [Jobs -> Sources]
ASSUME JobSets == NeedBrowser \subseteq Jobs /\ Staggered \subseteq Jobs
ASSUME NobodyIsNoWorker == Nobody \notin Workers
ASSUME AttemptsIsPos == MaxAttempts \in Nat \ {0}
ASSUME MaxGenIsNat == MaxGen \in Nat
ASSUME ProviderType == Provider \in {"nats", "cloudflare"}
ASSUME SwitchesAreBoolean == {MayOperate, MayLapse, MayStop, MayFail} \subseteq BOOLEAN

VARIABLES
  row,        \* catalogue.jobs
  setting,    \* catalogue.source_settings
  outbox,     \* catalogue.queue_outbox
  known,      \* <<job, generation>> keys the broker has seen (Nats-Msg-Id)
  queue,      \* messages the broker holds: published, not acknowledged
  dlq,        \* messages whose provider retry budget is spent
  exec,       \* what each worker slot is doing
  swallowed,  \* history: messages acknowledged although their job needs them
  loader      \* history: the execution that loaded the job since it was reserved

broker == <<known, queue, dlq>>
vars == <<row, setting, outbox, known, queue, dlq, exec, swallowed, loader>>

-----------------------------------------------------------------------------
(* The job row. *)

TERMINAL  == {"succeeded", "degraded", "failed", "cancelled", "skipped"}
Leasable  == {"leased", "running"}
States    == {"queued", "paused"} \union Leasable \union TERMINAL
Backends  == {"camoufox", "cdp"}
NoBackend == "none"
Routes    == {"plain", "auto"} \union Backends

Row == [state    : States,
        gen      : Nat,                        \* delivery_generation
        token    : Workers \union {Nobody},    \* execution_token
        lease    : {"none", "live", "expired"},\* lease_expires_at
        attempt  : Nat,
        resume   : BOOLEAN,                    \* resume_without_attempt
        cancel   : BOOLEAN,                    \* cancel_requested
        pause    : BOOLEAN,                    \* pause_requested
        bySource : BOOLEAN,                    \* paused_by_source
        due      : BOOLEAN,                    \* scheduled_for <= now()
        browser  : BOOLEAN,                    \* 'browser' in requires
        any      : BOOLEAN,                    \* requires_any is not empty
        backend  : Backends \union {NoBackend}]

\* outbox.route_for
RouteOf(r) ==
  IF r.backend # NoBackend THEN r.backend
  ELSE IF r.any THEN "auto"
  ELSE IF r.browser THEN "camoufox"
  ELSE "plain"

\* lease_owner, lease_expires_at and execution_token set to null
Unleased(r) == [r EXCEPT !.token = Nobody, !.lease = "none"]
Ended(r, s) == [Unleased(r) EXCEPT !.state = s]
Bumped(r)   == [r EXCEPT !.gen = @ + 1]

Message == [job : Jobs, gen : Nat, route : Routes]
Entry   == [job : Jobs, gen : Nat, route : Routes, avail : BOOLEAN, published : BOOLEAN]
Envelope(o) == [job |-> o.job, gen |-> o.gen, route |-> o.route]

\* outbox.enqueue_job: one row per (job, generation), none for a terminal job.
Enqueue(ob, j, r) ==
  IF r.state \in TERMINAL \/ \E o \in ob : o.job = j /\ o.gen = r.gen THEN ob
  ELSE ob \union {[job |-> j, gen |-> r.gen, route |-> RouteOf(r),
                   avail |-> r.due, published |-> FALSE]}

\* The source switches, as reserve() and reconstruct_missing() read them.
Enabled(j)      == setting[SourceOf[j]].enabled
SourcePaused(j) == setting[SourceOf[j]].paused
\* Fault: the source's own switch is not looked at.
OnHoldJobOnly(j) == row[j].pause \/ row[j].state = "paused"

OnHold(j) == SourcePaused(j) \/ row[j].pause \/ row[j].state = "paused"

-----------------------------------------------------------------------------
(* The broker, as the code uses it: at-least-once, unordered.              *)

\* delivery.acknowledge(): the broker forgets the message.  An acknowledgement
\* that is lost, or too late for Cloudflare's delivery lease, does nothing.
Acked(m) == queue' = queue \ {m} /\ UNCHANGED <<known, dlq>>
AckedOrNot(m) == Acked(m) \/ UNCHANGED broker

\* Cloudflare moves a message that was delivered too often to the DLQ.
Exhaust(m) ==
  /\ Provider = "cloudflare"
  /\ m \in queue
  /\ queue' = queue \ {m}
  /\ dlq' = dlq \union {m}
  /\ UNCHANGED <<row, setting, outbox, known, exec, swallowed, loader>>

\* broker.publish of a set of envelopes.  JetStream drops a key it has seen (its
\* duplicate window is taken to outlast a dispatcher's retries); Cloudflare
\* drops none.
Published(ms) ==
  /\ queue' = queue \union
       {m \in ms : Provider = "nats" => <<m.job, m.gen>> \notin known}
  /\ known' = IF Provider = "nats" THEN known \union {<<m.job, m.gen>> : m \in ms} ELSE known
  /\ UNCHANGED dlq

Swallow(j, g, why) ==
  swallowed' = IF row[j].gen = g THEN swallowed \union {[job |-> j, gen |-> g, why |-> why]}
               ELSE swallowed

-----------------------------------------------------------------------------
(* The dispatcher.                                                         *)

Missing ==
  {j \in Jobs : /\ row[j].state \in {"queued"} \union Leasable
                /\ ~\E o \in outbox : o.job = j /\ o.gen = row[j].gen
                /\ ~row[j].cancel /\ ~row[j].pause /\ Enabled(j) /\ ~SourcePaused(j)}

\* outbox.reconstruct_missing
Reconstructed ==
  outbox \union UNION {Enqueue(outbox, j, row[j]) : j \in Missing}

\* Fault: one execution too many.
ExhaustedTooLate(r) == r.attempt > MaxAttempts /\ ~r.resume

Exhausted(r) == r.attempt >= MaxAttempts /\ ~r.resume

\* queue.reconcile: an expired execution fails or goes back to the queue.
Reconciled(r) ==
  IF r.state \in Leasable /\ r.lease = "expired"
  THEN Ended(r, IF Exhausted(r) THEN "failed" ELSE "queued")
  ELSE r

\* outbox.pending
Pending(ob) == {o \in ob : ~o.published /\ o.avail}

\* Dispatcher.tick, committed: `ok` are the rows the broker confirmed; the
\* others are marked failed and offered again a little later.
TickCommits(ok) ==
  LET ob == Reconstructed
  IN /\ ok \subseteq Pending(ob)
     /\ Published({Envelope(o) : o \in ok})
     /\ outbox' = (ob \ Pending(ob))
                  \union {[o EXCEPT !.published = TRUE] : o \in ok}
                  \union {[o EXCEPT !.avail = FALSE] : o \in Pending(ob) \ ok}
     /\ row' = [j \in Jobs |-> Reconciled(row[j])]
     /\ UNCHANGED <<setting, exec, swallowed, loader>>

\* The tick published `ok` and its transaction was then rolled back.
TickRollsBack(ok) ==
  /\ ok # {}
  /\ ok \subseteq Pending(Reconstructed)
  /\ Published({Envelope(o) : o \in ok})
  /\ UNCHANGED <<row, setting, outbox, exec, swallowed, loader>>

\* Dispatcher.recover_once: redrive_exhausted, then the DLQ message is acked.
Redrive(m) ==
  /\ m \in dlq
  /\ dlq' = dlq \ {m}
  /\ LET r == row[m.job]
         live == /\ r.gen = m.gen /\ r.state \in {"queued"} \union Leasable
                 /\ ~r.cancel /\ ~r.pause /\ Enabled(m.job) /\ ~SourcePaused(m.job)
     IN /\ live => r.gen < MaxGen
        /\ row' = IF live THEN [row EXCEPT ![m.job] = Bumped(r)] ELSE row
        /\ outbox' = IF live THEN Enqueue(outbox, m.job, Bumped(r)) ELSE outbox
        /\ IF live \/ r.gen # m.gen \/ r.state \in TERMINAL \union {"paused"}
           THEN UNCHANGED swallowed
           ELSE Swallow(m.job, m.gen, "held")
  /\ UNCHANGED <<setting, known, queue, exec, loader>>

-----------------------------------------------------------------------------
(* Reservation: Worker.tick and queue.reserve.                             *)

Phases == {"idle", "reserved", "abandoned", "crawling", "interrupted",
           "loading", "parking", "finishing", "acking"}
Reasons == {"held", "lapsed", "stopped", "unrecorded"}
NoMessage == [job |-> Nobody, gen |-> 0, route |-> "plain"]
Execution == [phase : Phases, msg : Message \union {NoMessage},
              outcome : TERMINAL \union {"none"}, why : Reasons \union {"none"}]
Idle == [phase |-> "idle", msg |-> NoMessage, outcome |-> "none", why |-> "none"]

\* routes_for
RoutesFor(w) ==
  {"plain"} \union BackendsOf[w] \union (IF BackendsOf[w] = {} THEN {} ELSE {"auto"})

Delivered(w, m) == exec[w].phase = "idle" /\ m \in queue /\ m.route \in RoutesFor(w)

Current(m) == row[m.job].gen = m.gen /\ row[m.job].state \notin TERMINAL
Withdrawn(j) == ~Enabled(j) \/ row[j].cancel

\* Not due yet, or owned by a live execution: the delivery is nak'ed.
Early(j) == ~row[j].due \/ (row[j].state \in Leasable /\ row[j].lease = "live")

\* Every check of reserve() up to the attempt budget lets the job through.
Due(m) == Current(m) /\ ~Withdrawn(m.job) /\ ~OnHold(m.job) /\ ~Early(m.job)
Open(w, m) ==
  /\ Delivered(w, m) /\ Due(m) /\ ~Exhausted(row[m.job])
  /\ row[m.job].browser => BackendsOf[w] # {}

\* The backend reserve() settles on: sorted() puts camoufox first.
Selected(w, m) ==
  LET b == row[m.job].backend
  IN IF m.route = "auto" /\ b = NoBackend
     THEN IF ~row[m.job].any THEN NoBackend
          ELSE IF "camoufox" \in BackendsOf[w] THEN "camoufox" ELSE "cdp"
     ELSE IF m.route \in Backends /\ b = NoBackend THEN m.route
     ELSE b

\* A browser route that does not fit the row.
Misrouted(w, m) ==
  \/ m.route = "auto" /\ Selected(w, m) = NoBackend
  \/ m.route \in Backends /\ Selected(w, m) # m.route

\* The job can go ahead here; with a backend this worker does not have the
\* delivery would be nak'ed for another one.
Runnable(w, m) ==
  /\ Open(w, m) /\ ~Misrouted(w, m)
  /\ Selected(w, m) \in BackendsOf[w] \union {NoBackend}

RoutedRow(w, m) == [row[m.job] EXCEPT !.backend = Selected(w, m)]

\* Another generation, a finished job or a wrong route: only acknowledged.
ReserveDrops(w, m) ==
  /\ Delivered(w, m)
  /\ ~Current(m) \/ (Open(w, m) /\ Misrouted(w, m))
  /\ Acked(m)
  /\ UNCHANGED <<row, setting, outbox, exec, swallowed, loader>>

\* The source was disabled, or the job's cancellation was requested.
ReserveEnds(w, m) ==
  /\ Delivered(w, m) /\ Current(m) /\ Withdrawn(m.job)
  /\ row' = [row EXCEPT ![m.job] = Ended(@, IF Enabled(m.job) THEN "cancelled" ELSE "skipped")]
  /\ AckedOrNot(m)
  /\ UNCHANGED <<setting, outbox, exec, swallowed, loader>>

\* Paused, or its source is: the message is acknowledged, the row is left.
ReserveOnHold(w, m) ==
  /\ Delivered(w, m) /\ Current(m) /\ ~Withdrawn(m.job) /\ OnHold(m.job)
  /\ Acked(m)
  /\ Swallow(m.job, m.gen, "held")
  /\ UNCHANGED <<row, setting, outbox, exec, loader>>

ReserveExhausted(w, m) ==
  /\ Delivered(w, m) /\ Due(m) /\ Exhausted(row[m.job])
  /\ row' = [row EXCEPT ![m.job] = Ended(@, "failed")]
  /\ AckedOrNot(m)
  /\ UNCHANGED <<setting, outbox, exec, swallowed, loader>>

\* An auto-browser delivery is sent on to the exact backend's route.
ReserveReroutes(w, m) ==
  /\ Runnable(w, m)
  /\ RouteOf(RoutedRow(w, m)) # m.route
  /\ row' = [row EXCEPT ![m.job] = Bumped(RoutedRow(w, m))]
  /\ outbox' = Enqueue(outbox, m.job, Bumped(RoutedRow(w, m)))
  /\ AckedOrNot(m)
  /\ UNCHANGED <<setting, exec, swallowed, loader>>

\* The row is leased to a fresh execution token.  A token is a random uuid of
\* one execution; a slot has one execution at a time, so the slot names it.
ReserveRuns(w, m) ==
  /\ Runnable(w, m)
  /\ RouteOf(RoutedRow(w, m)) = m.route
  /\ row' = [row EXCEPT ![m.job] = [RoutedRow(w, m) EXCEPT
                                      !.state = "leased", !.token = w, !.lease = "live"]]
  /\ exec' = [exec EXCEPT ![w] = [Idle EXCEPT !.phase = "reserved", !.msg = m]]
  /\ loader' = [loader EXCEPT ![m.job] = Nobody]
  /\ UNCHANGED <<setting, outbox, broker, swallowed>>

-----------------------------------------------------------------------------
(* Execution: Worker.execute and what it calls.  Every write of the job    *)
(* row compares execution_token with the token of this execution.          *)

JobOf(w) == exec[w].msg.job
Owns(w)  == row[JobOf(w)].token = w
At(w, phase) == exec[w].phase = phase
Go(w, phase) == exec' = [exec EXCEPT ![w].phase = phase]
Forget(w) == exec' = [exec EXCEPT ![w] = Idle]
FinishAs(w, s) == exec' = [exec EXCEPT ![w].phase = "finishing", ![w].outcome = s]
\* On to the acknowledgement; an execution without its token settled nothing.
SettleAs(w, why) == exec' = [exec EXCEPT ![w] = [@ EXCEPT !.phase = "acking",
                                                          !.outcome = "none", !.why = why]]
Settle(w) == SettleAs(w, IF Owns(w) THEN "none" ELSE "lapsed")
SetRow(w, r) == row' = [row EXCEPT ![JobOf(w)] = r]

\* queue.release
Released(r, due) == [Ended(r, "queued") EXCEPT !.due = due]

\* Fault: the delivery is acknowledged where it must come back.
HostBusyAcks(w) ==
  /\ At(w, "reserved")
  /\ IF Owns(w) THEN SetRow(w, Released(row[JobOf(w)], FALSE)) ELSE UNCHANGED row
  /\ Acked(exec[w].msg)
  /\ Forget(w)
  /\ UNCHANGED <<setting, outbox, swallowed, loader>>

\* A host slot is taken: the job goes back for 30 s and the delivery is nak'ed.
\* release() may find its token gone; the nak and _forget follow all the same.
HostBusy(w) ==
  /\ At(w, "reserved")
  /\ IF Owns(w) THEN SetRow(w, Released(row[JobOf(w)], FALSE)) ELSE UNCHANGED row
  /\ Forget(w)
  /\ UNCHANGED <<setting, outbox, broker, swallowed, loader>>

\* Fault: the execution token is not compared.
CanStartAnyToken(w) ==
  LET r == row[JobOf(w)]
  IN r.gen = exec[w].msg.gen /\ r.state = "leased" /\ r.lease = "live" /\ ~r.cancel /\ ~r.pause

\* The conditions of queue.start, in one UPDATE ... WHERE.
CanStart(w) ==
  LET r == row[JobOf(w)]
  IN /\ Owns(w) /\ r.gen = exec[w].msg.gen
     /\ r.state = "leased" /\ r.lease = "live" /\ ~r.cancel /\ ~r.pause

Start(w) ==
  /\ At(w, "reserved")
  /\ CanStart(w)
  /\ LET r == row[JobOf(w)]
     IN SetRow(w, [r EXCEPT !.state = "running", !.lease = "live", !.resume = FALSE,
                            !.attempt = IF r.resume THEN @ ELSE @ + 1])
  /\ Go(w, "crawling")
  /\ UNCHANGED <<setting, outbox, broker, swallowed, loader>>

\* start() refused: the delivery is acknowledged and the job forgotten.
StartRefused(w) ==
  /\ At(w, "reserved")
  /\ ~CanStart(w)
  /\ Acked(exec[w].msg)
  /\ Swallow(JobOf(w), exec[w].msg.gen, "lapsed")
  /\ Forget(w)
  /\ UNCHANGED <<row, setting, outbox, loader>>

\* Worker._beat: queue.renew, which also reports the control flags.
Beat(w) ==
  /\ exec[w].phase # "idle"
  /\ Owns(w)
  /\ LET r == row[JobOf(w)]
     IN /\ r.state \in Leasable
        /\ SetRow(w, [r EXCEPT !.lease = "live"])
        /\ IF At(w, "crawling") /\ (r.cancel \/ r.pause)
           THEN Go(w, "interrupted") ELSE UNCHANGED exec
  /\ UNCHANGED <<setting, outbox, broker, swallowed, loader>>

\* _cancel_all (desired state "stopping", end of the drain grace, a second
\* signal), a task cancelled by run() on its way out, or a revoked proxy lease.
StopCrawl(w) ==
  /\ MayStop
  /\ At(w, "crawling")
  /\ Go(w, "interrupted")
  /\ UNCHANGED <<row, setting, outbox, broker, swallowed, loader>>

\* The crawl ended and may be loaded; or it failed without an outcome.
CrawlEnds(w) ==
  /\ At(w, "crawling")
  /\ \/ Go(w, "loading")
     \/ FinishAs(w, "failed")
  /\ UNCHANGED <<row, setting, outbox, broker, swallowed, loader>>

\* _retry_transient: the host refused and attempts remain.  When the token is
\* gone the caller goes on to write and load as if nothing was tried.
RetryTransient(w) ==
  /\ At(w, "crawling")
  /\ row[JobOf(w)].attempt < MaxAttempts
  /\ IF Owns(w)
     THEN SetRow(w, Released(row[JobOf(w)], FALSE)) /\ Forget(w)
     ELSE Go(w, "loading") /\ UNCHANGED row
  /\ UNCHANGED <<setting, outbox, broker, swallowed, loader>>

\* Faults: the generation stays; the worker keeps the job's lease.
BrowserUnavailableSameGeneration(w) ==
  /\ At(w, "crawling") /\ Owns(w) /\ ~row[JobOf(w)].browser
  /\ SetRow(w, [Ended(row[JobOf(w)], "queued") EXCEPT
                  !.browser = TRUE, !.any = TRUE, !.backend = NoBackend, !.resume = TRUE])
  /\ SettleAs(w, "none")
  /\ UNCHANGED <<setting, outbox, broker, swallowed, loader>>
BrowserUnavailableKeepsLease(w) ==
  /\ At(w, "crawling") /\ Owns(w)
  /\ SetRow(w, [Bumped(row[JobOf(w)]) EXCEPT !.browser = TRUE, !.any = TRUE])
  /\ outbox' = Enqueue(outbox, JobOf(w), Bumped(row[JobOf(w)]))
  /\ SettleAs(w, "none")
  /\ UNCHANGED <<setting, broker, swallowed, loader>>

\* BrowserUnavailable: require_capability sends the job to a browser worker,
\* once; otherwise the job fails.
BrowserUnavailable(w) ==
  /\ At(w, "crawling")
  /\ LET r == row[JobOf(w)]
         rerouted == [Bumped(Ended(r, "queued")) EXCEPT
                        !.browser = TRUE, !.any = TRUE, !.backend = NoBackend, !.resume = TRUE]
     IN IF Owns(w) /\ ~r.browser
        THEN /\ SetRow(w, rerouted)
             /\ outbox' = Enqueue(outbox, JobOf(w), rerouted)
             /\ SettleAs(w, "none")
        ELSE /\ FinishAs(w, "failed")
             /\ UNCHANGED <<row, outbox>>
  /\ UNCHANGED <<setting, broker, swallowed, loader>>

LoadOutcomes == {"succeeded", "degraded", "failed"}

\* Fault: the load is not fenced by the token.
LoadUnfenced(w, outcome) ==
  /\ At(w, "loading")
  /\ outcome \in LoadOutcomes
  /\ loader' = [loader EXCEPT ![JobOf(w)] = w]
  /\ FinishAs(w, outcome)
  /\ UNCHANGED <<row, setting, outbox, broker, swallowed>>

\* _load_fenced: the catalogue is changed only under the row's own token.  The
\* load's report decides the outcome; a lost token raises, which fails the job.
Load(w, outcome) ==
  /\ At(w, "loading")
  /\ outcome \in LoadOutcomes
  /\ IF Owns(w) /\ row[JobOf(w)].state = "running"
     THEN /\ loader' = [loader EXCEPT ![JobOf(w)] = w]
          /\ FinishAs(w, outcome)
     ELSE /\ FinishAs(w, "failed")
          /\ UNCHANGED loader
  /\ UNCHANGED <<row, setting, outbox, broker, swallowed>>

\* _finish of an interrupted crawl first reads the flags ...
ReadFlags(w) ==
  /\ At(w, "interrupted")
  /\ IF row[JobOf(w)].pause THEN Go(w, "parking")
     ELSE FinishAs(w, "cancelled")
  /\ UNCHANGED <<row, setting, outbox, broker, swallowed, loader>>

\* ... and parks the job when a pause was asked for.
Park(w) ==
  /\ At(w, "parking")
  /\ IF Owns(w) THEN SetRow(w, [Ended(row[JobOf(w)], "paused") EXCEPT !.pause = FALSE])
     ELSE UNCHANGED row
  /\ Settle(w)
  /\ UNCHANGED <<setting, outbox, broker, swallowed, loader>>

\* Fault: the outcome is recorded whoever owns the row.
FinishUnfenced(w) ==
  /\ At(w, "finishing")
  /\ SetRow(w, [Ended(row[JobOf(w)], exec[w].outcome) EXCEPT !.pause = FALSE, !.resume = FALSE])
  /\ Settle(w)
  /\ UNCHANGED <<setting, outbox, broker, swallowed, loader>>

\* runs.finish_job
Finish(w) ==
  /\ At(w, "finishing")
  /\ IF Owns(w)
     THEN SetRow(w, [Ended(row[JobOf(w)], exec[w].outcome) EXCEPT
                       !.pause = FALSE, !.resume = FALSE])
     ELSE UNCHANGED row
  /\ Settle(w)
  /\ UNCHANGED <<setting, outbox, broker, swallowed, loader>>

\* execute()'s finally: acknowledge whatever the outcome, then forget.
AckDone(w) ==
  /\ At(w, "acking")
  /\ Acked(exec[w].msg)
  /\ IF exec[w].why = "none" THEN UNCHANGED swallowed
     ELSE Swallow(JobOf(w), exec[w].msg.gen, exec[w].why)
  /\ Forget(w)
  /\ UNCHANGED <<row, setting, outbox, loader>>

\* A statement of the execution raises.  Before execute()'s try the task ends
\* and its job stays in current_jobs, where the heartbeat keeps renewing it.
\* Inside, the job is finished as failed; when that raises too, the exception
\* leaves through the finally and the delivery is acknowledged.
DatabaseFails(w) ==
  /\ MayFail
  /\ \/ At(w, "reserved") /\ Go(w, "abandoned")
     \/ exec[w].phase \in {"interrupted", "parking"} /\ FinishAs(w, "failed")
     \/ At(w, "finishing") /\ exec[w].outcome # "failed" /\ FinishAs(w, "failed")
     \/ At(w, "finishing") /\ exec[w].outcome = "failed" /\ SettleAs(w, "unrecorded")
  /\ UNCHANGED <<row, setting, outbox, broker, swallowed, loader>>

\* run() cancels the job's task on its way out.  Before the crawl the job is
\* still in current_jobs and shutdown() releases it; later the cancellation
\* leaves through execute()'s finally, which acknowledges the delivery.
StopTask(w) ==
  /\ MayStop
  /\ \/ /\ exec[w].phase \in {"reserved", "abandoned"}
        /\ IF Owns(w) THEN SetRow(w, Released(row[JobOf(w)], TRUE)) ELSE UNCHANGED row
        /\ UNCHANGED <<broker, swallowed>>
     \/ /\ exec[w].phase \in {"crawling", "interrupted", "loading", "parking", "finishing"}
        /\ Acked(exec[w].msg)
        /\ Swallow(JobOf(w), exec[w].msg.gen, "stopped")
        /\ UNCHANGED row
  /\ Forget(w)
  /\ UNCHANGED <<setting, outbox, loader>>

\* The process dies, or its acknowledgement is lost: row, lease and message
\* stay as they are.
Crash(w) ==
  /\ exec[w].phase # "idle"
  /\ Forget(w)
  /\ UNCHANGED <<row, setting, outbox, broker, swallowed, loader>>

-----------------------------------------------------------------------------
(* Time.                                                                   *)

\* The execution named by the row's token is gone from its slot.
Orphaned(j) == LET w == row[j].token IN w \in Workers => JobOf(w) # j

LeaseLapse(j) ==
  /\ row[j].lease = "live"
  /\ MayLapse \/ Orphaned(j)
  /\ row' = [row EXCEPT ![j].lease = "expired"]
  /\ UNCHANGED <<setting, outbox, broker, exec, swallowed, loader>>

\* scheduled_for, and available_at of the job's outbox rows, pass.
Elapse(j) ==
  /\ ~row[j].due \/ \E o \in outbox : o.job = j /\ ~o.avail
  /\ row' = [row EXCEPT ![j].due = TRUE]
  /\ outbox' = {IF o.job = j THEN [o EXCEPT !.avail = TRUE] ELSE o : o \in outbox}
  /\ UNCHANGED <<setting, broker, exec, swallowed, loader>>

-----------------------------------------------------------------------------
(* Operators: catalogue_control.                                           *)

Stoppable == {"queued", "leased", "paused"}

\* PAUSE_JOB and PAUSE_SOURCE_JOBS: a running job only gets the flag.
PausedRow(r, bySource) ==
  LET flagged == [r EXCEPT !.pause = (r.state = "running"), !.bySource = bySource]
  IN IF r.state = "running" THEN flagged ELSE Bumped(Ended(flagged, "paused"))

\* RESUME_JOB: a paused job is queued again under a new generation; a flag on a
\* job in any other state is only taken back.
ResumedRow(r) ==
  LET cleared == [r EXCEPT !.pause = FALSE, !.bySource = FALSE, !.due = TRUE,
                           !.resume = (r.state = "paused")]
  IN IF r.state = "paused" THEN Bumped(Ended(cleared, "queued")) ELSE cleared

\* CANCEL_JOB, CANCEL_RUN ("cancelled") and DISABLE_SOURCE_JOBS ("skipped").
StoppedRow(r, s) ==
  LET flagged == [r EXCEPT !.cancel = TRUE]
  IN IF r.state \in Stoppable THEN Bumped(Ended(flagged, s)) ELSE flagged

\* RETRY_JOB
RetriedRow(r) ==
  Bumped([Ended(r, "queued") EXCEPT !.cancel = FALSE, !.pause = FALSE,
                                    !.attempt = 0, !.due = TRUE])

MayBump(j) == MayOperate /\ row[j].gen < MaxGen

PauseJob(j) ==
  /\ MayBump(j)
  /\ row[j].state \in {"queued"} \union Leasable
  /\ row' = [row EXCEPT ![j] = PausedRow(@, FALSE)]
  /\ UNCHANGED <<setting, outbox, broker, exec, swallowed, loader>>

ResumeJob(j) ==
  /\ MayBump(j)
  /\ row[j].state = "paused" \/ row[j].pause
  /\ row' = [row EXCEPT ![j] = ResumedRow(@)]
  /\ outbox' = IF ResumedRow(row[j]).state = "queued"
               THEN Enqueue(outbox, j, ResumedRow(row[j])) ELSE outbox
  /\ UNCHANGED <<setting, broker, exec, swallowed, loader>>

\* One job, or every job of the run.
CancelJobs(js) ==
  LET hit == {j \in js : row[j].state \in Stoppable \union {"running"}}
  IN /\ hit # {}
     /\ \A j \in hit : MayBump(j)
     /\ row' = [j \in Jobs |-> IF j \in hit THEN StoppedRow(row[j], "cancelled") ELSE row[j]]
     /\ UNCHANGED <<setting, outbox, broker, exec, swallowed, loader>>

RetryJob(j) ==
  /\ MayBump(j)
  /\ row[j].state \in TERMINAL
  /\ row' = [row EXCEPT ![j] = RetriedRow(@)]
  /\ outbox' = Enqueue(outbox, j, RetriedRow(row[j]))
  /\ UNCHANGED <<setting, broker, exec, swallowed, loader>>

\* What update_source does to a job of the source.
SwitchedRow(r, old, new) ==
  IF ~new.enabled
  THEN IF r.state \in Stoppable \union {"running"} THEN StoppedRow(r, "skipped") ELSE r
  ELSE IF new.paused
  THEN IF r.state \in {"queued"} \union Leasable THEN PausedRow(r, TRUE) ELSE r
  ELSE IF old.paused /\ r.state = "paused" /\ r.bySource THEN ResumedRow(r)
  ELSE r

\* update_source, one transaction: the switches, the source's jobs, and an
\* outbox row for every job that is resumed.
UpdateSource(s, new) ==
  LET mine == {j \in Jobs : SourceOf[j] = s}
      after(j) == SwitchedRow(row[j], setting[s], new)
  IN /\ \A j \in mine : MayBump(j)
     /\ setting' = [setting EXCEPT ![s] = new]
     /\ row' = [j \in Jobs |-> IF j \in mine THEN after(j) ELSE row[j]]
     /\ outbox' = outbox \union
          UNION {Enqueue(outbox, j, after(j)) :
                   j \in {i \in mine : after(i).state = "queued" /\ row[i].state = "paused"}}
     /\ UNCHANGED <<broker, exec, swallowed, loader>>

-----------------------------------------------------------------------------

Setting == [enabled : BOOLEAN, paused : BOOLEAN]

\* create_jobs: a queued row and its outbox row for every enabled source, a
\* paused source's job included; jobs of one host are staggered.
NewRow(browser, due) ==
  [state |-> "queued", gen |-> 1, token |-> Nobody, lease |-> "none", attempt |-> 0,
   resume |-> FALSE, cancel |-> FALSE, pause |-> FALSE, bySource |-> FALSE,
   due |-> due, browser |-> browser, any |-> FALSE, backend |-> NoBackend]

Init ==
  /\ row = [j \in Jobs |-> NewRow(j \in NeedBrowser, j \notin Staggered)]
  /\ setting \in [Sources -> {s \in Setting : s.enabled}]
  /\ outbox = UNION {Enqueue({}, j, row[j]) : j \in Jobs}
  /\ known = {} /\ queue = {} /\ dlq = {}
  /\ exec = [w \in Workers |-> Idle]
  /\ swallowed = {}
  /\ loader = [j \in Jobs |-> Nobody]

Reserve(w, m) ==
  \/ ReserveDrops(w, m) \/ ReserveEnds(w, m) \/ ReserveOnHold(w, m)
  \/ ReserveExhausted(w, m) \/ ReserveReroutes(w, m) \/ ReserveRuns(w, m)

Execute(w) ==
  \/ HostBusy(w) \/ Start(w) \/ StartRefused(w) \/ Beat(w)
  \/ CrawlEnds(w) \/ RetryTransient(w) \/ BrowserUnavailable(w)
  \/ \E outcome \in LoadOutcomes : Load(w, outcome)
  \/ ReadFlags(w) \/ Park(w) \/ Finish(w) \/ AckDone(w)

Dispatch ==
  \/ \E ok \in SUBSET Pending(Reconstructed) : TickCommits(ok) \/ TickRollsBack(ok)
  \/ \E m \in dlq : Redrive(m)
  \/ \E m \in queue : Exhaust(m)

Fail(w) == StopCrawl(w) \/ StopTask(w) \/ DatabaseFails(w) \/ Crash(w)

Passage(j) == LeaseLapse(j) \/ Elapse(j)

Operate ==
  \/ \E j \in Jobs : PauseJob(j) \/ ResumeJob(j) \/ RetryJob(j)
  \/ \E js \in {{j} : j \in Jobs} \union {Jobs} : CancelJobs(js)
  \/ \E s \in Sources, new \in Setting : UpdateSource(s, new)

Next ==
  \/ Dispatch \/ Operate
  \/ \E j \in Jobs : Passage(j)
  \/ \E w \in Workers : Execute(w) \/ Fail(w)
  \/ \E w \in Workers, m \in queue : Reserve(w, m)

Spec == Init /\ [][Next]_vars

\* Progress(w): an execution that reached its try goes on to its end.
Progress(w) ==
  \/ StartRefused(w) \/ CrawlEnds(w) \/ ReadFlags(w) \/ Park(w) \/ Finish(w) \/ AckDone(w)
  \/ \E outcome \in LoadOutcomes : Load(w, outcome)

\* Time passes and executions run on (weak).  Publishing, reserving and taking
\* the host slot may fail any number of times but not forever (strong): the
\* dispatcher ticks every second, a message comes back until it is settled and
\* host slots are leases.
Fairness ==
  /\ SF_vars(TickCommits(Pending(Reconstructed)))
  /\ \A w \in Workers : SF_vars(Start(w)) /\ WF_vars(Progress(w))
  /\ \A j \in Jobs :
       /\ SF_vars(\E w \in Workers, m \in queue : m.job = j /\ ReserveRuns(w, m))
       /\ SF_vars(\E w \in Workers, m \in queue :
                    m.job = j /\ (ReserveReroutes(w, m) \/ ReserveExhausted(w, m)))
       /\ WF_vars(LeaseLapse(j)) /\ WF_vars(Elapse(j))

FairSpec == Spec /\ Fairness

-----------------------------------------------------------------------------
(* Properties. *)

TypeOK ==
  /\ row \in [Jobs -> Row]
  /\ setting \in [Sources -> Setting]
  /\ outbox \in SUBSET Entry
  /\ known \in SUBSET (Jobs \X Nat)
  /\ queue \in SUBSET Message /\ dlq \in SUBSET Message
  /\ exec \in [Workers -> Execution]
  /\ swallowed \in SUBSET [job : Jobs, gen : Nat, why : Reasons]
  /\ loader \in [Jobs -> Workers \union {Nobody}]

\* Exactly the leased and running rows have a token and a lease: nothing that
\* was queued, paused or finished can be renewed, released or finished by an
\* execution that still believes it owns it (queue.renew, queue.release and
\* finish_job compare the token, not the state).
LeaseShape ==
  \A j \in Jobs : /\ row[j].state \in Leasable <=> row[j].token # Nobody
                  /\ row[j].token = Nobody <=> row[j].lease = "none"

\* An execution that still holds the token is where the row says it is: before
\* start() exactly while the row is leased, and past its last write only when
\* that write failed.  Whoever finds its token in the row may act on the row.
TokenOfExecution ==
  \A w \in Workers :
    exec[w].phase # "idle" /\ Owns(w) =>
      /\ exec[w].phase = "acking" => exec[w].why = "unrecorded"
      /\ exec[w].phase \in {"reserved", "abandoned"} <=> row[JobOf(w)].state = "leased"

\* max_attempts bounds the executions charged to a job, whatever crashes,
\* lapses, requeues, redeliveries and operator resumes happen in between.
AttemptBudget == \A j \in Jobs : row[j].attempt <= MaxAttempts

\* A job never runs where it cannot: the worker holding its token has the
\* browser it requires and the backend it was pinned to, across reroutes.
RightWorker ==
  \A j \in Jobs : \A w \in Workers : row[j].token = w =>
    /\ row[j].browser => BackendsOf[w] # {}
    /\ row[j].backend \in BackendsOf[w] \union {NoBackend}

\* What carries a job carries no generation the row has not reached, and the
\* row's own generation on the route the row asks for now: whoever changes the
\* requirements or the backend of a job (require_capability, reserve) supersedes
\* what is already under way, or reserve() would drop it as misrouted.
OfRow(m) ==
  /\ m.gen <= row[m.job].gen
  /\ m.gen = row[m.job].gen => m.route = RouteOf(row[m.job])
DeliveriesRouted ==
  (\A o \in outbox : OfRow(o)) /\ (\A m \in queue \union dlq : OfRow(m))

\* A source that is paused or disabled has no job waiting to start: reserve()
\* checks the switches and update_source sweeps the leased rows.
NothingStartsOnHold ==
  \A j \in Jobs : row[j].state = "leased" => Enabled(j) /\ ~SourcePaused(j) /\ ~row[j].pause

\* What the invariants above rest on.  A reserved job still has an execution in
\* its budget and no pause pending, and one that needs a browser has been given
\* its backend; a busy slot has a message, and an execution about to call
\* finish_job has an outcome.
RowOK(r) ==
  /\ r \in Row
  /\ r.state \in Leasable <=> r.token # Nobody
  /\ r.token = Nobody <=> r.lease = "none"
  /\ r.attempt <= MaxAttempts
  /\ r.state = "leased" => ~Exhausted(r) /\ ~r.pause
  /\ r.token # Nobody /\ (r.browser \/ r.any) => r.backend # NoBackend
ExecOK(e) ==
  /\ e \in Execution
  /\ e.phase # "idle" => e.msg \in Message
  /\ e.phase = "finishing" => e.outcome \in TERMINAL
Inv ==
  /\ TypeOK /\ TokenOfExecution /\ RightWorker /\ DeliveriesRouted /\ NothingStartsOnHold
  /\ \A j \in Jobs : RowOK(row[j])
  /\ \A w \in Workers : ExecOK(exec[w])

\* Where the message of the current generation is, or will come from.
Carried(j) ==
  \/ \E o \in outbox : o.job = j /\ o.gen = row[j].gen /\ ~o.published
  \/ \E m \in queue \union dlq : m.job = j /\ m.gen = row[j].gen

Waiting(j) == row[j].state \in {"queued"} \union Leasable /\ ~OnHold(j)

Swallowed(j, why) == [job |-> j, gen |-> row[j].gen, why |-> why] \in swallowed

\* Workers never scan the table, so a job that is neither finished nor on hold
\* must have its current generation in the outbox or with the broker.  It does
\* after every crash, lost acknowledgement, reroute, host backoff, transient
\* retry, resume, redrive and rolled-back tick, except when one of four kinds
\* of acknowledgement (history variable swallowed) consumed it.
CarrierKept ==
  \A j \in Jobs : Waiting(j) /\ (\A why \in Reasons : ~Swallowed(j, why)) => Carried(j)

\* A finished or parked job is only set going again by an operator, under a
\* new generation: no late worker, redelivery or reconcile revives it, and an
\* outcome once recorded is not replaced by another.
OnlyOperatorsRevive ==
  [][\A j \in Jobs :
       \/ row[j].state \in TERMINAL /\ row'[j].state # row[j].state
       \/ row[j].state = "paused" /\ row'[j].state \notin TERMINAL \union {"paused"}
       => /\ row'[j].state = "queued" /\ row'[j].gen = row[j].gen + 1
          /\ UNCHANGED exec]_vars

\* What finish_job records as collected is what the catalogue holds: nobody
\* else loaded the source between this execution's load and its finish.
FinishedByItsLoader ==
  [][\A j \in Jobs : row[j].state = "running" /\ row'[j].state \in {"succeeded", "degraded"} =>
        loader[j] = row[j].token]_vars

\* A job of a source that is not on hold ends, whatever crashes, lost messages,
\* busy hosts, refusing hosts and failed publishes come in between.
EveryJobEnds == \A j \in Jobs : ~SourcePaused(j) ~> row[j].state \in TERMINAL

=============================================================================
