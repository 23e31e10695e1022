# Formal models of the catalogue-ceramics collection system

TLA+ models, TLC runs and TLAPS proofs of the parts of the repository that decide
*which worker may run which job, what it collects, what it may withdraw from the
catalogue, what it may spend, and what operators are told*. Paths are relative
to the repository root; `D/` is `catalogue-dump/src/mb_ceramics_catalogue/`,
`C/` is `catalogue-control/src/catalogue_control/` and `S/` is
`commerce-scraper/src/mb_commerce_scraper/`.

## 1. The system

The repository collects the listings of about eighty shops into PostgreSQL.

| Part | State it keeps | Operations | Module |
| --- | --- | --- | --- |
| Runs (`D/ops/runs.py`) | `catalogue.runs`: status, summary | create, fan out jobs, finish a job, close the run | `RunClosure` |
| Queue, outbox, dispatcher (`D/ops/queue.py`, `outbox.py`, `dispatcher.py`) | `catalogue.jobs`, `catalogue.queue_outbox` | reserve, start, renew, release, reconcile; enqueue, publish, redrive | `JobQueue` |
| Providers (`D/ops/job_queue.py`, `D/ops/providers/cloudflare.py`) | the broker's messages | publish, deliver, acknowledge, retry | `JobQueue` |
| Worker (`D/ops/worker.py`) | `current_jobs`, `_deliveries`, `_cancels` | tick, execute, crawl, load, finish, heartbeat, lead, shutdown | `JobQueue`, `HostLeases`, `Leader`, `Collection`, `Crawl` |
| Host leases (`D/ops/leases.py`) | `catalogue.hosts`, `catalogue.host_leases` | acquire, renew, release, configure, reconcile | `HostLeases` |
| Leader duties (`D/ops/schedule.py`, `health.py`) | `catalogue.schedules`, `source_health_probes` | fire due schedules, probe and revive sources | `Leader` |
| Events and notifications (`D/ops/events.py`, `monitor.py`, `C/broker.py`, the browser's `stream.svelte.ts`) | `catalogue.event_log`, `catalogue.notifications`, watermark, ring buffer, subscriber queues | emit, notify, resolve, acknowledge, drain, replay, subscribe | `EventFeed`, `EventStream` |
| Operator API (`C/app.py`, `C/queries.py`) | `source_settings`, flags of jobs | cancel run; pause, resume, cancel, retry job; pause, resume, disable source; edit schedule; acknowledge | the modules of the tables it writes |
| Scrapers (`D/scrapers/`, `D/crawl/`) | one `ScrapeResult` per crawl | walk a listing, read product pages, write the dump | `Crawl` |
| Connectors (`S/connectors/`) and output lineages (`D/ops/outputs.py`, `library_lineages.py`, `D/pipeline/`) | lineages, pages, staged batches, datasets, artifacts | collect, stage, commit page, seal, publish | `Connectors`, `Collection` |
| Load (`D/storage/postgres.py`) | `source_products` | load and retire | `Collection`, `Crawl` |
| Proxy ledger (`D/proxy.py`, `C/proxy_control.py`, `D/ops/commerce_scraper_proxy.py`) | cycles, reservations, attempts | reserve, authorize, reconcile, close, settle stale | `ProxyBudget` |
| Proxy profiles (`C/proxy_api.py`, `C/webshare_profile_import.py`, `D/proxy_secrets.py`) | profiles, the secret file, retirements, import intents | rotate, blue-green, disable, retire, import, recover | `ProxyProfiles` |
| Transports (`S/transports/`, `S/proxy/transport.py`) | route, permits, request budget | send, retry, rotate, reconcile, close | `Transport` |
| Parsers, catalogue-service, catalogue-explorer's pages, deploy, scripts | none shared with the above | extraction, read API, UI, provisioning | not modelled |

PostgreSQL is the authority. Delivery is at least once and unordered; a job row
is changed only by a statement that compares what the writer believes (the
*generation* a message names, the *execution token* of a reservation, the state
an operator's button requires). What is hard about it:

* **interleavings** of workers, dispatcher ticks, heartbeats, redeliveries and
  operators on one row;
* **failures** between any two steps: a worker dies, its heartbeat misses a
  lease, an acknowledgement is lost, a tick publishes and rolls back, the
  database fails while an outcome is being recorded, the process is drained;
* **exactly-once effects over at-least-once messages**: nothing may run twice
  and be recorded twice, and no job may be left without the message that is the
  only way for a worker to find it (workers never scan the table);
* **budgets**: attempts are charged by executions, never by politeness, pauses
  or rerouting;
* **closing a run**: the last of many concurrent transactions must notice that
  it is the last;
* **withdrawal**: what a collection did not find is taken out of the catalogue,
  so "not found" must mean "listed to the end, and not there";
* **a bounded stream**: edges are numbered before they are visible, queues and
  buffers overflow, and a browser must not show a wrong list without knowing;
* **money**: paid traffic is reserved before it is spent, by workers that die,
  come back late and lose replies.

## 2. Modules

| Module | Role |
| --- | --- |
| `RunClosure` | closing a run, statement by statement |
| `JobQueue`, `JobQueueProofs` | one job row's life: dispatcher, broker, reservation, execution, operators; its invariant and theorems |
| `HostLeases` | how many jobs may crawl one host at a time |
| `Leader`, `LeaderProofs` | firing schedules, disabling and reviving sources; its invariants and theorems |
| `EventFeed` | what the live stream promises, with no broker in it |
| `EventStream`, `EventStreamProofs` | notifications, the event log, the broker, the browser; that it implements `EventFeed`, that its gaps are announced, and that operators see what is open |
| `Connectors` | how the six connectors of commerce-scraper walk a shop (operators only) |
| `Collection`, `CollectionProofs` | extends `Connectors`: a collection job from its lineage to the load; its invariants and theorems |
| `Crawl` | a job of the scrapers of catalogue-dump, from the first request to the load |
| `CrawlProofs` | extends `HostLeases` and `Crawl`: the invariants and theorems of the leases a crawl runs under, and of the crawl |
| `ProxyBudget` | the ledger of paid proxy traffic |
| `LedgerProofs` | extends `RunClosure` and `ProxyBudget`: the invariants and theorems of the two tallies kept by concurrent transactions |
| `ProxyProfiles`, `ProxyProfilesProofs` | the credentials of a proxy profile; its invariant and theorems |
| `Transport`, `TransportProofs` | the requests of one collection and the route they share; its invariant and theorems |
| `MC...` | the instance of each module that TLC checks |

Each transaction, and each statement outside one, is one action; in a process
with an event loop a step lasts from one await to the next.

### RunClosure

`state[j]` is the committed state of job `j`, `txn[j]` the open transaction that
is ending it (`finish_job`, the cancelled/skipped branch of `reserve`,
`reconcile`, an operator's cancel), `lock` the holder of the run row, `run` the
row's status and summary. The summary is the snapshot of the states from which
`_close_run_if_done` computes its counts; a snapshot determines them. The
statements are separate actions: `EndJob` (update of the job row), `LockRun`
(`select ... for update`), `CountSome`/`CountNone` (outstanding siblings),
`CloseRun` (tally, store, commit), `Leave` (commit), `Abort` (connection lost).
Under READ COMMITTED each statement sees what is committed plus its own row:
`Seen(j)`. `cancel_run` runs on an autocommit connection, so its statements
(`CancelRun`, `CancelTally`, `CancelStore`) hold no lock in between. `gap` is a
history variable: it records when one of the two known holes was used, so that
the passing property can say *exactly* under which circumstances the run row is
right.

### JobQueue

| Variable | Code |
| --- | --- |
| `row[j]` | `catalogue.jobs`: state, `delivery_generation`, `execution_token`, lease (none, live, expired), attempt, `resume_without_attempt`, `cancel_requested`, `pause_requested`, `paused_by_source`, due (`scheduled_for <= now()`), `requires`, `requires_any`, `selected_browser_backend` |
| `setting[s]` | `catalogue.source_settings` |
| `outbox` | `catalogue.queue_outbox`: one row per job and generation |
| `known`, `queue`, `dlq` | the broker: deduplication keys, unsettled messages, dead letters |
| `exec[w]` | one job slot of a worker process: where `execute()` is, and the message it holds |
| `swallowed` | history: acknowledgements of a generation that its job still needed, with the reason |
| `loader` | history: which execution loaded the records since the job was reserved |

Each transaction, and each statement outside one, is one action.

* Dispatcher: `TickCommits(ok)` is a whole `tick` (reconstruct, reconcile,
  publish, mark) where the broker confirmed the rows `ok`; `TickRollsBack`
  publishes and loses the transaction; `Redrive` is `recover_once`.
* Reservation: `reserve()` has one action per outcome, guarded by the checks in
  the code's order. Outcomes that only nak the delivery (not due, owned by a
  live lease, missing capability, database unreachable) change nothing: the
  message stays in `queue`.
* Execution: `HostBusy`, `Start`, `StartRefused`, `Beat`, `CrawlEnds`,
  `RetryTransient`, `BrowserUnavailable`, `Load`, `ReadFlags`, `Park`, `Finish`,
  `AckDone` follow `execute`, `_crawl_and_load` and `_finish`; every write of the
  row compares the token (`Owns`).
* Failures: `Crash` (also a lost acknowledgement), `LeaseLapse` of a live
  execution (`MayLapse`), `StopCrawl`/`StopTask` (`MayStop`), `DatabaseFails`
  (`MayFail`).
* Operators: `PauseJob`, `ResumeJob`, `CancelJobs` (a job or the run),
  `RetryJob`, `UpdateSource`.

Abstractions: an execution token is a fresh uuid per reservation and a slot has
one execution at a time, so the slot's name stands for the token. Time is three
booleans (due, lease live, outbox row available). A crawl is one step with any
outcome here; `Crawl` and `Collection` open it up. A slot left in phase `abandoned` stands for a job that stays in
`current_jobs` after its task ended; the process's freed task slot is another
member of `Workers`. `Nobody` stands for SQL null, and `MaxGen` is the only
artificial bound: no operator and no redrive takes a job beyond that generation.

### HostLeases

`slot[k][n]` is the row of `catalogue.host_leases` for slot `n` of politeness key
`k` (a shop's host, or the edge several shops answer from), `max_concurrency[k]` is
the limit of `catalogue.hosts`, `step[e]` is how far an execution is in `execute()`. `Acquire`
is the whole transaction of `leases.acquire` (reconcile the rows to the limit,
take the lowest free or expired slot); then come the renewal of the heartbeat,
`release_all`, `configure`, the shutdown and the death of a worker, and
`Lapse`, the passing of a lease's time. `missed` remembers the executions whose
heartbeat was late: only they may lose a slot.

### Leader

The leader's transaction is open across several steps: `Lead` takes the advisory
lock and locks the due rows, `Fire` is `_fire` for one row (previous, missed and
next occurrence, `create_run`, `create_jobs`, the cursor), `StartProbes` to
`Revive` are the health probes, which commit on connections of their own, and
`Commit`, `Rollback` or the worker's death end it. `staged` and `made` hold what
is not committed. A cron expression is a period, a worker's clock is off by a
skew, and `FirePoisoned` is the `ValueError` of `create_jobs` for a disabled
route, which ends the worker.

### EventFeed and EventStream

`EventFeed` says: visible edges are sent, sooner or later, except one that became
visible after a higher id and those a restart of the sender passed over.
`EventStream` has the writers' transactions (`flying`: an id is drawn at the
insert and visible at the commit), the two tasks `_listen` and `_reconcile` that
read above the watermark and publish after an await, the ring buffer, the
subscriber's bounded queue, and the browser's life: bootstrap, subscribe, replay
from `Last-Event-ID`, resync, reconnect. The mapping is `sent <- pub`, `gone <-
Gone`, where `Gone` is computed from the watermark and the rows the tasks hold.
`slips` is a history of the named steps that can make the view wrong: an older
edge published after a newer one, and writers whose edge and row are not one
transaction.

### Connectors and Collection

`Connectors` gives, for each connector, the page that follows a cursor, the
cursor it leaves, its number and identity, its failure pages and how a checkpoint
is turned back into a position; a page holds one product. `Collection` runs it:
`Resolve` finds, restarts or rejects a lineage by its fingerprints; `Discover`,
`Fetch`, `Stage` and `Commit` take each page through the connector and the
pipeline, with a projector that may fail; `Settle`, `Seal`, `Publish`, `Load`,
`RecordLoad` and `Finish` end it. Two executions may be
at work at once: one that lost its lease goes on beside its successor. The shop
and the configuration change between any two steps. A record is a product
together with the execution that fetched it.

### Crawl

`walk` is the listing being walked, `result` the scraper's `ScrapeResult`,
`enumerating` the flag that says whether a failure cuts the listing short, `task`
the coroutines of `PageScraper.scrape`, each with the value of the flag it found
and will put back. Every scraper has an operator that says, for a page and its
answer, what it lists, whether the walk goes on, whether the scraper marks the
listing as cut short and whether it ends without marking (`slips`). An answer is
as expected, well-formed but empty of what is looked for (`odd`), failed, or
refused by the host. After the listing come product pages under a semaphore, the
serial browser fallback with its circuit, the deadline, exceptions, cancellation,
a missing browser and crashes; then `RetryTransient`, `WriteSource`, `Load` and
`Finish`, with `may_retire` and `_legacy_load_plan` as operators. The kind
`pagecrawl` also stands for the scrapers that only override parsing (PrestaShop,
NitroSell, Shopware, StarWeb).

### ProxyBudget

The cycle, the reservations and the authorized attempts are the ledger's rows;
`lease` is what the reserving process remembers. Each ledger transaction locks
the cycle, so it is one action: reserve, authorize, reconcile, release, close,
`CloseStale`, the provider's report, the kill switch, the pilot, the end of a
cycle. A reply may be lost after the transaction committed, a worker may die or be
overtaken and still send.

### ProxyProfiles

A request of an operator is a sequence of steps around provider calls and the
compare-and-set of the secret file; a crash may come between any two, and the
scheduler's finalizers run beside them. Decodo profiles are rotated, rotated
blue-green, disabled and retired; Webshare secrets are imported by a saga with
recovery. `res` are the leases under one generation of the secret.

### Transport

`task[t]` is a request in `MiddlewareTransport`'s retry loop, `rt` the shared
`RoutedTransport`, `permits` the limiter, `budget` the request budget, `closer`
the end of the collection. Tasks in `Condition.wait()` are parked until a step
notifies. Any task may be cancelled at any await; a shielded reconciliation goes
on without it (`late`).

## 3. Runs

All of them pass.

| Run | Question |
| --- | --- |
| `run_closure` | is the run row exactly the jobs' outcomes once all are done? |
| `job_queue` | fencing, budget, hold and delivery under every failure and every operator action |
| `job_routing` | routing to browser workers, duplicates and dead letters (Cloudflare): does the job run only where it can, and do its deliveries follow its requirements? |
| `job_liveness` | does every job end? |
| `host_leases` | is a slot ever stolen or stranded, does a lowered limit drain, does a job starve? |
| `leader` | is an occurrence fired once, never as a herd, and is nothing that is due forgotten? |
| `event_stream` | does the broker implement `EventFeed`; does a browser ever miss an edge without knowing; is what it shows in the end what is open? |
| `collection` | is a manifest without gaps, sealed as it is and published once; is a product retired that stayed in the shop and was not collected? |
| `crawl` | is a product withdrawn that this attempt did not see listed; is the render circuit exact; does every crawl end? |
| `proxy_budget` | does reserved and settled traffic fit the ceiling, is an exhausted cycle shut, does every envelope settle? |
| `proxy_profiles` | does a leased secret stay, is a completed import the installed one, is a replaced sub-user deleted too early, does a drain end? |
| `transport` | are permits and leases conserved, is a route taken from under a request, is a blamed identity used again, does everybody end? |

**Bounds.**

* `run_closure`: three jobs, so that two transactions can both believe they are
  not the last, and one retry.
* `job_queue`: one job, because jobs only meet in worker slots and in their
  source's switches, and all of its safety properties are proved for any number of
  jobs; two interchangeable slots, so that an execution that lost its lease meets
  its successor; two attempts, so that a retried, a last and an exhausted attempt
  exist; `MaxGen = 2`, so that every operator action can happen after every state
  of the first generation and meets its stale messages. `job_routing` gives the
  job the generation that rerouting creates and a redrive.
* `host_leases`: three executions of two jobs, two of which run the same job
  (a lost lease and its successor), a shop key and an edge key, limits 1 and 2.
* `leader`: two workers, clocks off by one tick either way, one schedule over two
  sources with periods 2 and 3, two looked-at missed occurrences, six ticks, two
  edits, outages or failures: enough for a rollback followed by another leader,
  and for downtime longer than the cap.
* `event_stream`: a buffer of one and a queue of two for three edges, so both
  overflow; two tasks, one notification that is raised and resolved, one
  failure.
* `collection`: shops of up to two products, all six connectors, with and without
  a result limit, a page limit that bites, two executions, two disturbances (1.4
  million states).
* `crawl`: shops of up to three products, eight scrapers, caps of two pages and
  two products, so that a listing ends, is cut at a cap, or fails in the middle;
  two concurrent pages, a circuit of one render, two attempts, three failures.
* `proxy_budget`: a job and a probe that both ask for two of a ceiling of three,
  an attempt that may move more than it was granted, two interventions.
* `proxy_profiles`: three requests, so that two meet while a third is unresolved;
  one lease; two generations; one failure.
* `transport`: two requests with one retry, one permit, three leases, three
  failures or cancellations.

**Fairness**, each run only what the code's scheduling gives:

* `job_liveness`: weak for time and for the steps of an execution that runs.
  Strong for publishing, reserving and starting: a publish may fail, a worker
  may die between reserve and start and a host may be busy any number of times,
  but not forever, because the dispatcher ticks every second, an unsettled
  message is redelivered and host slots are leases. Nothing is assumed of
  crashes: each one after `start()` costs an attempt. Heartbeats are assumed to
  arrive (`MayLapse = FALSE`) and the source not to be paused.
* `host_leases`: weak for each execution's steps (its coroutine runs) and for the
  lapse of a dead worker's lease (time passes). Nothing of heartbeats.
* `leader`: weak for the leader's work, for taking the lock (every worker tries
  each tick), for its commit and for the restart of a dead worker.
* `event_stream`: weak for reading, publishing, subscribing, replaying and
  delivering; a failed read is repeated by the loop. Connections may drop for
  ever.
* `crawl`: weak for the crawl as a whole: requests time out, so every await
  returns. The source's deadline is deliberately not assumed.
* `proxy_budget`: weak for the scheduler's stale settlement and for the lapse of a
  lease whose holder is gone. `proxy_profiles`: weak for the scheduler's
  finalizers and for the closing of a lease. `transport`: weak for each
  task's steps, for the shielded reconciliation and for the close.

Deadlock is not checked: every model has states in which all work is done.

**Exceptions in the properties.** Some guarantees hold only outside steps that the
code does take. A history variable records those steps, and the property names
them; section 5 says what they are.

* `OutcomeRecorded` excepts two gaps of closing a run.
* `CarrierKept` says that a job which is neither finished nor on hold always has
  its current generation in the outbox or with the broker, except where one of
  four acknowledgements swallowed it: `held` (`reserve()` acknowledges a queued
  job of a paused source), `lapsed` (the acknowledgement comes after the lease
  lapsed and the job was requeued under the same generation), `stopped` (a
  stopped worker's tasks leave through the acknowledging finally) and
  `unrecorded` (recording the failure failed too). A job in that state is
  found only by an operator or by `catalogue-dispatcher --reconstruct`.
* `NoSilentGap` excepts an older edge republished after a newer one,
  `SettledViewIsRight` the named slips of writers and of the first connection,
  `KeptProductsAreCollected` the connectors whose cursors count pages or list
  entries, `SealedChecksumHolds` lineages of several partitions,
  `WithdrawnWasListed` the three ends of a listing that nothing marks,
  `SpendFitsCeiling` the bytes that arrive after a settlement, and `DrainEnds` a
  retirement stranded by a crash.

Each of these exceptions is needed: without it TLC finds the property violated.

## 4. Proofs

Checked by TLAPS for every value of the constants.

`LedgerProofs`
: for any jobs and retries, and for any finite set of reservations, any amounts and
  any number of attempts.
  * `RunTypeCorrect` and `RunOutcomeIsRecorded`. `OutcomeRecorded` is not
    inductive: a transaction that found an outstanding sibling is about to commit
    without closing the run, and nothing in the property says that the sibling is
    still there. `IInv` adds that the run row is locked exactly by the
    transactions past `LockRun` (`Locking`), that a job being ended is still active
    for everybody else (`OpenIsActive`), and that a transaction which leaves the
    run open leaves it to another active job (`LeavesToSomeone`), which the lock
    keeps true.
  * `SpendStaysWithinCeiling` and `ExhaustedCycleIsShut`, from `BudgetInv`.
    `reserve()` compares the ceiling with the open reservations and with
    `application_bytes`, while `SpendFitsCeiling` is about what settled reservations
    spent; `SpentIsCounted` joins the two: what they spent in time is in
    `application_bytes`. A sum over reservations is a number of pairs of a reservation
    and one of its bytes (`Units`, `TotalCounts`), so that a sum is split, compared and
    changed at one reservation by facts about cardinalities (`TotalSplit`,
    `TotalMonotone`, `TotalSame`).

`JobQueueProofs`
: for any sets of jobs, sources and workers, either provider and any bounds:
  `TypeCorrect`, `LeaseShapeHolds`, `TokenOfExecutionHolds`,
  `AttemptBudgetHolds`, `DeliveriesRoutedHolds`, `RightWorkerHolds` and
  `NothingStartsOnHoldHolds`, all from one inductive invariant, `Inv`
  (`Invariance`). None of these is inductive alone:
  * `AttemptBudget` needs that a reserved row still has an execution left, since
    `start()` charges the attempt and does not look at the budget; operators
    must not be able to spoil it between the reservation and `start()`, which
    holds because a pending pause (the only flag whose withdrawal also clears
    `resume_without_attempt`) never meets a reserved row (`RowOK`).
  * `RightWorker` needs `DeliveriesRouted`. `reserve()` writes the backend of a
    row before it decides to reroute it, and the row might still carry the token of
    an execution whose lease ran out; it never does, because an owned row that
    needs a browser already has its backend (`RowOK`) and a message of the
    current generation has the row's own route.
  * `TokenOfExecution` needs `LeaseShape` and that a busy slot has a message
    (`ExecOK`).

  The argument is by rows. `Keeps(r, n)` says that an update of a row either
  takes the token out or leaves the owner, the state and the place alone, and
  never changes the route within a generation; every update but the reservation
  and `start()` keeps the row (lemmas `EndedOK` to `RetriedRowOK`), a step that
  keeps rows and slots preserves `Inv` (`StepKept`), and the two exceptions are
  proved on their own (`ReserveStep`, `StartStep`).

  Three properties need more than `Inv`, because they compare a row with what was
  there before, or with the broker:
  * `OnlyOperatorsRevive` (theorem `FinishedStaysFinished`) and
    `FinishedByItsLoader` (`CollectedIsLoaded`) are action properties. Every step
    moves rows and slots in one of four ways (`StepMoves`): the row is calm,
    revived by an operator under a new generation, recorded by its owner, or taken
    by a reservation. `SlotInv` adds that no slot holds a delivery newer than
    its row (`SlotsOfRows`), that an execution which only has to acknowledge leaves a row
    that does not wait for that delivery (`AckIsFinal`), and that an owner
    about to record a collection is the one that loaded it (`LoadedByOwner`).
  * `CarrierKept` (`CarrierIsKept`) is not inductive. A tick that published and
    rolled back leaves an outbox row unpublished whose next publication JetStream
    drops as a duplicate, so "unpublished" does not mean "will be sent".
    `CarryInv` counts an unpublished row only while the broker has not seen its
    key (`Unsent`), and says that no key is ahead of its job's generation
    (`KeysOfRows`). In that form it holds of rows on hold as well.

`CrawlProofs`
: for any executions, keys and number of slots, and for any number of products and
  any caps, samples, failures and attempts.
  * `SlotsKeptWhileBeating`, `NoSlotIsStranded`, and the action property
    `LoweredLimitsDrain`. `LeaseInv` takes the two invariants together and adds that
    a slot with time left has an owner (`LiveIsOwned`) and that only a job with a
    shared edge asks for one (`EdgeIsAskedFor`). `acquire` takes the lowest free
    slot, so the proof needs that there is a lowest one (`LeastMember`).
  * `WithdrawnProductsWereListed`, an action property, and `RenderCircuitIsExact`,
    from `CrawlInv`. A load is planned from what the crawl left behind, long after
    the listing; so the invariant says at every place what a listing that nothing
    marks and that did not slip has seen (`ListingKnown`): every product before the page that is next,
    and the whole shop once it ended. That a page leaves this true is proved
    scraper by scraper (`PageIsTold`, `PagesAreTold`). A failure marks the listing only
    while `enumerating` is set, which `ListingIsFirst` gives for as long as the
    listing lasts. The circuit counts under a lock: its holder is the page that
    renders, there is at most one, and none once rendering was given up
    (`CircuitBooked`); hence pages that queue for the lock cannot overrun the count.

`TransportProofs`
: for any finite set of requests and any numbers of permits, retries, attempts
  and leases: `NothingLeaks`, `RouteIsKept`, `LeasesAreAccountedFor` and
  `BadIdentityIsLeft`. `TransportInv` adds that only one party at a time replaces
  or releases the lease (`OneMover`: a request that replaces it, or the closer, and
  no lease is installed meanwhile), that the budget is charged for requests inside
  an attempt (`BudgetIsInAttempt`), and, for each place of the retry loop, why a
  request that blamed an identity will not get it again: the route has left that
  generation, has no lease, or its rotation is pending (`IdentityCarried`). The counting is by the cardinality of the tasks at a
  place, which one step changes by at most one.

`ProxyProfilesProofs`
: for any requests, leases, generations and number of failures:
  `ImportsSpareLeases`, `CompletedImportsAreOwn` and `RetiredUsersStayUnused`.
  `ProfilesInv` adds what an unresolved import means (`ImportFenced`): the row is
  fenced, and the file is at the row's generation, or one ahead with that import's
  secret. It follows that the branch of `_finalize` for a row that moved on
  cannot be reached. `GenerationsApart` and `RetiredGone` give more than
  `RetiredUserUnused` says: no lease at all is open at the generation of a
  retired sub-user, and none can be opened, as the route has moved on.

`LeaderProofs`
: for any workers, sources, periods and clocks: `OccurrencesFireOnce` and
  `NoSourceIsForgotten` from `TableInv`, which adds that the leader's open
  transaction sees the committed rows where it has not fired yet, and has made runs
  only of the rows it fired (`Staging`). `PastOccurrencesStayPast` has the hypothesis
  `ClocksKeepUp`, no clock is more than one tick behind; the others hold for all
  clocks. It is needed: with a clock two ticks behind and a schedule whose
  period is edited from three to one, the cursor goes back over an occurrence that
  has fired, and TLC finds `NoCatchUpHerd` violated. `HerdInv` says the same of
  the runs of the open transaction (`NoHerdYet`), and adds that runs are numbered
  in the order they are made in (`Numbered`) and that every cursor is ahead of
  the runs of its schedule (`CursorsAhead`).

`EventStreamProofs`
: for any tasks, and any sizes of buffer, queue, drain and replay.
  `BrokerImplementsFeed` is the refinement step by step: `Init` maps to
  `EventFeed`'s, and every step to a step of it or a stutter. That is the safety half
  of `FeedPromise`. `FeedInv` says that a drain leaves out nothing between the
  watermark and its last row but edges that were overtaken (`DrainsAreWhole`), and that below the watermark every edge is sent,
  gone or overtaken (`PassedIsSettled`). `GapsAreNeverSilent` has `GapInv`: the
  buffer is a suffix of what was published, unless an older edge slipped behind a
  newer one (`BufferIsASuffix`), and what the browser is owed during a replay is
  queued or among the rows of the replay (`ReplayHasTheRest`). The limit of a replay cannot cut it
  short unnoticed, because the k-th edge above an id is at least k above it
  (`AscendingGrows`). `OperatorsSeeWhatIsOpen` is the end of the chain from the
  tables to the list in the browser. `SettledViewIsRight` speaks of one quiet state
  only; `ViewInv` says, for states without a slip, what holds on the way there:
  * the log and the notifications tell the same story: a closed notification was
    taken off the list by an edge above all that put it there, unless its
    acknowledgement is still to be announced (`TablesAgree`, with `FlyingInv` for
    the transactions that are open);
  * what a restart gave up is older than all that the broker has at hand
    (`GoneIsOld`);
  * a queue does not go back: behind a message comes every later edge the broker is
    done with (`QueueInOrder`), and a replay and the queue hold together everything
    above the browser's last id (`ReplayIsWhole`). Messages may come twice; that the
    last of them about a notification is the newest is what makes repetition
    harmless;
  * the list is right but for what is arriving: an open notification is listed or
    an edge that raised it is coming, and one that is listed and closed has its
    removal coming (`ViewIsComing`). Once nothing is arriving, the list is right.

`CollectionProofs`
: for any products, executions, result limits, page limit and disturbances, and
  each of the six connectors.
  * `ManifestIsGapless`, `SealedChecksum` and the action property
    `RetiredWereLookedFor` come from `WalkInv`. A manifest is gapless
    because of what executions carry between their steps: one that
    collects stands where a committed page left off, and a page ready to be committed
    began there (`ExecOK`). Executions that lost the job go on with theirs, so the
    invariant has to survive the steps of the others: a
    lineage only gets pages, never behind the last page of a partition, and
    none once it is sealed (`LinGrows`), and what an execution relies on stays true
    of a lineage that grows (`StillOK`). Of what `_verify_replay`
    compares, the proof needs only the cursor left off at, the end and the
    completeness: an execution that replays a page goes on behind the committed one. The checksum read before the seal has every page of a partition that
    is complete (`ReadAll`), so a commit in between can only be of another
    partition; hence the hypothesis of `SealedChecksumHolds`. For the connectors whose
    cursors name a product, the pages up to a cursor hold every
    product before it that has been in the shop since the lineage began
    (`Covered`), so a complete walk holds all of them.
  * `SucceededHasPublished` needs `PublicationInv` as well: once an execution has published, its
    lineage is sealed and the publication is that lineage's records, which a
    later `register_artifact` cannot replace; an owner that has loaded brought
    them in, and only the owner loads and finishes.
  * `TypesAreKept`, where `TypeInv` adds that an execution about to finish has an
    outcome.

  What each connector's session does is proved connector by connector
  (`ShopifyReady` to `WooRest`), and that a walk begins at its cursor once
  for all (`DiscoverStarts`). That a set of products has an ordered list
  (`OrderExists`) is the induction of this module.

Where a proof needs induction over data it takes the least counterexample
(`LeastMember`, from the well-foundedness of strict inclusion of finite sets),
since the induction theorems of the library cannot be instantiated here.

Assumptions on the constants, each stated in the module that declares it and
evaluated by TLC in the module's run: null values are no members of the sets they
are added to; numbers and bounds are naturals, positive where they are sizes,
attempts or slots (and `MaxGen` of `ProxyProfiles`, as a secret has a generation);
products are finitely many positive numbers and the kinds of connectors are the six
modelled; `SourceOf`, `ShopOf` and `EdgeOf` are functions of the right sets; the requests of
a collection, the reservations of a cycle and the products of a crawled shop are finitely many; the periods of schedules are bounded, which cron
expressions are.

The type invariant of each of the ten detailed modules is proved (that of `Transport`
as part of `TransportInv`) and not repeated in the runs.

Every safety invariant and every action property of the runs is a theorem. Only
model-checked is liveness, which is out of the prover's reach: `EveryJobEnds`,
`EveryJobServed`, `DueScheduleFires`, `EveryCrawlEnds`, `EnvelopeSettles`, `DrainEnds`,
`EverybodyEnds`, and the liveness half of `FeedPromise`.

## 5. Where the code and its documentation disagree

What modelling brought up: behaviours of the code at variance with a comment, a
docstring, a test or a document of the repository. Those marked * were confirmed
by a TLC counterexample of the module named.

**Jobs and runs** (`JobQueue`, `RunClosure`)

* \* `reserve()` fails a job whose attempts are exhausted without closing its
  run (`D/ops/queue.py:134`); `runs.py:9-11` says the worker that ends the last
  job closes it.
* \* `cancel_run` closes the run statement by statement in autocommit
  (`C/app.py:421`), so an outcome recorded in between can be overwritten;
  `runs.py:11-12` relies on the row lock.
* \* "CAS fencing makes a late ACK harmless" (`D/ops/worker.py:624-628`): an
  acknowledgement after the lease lapsed takes away the delivery the requeued job
  needs, since its generation did not change.
* \* A queued job of a paused source loses its delivery (`queue.py:121`), and
  resuming the source requeues only paused jobs (against `runs.py:97-99`).
* \* A stopped worker acknowledges the deliveries of its unfinished jobs
  (`worker.py:452` against `:1532`).
* \* A resume between the interruption of a crawl and the reading of the flags
  ends the job as cancelled (`worker.py:1413` against `C/app.py:428-431`).
* \* A database error before the `try` of `execute()` leaves the job in
  `current_jobs`, so its lease is renewed for ever (`worker.py:437-439`).
* A job in flight at the end of the drain grace is recorded as cancelled although
  `shutdown()` means to requeue it; a source resumed before the worker parked its
  running job leaves that job paused.

**Leases and schedules** (`HostLeases`, `Leader`)

* An expired, still occupied slot above a lowered limit is taken over rather
  than dropped (`D/ops/leases.py:163-166`).
* `create_jobs` raises `ValueError` for a disabled proxy route, and the worker
  that leads dies of it, one after the other, while the schedule is due.
* With exactly one missed occurrence after it, the older one is fired.
* The docstring of `_probe_disabled_sources` places it outside the leader's
  transaction; it is called inside.

**Events** (`EventStream`)

* Edges committed out of the order of their ids are skipped by the watermark
  (`C/broker.py:254`); a drain that read before another published can republish
  an older edge after a newer one; the first connection misses what happens
  between its snapshot and its subscription.
* `resolve()` announces one of the notifications it closes
  (`D/ops/events.py:232-237`); an acknowledgement and its edge are separate
  autocommit statements.
* Pruning deletes notifications that were acknowledged and are not resolved.

**Collections** (`Collection`, `Connectors`)

* \* A projector's failure is forgotten when a collection is interrupted and
  resumed: `finish_dataset(state='cancelled')` replaces `failed`
  (`worker.py:1019-1024`), the resumed execution finds an intact manifest, and
  its load retires products that were collected. `pipeline_dataset_states`
  (`D/ops/outputs.py:194`) says "Restore sticky projector failures when a process
  resumes a lineage."
* \* Cursors that count pages or list entries (Shopify, WooCommerce, Wix,
  PrestaShop) miss a product that moved into a page already read, and it is
  retired.
* \* With several partitions an execution that lost the job can commit to
  another partition between the checksum and the seal.
* A resumed Shopify collection numbers its pages from 0 again and is refused
  (against `docs/commerce-scraper-library-status.md:1245-1246`); so is WooCommerce's
  `main:empty` page. A crash after the last page of a bounded collection and
  before its seal leaves a lineage that is resumed and cannot be appended to
  (against the same document, 566-570); failure pages do the same.
* A crash between `stage_batch` and `commit_page` makes the retry's batch differ
  and the dataset fail. `finish_dataset` is not fenced by the token. A Wix
  collection resumed exactly at its page limit yields an empty intact page.
  After a publication, a retry with another configuration is refused for ever.
  `stage_batch` tests and replaces in two calls, which the model takes as one.

**Crawls** (`Crawl`)

* \* An exception no scraper expects ends a crawl with `truncated` unset
  (`D/crawl/runner.py:295-298`), so a part of a shop withdraws the rest, which the
  comment on the deadline, a few lines above, describes as the harm to prevent.
* \* A well-formed answer without products ends or passes over a listing
  unmarked; `plan_load`'s docstring says an empty file is never grounds for
  retirement, but a crawl with nothing discovered and no error withdraws
  everything.
* \* The page cap and the sample limit of category walks (page crawls, Axner,
  Ceramicolours) are not marked; those of the other scrapers are.
* \* `extracting()` saves and restores one flag for concurrent tasks, so a
  product page's failure can mark the listing as cut short
  (`D/scrapers/pagecrawl.py:286-287` says it does not); the error is on the safe
  side.
* A product whose own page fails is withdrawn by a load that is otherwise whole;
  `gather()` does not cancel the other pages when one raises; WooCommerce's limit
  on variation pages is unmarked. `HostLimiter`'s docstring says a backoff is
  released on recovery, but a failure under a Crawl-delay raises the floor for
  good, and one shop's recovery releases the backoff of an edge it shares.

**Proxy** (`ProxyBudget`, `ProxyProfiles`, `Transport`)

* A mutation key stays `started` after a crash (`begin_mutation`); bytes reconciled
  after a settlement reach `application_bytes` only with the next settlement
  (`D/proxy.py:633-645`); `reconcile_now` completes requests that were made after
  the provider was read (`C/proxy_control.py:278-284`).
* Rotating or disabling a profile "immediately" reads the number of active leases
  before the provider call, without a lock (`C/proxy_api.py:1176-1289`); a rotation
  re-enables a profile that is draining or retired (`:1251-1256`, `:1554-1561`); an
  ambiguous provider error leaves it enabled with an unknown password; two
  rotations can leave the row behind the file.
* A crash in `finalizing` strands a retirement and the drain that waits for it
  (`C/proxy_control.py:341-351`, `:401-404`). A retirement removes the file's entry,
  so that a blue-green rotation installs generation 1 again.
* A request cancelled during the shielded reconciliation checks its route in
  while the lease is pending, so that the rotation or close that follows is
  refused and the reservation stays open until it is stale. The retry of the
  middleware calls `rotate_identity` without a generation, so the guarantee of
  `commerce-scraper/tests/test_proxy_transport.py:1125` is that of `RoutedTransport`
  alone. Cancelling one waiter of `CachedRobotsChecker` cancels the fetch all
  share.

## 6. Not modelled, and the plan

The map covers a seventh of the implementation. Most of the rest has no state that
steps of several actors change: about a third of the lines are extraction (HTML
and text to records, for eighty shops), then come the user interface, API
schemas and SQL read queries, provisioning, backup, metrics and logging. A model
of those would be a transcription. Not modelled, with the reason:

* extraction, normalisation and parsing in `D/scrapers`, `D/connectors` and
  `S/connectors`: pure functions of text; their outcome (a row, none, a failure)
  is a choice of the models;
* the relational merge of records into products, variants and canonical
  entries: data processing inside one transaction;
* catalogue-service and the query half of catalogue-control: read only;
* catalogue-explorer but for its live stream: user interface;
* creation, allocation and validation of proxy routes and profiles, and the
  daily history: request validation around one row;
* robots.txt and the browser transports: external processes, represented by the
  outcome of their calls;
* worker registration, retention, deployment, backup and scripts.

Next, in this order:

1. An abstract specification of a job (waiting, owned, held, ended) that
   `JobQueue`, and with it `Crawl` and `Collection`, implement.
2. The `Fetcher` of `D/scrapers/base.py`: pacing of hosts and shared edges, the
   ladder from a direct request to browser and proxy, the cache.
3. Several datasets and partitions of one collection; several subscribers on one
   stream.
