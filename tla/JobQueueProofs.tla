--------------------------- MODULE JobQueueProofs ---------------------------
(***************************************************************************)
(* Proofs about JobQueue, for any jobs, sources and workers.               *)
(***************************************************************************)
EXTENDS JobQueue, TLAPS

(* What each update of a job row does to it.  All but the reservation and  *)
(* start() either take the token away or leave the owner, the state and    *)
(* the place the job runs at as they are.                                  *)

SamePlace(r, n) == /\ n.token = r.token /\ n.state = r.state
                   /\ n.browser = r.browser /\ n.backend = r.backend
SameRoute(r, n) ==
  /\ n.gen >= r.gen
  /\ n.gen = r.gen => RouteOf(n) = RouteOf(r)
Keeps(r, n) == RowOK(n) /\ (n.token = Nobody \/ SamePlace(r, n)) /\ SameRoute(r, n)

\* The fields a delivery is routed by.
SameNeeds(r, n) ==
  n.gen = r.gen /\ n.browser = r.browser /\ n.any = r.any /\ n.backend = r.backend

\* Ending, requeueing or parking a row clears its token and its lease.
LEMMA EndedOK ==
  ASSUME NEW r, RowOK(r), NEW s \in States \ Leasable
  PROVE  /\ RowOK(Ended(r, s))
         /\ Ended(r, s).state = s /\ Ended(r, s).token = Nobody
         /\ Ended(r, s).pause = r.pause /\ SameNeeds(r, Ended(r, s)) /\ Keeps(r, Ended(r, s))
  <1> DEFINE new == Ended(r, s)
  <1>0. r \in Row /\ r.attempt <= MaxAttempts BY DEF RowOK
  <1>1. new \in Row BY <1>0 DEF Ended, Unleased, Row
  <1>2. /\ new.state = s /\ new.token = Nobody /\ new.lease = "none"
        /\ new.attempt = r.attempt /\ new.pause = r.pause /\ SameNeeds(r, new)
    BY <1>0 DEF Ended, Unleased, Row, SameNeeds
  <1> HIDE DEF new
  <1>3. RowOK(new) BY <1>0, <1>1, <1>2 DEF RowOK, Leasable
  <1>4. r.gen \in Nat BY <1>0 DEF Row
  <1>5. Keeps(r, new) BY <1>2, <1>3, <1>4 DEF Keeps, SameRoute, SameNeeds, RouteOf
  <1> QED BY <1>2, <1>3, <1>5 DEF new

\* A new generation changes nothing else.
LEMMA BumpedOK ==
  ASSUME NEW r, RowOK(r)
  PROVE  /\ RowOK(Bumped(r))
         /\ Bumped(r).state = r.state /\ Bumped(r).token = r.token
         /\ Bumped(r).browser = r.browser /\ Bumped(r).backend = r.backend
         /\ Bumped(r).gen = r.gen + 1
  <1> DEFINE new == Bumped(r)
  <1>0. r \in Row BY DEF RowOK
  <1>1. new \in Row BY <1>0 DEF Bumped, Row
  <1>2. /\ new.state = r.state /\ new.token = r.token /\ new.lease = r.lease
        /\ new.attempt = r.attempt /\ new.pause = r.pause /\ new.resume = r.resume
        /\ new.browser = r.browser /\ new.backend = r.backend /\ new.any = r.any
        /\ new.gen = r.gen + 1
    BY <1>0 DEF Bumped, Row
  <1> HIDE DEF new
  <1>3. RowOK(new) BY <1>1, <1>2 DEF RowOK, Exhausted
  <1> QED BY <1>2, <1>3 DEF new

\* A row whose flags alone change is kept.
LEMMA FlaggedKeeps ==
  ASSUME NEW r, RowOK(r), NEW n, RowOK(n), SameNeeds(r, n), n.token = r.token, n.state = r.state
  PROVE  Keeps(r, n)
  <1>1. r.gen \in Nat BY DEF RowOK, Row
  <1> QED BY <1>1 DEF Keeps, SamePlace, SameRoute, SameNeeds, RouteOf

\* So is a row without an owner that is given a new generation.
LEMMA SupersededKeeps ==
  ASSUME NEW r, RowOK(r), NEW n, RowOK(n), n.gen = r.gen, n.token = Nobody
  PROVE  Keeps(r, Bumped(n)) /\ Bumped(n).token = Nobody
  <1>1. r.gen \in Nat BY DEF RowOK, Row
  <1> QED BY <1>1, BumpedOK DEF Keeps, SameRoute

\* release() gives the job back to the queue.
LEMMA ReleasedOK ==
  ASSUME NEW r, RowOK(r), NEW due \in BOOLEAN
  PROVE  Keeps(r, Released(r, due)) /\ Released(r, due).token = Nobody
  <1> DEFINE e == Ended(r, "queued")
             new == Released(r, due)
  <1>0. RowOK(e) /\ e.state = "queued" /\ e.token = Nobody /\ SameNeeds(r, e)
    BY EndedOK DEF States, Leasable, TERMINAL
  <1>1. new = [e EXCEPT !.due = due] BY DEF Released
  <1> HIDE DEF e, new
  <1>2. e \in Row BY <1>0 DEF RowOK
  <1>3. new \in Row BY <1>1, <1>2 DEF Row
  <1>4. /\ new.state = e.state /\ new.token = e.token /\ new.lease = e.lease
        /\ new.attempt = e.attempt /\ SameNeeds(e, new)
    BY <1>1, <1>2 DEF Row, SameNeeds
  <1>5. RowOK(new) BY <1>0, <1>3, <1>4 DEF RowOK
  <1>6. r.gen \in Nat BY DEF RowOK, Row
  <1>7. Keeps(r, new) BY <1>0, <1>4, <1>5, <1>6 DEF Keeps, SameRoute, SameNeeds, RouteOf
  <1> QED BY <1>0, <1>4, <1>7 DEF new

\* A row is kept by doing nothing.
LEMMA KeepsItself == ASSUME NEW r, RowOK(r) PROVE Keeps(r, r)
  BY DEF Keeps, SamePlace, SameRoute, RowOK, Row

\* reconcile() leaves a row alone, requeues it or fails it.
LEMMA ReconciledOK ==
  ASSUME NEW r, RowOK(r)
  PROVE  Keeps(r, Reconciled(r))
  <1>1. Keeps(r, Ended(r, "queued")) BY EndedOK DEF States, Leasable, TERMINAL
  <1>2. Keeps(r, Ended(r, "failed")) BY EndedOK DEF States, Leasable, TERMINAL
  <1>3. Keeps(r, r) BY KeepsItself
  <1> QED BY <1>1, <1>2, <1>3 DEF Reconciled

\* A pause flags a running job and parks the others.
LEMMA PausedRowOK ==
  ASSUME NEW r, RowOK(r), r.state \in {"queued", "leased", "running"}, NEW b \in BOOLEAN
  PROVE  /\ Keeps(r, PausedRow(r, b))
         /\ r.state # "running" => PausedRow(r, b).token = Nobody
  <1> DEFINE f == [r EXCEPT !.pause = (r.state = "running"), !.bySource = b]
  <1>0. r \in Row BY DEF RowOK
  <1>1. f \in Row BY <1>0 DEF Row
  <1>2. /\ f.state = r.state /\ f.token = r.token /\ f.lease = r.lease
        /\ f.attempt = r.attempt /\ f.resume = r.resume
        /\ f.state = "leased" => ~f.pause
        /\ SameNeeds(r, f)
    BY <1>0 DEF Row, SameNeeds
  <1>3. PausedRow(r, b) = IF r.state = "running" THEN f ELSE Bumped(Ended(f, "paused"))
    BY DEF PausedRow
  <1> HIDE DEF f
  <1>4. RowOK(f) BY <1>1, <1>2 DEF RowOK, Exhausted, SameNeeds
  <1>5. RowOK(Ended(f, "paused")) /\ Ended(f, "paused").state = "paused"
        /\ Ended(f, "paused").token = Nobody /\ Ended(f, "paused").gen = r.gen
    BY <1>2, <1>4, EndedOK DEF SameNeeds, States, Leasable, TERMINAL
  <1> QED BY <1>2, <1>3, <1>4, <1>5, FlaggedKeeps, SupersededKeeps

\* A resume queues a paused job; of any other it only takes the flag back.
LEMMA ResumedRowOK ==
  ASSUME NEW r, RowOK(r), r.state = "paused" \/ r.pause
  PROVE  Keeps(r, ResumedRow(r))
  <1> DEFINE f == [r EXCEPT !.pause = FALSE, !.bySource = FALSE, !.due = TRUE,
                            !.resume = (r.state = "paused")]
  <1>0. r \in Row /\ r.state # "leased" BY DEF RowOK
  <1>1. f \in Row BY <1>0 DEF Row
  <1>2. /\ f.state = r.state /\ f.token = r.token /\ f.lease = r.lease
        /\ f.attempt = r.attempt /\ SameNeeds(r, f)
    BY <1>0 DEF Row, SameNeeds
  <1>3. ResumedRow(r) = IF r.state = "paused" THEN Bumped(Ended(f, "queued")) ELSE f
    BY DEF ResumedRow
  <1> HIDE DEF f
  <1>4. RowOK(f) BY <1>0, <1>1, <1>2 DEF RowOK, SameNeeds
  <1>5. RowOK(Ended(f, "queued")) /\ Ended(f, "queued").state = "queued"
        /\ Ended(f, "queued").token = Nobody /\ Ended(f, "queued").gen = r.gen
    BY <1>2, <1>4, EndedOK DEF SameNeeds, States, Leasable, TERMINAL
  <1> QED BY <1>2, <1>3, <1>4, <1>5, FlaggedKeeps, SupersededKeeps

\* A cancel or a disable ends what is not running and flags what is.
LEMMA StoppedRowOK ==
  ASSUME NEW r, RowOK(r), NEW s \in TERMINAL
  PROVE  /\ Keeps(r, StoppedRow(r, s))
         /\ r.state \in Stoppable => StoppedRow(r, s).token = Nobody
  <1> DEFINE f == [r EXCEPT !.cancel = TRUE]
  <1>0. r \in Row BY DEF RowOK
  <1>1. f \in Row BY <1>0 DEF Row
  <1>2. /\ f.state = r.state /\ f.token = r.token /\ f.lease = r.lease
        /\ f.attempt = r.attempt /\ f.pause = r.pause /\ f.resume = r.resume
        /\ SameNeeds(r, f)
    BY <1>0 DEF Row, SameNeeds
  <1>3. StoppedRow(r, s) = IF r.state \in Stoppable THEN Bumped(Ended(f, s)) ELSE f
    BY DEF StoppedRow
  <1> HIDE DEF f
  <1>4. RowOK(f) BY <1>1, <1>2 DEF RowOK, Exhausted, SameNeeds
  <1>5. RowOK(Ended(f, s)) /\ Ended(f, s).state = s /\ Ended(f, s).token = Nobody
        /\ Ended(f, s).gen = r.gen
    <2>1. s \in States \ Leasable BY DEF States, Leasable, TERMINAL
    <2> QED BY <1>2, <1>4, <2>1, EndedOK DEF SameNeeds
  <1> QED BY <1>2, <1>3, <1>4, <1>5, FlaggedKeeps, SupersededKeeps

\* A retry starts the budget again.
LEMMA RetriedRowOK ==
  ASSUME NEW r, RowOK(r)
  PROVE  Keeps(r, RetriedRow(r))
  <1> DEFINE e == Ended(r, "queued")
             f == [e EXCEPT !.cancel = FALSE, !.pause = FALSE, !.attempt = 0, !.due = TRUE]
  <1>0. RowOK(e) /\ e.state = "queued" /\ e.token = Nobody /\ e.gen = r.gen
    BY EndedOK DEF SameNeeds, States, Leasable, TERMINAL
  <1> HIDE DEF e
  <1>1. e \in Row BY <1>0 DEF RowOK
  <1>2. f \in Row BY <1>1 DEF Row
  <1>3. f.state = e.state /\ f.token = e.token /\ f.lease = e.lease /\ f.attempt = 0 /\ f.gen = e.gen
    BY <1>1 DEF Row
  <1>4. RetriedRow(r) = Bumped(f) BY DEF RetriedRow, e
  <1> HIDE DEF f
  <1>5. RowOK(f) BY <1>0, <1>2, <1>3, AttemptsIsPos DEF RowOK
  <1> QED BY <1>0, <1>3, <1>4, <1>5, SupersededKeeps

-----------------------------------------------------------------------------
(* Steps.  A step that keeps every row, and gives no slot a token it did   *)
(* not have, preserves what is said of executions and rows.                *)

RowsKept == row' \in [Jobs -> Row] /\ \A j \in Jobs : Keeps(row[j], row'[j])

BeforeStart == {"reserved", "abandoned"}

\* What may become of a slot: it is forgotten, or goes on with its message and
\* does not cross start() while its token is in the row.
SlotKept(w, n) ==
  /\ ExecOK(n)
  /\ \/ n.phase = "idle"
     \/ /\ exec[w].phase # "idle" /\ n.msg = exec[w].msg
        /\ row'[JobOf(w)].token = w =>
             /\ n.phase = "acking" => n.why = "unrecorded"
             /\ n.phase \in BeforeStart <=> exec[w].phase \in BeforeStart
SlotsKept == exec' \in [Workers -> Execution] /\ \A w \in Workers : SlotKept(w, exec'[w])

\* The variables that TypeOK types one by one.
RestOK ==
  /\ setting \in [Sources -> Setting]
  /\ outbox \in SUBSET Entry
  /\ known \in SUBSET (Jobs \X Nat)
  /\ queue \in SUBSET Message /\ dlq \in SUBSET Message
  /\ swallowed \in SUBSET [job : Jobs, gen : Nat, why : Reasons]
  /\ loader \in [Jobs -> Workers \union {Nobody}]

\* The job of a message is a job.
LEMMA MessageJob ==
  ASSUME NEW m \in Message
  PROVE  m.job \in Jobs /\ m.gen \in Nat /\ m.route \in Routes
  BY DEF Message

\* One job's row is written.
LEMMA OneRowKept ==
  ASSUME Inv, NEW j \in Jobs, NEW n, Keeps(row[j], n), row' = [row EXCEPT ![j] = n]
  PROVE  RowsKept
  <1>1. row \in [Jobs -> Row] /\ \A i \in Jobs : RowOK(row[i]) BY DEF Inv, TypeOK
  <1>2. n \in Row BY DEF Keeps, RowOK
  <1>3. row' \in [Jobs -> Row] BY <1>1, <1>2
  <1>4. \A i \in Jobs : row'[i] = IF i = j THEN n ELSE row[i] BY <1>1
  <1> QED BY <1>1, <1>3, <1>4, KeepsItself DEF RowsKept

\* No row is written.
LEMMA NoRowKept ==
  ASSUME Inv, row' = row
  PROVE  RowsKept
  BY KeepsItself DEF Inv, TypeOK, RowsKept

\* A delivery that was the row's, or of an older generation, stays so.
LEMMA OfRowKept ==
  ASSUME Inv, row' \in [Jobs -> Row], \A j \in Jobs : SameRoute(row[j], row'[j]),
         NEW m, m.job \in Jobs, m.gen \in Nat, OfRow(m)
  PROVE  OfRow(m)'
  <1>1. row[m.job].gen \in Nat /\ row'[m.job].gen \in Nat BY DEF Inv, TypeOK, Row
  <1> QED BY <1>1 DEF OfRow, SameRoute

\* So all deliveries fit their rows when the new ones do.
LEMMA DeliveriesKept ==
  ASSUME Inv, row' \in [Jobs -> Row], \A j \in Jobs : SameRoute(row[j], row'[j]),
         \A o \in outbox' : o \in outbox \/ OfRow(o)',
         \A m \in queue' \union dlq' : m \in queue \union dlq \/ OfRow(m)'
  PROVE  DeliveriesRouted'
  <1>1. \A o \in outbox : o.job \in Jobs /\ o.gen \in Nat /\ OfRow(o)
    BY DEF Inv, TypeOK, DeliveriesRouted, Entry
  <1>2. \A m \in queue \union dlq : m.job \in Jobs /\ m.gen \in Nat /\ OfRow(m)
    BY MessageJob DEF Inv, TypeOK, DeliveriesRouted
  <1>3. \A o \in outbox : OfRow(o)' BY <1>1, OfRowKept
  <1>4. \A m \in queue \union dlq : OfRow(m)' BY <1>2, OfRowKept
  <1> QED BY <1>3, <1>4 DEF DeliveriesRouted

\* No slot moves.
LEMMA SlotsUnchanged ==
  ASSUME Inv, RowsKept, exec' = exec
  PROVE  SlotsKept
  <1>1. /\ exec \in [Workers -> Execution] /\ \A w \in Workers : ExecOK(exec[w])
        /\ TokenOfExecution
    BY DEF Inv, TypeOK
  <1> SUFFICES ASSUME NEW w \in Workers, exec[w].phase # "idle", row'[JobOf(w)].token = w
               PROVE  exec[w].phase = "acking" => exec[w].why = "unrecorded"
    BY <1>1 DEF SlotsKept, SlotKept
  <1>2. JobOf(w) \in Jobs BY <1>1, MessageJob DEF ExecOK, JobOf
  <1>3. Owns(w)
    BY <1>2, NobodyIsNoWorker DEF RowsKept, Keeps, SamePlace, Owns
  <1> QED BY <1>1, <1>3 DEF TokenOfExecution

\* One slot moves.
LEMMA OneSlotKept ==
  ASSUME Inv, RowsKept, NEW w \in Workers, NEW n, SlotKept(w, n),
         exec' = [exec EXCEPT ![w] = n]
  PROVE  SlotsKept
  <1>1. /\ exec \in [Workers -> Execution] /\ \A v \in Workers : ExecOK(exec[v])
        /\ TokenOfExecution
    BY DEF Inv, TypeOK
  <1>2. n \in Execution BY DEF SlotKept, ExecOK
  <1>3. exec' \in [Workers -> Execution] BY <1>1, <1>2
  <1>4. \A v \in Workers : exec'[v] = IF v = w THEN n ELSE exec[v] BY <1>1
  <1>5. ASSUME NEW v \in Workers, v # w
        PROVE  SlotKept(v, exec[v])
    <2> SUFFICES ASSUME exec[v].phase # "idle", row'[JobOf(v)].token = v
                 PROVE  exec[v].phase = "acking" => exec[v].why = "unrecorded"
      BY <1>1 DEF SlotKept
    <2>1. JobOf(v) \in Jobs BY <1>1, MessageJob DEF ExecOK, JobOf
    <2>2. Owns(v)
      BY <2>1, NobodyIsNoWorker DEF RowsKept, Keeps, SamePlace, Owns
    <2> QED BY <1>1, <2>2 DEF TokenOfExecution
  <1> QED BY <1>3, <1>4, <1>5 DEF SlotsKept

\* The invariant but for the switches of the sources.
LEMMA KeptIsInv ==
  ASSUME Inv, RowsKept, SlotsKept, RestOK', DeliveriesRouted'
  PROVE  /\ TypeOK' /\ TokenOfExecution' /\ RightWorker'
         /\ (\A j \in Jobs : RowOK(row[j]))' /\ (\A w \in Workers : ExecOK(exec[w]))'
         /\ setting' = setting => Inv'
  <1>1. TypeOK' BY DEF RowsKept, SlotsKept, RestOK, TypeOK
  <1>2. (\A j \in Jobs : RowOK(row[j]))' BY DEF RowsKept, Keeps
  <1>3. (\A w \in Workers : ExecOK(exec[w]))' BY DEF SlotsKept, SlotKept
  <1>4. TokenOfExecution'
    <2> SUFFICES ASSUME NEW w \in Workers, exec'[w].phase # "idle",
                        row'[exec'[w].msg.job].token = w
                 PROVE  /\ exec'[w].phase = "acking" => exec'[w].why = "unrecorded"
                        /\ exec'[w].phase \in {"reserved", "abandoned"} <=>
                             row'[exec'[w].msg.job].state = "leased"
      BY DEF TokenOfExecution, Owns, JobOf
    <2>1. exec[w].phase # "idle" /\ exec'[w].msg = exec[w].msg /\ SlotKept(w, exec'[w])
      BY DEF SlotsKept, SlotKept
    <2>2. JobOf(w) \in Jobs BY <2>1, MessageJob DEF Inv, ExecOK, JobOf
    <2>3. row'[JobOf(w)].token = w BY <2>1 DEF JobOf
    <2>4. SamePlace(row[JobOf(w)], row'[JobOf(w)])
      BY <2>2, <2>3, NobodyIsNoWorker DEF RowsKept, Keeps
    <2>5. /\ exec'[w].phase = "acking" => exec'[w].why = "unrecorded"
          /\ exec'[w].phase \in BeforeStart <=> exec[w].phase \in BeforeStart
      BY <2>1, <2>3 DEF SlotKept
    <2>6. exec[w].phase \in BeforeStart <=> row[JobOf(w)].state = "leased"
      BY <2>1, <2>3, <2>4 DEF Inv, TokenOfExecution, Owns, SamePlace, BeforeStart
    <2> QED BY <2>1, <2>4, <2>5, <2>6 DEF SamePlace, BeforeStart, JobOf
  <1>5. RightWorker'
    <2> SUFFICES ASSUME NEW j \in Jobs, NEW w \in Workers, row'[j].token = w
                 PROVE  /\ row'[j].browser => BackendsOf[w] # {}
                        /\ row'[j].backend \in BackendsOf[w] \union {NoBackend}
      BY DEF RightWorker
    <2>1. SamePlace(row[j], row'[j]) BY NobodyIsNoWorker DEF RowsKept, Keeps
    <2> QED BY <2>1 DEF Inv, RightWorker, SamePlace
  <1>6. ASSUME setting' = setting PROVE NothingStartsOnHold'
    <2> SUFFICES ASSUME NEW j \in Jobs, row'[j].state = "leased"
                 PROVE  Enabled(j)' /\ ~SourcePaused(j)' /\ ~row'[j].pause
      BY DEF NothingStartsOnHold
    <2>1. row[j].state = "leased" /\ ~row'[j].pause
      BY DEF RowsKept, Keeps, RowOK, SamePlace, Leasable
    <2> QED BY <1>6, <2>1 DEF Inv, NothingStartsOnHold, Enabled, SourcePaused
  <1> QED BY <1>1, <1>2, <1>3, <1>4, <1>5, <1>6 DEF Inv

-----------------------------------------------------------------------------
(* The pieces the actions are made of.                                     *)

\* enqueue_job writes a well-formed outbox row.
LEMMA EnqueueOK ==
  ASSUME NEW ob \in SUBSET Entry, NEW j \in Jobs, NEW r \in Row
  PROVE  Enqueue(ob, j, r) \in SUBSET Entry
  <1>0. r.backend \in Backends \union {NoBackend} BY DEF Row
  <1>1. RouteOf(r) \in Routes BY <1>0 DEF RouteOf, Routes, Backends
  <1>2. r.gen \in Nat /\ r.due \in BOOLEAN BY DEF Row
  <1>3. [job |-> j, gen |-> r.gen, route |-> RouteOf(r),
         avail |-> r.due, published |-> FALSE] \in Entry
    BY <1>1, <1>2 DEF Entry
  <1> QED BY <1>3 DEF Enqueue

\* A row enqueued for a job is routed as the job is.
LEMMA EnqueueRouted ==
  ASSUME NEW ob, NEW j \in Jobs, NEW r \in Row,
         NEW o \in Enqueue(ob, j, r)
  PROVE  o \in ob \/ (o.job = j /\ o.gen = r.gen /\ o.route = RouteOf(r))
  BY DEF Enqueue

\* What is published are messages, and keys of jobs.
LEMMA PublishedOK ==
  ASSUME Inv, NEW os \in SUBSET Entry, Published({Envelope(o) : o \in os})
  PROVE  /\ known' \in SUBSET (Jobs \X Nat)
         /\ queue' \in SUBSET Message /\ dlq' \in SUBSET Message
  <1> DEFINE ms == {Envelope(o) : o \in os}
  <1>1. ms \in SUBSET Message BY DEF Envelope, Entry, Message
  <1> HIDE DEF ms
  <1>2. {<<m.job, m.gen>> : m \in ms} \in SUBSET (Jobs \X Nat)
    <2>1. \A m \in ms : <<m.job, m.gen>> \in Jobs \X Nat BY <1>1, MessageJob
    <2> QED BY <2>1
  <1>3. Published(ms) BY DEF ms
  <1> QED BY <1>1, <1>2, <1>3 DEF Published, Inv, TypeOK

\* The history of swallowed messages.
LEMMA SwallowOK ==
  ASSUME Inv, NEW j \in Jobs, NEW g \in Nat, NEW why \in Reasons, Swallow(j, g, why)
  PROVE  swallowed' \in SUBSET [job : Jobs, gen : Nat, why : Reasons]
  BY DEF Swallow, Inv, TypeOK

\* A busy slot has a message of a job.
LEMMA BusySlot ==
  ASSUME Inv, NEW w \in Workers, exec[w].phase # "idle"
  PROVE  /\ exec[w] \in Execution /\ exec[w].msg \in Message
         /\ JobOf(w) \in Jobs /\ exec[w].msg.gen \in Nat
         /\ row[JobOf(w)] \in Row /\ RowOK(row[JobOf(w)])
  BY MessageJob DEF Inv, TypeOK, ExecOK, JobOf

\* A slot is forgotten.
LEMMA ForgetKept ==
  ASSUME Inv, RowsKept, NEW w \in Workers, Forget(w)
  PROVE  SlotsKept
  <1>1. ExecOK(Idle) /\ Idle.phase = "idle"
    BY DEF Idle, ExecOK, Execution, Phases
  <1> QED BY <1>1, OneSlotKept DEF SlotKept, Forget

\* A slot goes on to a phase that neither finishes nor settles.
LEMMA GoKept ==
  ASSUME Inv, RowsKept, NEW w \in Workers, NEW p \in Phases \ {"idle", "finishing", "acking"},
         exec[w].phase # "idle", p \in BeforeStart <=> exec[w].phase \in BeforeStart, Go(w, p)
  PROVE  SlotsKept
  <1> DEFINE n == [exec[w] EXCEPT !.phase = p]
  <1>1. exec[w] \in Execution /\ exec[w].msg \in Message BY BusySlot
  <1>2. n \in Execution BY <1>1 DEF Execution
  <1>3. n.phase = p /\ n.msg = exec[w].msg BY <1>1 DEF Execution
  <1>4. exec' = [exec EXCEPT ![w] = n] BY DEF Go
  <1> HIDE DEF n
  <1>5. SlotKept(w, n) BY <1>1, <1>2, <1>3 DEF SlotKept, ExecOK
  <1> QED BY <1>4, <1>5, OneSlotKept

\* A slot past start() goes on to finish_job.
LEMMA FinishAsKept ==
  ASSUME Inv, RowsKept, NEW w \in Workers, NEW s \in TERMINAL,
         exec[w].phase # "idle", exec[w].phase \notin BeforeStart, FinishAs(w, s)
  PROVE  SlotsKept
  <1> DEFINE n == [exec[w] EXCEPT !.phase = "finishing", !.outcome = s]
  <1>1. exec[w] \in Execution /\ exec[w].msg \in Message BY BusySlot
  <1>2. n \in Execution BY <1>1 DEF Execution, Phases
  <1>3. n.phase = "finishing" /\ n.msg = exec[w].msg /\ n.outcome = s
    BY <1>1 DEF Execution
  <1>4. exec' = [exec EXCEPT ![w] = n] BY DEF FinishAs
  <1> HIDE DEF n
  <1>5. SlotKept(w, n) BY <1>1, <1>2, <1>3 DEF SlotKept, ExecOK, BeforeStart
  <1> QED BY <1>4, <1>5, OneSlotKept

\* A slot goes on to its acknowledgement, without its token unless its last
\* write failed.
LEMMA SettleAsKept ==
  ASSUME Inv, RowsKept, NEW w \in Workers, NEW why \in Reasons \union {"none"},
         exec[w].phase # "idle", exec[w].phase \notin BeforeStart,
         row'[JobOf(w)].token = w => why = "unrecorded", SettleAs(w, why)
  PROVE  SlotsKept
  <1> DEFINE n == [exec[w] EXCEPT !.phase = "acking", !.outcome = "none", !.why = why]
  <1>1. exec[w] \in Execution /\ exec[w].msg \in Message BY BusySlot
  <1>2. n \in Execution BY <1>1 DEF Execution, Phases
  <1>3. n.phase = "acking" /\ n.msg = exec[w].msg /\ n.why = why
    BY <1>1 DEF Execution
  <1>4. exec' = [exec EXCEPT ![w] = n] BY DEF SettleAs
  <1> HIDE DEF n
  <1>5. SlotKept(w, n) BY <1>1, <1>2, <1>3 DEF SlotKept, ExecOK, BeforeStart
  <1> QED BY <1>4, <1>5, OneSlotKept

-----------------------------------------------------------------------------
(* One lemma per part of Next.                                             *)

\* The backend reserve() settles on is a backend, or none.
LEMMA SelectedOK ==
  ASSUME Inv, NEW w \in Workers, NEW m \in Message
  PROVE  Selected(w, m) \in Backends \union {NoBackend}
  <1>1. row[m.job].backend \in Backends \union {NoBackend}
    BY MessageJob DEF Inv, RowOK, Row
  <1> QED BY <1>1 DEF Selected, Backends

\* A step of the worker, the operator or the clock: what each part must keep.
OutboxKept == outbox' \in SUBSET Entry /\ \A o \in outbox' : o \in outbox \/ OfRow(o)'
BrokerKept == known' = known /\ queue' \subseteq queue /\ dlq' = dlq
HistoryKept == /\ swallowed' \in SUBSET [job : Jobs, gen : Nat, why : Reasons]
               /\ loader' \in [Jobs -> Workers \union {Nobody}]

\* A step that keeps every part but perhaps the switches.
LEMMA StepKept ==
  ASSUME Inv, RowsKept, SlotsKept, OutboxKept, BrokerKept, HistoryKept,
         setting' \in [Sources -> Setting]
  PROVE  /\ TypeOK' /\ TokenOfExecution' /\ RightWorker' /\ DeliveriesRouted'
         /\ (\A j \in Jobs : RowOK(row[j]))' /\ (\A w \in Workers : ExecOK(exec[w]))'
         /\ setting' = setting => Inv'
  <1>1. RestOK' BY DEF OutboxKept, BrokerKept, HistoryKept, RestOK, Inv, TypeOK
  <1>2. row' \in [Jobs -> Row] /\ \A j \in Jobs : SameRoute(row[j], row'[j])
    BY DEF RowsKept, Keeps
  <1>3. DeliveriesRouted' BY <1>2, DeliveriesKept DEF OutboxKept, BrokerKept
  <1> QED BY <1>1, <1>3, KeptIsInv

\* Nothing is enqueued.
LEMMA OutboxUnchanged == ASSUME Inv, outbox' = outbox PROVE OutboxKept
  BY DEF Inv, TypeOK, OutboxKept

\* The row that is written is enqueued.
LEMMA OneEnqueued ==
  ASSUME Inv, NEW j \in Jobs, NEW r \in Row, row' = [row EXCEPT ![j] = r],
         outbox' = Enqueue(outbox, j, r)
  PROVE  OutboxKept
  <1>1. row'[j] = r BY DEF Inv, TypeOK
  <1>2. outbox' \in SUBSET Entry BY EnqueueOK DEF Inv, TypeOK
  <1>3. r.gen \in Nat BY DEF Row
  <1>4. ASSUME NEW o \in outbox', o \notin outbox PROVE OfRow(o)'
    BY <1>1, <1>3, <1>4, EnqueueRouted DEF OfRow
  <1> QED BY <1>2, <1>4 DEF OutboxKept

\* The history variables of a step that touches neither.
LEMMA HistoryUnchanged ==
  ASSUME Inv, UNCHANGED <<swallowed, loader>> PROVE HistoryKept
  BY DEF Inv, TypeOK, HistoryKept

\* The broker loses at most the acknowledged message.
LEMMA AckKept == ASSUME NEW m, AckedOrNot(m) PROVE BrokerKept
  BY DEF AckedOrNot, Acked, BrokerKept, broker

\* Reserving a delivery preserves the invariant.
LEMMA ReserveStep ==
  ASSUME Inv, NEW w \in Workers, NEW m \in queue, Reserve(w, m)
  PROVE  Inv'
  <1>0. setting \in [Sources -> Setting] /\ OfRow(m) BY DEF Inv, TypeOK, DeliveriesRouted
  <1>1. m \in Message BY DEF Inv, TypeOK
  <1>2. m.job \in Jobs /\ m.gen \in Nat /\ m.route \in Routes BY <1>1, MessageJob
  <1>3. row \in [Jobs -> Row] /\ RowOK(row[m.job]) /\ row[m.job] \in Row
    BY <1>2 DEF Inv, TypeOK
  <1> DEFINE r == row[m.job]
  <1>4. ASSUME NEW s \in States \ Leasable, row' = [row EXCEPT ![m.job] = Ended(r, s)]
        PROVE  RowsKept
    <2>1. Keeps(r, Ended(r, s)) BY <1>3, EndedOK
    <2> QED BY <1>2, <1>4, <2>1, OneRowKept
  <1>5. CASE ReserveDrops(w, m)
    <2> USE <1>5 DEF ReserveDrops
    <2>1. RowsKept BY NoRowKept
    <2>2. SlotsKept BY <2>1, SlotsUnchanged
    <2>3. BrokerKept BY AckKept DEF AckedOrNot
    <2> QED BY <1>0, <2>1, <2>2, <2>3, OutboxUnchanged, HistoryUnchanged, StepKept
  <1>6. CASE ReserveEnds(w, m)
    <2> USE <1>6 DEF ReserveEnds
    <2>0. (IF Enabled(m.job) THEN "cancelled" ELSE "skipped") \in States \ Leasable
      BY DEF States, Leasable, TERMINAL
    <2>1. RowsKept BY <1>4, <2>0
    <2>2. SlotsKept BY <2>1, SlotsUnchanged
    <2>3. BrokerKept BY AckKept
    <2> QED BY <1>0, <2>1, <2>2, <2>3, OutboxUnchanged, HistoryUnchanged, StepKept
  <1>7. CASE ReserveOnHold(w, m)
    <2> USE <1>7 DEF ReserveOnHold
    <2>1. RowsKept BY NoRowKept
    <2>2. SlotsKept BY <2>1, SlotsUnchanged
    <2>3. BrokerKept BY AckKept DEF AckedOrNot
    <2>4. HistoryKept BY <1>2, SwallowOK DEF Reasons, HistoryKept, Inv, TypeOK
    <2> QED BY <1>0, <2>1, <2>2, <2>3, <2>4, OutboxUnchanged, StepKept
  <1>8. CASE ReserveExhausted(w, m)
    <2> USE <1>8 DEF ReserveExhausted
    <2>1. RowsKept BY <1>4 DEF States, Leasable, TERMINAL
    <2>2. SlotsKept BY <2>1, SlotsUnchanged
    <2>3. BrokerKept BY AckKept
    <2> QED BY <1>0, <2>1, <2>2, <2>3, OutboxUnchanged, HistoryUnchanged, StepKept
  <1> DEFINE d == RoutedRow(w, m)
  <1>9. Selected(w, m) \in Backends \union {NoBackend} BY <1>1, SelectedOK
  <1>10. d = [r EXCEPT !.backend = Selected(w, m)] BY DEF RoutedRow
  <1>11. d \in Row BY <1>3, <1>9, <1>10 DEF Row
  <1>12. /\ d.state = r.state /\ d.token = r.token /\ d.lease = r.lease
         /\ d.attempt = r.attempt /\ d.pause = r.pause /\ d.resume = r.resume
         /\ d.browser = r.browser /\ d.any = r.any /\ d.gen = r.gen
         /\ d.backend = Selected(w, m)
    BY <1>3, <1>10 DEF Row
  <1> HIDE DEF d
  <1>13. /\ r.backend \in Backends \union {NoBackend}
         /\ r.gen \in Nat /\ r.browser \in BOOLEAN /\ r.any \in BOOLEAN
    BY <1>3 DEF Row
  <1>14. CASE ReserveReroutes(w, m)
    <2>1. /\ row' = [row EXCEPT ![m.job] = Bumped(d)] /\ outbox' = Enqueue(outbox, m.job, Bumped(d))
          /\ RouteOf(d) # m.route /\ Runnable(w, m)
      BY <1>14 DEF ReserveReroutes, d
    <2>2. m.route = RouteOf(r)
      BY <1>0, <2>1 DEF Runnable, Open, Due, Current, OfRow
    <2>3. r.token = Nobody
      <3> SUFFICES ASSUME r.token # Nobody PROVE RouteOf(d) = RouteOf(r)
        BY <2>1, <2>2
      <3>1. r.browser \/ r.any => r.backend # NoBackend BY <1>3 DEF RowOK
      <3>2. CASE r.backend # NoBackend
        BY <3>2, <1>12, <2>2 DEF Selected, RouteOf
      <3>3. CASE r.backend = NoBackend /\ ~r.browser /\ ~r.any
        BY <3>3, <1>12, <2>2 DEF Selected, RouteOf, Backends, NoBackend
      <3> QED BY <3>1, <3>2, <3>3
    <2>4. RowOK(d) BY <1>3, <1>11, <1>12, <2>3 DEF RowOK, Exhausted
    <2>5. Keeps(r, Bumped(d)) /\ Bumped(d) \in Row
      BY <1>3, <1>12, <2>3, <2>4, SupersededKeeps DEF Keeps, RowOK
    <2>6. RowsKept BY <1>2, <2>1, <2>5, OneRowKept
    <2>7. SlotsKept BY <1>14, <2>6, SlotsUnchanged DEF ReserveReroutes
    <2>8. OutboxKept BY <1>2, <2>1, <2>5, OneEnqueued
    <2>9. BrokerKept BY <1>14, AckKept DEF ReserveReroutes
    <2> QED BY <1>0, <1>14, <2>6, <2>7, <2>8, <2>9, HistoryUnchanged, StepKept
          DEF ReserveReroutes
  <1>15. CASE ReserveRuns(w, m)
    <2> DEFINE n == [d EXCEPT !.state = "leased", !.token = w, !.lease = "live"]
    <2>1. n \in Row BY <1>11 DEF Row, States, Leasable
    <2>2. /\ n.state = "leased" /\ n.token = w /\ n.lease = "live"
          /\ n.attempt = r.attempt /\ n.pause = r.pause /\ n.resume = r.resume
          /\ n.browser = r.browser /\ n.any = r.any /\ n.gen = r.gen
          /\ n.backend = Selected(w, m)
      BY <1>11, <1>12 DEF Row
    <2>3. /\ row' = [row EXCEPT ![m.job] = n] /\ RouteOf(d) = m.route /\ Runnable(w, m)
      BY <1>15 DEF ReserveRuns, d
    <2> HIDE DEF n
    <2>4. m.route = RouteOf(r)
      BY <1>0, <2>3 DEF Runnable, Open, Due, Current, OfRow
    <2>5. RouteOf(n) = RouteOf(d) BY <1>12, <2>2 DEF RouteOf
    <2>6. n.browser \/ n.any => n.backend # NoBackend
      BY <2>2, <2>3, <2>4 DEF Runnable, Misrouted, Selected, RouteOf, Backends, NoBackend
    <2>7. ~Exhausted(r) /\ ~r.pause /\ Enabled(m.job) /\ ~SourcePaused(m.job)
      BY <2>3 DEF Runnable, Open, Due, OnHold, Withdrawn
    <2>8. RowOK(n)
      BY <1>3, <2>1, <2>2, <2>6, <2>7, NobodyIsNoWorker DEF RowOK, Exhausted, Leasable
    <2>9. SameRoute(r, n) BY <1>13, <2>2, <2>3, <2>4, <2>5 DEF SameRoute
    <2>10. row' \in [Jobs -> Row] /\ row'[m.job] = n
           /\ \A j \in Jobs : j # m.job => row'[j] = row[j]
      BY <1>2, <1>3, <2>1, <2>3
    <2>11. \A j \in Jobs : RowOK(row[j]) /\ SameRoute(row[j], row[j])
      BY KeepsItself DEF Keeps, Inv
    <2>12. \A j \in Jobs : RowOK(row'[j]) /\ SameRoute(row[j], row'[j])
      BY <2>8, <2>9, <2>10, <2>11
    <2> DEFINE e == [Idle EXCEPT !.phase = "reserved", !.msg = m]
    <2>13. e \in Execution /\ e.phase = "reserved" /\ e.msg = m
      BY <1>1 DEF Idle, Execution, Phases
    <2>14. exec' = [exec EXCEPT ![w] = e] BY <1>15 DEF ReserveRuns
    <2> HIDE DEF e
    <2>15. ExecOK(e) BY <1>1, <2>13 DEF ExecOK
    <2>16. exec' \in [Workers -> Execution] /\ exec'[w] = e
           /\ \A v \in Workers : v # w => exec'[v] = exec[v]
      BY <2>13, <2>14 DEF Inv, TypeOK
    <2>17. \A v \in Workers : ExecOK(exec'[v]) BY <2>15, <2>16 DEF Inv
    <2>18. TypeOK'
      BY <1>15, <1>2, <2>10, <2>16 DEF ReserveRuns, broker, Inv, TypeOK
    <2>19. TokenOfExecution'
      <3> SUFFICES ASSUME NEW v \in Workers, exec'[v].phase # "idle",
                          row'[exec'[v].msg.job].token = v
                   PROVE  /\ exec'[v].phase = "acking" => exec'[v].why = "unrecorded"
                          /\ exec'[v].phase \in {"reserved", "abandoned"} <=>
                               row'[exec'[v].msg.job].state = "leased"
        BY DEF TokenOfExecution, Owns, JobOf
      <3>1. CASE v = w BY <3>1, <2>2, <2>10, <2>13, <2>16
      <3>2. CASE v # w
        <4>1. exec'[v] = exec[v] /\ JobOf(v) \in Jobs BY <3>2, <2>16, BusySlot
        <4>2. JobOf(v) # m.job BY <3>2, <4>1, <2>2, <2>10 DEF JobOf
        <4>3. row'[JobOf(v)] = row[JobOf(v)] BY <4>1, <4>2, <2>10
        <4> QED BY <4>1, <4>3 DEF Inv, TokenOfExecution, Owns, JobOf
      <3> QED BY <3>1, <3>2
    <2>20. RightWorker'
      <3> SUFFICES ASSUME NEW j \in Jobs, NEW v \in Workers, row'[j].token = v
                   PROVE  /\ row'[j].browser => BackendsOf[v] # {}
                          /\ row'[j].backend \in BackendsOf[v] \union {NoBackend}
        BY DEF RightWorker
      <3>1. CASE j = m.job
        BY <3>1, <2>2, <2>3, <2>10 DEF Runnable, Open
      <3>2. CASE j # m.job BY <3>2, <2>10 DEF Inv, RightWorker
      <3> QED BY <3>1, <3>2
    <2>21. NothingStartsOnHold'
      <3>1. setting' = setting BY <1>15 DEF ReserveRuns
      <3> QED BY <3>1, <2>2, <2>7, <2>10
            DEF Inv, NothingStartsOnHold, Enabled, SourcePaused
    <2>22. DeliveriesRouted'
      BY <1>15, <2>10, <2>12, DeliveriesKept DEF ReserveRuns, broker
    <2> QED BY <2>12, <2>17, <2>18, <2>19, <2>20, <2>21, <2>22 DEF Inv
  <1> QED BY <1>5, <1>6, <1>7, <1>8, <1>14, <1>15 DEF Reserve

\* queue.start, the one step that sets a row running: its token stays, its
\* slot crosses start() with it, and the attempt is within the budget.
LEMMA StartStep ==
  ASSUME Inv, NEW w \in Workers, Start(w)
  PROVE  Inv'
  <1>1. exec[w].phase = "reserved" /\ CanStart(w) BY DEF Start, At
  <1>2. /\ exec[w] \in Execution /\ exec[w].msg \in Message
        /\ JobOf(w) \in Jobs /\ row[JobOf(w)] \in Row /\ RowOK(row[JobOf(w)])
    BY <1>1, BusySlot
  <1> DEFINE j == JobOf(w)
             r == row[j]
             a == IF r.resume THEN r.attempt ELSE r.attempt + 1
             n == [r EXCEPT !.state = "running", !.lease = "live", !.resume = FALSE,
                            !.attempt = a]
             e == [exec[w] EXCEPT !.phase = "crawling"]
  <1>3. r.state = "leased" /\ r.token = w /\ ~Exhausted(r)
    BY <1>1, <1>2 DEF CanStart, Owns, RowOK
  <1>4. r.attempt \in Nat /\ r.resume \in BOOLEAN /\ r.gen \in Nat BY <1>2 DEF Row
  <1>5. n \in Row
    <2>1. a \in Nat BY <1>4
    <2> HIDE DEF a
    <2> QED BY <1>2, <2>1 DEF Row, States, Leasable
  <1>6. /\ n.state = "running" /\ n.lease = "live" /\ n.token = w /\ n.gen = r.gen
        /\ n.attempt = IF r.resume THEN r.attempt ELSE r.attempt + 1
        /\ n.browser = r.browser /\ n.any = r.any /\ n.backend = r.backend
    BY <1>2, <1>3 DEF Row
  <1>7. row' = [row EXCEPT ![j] = n] BY DEF Start, SetRow
  <1>8. e \in Execution /\ e.phase = "crawling" /\ e.msg = exec[w].msg
    BY <1>2 DEF Execution, Phases
  <1>9. exec' = [exec EXCEPT ![w] = e] BY DEF Start, Go
  <1> HIDE DEF n, e
  <1>10. n.attempt <= MaxAttempts
    BY <1>2, <1>3, <1>4, <1>6, AttemptsIsPos DEF RowOK, Exhausted
  <1>11. RowOK(n)
    BY <1>2, <1>3, <1>5, <1>6, <1>10, NobodyIsNoWorker DEF RowOK, Leasable
  <1>12. SameRoute(r, n) BY <1>4, <1>6 DEF SameRoute, RouteOf
  <1>13. row' \in [Jobs -> Row] /\ row'[j] = n /\ \A i \in Jobs : i # j => row'[i] = row[i]
    BY <1>2, <1>5, <1>7 DEF Inv, TypeOK
  <1>14. \A i \in Jobs : RowOK(row[i]) /\ SameRoute(row[i], row[i])
    BY KeepsItself DEF Keeps, Inv
  <1>15. \A i \in Jobs : RowOK(row'[i]) /\ SameRoute(row[i], row'[i])
    BY <1>11, <1>12, <1>13, <1>14
  <1>16. exec' \in [Workers -> Execution] /\ exec'[w] = e
         /\ \A v \in Workers : v # w => exec'[v] = exec[v]
    BY <1>8, <1>9 DEF Inv, TypeOK
  <1>17. \A v \in Workers : ExecOK(exec'[v]) BY <1>2, <1>8, <1>16 DEF Inv, ExecOK
  <1>18. TypeOK' BY <1>13, <1>16 DEF Start, broker, Inv, TypeOK
  <1>19. TokenOfExecution'
    <2> SUFFICES ASSUME NEW v \in Workers, exec'[v].phase # "idle",
                        row'[exec'[v].msg.job].token = v
                 PROVE  /\ exec'[v].phase = "acking" => exec'[v].why = "unrecorded"
                        /\ exec'[v].phase \in {"reserved", "abandoned"} <=>
                             row'[exec'[v].msg.job].state = "leased"
      BY DEF TokenOfExecution, Owns, JobOf
    <2>1. CASE v = w BY <2>1, <1>6, <1>8, <1>13, <1>16 DEF JobOf
    <2>2. CASE v # w
      <3>1. exec'[v] = exec[v] /\ JobOf(v) \in Jobs BY <2>2, <1>16, BusySlot
      <3>2. JobOf(v) # j BY <2>2, <3>1, <1>6, <1>13 DEF JobOf
      <3>3. row'[JobOf(v)] = row[JobOf(v)] BY <3>1, <3>2, <1>13
      <3> QED BY <3>1, <3>3 DEF Inv, TokenOfExecution, Owns, JobOf
    <2> QED BY <2>1, <2>2
  <1>20. RightWorker' BY <1>2, <1>3, <1>6, <1>13 DEF Inv, RightWorker
  <1>21. NothingStartsOnHold'
    <2>1. setting' = setting BY DEF Start
    <2> QED BY <2>1, <1>6, <1>13 DEF Inv, NothingStartsOnHold, Enabled, SourcePaused
  <1>22. DeliveriesRouted'
    BY <1>13, <1>15, DeliveriesKept DEF Start, broker
  <1> QED BY <1>15, <1>17, <1>18, <1>19, <1>20, <1>21, <1>22 DEF Inv

\* A worker that owns its job gives it back, or finds it gone.
LEMMA ReleaseKept ==
  ASSUME Inv, NEW w \in Workers, exec[w].phase # "idle", NEW due \in BOOLEAN,
         IF Owns(w) THEN SetRow(w, Released(row[JobOf(w)], due)) ELSE UNCHANGED row
  PROVE  RowsKept
  <1>1. JobOf(w) \in Jobs /\ RowOK(row[JobOf(w)]) BY BusySlot
  <1>2. Keeps(row[JobOf(w)], Released(row[JobOf(w)], due)) BY <1>1, ReleasedOK
  <1> QED BY <1>1, <1>2, OneRowKept, NoRowKept DEF SetRow

\* Parking and finishing: the token, if it is there, is taken out of the row.
LEMMA LastWriteKept ==
  ASSUME Inv, NEW w \in Workers, exec[w].phase # "idle", NEW s \in States \ Leasable,
         NEW resume \in BOOLEAN, NEW n,
         n = [Ended(row[JobOf(w)], s) EXCEPT !.pause = FALSE, !.resume = resume],
         IF Owns(w) THEN SetRow(w, n) ELSE UNCHANGED row
  PROVE  RowsKept /\ row'[JobOf(w)].token # w
  <1> DEFINE j == JobOf(w)
             e == Ended(row[j], s)
             f == [e EXCEPT !.pause = FALSE, !.resume = resume]
  <1>1. j \in Jobs /\ RowOK(row[j]) /\ row \in [Jobs -> Row] BY BusySlot DEF Inv, TypeOK
  <1>2. RowOK(e) /\ e.state = s /\ e.token = Nobody /\ SameNeeds(row[j], e)
    BY <1>1, EndedOK
  <1> HIDE DEF e
  <1>3. e \in Row BY <1>2 DEF RowOK
  <1>4. f \in Row BY <1>3 DEF Row
  <1>5. /\ f.state = e.state /\ f.token = e.token /\ f.lease = e.lease
        /\ f.attempt = e.attempt /\ SameNeeds(e, f)
    BY <1>3 DEF Row, SameNeeds
  <1>6. n = f BY DEF e
  <1> HIDE DEF f
  <1>7. RowOK(f) BY <1>2, <1>4, <1>5 DEF RowOK, Leasable
  <1>8. row[j].gen \in Nat BY <1>1 DEF RowOK, Row
  <1>9. Keeps(row[j], f)
    BY <1>2, <1>5, <1>7, <1>8 DEF Keeps, SameRoute, SameNeeds, RouteOf
  <1>10. CASE Owns(w)
    <2>1. row' = [row EXCEPT ![j] = f] BY <1>6, <1>10 DEF SetRow
    <2>2. row'[j] = f BY <1>1, <2>1
    <2> QED BY <1>1, <1>2, <1>5, <1>9, <2>1, <2>2, OneRowKept, NobodyIsNoWorker
  <1>11. CASE ~Owns(w) BY <1>11, NoRowKept DEF Owns
  <1> QED BY <1>10, <1>11

\* A step of the slot alone.
LEMMA SlotStep ==
  ASSUME Inv, SlotsKept, UNCHANGED <<row, setting, outbox, broker, swallowed, loader>>
  PROVE  Inv'
  <1>1. RowsKept BY NoRowKept
  <1>2. BrokerKept BY DEF BrokerKept, broker
  <1>3. setting' \in [Sources -> Setting] BY DEF Inv, TypeOK
  <1> QED BY <1>1, <1>2, <1>3, OutboxUnchanged, HistoryUnchanged, StepKept

\* A step of an execution that writes at most its row.
LEMMA RowSlotStep ==
  ASSUME Inv, RowsKept, SlotsKept, UNCHANGED <<setting, outbox, broker, swallowed, loader>>
  PROVE  Inv'
  <1>2. BrokerKept BY DEF BrokerKept, broker
  <1>3. setting' \in [Sources -> Setting] BY DEF Inv, TypeOK
  <1> QED BY <1>2, <1>3, OutboxUnchanged, HistoryUnchanged, StepKept

\* The execution acknowledges its message and is forgotten.
LEMMA AckStep ==
  ASSUME Inv, NEW w \in Workers, exec[w].phase # "idle", NEW why \in Reasons,
         Acked(exec[w].msg), Forget(w), UNCHANGED <<row, setting, outbox, loader>>,
         Swallow(JobOf(w), exec[w].msg.gen, why) \/ UNCHANGED swallowed
  PROVE  Inv'
  <1>1. RowsKept BY NoRowKept
  <1>2. SlotsKept BY <1>1, ForgetKept
  <1>3. BrokerKept BY AckKept DEF AckedOrNot
  <1>4. HistoryKept BY BusySlot, SwallowOK DEF HistoryKept, Inv, TypeOK
  <1>5. setting' \in [Sources -> Setting] BY DEF Inv, TypeOK
  <1> QED BY <1>1, <1>2, <1>3, <1>4, <1>5, OutboxUnchanged, StepKept

\* BrowserUnavailable: the job is queued for a browser under a new generation.
LEMMA RerouteStep ==
  ASSUME Inv, NEW w \in Workers, BrowserUnavailable(w), Owns(w), ~row[JobOf(w)].browser
  PROVE  Inv'
  <1>0. exec[w].phase = "crawling" BY DEF BrowserUnavailable, At
  <1> DEFINE j == JobOf(w)
             r == row[j]
             b == Bumped(Ended(r, "queued"))
             n == [b EXCEPT !.browser = TRUE, !.any = TRUE, !.backend = NoBackend,
                            !.resume = TRUE]
  <1>1. j \in Jobs /\ RowOK(r) /\ row \in [Jobs -> Row] BY <1>0, BusySlot DEF Inv, TypeOK
  <1>2. /\ row' = [row EXCEPT ![j] = n] /\ outbox' = Enqueue(outbox, j, n)
        /\ SettleAs(w, "none") /\ UNCHANGED <<setting, broker, swallowed, loader>>
    BY DEF BrowserUnavailable, SetRow
  <1>3. RowOK(Ended(r, "queued")) /\ Ended(r, "queued").state = "queued"
        /\ Ended(r, "queued").token = Nobody /\ Ended(r, "queued").gen = r.gen
    BY <1>1, EndedOK DEF States, Leasable, TERMINAL, SameNeeds
  <1>4. RowOK(b) /\ b.state = "queued" /\ b.token = Nobody /\ b.gen = r.gen + 1
    BY <1>3, BumpedOK
  <1> HIDE DEF b
  <1>5. b \in Row BY <1>4 DEF RowOK
  <1>6. n \in Row BY <1>5 DEF Row
  <1>7. /\ n.state = b.state /\ n.token = b.token /\ n.lease = b.lease
        /\ n.attempt = b.attempt /\ n.gen = b.gen
    BY <1>5 DEF Row
  <1> HIDE DEF n
  <1>8. RowOK(n) BY <1>4, <1>6, <1>7 DEF RowOK
  <1>9. r.gen \in Nat BY <1>1 DEF RowOK, Row
  <1>10. Keeps(r, n) BY <1>4, <1>7, <1>8, <1>9 DEF Keeps, SameRoute
  <1>11. RowsKept BY <1>1, <1>2, <1>10, OneRowKept
  <1>12. OutboxKept BY <1>1, <1>2, <1>6, OneEnqueued
  <1>13. row'[j].token # w BY <1>1, <1>2, <1>4, <1>7, NobodyIsNoWorker
  <1>14. SlotsKept BY <1>0, <1>2, <1>11, <1>13, SettleAsKept DEF BeforeStart
  <1>15. BrokerKept BY <1>2 DEF BrokerKept, broker
  <1>16. setting' \in [Sources -> Setting] BY <1>2 DEF Inv, TypeOK
  <1> QED BY <1>2, <1>11, <1>12, <1>14, <1>15, <1>16, HistoryUnchanged, StepKept

\* Every step of an execution preserves the invariant.
LEMMA ExecuteStep ==
  ASSUME Inv, NEW w \in Workers, Execute(w)
  PROVE  Inv'
  <1> USE DEF At
  <1>1. CASE HostBusy(w)
    <2>1. RowsKept BY <1>1, ReleaseKept DEF HostBusy
    <2> QED BY <1>1, <2>1, ForgetKept, RowSlotStep DEF HostBusy
  <1>2. CASE Start(w) BY <1>2, StartStep
  <1>3. CASE StartRefused(w) BY <1>3, AckStep DEF StartRefused, Reasons
  <1>4. CASE Beat(w)
    <2> DEFINE r == row[JobOf(w)]
               n == [r EXCEPT !.lease = "live"]
    <2>1. JobOf(w) \in Jobs /\ RowOK(r) /\ r \in Row BY <1>4, BusySlot DEF Beat
    <2>2. r.token # Nobody BY <1>4, NobodyIsNoWorker DEF Beat, Owns
    <2>3. n \in Row BY <2>1 DEF Row
    <2>4. /\ n.state = r.state /\ n.token = r.token /\ n.lease = "live"
          /\ n.attempt = r.attempt /\ n.pause = r.pause /\ n.resume = r.resume
          /\ SameNeeds(r, n)
      BY <2>1 DEF Row, SameNeeds
    <2>5. row' = [row EXCEPT ![JobOf(w)] = n] BY <1>4 DEF Beat, SetRow
    <2> HIDE DEF n
    <2>6. RowOK(n) BY <2>1, <2>2, <2>3, <2>4 DEF RowOK, Exhausted, SameNeeds
    <2>7. RowsKept BY <2>1, <2>4, <2>5, <2>6, FlaggedKeeps, OneRowKept
    <2>8. SlotsKept
      <3>1. CASE exec' = exec BY <3>1, <2>7, SlotsUnchanged
      <3>2. CASE exec[w].phase = "crawling" /\ Go(w, "interrupted")
        BY <3>2, <2>7, GoKept DEF Phases, BeforeStart
      <3> QED BY <1>4, <3>1, <3>2 DEF Beat
    <2> QED BY <1>4, <2>7, <2>8, RowSlotStep DEF Beat
  <1>5. CASE CrawlEnds(w)
    <2>1. RowsKept BY <1>5, NoRowKept DEF CrawlEnds
    <2>2. SlotsKept
      BY <1>5, <2>1, GoKept, FinishAsKept DEF CrawlEnds, Phases, BeforeStart, TERMINAL
    <2> QED BY <1>5, <2>2, SlotStep DEF CrawlEnds
  <1>6. CASE RetryTransient(w)
    <2>1. RowsKept BY <1>6, ReleaseKept DEF RetryTransient
    <2>2. SlotsKept
      BY <1>6, <2>1, GoKept, ForgetKept DEF RetryTransient, Phases, BeforeStart
    <2> QED BY <1>6, <2>1, <2>2, RowSlotStep DEF RetryTransient
  <1>7. CASE BrowserUnavailable(w)
    <2>1. CASE Owns(w) /\ ~row[JobOf(w)].browser BY <1>7, <2>1, RerouteStep
    <2>2. CASE ~(Owns(w) /\ ~row[JobOf(w)].browser)
      <3>1. FinishAs(w, "failed") /\ UNCHANGED <<row, setting, outbox, broker, swallowed, loader>>
        BY <1>7, <2>2 DEF BrowserUnavailable
      <3>2. RowsKept BY <3>1, NoRowKept
      <3>3. SlotsKept
        BY <1>7, <3>1, <3>2, FinishAsKept DEF BrowserUnavailable, BeforeStart, TERMINAL
      <3> QED BY <3>1, <3>3, SlotStep
    <2> QED BY <2>1, <2>2
  <1>8. CASE \E outcome \in LoadOutcomes : Load(w, outcome)
    <2>1. PICK outcome \in LoadOutcomes : Load(w, outcome) BY <1>8
    <2>2. exec[w].phase = "loading" /\ outcome \in TERMINAL
      BY <2>1 DEF Load, LoadOutcomes, TERMINAL
    <2>3. RowsKept BY <2>1, NoRowKept DEF Load
    <2>4. SlotsKept BY <2>1, <2>2, <2>3, FinishAsKept DEF Load, BeforeStart, TERMINAL
    <2>5. HistoryKept
      BY <2>1, <2>2, BusySlot DEF Load, HistoryKept, Inv, TypeOK
    <2>6. BrokerKept BY <2>1 DEF Load, BrokerKept, broker
    <2>7. setting' = setting /\ setting' \in [Sources -> Setting]
      BY <2>1 DEF Load, Inv, TypeOK
    <2>8. OutboxKept BY <2>1, OutboxUnchanged DEF Load
    <2> QED BY <2>3, <2>4, <2>5, <2>6, <2>7, <2>8, StepKept
  <1>9. CASE ReadFlags(w)
    <2>1. RowsKept BY <1>9, NoRowKept DEF ReadFlags
    <2>2. SlotsKept
      BY <1>9, <2>1, GoKept, FinishAsKept DEF ReadFlags, Phases, BeforeStart, TERMINAL
    <2> QED BY <1>9, <2>2, SlotStep DEF ReadFlags
  <1>10. CASE Park(w)
    <2> DEFINE e == Ended(row[JobOf(w)], "paused")
               n == [e EXCEPT !.pause = FALSE]
    <2>1. exec[w].phase = "parking" /\ (IF Owns(w) THEN SetRow(w, n) ELSE UNCHANGED row)
      BY <1>10 DEF Park
    <2>2. RowOK(row[JobOf(w)]) BY <2>1, BusySlot
    <2>3. RowOK(e) BY <2>2, EndedOK DEF States, Leasable, TERMINAL
    <2>4. n = [e EXCEPT !.pause = FALSE, !.resume = e.resume] /\ e.resume \in BOOLEAN
      BY <2>3 DEF RowOK, Row
    <2>5. RowsKept /\ row'[JobOf(w)].token # w
      BY <2>1, <2>4, LastWriteKept DEF States, Leasable, TERMINAL
    <2>6. SlotsKept
      BY <1>10, <2>5, SettleAsKept DEF Park, Settle, BeforeStart, Reasons
    <2> QED BY <1>10, <2>5, <2>6, RowSlotStep DEF Park
  <1>11. CASE Finish(w)
    <2> DEFINE s == exec[w].outcome
               n == [Ended(row[JobOf(w)], s) EXCEPT !.pause = FALSE, !.resume = FALSE]
    <2>1. exec[w].phase = "finishing" /\ (IF Owns(w) THEN SetRow(w, n) ELSE UNCHANGED row)
      BY <1>11 DEF Finish
    <2>2. s \in States \ Leasable
      BY <2>1 DEF Inv, ExecOK, States, Leasable, TERMINAL
    <2>3. RowsKept /\ row'[JobOf(w)].token # w BY <2>1, <2>2, LastWriteKept
    <2>4. SlotsKept
      BY <1>11, <2>3, SettleAsKept DEF Finish, Settle, BeforeStart, Reasons
    <2> QED BY <1>11, <2>3, <2>4, RowSlotStep DEF Finish
  <1>12. CASE AckDone(w)
    <2>1. exec[w].why \in Reasons \union {"none"}
      BY <1>12, BusySlot DEF AckDone, Execution
    <2>2. CASE exec[w].why = "none" BY <1>12, <2>2, AckStep DEF AckDone, Reasons
    <2>3. CASE exec[w].why \in Reasons BY <1>12, <2>3, AckStep DEF AckDone, Reasons
    <2> QED BY <2>1, <2>2, <2>3
  <1> QED
    BY <1>1, <1>2, <1>3, <1>4, <1>5, <1>6, <1>7, <1>8, <1>9, <1>10, <1>11, <1>12 DEF Execute

\* Cancellation, crashes and database errors preserve the invariant.
LEMMA FailStep ==
  ASSUME Inv, NEW w \in Workers, Fail(w)
  PROVE  Inv'
  <1> USE DEF At
  <1>1. CASE StopCrawl(w)
    <2>1. RowsKept BY <1>1, NoRowKept DEF StopCrawl
    <2>2. SlotsKept BY <1>1, <2>1, GoKept DEF StopCrawl, Phases, BeforeStart
    <2> QED BY <1>1, <2>2, SlotStep DEF StopCrawl
  <1>2. CASE StopTask(w)
    <2>1. CASE /\ exec[w].phase \in {"reserved", "abandoned"}
               /\ IF Owns(w) THEN SetRow(w, Released(row[JobOf(w)], TRUE)) ELSE UNCHANGED row
               /\ UNCHANGED <<broker, swallowed>>
      <3>1. RowsKept BY <2>1, ReleaseKept
      <3>2. SlotsKept BY <1>2, <3>1, ForgetKept DEF StopTask
      <3> QED BY <1>2, <2>1, <3>1, <3>2, RowSlotStep DEF StopTask
    <2>2. CASE /\ exec[w].phase \in {"crawling", "interrupted", "loading", "parking", "finishing"}
               /\ Acked(exec[w].msg)
               /\ Swallow(JobOf(w), exec[w].msg.gen, "stopped")
               /\ UNCHANGED row
      BY <1>2, <2>2, AckStep DEF StopTask, Reasons
    <2> QED BY <1>2, <2>1, <2>2 DEF StopTask
  <1>3. CASE DatabaseFails(w)
    <2>1. RowsKept BY <1>3, NoRowKept DEF DatabaseFails
    <2>2. CASE exec[w].phase = "reserved" /\ Go(w, "abandoned")
      <3>1. SlotsKept BY <2>1, <2>2, GoKept DEF Phases, BeforeStart
      <3> QED BY <1>3, <3>1, SlotStep DEF DatabaseFails
    <2>3. CASE exec[w].phase \in {"interrupted", "parking", "finishing"} /\ FinishAs(w, "failed")
      <3>1. SlotsKept BY <2>1, <2>3, FinishAsKept DEF BeforeStart, TERMINAL
      <3> QED BY <1>3, <3>1, SlotStep DEF DatabaseFails
    <2>4. CASE exec[w].phase = "finishing" /\ SettleAs(w, "unrecorded")
      <3>1. SlotsKept BY <2>1, <2>4, SettleAsKept DEF BeforeStart, Reasons
      <3> QED BY <1>3, <3>1, SlotStep DEF DatabaseFails
    <2> QED BY <1>3, <2>2, <2>3, <2>4 DEF DatabaseFails
  <1>4. CASE Crash(w)
    <2>1. RowsKept BY <1>4, NoRowKept DEF Crash
    <2>2. SlotsKept BY <1>4, <2>1, ForgetKept DEF Crash
    <2> QED BY <1>4, <2>2, SlotStep DEF Crash
  <1> QED BY <1>1, <1>2, <1>3, <1>4 DEF Fail

\* A change of an outbox row's availability or publication keeps its delivery.
LEMMA EntryRelabelled ==
  ASSUME NEW o \in Entry
  PROVE  /\ [o EXCEPT !.avail = TRUE] \in Entry
         /\ [o EXCEPT !.avail = FALSE] \in Entry
         /\ [o EXCEPT !.published = TRUE] \in Entry
         /\ Envelope([o EXCEPT !.avail = TRUE]) = Envelope(o)
         /\ Envelope([o EXCEPT !.avail = FALSE]) = Envelope(o)
         /\ Envelope([o EXCEPT !.published = TRUE]) = Envelope(o)
  BY DEF Entry, Envelope

\* Deliveries with the same envelope are routed alike.
LEMMA SameEnvelope ==
  ASSUME NEW o, NEW p, Envelope(o) = Envelope(p)
  PROVE  /\ OfRow(o) <=> OfRow(p)
         /\ OfRow(o)' <=> OfRow(p)'
  <1>1. o.job = p.job /\ o.gen = p.gen /\ o.route = p.route BY DEF Envelope
  <1> QED BY <1>1 DEF OfRow

\* The passage of time preserves the invariant.
LEMMA PassageStep ==
  ASSUME Inv, NEW j \in Jobs, Passage(j)
  PROVE  Inv'
  <1> DEFINE r == row[j]
  <1>0. RowOK(r) /\ r \in Row BY DEF Inv, TypeOK
  <1>1. CASE LeaseLapse(j)
    <2> DEFINE n == [r EXCEPT !.lease = "expired"]
    <2>1. n \in Row BY <1>0 DEF Row
    <2>2. /\ n.state = r.state /\ n.token = r.token /\ n.lease = "expired"
          /\ n.attempt = r.attempt /\ n.pause = r.pause /\ n.resume = r.resume
          /\ SameNeeds(r, n)
      BY <1>0 DEF Row, SameNeeds
    <2>3. row' = [row EXCEPT ![j] = n] /\ r.lease = "live" BY <1>1 DEF LeaseLapse
    <2> HIDE DEF n
    <2>4. RowOK(n) BY <1>0, <2>1, <2>2, <2>3 DEF RowOK, Exhausted, SameNeeds
    <2>5. RowsKept BY <1>0, <2>2, <2>3, <2>4, FlaggedKeeps, OneRowKept
    <2>6. SlotsKept BY <1>1, <2>5, SlotsUnchanged DEF LeaseLapse
    <2> QED BY <1>1, <2>5, <2>6, RowSlotStep DEF LeaseLapse
  <1>2. CASE Elapse(j)
    <2> DEFINE n == [r EXCEPT !.due = TRUE]
    <2>1. n \in Row BY <1>0 DEF Row
    <2>2. /\ n.state = r.state /\ n.token = r.token /\ n.lease = r.lease
          /\ n.attempt = r.attempt /\ n.pause = r.pause /\ n.resume = r.resume
          /\ SameNeeds(r, n)
      BY <1>0 DEF Row, SameNeeds
    <2>3. row' = [row EXCEPT ![j] = n] BY <1>2 DEF Elapse
    <2> HIDE DEF n
    <2>4. RowOK(n) BY <1>0, <2>1, <2>2, <2>3 DEF RowOK, Exhausted, SameNeeds
    <2>5. RowsKept BY <1>0, <2>2, <2>3, <2>4, FlaggedKeeps, OneRowKept
    <2>6. SlotsKept BY <1>2, <2>5, SlotsUnchanged DEF Elapse
    <2>7. \A o \in outbox : o \in Entry /\ OfRow(o)'
      <3>1. row' \in [Jobs -> Row] /\ \A i \in Jobs : SameRoute(row[i], row'[i])
        BY <2>5 DEF RowsKept, Keeps
      <3>2. \A o \in outbox : o \in Entry /\ OfRow(o) /\ o.job \in Jobs /\ o.gen \in Nat
        BY DEF Inv, TypeOK, DeliveriesRouted, Entry
      <3> QED BY <3>1, <3>2, OfRowKept
    <2>8. OutboxKept
      <3>1. \A p \in outbox' : \E o \in outbox : p = o \/ p = [o EXCEPT !.avail = TRUE]
        BY <1>2 DEF Elapse
      <3> QED BY <2>7, <3>1, EntryRelabelled, SameEnvelope DEF OutboxKept
    <2>9. BrokerKept /\ HistoryKept /\ setting' = setting /\ setting' \in [Sources -> Setting]
      BY <1>2, HistoryUnchanged DEF Elapse, BrokerKept, broker, Inv, TypeOK
    <2> QED BY <2>5, <2>6, <2>8, <2>9, StepKept
  <1> QED BY <1>1, <1>2 DEF Passage

\* What a tick offers: outbox rows, the reconstructed ones included.
LEMMA ReconstructedOK ==
  ASSUME Inv
  PROVE  Reconstructed \in SUBSET Entry /\ \A o \in Reconstructed : OfRow(o)
  <1>1. \A j \in Missing : j \in Jobs /\ row[j] \in Row /\ row[j].gen \in Nat
    BY DEF Missing, Inv, TypeOK, Row
  <1>2. outbox \in SUBSET Entry /\ \A o \in outbox : OfRow(o)
    BY DEF Inv, TypeOK, DeliveriesRouted
  <1>3. ASSUME NEW j \in Missing, NEW o \in Enqueue(outbox, j, row[j])
        PROVE  o \in Entry /\ OfRow(o)
    <2>1. o \in Entry BY <1>1, <1>2, EnqueueOK
    <2>2. o \in outbox \/ (o.job = j /\ o.gen = row[j].gen /\ o.route = RouteOf(row[j]))
      BY <1>1, EnqueueRouted
    <2> QED BY <1>1, <1>2, <2>1, <2>2 DEF OfRow
  <1> QED BY <1>2, <1>3 DEF Reconstructed

\* What the broker holds after a publication is routed.
LEMMA PublishedRouted ==
  ASSUME Inv, RowsKept, NEW ok \in SUBSET Reconstructed,
         Published({Envelope(o) : o \in ok})
  PROVE  \A m \in queue' \union dlq' : m \in queue \union dlq \/ OfRow(m)'
  <1>1. row' \in [Jobs -> Row] /\ \A i \in Jobs : SameRoute(row[i], row'[i])
    BY DEF RowsKept, Keeps
  <1>2. \A o \in ok : o \in Entry /\ OfRow(o) /\ o.job \in Jobs /\ o.gen \in Nat
    BY ReconstructedOK DEF Entry
  <1>3. \A o \in ok : OfRow(o)' BY <1>1, <1>2, OfRowKept
  <1>4. \A o \in ok : OfRow(Envelope(o))' BY <1>3 DEF OfRow, Envelope
  <1>5. \A m \in queue' : m \in queue \/ \E o \in ok : m = Envelope(o) BY DEF Published
  <1>6. dlq' = dlq BY DEF Published
  <1> QED BY <1>4, <1>5, <1>6

\* The dispatcher's ticks and redrives, and the broker's own dead-lettering,
\* preserve the invariant.
LEMMA DispatchStep ==
  ASSUME Inv, Dispatch
  PROVE  Inv'
  <1> DEFINE ob == Reconstructed
  <1>0. ob \in SUBSET Entry /\ Pending(ob) \subseteq ob /\ \A o \in ob : OfRow(o)
    BY ReconstructedOK DEF Pending
  <1>1. ASSUME NEW ok \in SUBSET Pending(ob), TickCommits(ok) PROVE Inv'
    <2>1. RowsKept
      <3>1. \A j \in Jobs : row'[j] = Reconciled(row[j]) BY <1>1 DEF TickCommits
      <3>2. \A j \in Jobs : Keeps(row[j], row'[j]) BY <3>1, ReconciledOK DEF Inv
      <3>3. row' = [j \in Jobs |-> row'[j]] BY <1>1 DEF TickCommits
      <3> QED BY <3>2, <3>3 DEF RowsKept, Keeps, RowOK
    <2>2. SlotsKept BY <1>1, <2>1, SlotsUnchanged DEF TickCommits
    <2>3. ok \in SUBSET Entry /\ ok \in SUBSET Reconstructed
          /\ Published({Envelope(o) : o \in ok})
      BY <1>0, <1>1 DEF TickCommits
    <2>4. /\ known' \in SUBSET (Jobs \X Nat)
          /\ queue' \in SUBSET Message /\ dlq' \in SUBSET Message
      BY <2>3, PublishedOK
    <2>5. row' \in [Jobs -> Row] /\ \A i \in Jobs : SameRoute(row[i], row'[i])
      BY <2>1 DEF RowsKept, Keeps
    <2>6. \A o \in ob : o \in Entry /\ OfRow(o)'
      <3>1. \A o \in ob : o.job \in Jobs /\ o.gen \in Nat BY <1>0 DEF Entry
      <3> QED BY <1>0, <2>5, <3>1, OfRowKept
    <2>7. \A p \in outbox' : p \in Entry /\ OfRow(p)'
      <3>1. \A p \in outbox' : \E o \in ob :
              p = o \/ p = [o EXCEPT !.published = TRUE] \/ p = [o EXCEPT !.avail = FALSE]
        BY <1>0, <1>1 DEF TickCommits
      <3> QED BY <2>6, <3>1, EntryRelabelled, SameEnvelope
    <2>8. DeliveriesRouted' BY <2>1, <2>3, <2>5, <2>7, PublishedRouted, DeliveriesKept
    <2>9. setting' = setting /\ RestOK'
      BY <1>1, <2>4, <2>7 DEF TickCommits, RestOK, Inv, TypeOK
    <2> QED BY <2>1, <2>2, <2>8, <2>9, KeptIsInv
  <1>2. ASSUME NEW ok \in SUBSET Pending(ob), TickRollsBack(ok) PROVE Inv'
    <2>1. RowsKept BY <1>2, NoRowKept DEF TickRollsBack
    <2>2. SlotsKept BY <1>2, <2>1, SlotsUnchanged DEF TickRollsBack
    <2>3. ok \in SUBSET Entry /\ ok \in SUBSET Reconstructed
          /\ Published({Envelope(o) : o \in ok})
      BY <1>0, <1>2 DEF TickRollsBack
    <2>4. /\ known' \in SUBSET (Jobs \X Nat)
          /\ queue' \in SUBSET Message /\ dlq' \in SUBSET Message
      BY <2>3, PublishedOK
    <2>5. row' \in [Jobs -> Row] /\ \A i \in Jobs : SameRoute(row[i], row'[i])
      BY <2>1 DEF RowsKept, Keeps
    <2>6. outbox' = outbox BY <1>2 DEF TickRollsBack
    <2>7. DeliveriesRouted' BY <2>1, <2>3, <2>5, <2>6, PublishedRouted, DeliveriesKept
    <2>8. setting' = setting /\ RestOK'
      BY <1>2, <2>4 DEF TickRollsBack, RestOK, Inv, TypeOK
    <2> QED BY <2>1, <2>2, <2>7, <2>8, KeptIsInv
  <1>3. ASSUME NEW m \in dlq, Redrive(m) PROVE Inv'
    <2> DEFINE j == m.job
               r == row[j]
               b == Bumped(r)
    <2>1. j \in Jobs /\ m.gen \in Nat BY MessageJob DEF Inv, TypeOK
    <2>2. RowOK(r) /\ r \in Row /\ r.gen \in Nat BY <2>1 DEF Inv, TypeOK, Row
    <2>3. RowOK(b) /\ b \in Row /\ Keeps(r, b)
      BY <2>2, BumpedOK DEF RowOK, Keeps, SamePlace, SameRoute
    <2>4. \/ row' = row /\ outbox' = outbox
          \/ row' = [row EXCEPT ![j] = b] /\ outbox' = Enqueue(outbox, j, b)
      BY <1>3 DEF Redrive
    <2> HIDE DEF b
    <2>5. RowsKept BY <2>1, <2>3, <2>4, OneRowKept, NoRowKept
    <2>6. OutboxKept BY <2>1, <2>3, <2>4, OneEnqueued, OutboxUnchanged
    <2>7. SlotsKept BY <1>3, <2>5, SlotsUnchanged DEF Redrive
    <2>8. swallowed' \in SUBSET [job : Jobs, gen : Nat, why : Reasons]
      <3>1. UNCHANGED swallowed \/ Swallow(j, m.gen, "held") BY <1>3 DEF Redrive
      <3> QED BY <2>1, <3>1, SwallowOK DEF Inv, TypeOK, Reasons
    <2>9. /\ setting' = setting /\ known' = known /\ queue' = queue
          /\ dlq' = dlq \ {m} /\ loader' = loader
      BY <1>3 DEF Redrive
    <2>10. RestOK' BY <2>6, <2>8, <2>9 DEF OutboxKept, RestOK, Inv, TypeOK
    <2>11. row' \in [Jobs -> Row] /\ \A i \in Jobs : SameRoute(row[i], row'[i])
      BY <2>5 DEF RowsKept, Keeps
    <2>12. DeliveriesRouted' BY <2>6, <2>9, <2>11, DeliveriesKept DEF OutboxKept
    <2> QED BY <2>5, <2>7, <2>9, <2>10, <2>12, KeptIsInv
  <1>4. ASSUME NEW m \in queue, Exhaust(m) PROVE Inv'
    <2>1. RowsKept BY <1>4, NoRowKept DEF Exhaust
    <2>2. SlotsKept BY <1>4, <2>1, SlotsUnchanged DEF Exhaust
    <2>3. RestOK' /\ setting' = setting BY <1>4 DEF Exhaust, RestOK, Inv, TypeOK
    <2>4. row' \in [Jobs -> Row] /\ \A i \in Jobs : SameRoute(row[i], row'[i])
      BY <2>1 DEF RowsKept, Keeps
    <2>5. DeliveriesRouted' BY <1>4, <2>4, DeliveriesKept DEF Exhaust
    <2> QED BY <2>1, <2>2, <2>3, <2>5, KeptIsInv
  <1> QED BY <1>1, <1>2, <1>3, <1>4 DEF Dispatch

\* update_source leaves no job of a paused or disabled source reserved.
LEMMA SwitchedRowOK ==
  ASSUME NEW r, RowOK(r), NEW old \in Setting, NEW new \in Setting
  PROVE  /\ Keeps(r, SwitchedRow(r, old, new))
         /\ ~new.enabled \/ new.paused => SwitchedRow(r, old, new).state # "leased"
  <1> DEFINE n == SwitchedRow(r, old, new)
  <1>1. Keeps(r, r) BY KeepsItself
  <1>2. Keeps(r, StoppedRow(r, "skipped"))
        /\ (r.state \in Stoppable => StoppedRow(r, "skipped").token = Nobody)
    BY StoppedRowOK DEF TERMINAL
  <1>3. r.state \in {"queued", "leased", "running"} =>
          /\ Keeps(r, PausedRow(r, TRUE))
          /\ r.state # "running" => PausedRow(r, TRUE).token = Nobody
    BY PausedRowOK
  <1>4. r.state = "paused" => Keeps(r, ResumedRow(r)) BY ResumedRowOK
  <1>5. Keeps(r, n) BY <1>1, <1>2, <1>3, <1>4 DEF SwitchedRow, Leasable
  <1>6. n.state = "leased" => n.token # Nobody /\ r.state = "leased"
    BY <1>5 DEF Keeps, RowOK, SamePlace, Leasable
  <1>7. ASSUME r.state = "leased", ~new.enabled \/ new.paused PROVE n.token = Nobody
    BY <1>2, <1>3, <1>7 DEF SwitchedRow, Leasable, Stoppable
  <1> QED BY <1>5, <1>6, <1>7

\* What operators do to jobs and sources preserves the invariant.
LEMMA OperateStep ==
  ASSUME Inv, Operate
  PROVE  Inv'
  <1>0. /\ \A j \in Jobs : RowOK(row[j]) /\ row[j] \in Row
        /\ row \in [Jobs -> Row] /\ setting \in [Sources -> Setting]
    BY DEF Inv, TypeOK
  <1>1. ASSUME NEW j \in Jobs, PauseJob(j) PROVE Inv'
    <2>1. Keeps(row[j], PausedRow(row[j], FALSE))
      BY <1>0, <1>1, PausedRowOK DEF PauseJob, Leasable
    <2>2. RowsKept BY <1>1, <2>1, OneRowKept DEF PauseJob
    <2>3. SlotsKept BY <1>1, <2>2, SlotsUnchanged DEF PauseJob
    <2> QED BY <1>1, <2>2, <2>3, RowSlotStep DEF PauseJob
  <1>2. ASSUME NEW j \in Jobs, ResumeJob(j) PROVE Inv'
    <2> DEFINE n == ResumedRow(row[j])
    <2>1. Keeps(row[j], n) BY <1>0, <1>2, ResumedRowOK DEF ResumeJob
    <2>2. n \in Row BY <2>1 DEF Keeps, RowOK
    <2>3. /\ row' = [row EXCEPT ![j] = n]
          /\ outbox' = Enqueue(outbox, j, n) \/ outbox' = outbox
      BY <1>2 DEF ResumeJob
    <2> HIDE DEF n
    <2>4. RowsKept BY <2>1, <2>3, OneRowKept
    <2>5. OutboxKept BY <2>2, <2>3, OneEnqueued, OutboxUnchanged
    <2>6. SlotsKept BY <1>2, <2>4, SlotsUnchanged DEF ResumeJob
    <2>7. BrokerKept /\ HistoryKept /\ setting' = setting
      BY <1>2, HistoryUnchanged DEF ResumeJob, BrokerKept, broker
    <2> QED BY <1>0, <2>4, <2>5, <2>6, <2>7, StepKept
  <1>3. ASSUME NEW j \in Jobs, RetryJob(j) PROVE Inv'
    <2> DEFINE n == RetriedRow(row[j])
    <2>1. Keeps(row[j], n) BY <1>0, RetriedRowOK
    <2>2. n \in Row BY <2>1 DEF Keeps, RowOK
    <2>3. row' = [row EXCEPT ![j] = n] /\ outbox' = Enqueue(outbox, j, n)
      BY <1>3 DEF RetryJob
    <2> HIDE DEF n
    <2>4. RowsKept BY <2>1, <2>3, OneRowKept
    <2>5. OutboxKept BY <2>2, <2>3, OneEnqueued
    <2>6. SlotsKept BY <1>3, <2>4, SlotsUnchanged DEF RetryJob
    <2>7. BrokerKept /\ HistoryKept /\ setting' = setting
      BY <1>3, HistoryUnchanged DEF RetryJob, BrokerKept, broker
    <2> QED BY <1>0, <2>4, <2>5, <2>6, <2>7, StepKept
  <1>4. ASSUME NEW js, CancelJobs(js) PROVE Inv'
    <2>1. row' = [j \in Jobs |-> IF /\ j \in js
                                    /\ row[j].state \in Stoppable \union {"running"}
                                 THEN StoppedRow(row[j], "cancelled") ELSE row[j]]
      BY <1>4 DEF CancelJobs
    <2>2. \A j \in Jobs : Keeps(row[j], StoppedRow(row[j], "cancelled"))
      BY <1>0, StoppedRowOK DEF TERMINAL
    <2>3. \A j \in Jobs : Keeps(row[j], row'[j]) BY <1>0, <2>1, <2>2, KeepsItself
    <2>4. \A j \in Jobs : row'[j] \in Row BY <2>3 DEF Keeps, RowOK
    <2>5. RowsKept BY <2>1, <2>3, <2>4 DEF RowsKept
    <2>6. SlotsKept BY <1>4, <2>5, SlotsUnchanged DEF CancelJobs
    <2> QED BY <1>4, <2>5, <2>6, RowSlotStep DEF CancelJobs
  <1>5. ASSUME NEW s \in Sources, NEW new \in Setting, UpdateSource(s, new) PROVE Inv'
    <2> DEFINE after(j) == SwitchedRow(row[j], setting[s], new)
    <2>1. \A j \in Jobs : /\ Keeps(row[j], after(j))
                          /\ ~new.enabled \/ new.paused => after(j).state # "leased"
      BY <1>0, SwitchedRowOK
    <2>2. \A j \in Jobs : after(j) \in Row BY <2>1 DEF Keeps, RowOK
    <2>3. /\ row' = [j \in Jobs |-> IF SourceOf[j] = s THEN after(j) ELSE row[j]]
          /\ setting' = [setting EXCEPT ![s] = new]
          /\ UNCHANGED <<broker, exec, swallowed, loader>>
      BY <1>5 DEF UpdateSource
    <2>4. \A o \in outbox' : o \in outbox \/
            \E j \in Jobs : SourceOf[j] = s /\ o \in Enqueue(outbox, j, after(j))
      BY <1>5 DEF UpdateSource
    <2> HIDE DEF after
    <2>5. RowsKept
      <3>1. \A j \in Jobs : row'[j] \in Row BY <1>0, <2>2, <2>3
      <3>2. \A j \in Jobs : Keeps(row[j], row'[j]) BY <1>0, <2>1, <2>3, KeepsItself
      <3> QED BY <2>3, <3>1, <3>2 DEF RowsKept
    <2>6. SlotsKept BY <2>3, <2>5, SlotsUnchanged
    <2>7. OutboxKept
      <3> SUFFICES ASSUME NEW o \in outbox', o \notin outbox
                   PROVE  o \in Entry /\ OfRow(o)'
        BY DEF OutboxKept, Inv, TypeOK
      <3>1. PICK j \in Jobs : SourceOf[j] = s /\ o \in Enqueue(outbox, j, after(j)) BY <2>4
      <3>2. o \in Entry BY <2>2, <3>1, EnqueueOK DEF Inv, TypeOK
      <3>3. o.job = j /\ o.gen = after(j).gen /\ o.route = RouteOf(after(j))
        BY <2>2, <3>1, EnqueueRouted
      <3>4. row'[j] = after(j) /\ after(j).gen \in Nat BY <2>2, <2>3, <3>1 DEF Row
      <3> QED BY <3>2, <3>3, <3>4 DEF OfRow
    <2>8. BrokerKept /\ HistoryKept /\ setting' \in [Sources -> Setting]
      BY <1>0, <2>3, HistoryUnchanged DEF BrokerKept, broker
    <2>9. /\ TypeOK' /\ TokenOfExecution' /\ RightWorker' /\ DeliveriesRouted'
          /\ (\A j \in Jobs : RowOK(row[j]))' /\ (\A w \in Workers : ExecOK(exec[w]))'
      BY <2>5, <2>6, <2>7, <2>8, StepKept
    <2>10. NothingStartsOnHold'
      <3> SUFFICES ASSUME NEW j \in Jobs, row'[j].state = "leased"
                   PROVE  /\ setting'[SourceOf[j]].enabled /\ ~setting'[SourceOf[j]].paused
                          /\ ~row'[j].pause
        BY DEF NothingStartsOnHold, Enabled, SourcePaused
      <3>1. row[j].state = "leased" /\ ~row'[j].pause
        BY <2>5 DEF RowsKept, Keeps, RowOK, SamePlace, Leasable
      <3>2. CASE SourceOf[j] = s
        <4>1. new.enabled /\ ~new.paused
          BY <2>1, <2>3, <3>2 DEF Setting
        <4> QED BY <1>0, <2>3, <3>1, <3>2, <4>1
      <3>3. CASE SourceOf[j] # s
        <4>1. setting'[SourceOf[j]] = setting[SourceOf[j]]
          BY <1>0, <2>3, <3>3, SourceOfType
        <4> QED BY <3>1, <4>1 DEF Inv, NothingStartsOnHold, Enabled, SourcePaused
      <3> QED BY <3>2, <3>3
    <2> QED BY <2>9, <2>10 DEF Inv
  <1> QED BY <1>1, <1>2, <1>3, <1>4, <1>5 DEF Operate

-----------------------------------------------------------------------------
(* The theorems.                                                           *)

\* New jobs, as create_jobs leaves them, satisfy the invariant.
LEMMA InitInv == Init => Inv
  <1> SUFFICES ASSUME Init PROVE Inv
    OBVIOUS
  <1>1. \A j \in Jobs : /\ row[j].token = Nobody /\ row[j].state = "queued"
                        /\ row[j].lease = "none" /\ row[j].attempt = 0
    BY DEF Init, NewRow
  <1>2. \A j \in Jobs : row[j] \in Row
    <2> SUFFICES ASSUME NEW j \in Jobs PROVE row[j] \in Row
      OBVIOUS
    <2>1. ASSUME NEW b \in BOOLEAN, NEW d \in BOOLEAN PROVE NewRow(b, d) \in Row
      BY DEF NewRow, Row, States, NoBackend
    <2>2. (j \in NeedBrowser) \in BOOLEAN /\ (j \notin Staggered) \in BOOLEAN
      OBVIOUS
    <2>3. NewRow(j \in NeedBrowser, j \notin Staggered) \in Row BY <2>1, <2>2, Zenon
    <2>4. row[j] = NewRow(j \in NeedBrowser, j \notin Staggered) BY DEF Init
    <2> QED BY <2>3, <2>4
  <1>4. \A j \in Jobs : RowOK(row[j])
    BY <1>1, <1>2, AttemptsIsPos DEF RowOK, Leasable
  <1>5. row \in [Jobs -> Row] BY <1>2 DEF Init
  <1>6. \A o \in outbox : \E j \in Jobs : o \in Enqueue({}, j, row[j]) BY DEF Init
  <1>7. \A o \in outbox : o \in Entry /\ OfRow(o)
    <2> SUFFICES ASSUME NEW o \in outbox PROVE o \in Entry /\ OfRow(o)
      OBVIOUS
    <2>1. PICK j \in Jobs : o \in Enqueue({}, j, row[j]) BY <1>6
    <2>2. o \in Entry BY <1>2, <2>1, EnqueueOK
    <2>3. o.job = j /\ o.gen = row[j].gen /\ o.route = RouteOf(row[j])
      BY <1>2, <2>1, EnqueueRouted
    <2>4. row[j].gen \in Nat BY <1>2 DEF Row
    <2> QED BY <2>2, <2>3, <2>4 DEF OfRow
  <1>8. DeliveriesRouted BY <1>7 DEF Init, DeliveriesRouted
  <1>9. Idle \in Execution /\ Idle.phase = "idle" BY DEF Idle, Execution, Phases
  <1>10. exec \in [Workers -> Execution] /\ \A w \in Workers : exec[w] = Idle
    BY <1>9 DEF Init
  <1>11. TypeOK BY <1>5, <1>7, <1>10 DEF Init, TypeOK
  <1>12. TokenOfExecution BY <1>9, <1>10 DEF TokenOfExecution
  <1>13. RightWorker BY <1>1, NobodyIsNoWorker DEF RightWorker
  <1>14. NothingStartsOnHold BY <1>1 DEF NothingStartsOnHold
  <1>15. \A w \in Workers : ExecOK(exec[w]) BY <1>9, <1>10 DEF ExecOK
  <1> QED BY <1>4, <1>8, <1>11, <1>12, <1>13, <1>14, <1>15 DEF Inv

\* Every step of the system preserves the invariant.
LEMMA NextInv == Inv /\ [Next]_vars => Inv'
  <1> SUFFICES ASSUME Inv, [Next]_vars PROVE Inv'
    OBVIOUS
  <1>1. CASE Next
    BY <1>1, DispatchStep, OperateStep, PassageStep, ExecuteStep, FailStep, ReserveStep DEF Next
  <1>2. CASE UNCHANGED vars
    <2>1. exec' = exec /\ UNCHANGED <<row, setting, outbox, broker, swallowed, loader>>
      BY <1>2 DEF vars, broker
    <2>2. RowsKept BY <2>1, NoRowKept
    <2>3. SlotsKept BY <2>1, <2>2, SlotsUnchanged
    <2> QED BY <2>1, <2>3, SlotStep
  <1> QED BY <1>1, <1>2

\* The inductive invariant holds of every reachable state.
THEOREM Invariance == Spec => []Inv
  BY InitInv, NextInv, PTL DEF Spec

\* Every variable keeps its type.
THEOREM TypeCorrect == Spec => []TypeOK
  <1>1. Inv => TypeOK BY DEF Inv
  <1> QED BY <1>1, Invariance, PTL

\* Exactly the leased and running rows carry a token and a lease, so that the
\* token alone fences renew, release, require_capability and finish_job.
THEOREM LeaseShapeHolds == Spec => []LeaseShape
  <1>1. Inv => LeaseShape BY DEF Inv, RowOK, LeaseShape
  <1> QED BY <1>1, Invariance, PTL

\* Whoever finds its token in the row is where the row says it is.
THEOREM TokenOfExecutionHolds == Spec => []TokenOfExecution
  <1>1. Inv => TokenOfExecution BY DEF Inv
  <1> QED BY <1>1, Invariance, PTL

\* No sequence of crashes, lapses, redeliveries and operator actions charges a
\* job more executions than max_attempts.
THEOREM AttemptBudgetHolds == Spec => []AttemptBudget
  <1>1. Inv => AttemptBudget BY DEF Inv, RowOK, AttemptBudget
  <1> QED BY <1>1, Invariance, PTL

\* Current deliveries follow the row's requirements through every reroute.
THEOREM DeliveriesRoutedHolds == Spec => []DeliveriesRouted
  <1>1. Inv => DeliveriesRouted BY DEF Inv
  <1> QED BY <1>1, Invariance, PTL

\* A job is only ever held by a worker with the browser and backend it needs.
THEOREM RightWorkerHolds == Spec => []RightWorker
  <1>1. Inv => RightWorker BY DEF Inv
  <1> QED BY <1>1, Invariance, PTL

\* A reserved job belongs to a source that is enabled and not paused.
THEOREM NothingStartsOnHoldHolds == Spec => []NothingStartsOnHold
  <1>1. Inv => NothingStartsOnHold BY DEF Inv
  <1> QED BY <1>1, Invariance, PTL
-----------------------------------------------------------------------------
(* How rows and slots move.  A step of anybody leaves a row's generation   *)
(* and rest alone (Calm), records an outcome of the execution that owns it *)
(* (Recorded), leases it (Taken) or, operators only, revives it.           *)

Active    == {"queued"} \union Leasable
Collected == {"succeeded", "degraded"}

\* A finished row keeps its outcome; a paused one stays down.
Rests(r, n) ==
  /\ r.state \in TERMINAL => n.state = r.state
  /\ r.state = "paused" => n.state \in TERMINAL \union {"paused"}

Calm(r, n) ==
  /\ n.gen >= r.gen /\ n.token \in {r.token, Nobody}
  /\ Rests(r, n)
  /\ n.state \in Collected => n.state = r.state

Revived(j) ==
  /\ row'[j].state = "queued" /\ row'[j].gen = row[j].gen + 1 /\ row'[j].token = Nobody
  /\ exec' = exec

Recorded(j) ==
  /\ row'[j].state \in TERMINAL /\ row'[j].gen = row[j].gen /\ row'[j].token = Nobody
  /\ \E w \in Workers : /\ exec[w].phase = "finishing" /\ JobOf(w) = j /\ Owns(w)
                        /\ row'[j].state = exec[w].outcome

Taken(j) ==
  /\ row[j].state \in Active /\ row'[j].state = "leased" /\ row'[j].gen = row[j].gen
  /\ \E w \in Workers : row'[j].token = w /\ exec'[w].phase = "reserved"

RowMoves(j) == Calm(row[j], row'[j]) \/ Revived(j) \/ Recorded(j) \/ Taken(j)

\* A slot stays, is forgotten, takes a current delivery, or goes on with its
\* own: to the acknowledgement only with its job done with, and to finish_job
\* of a collected job only as the one that loaded it.
SlotMoves(w) ==
  \/ exec'[w] = exec[w] \/ exec'[w].phase = "idle"
  \/ /\ exec'[w].phase = "reserved" /\ exec'[w].msg \in Message
     /\ exec'[w].msg.gen = row[exec'[w].msg.job].gen
  \/ /\ exec[w].phase # "idle" /\ exec'[w].msg = exec[w].msg
     /\ exec'[w].phase = "acking" /\ exec'[w].why = "none" =>
          row'[JobOf(w)].state \notin Active \/ row'[JobOf(w)].gen > row[JobOf(w)].gen
     /\ exec'[w].phase = "finishing" /\ exec'[w].outcome \in Collected =>
          loader'[JobOf(w)] = w

\* The history of loads follows: a load is its owner's, a lease wipes it.
LoaderMoves(j) ==
  \/ loader'[j] = loader[j] \/ Taken(j)
  \/ row' = row /\ \E w \in Workers : row[j].token = w /\ loader'[j] = w

StepMoves ==
  /\ \A j \in Jobs : RowMoves(j) /\ LoaderMoves(j)
  /\ \A w \in Workers : SlotMoves(w)

\* A row that keeps its state and its owner moves calmly.
LEMMA CalmFlags ==
  ASSUME NEW r, RowOK(r), NEW n, n.gen = r.gen \/ n.gen = r.gen + 1,
         n.state = r.state, n.token = r.token
  PROVE  Calm(r, n)
  <1>1. r.gen \in Nat BY DEF RowOK, Row
  <1> QED BY <1>1 DEF Calm, Rests

\* So does one that is ended, requeued or parked while it is not finished.
LEMMA CalmEnd ==
  ASSUME NEW r, RowOK(r), r.state \notin TERMINAL, NEW n,
         n.state \in {"queued", "paused", "failed", "cancelled", "skipped"},
         r.state = "paused" => n.state # "queued",
         n.gen = r.gen \/ n.gen = r.gen + 1, n.token = Nobody
  PROVE  Calm(r, n)
  <1>1. r.gen \in Nat BY DEF RowOK, Row
  <1> QED BY <1>1 DEF Calm, Rests, TERMINAL, Collected

\* No row moves.
LEMMA RowsRest == ASSUME Inv, row' = row PROVE \A j \in Jobs : RowMoves(j)
  BY CalmFlags DEF RowMoves, Inv

\* One row moves.
LEMMA OneRowMoves ==
  ASSUME Inv, NEW j \in Jobs, NEW n, row' = [row EXCEPT ![j] = n],
         row'[j] = n => RowMoves(j)
  PROVE  \A i \in Jobs : RowMoves(i)
  <1>1. row'[j] = n /\ \A i \in Jobs : i # j => row'[i] = row[i] BY DEF Inv, TypeOK
  <1>2. \A i \in Jobs : Calm(row[i], row[i]) BY CalmFlags DEF Inv
  <1>3. \A i \in Jobs : i # j => RowMoves(i) BY <1>1, <1>2 DEF RowMoves
  <1> QED BY <1>1, <1>3

\* No slot moves.
LEMMA SlotsRest == ASSUME exec' = exec PROVE \A w \in Workers : SlotMoves(w)
  BY DEF SlotMoves

\* One slot moves.
LEMMA OneSlotMoves ==
  ASSUME Inv, NEW w \in Workers, NEW n, exec' = [exec EXCEPT ![w] = n],
         exec'[w] = n => SlotMoves(w)
  PROVE  \A v \in Workers : SlotMoves(v)
  <1>1. exec'[w] = n /\ \A v \in Workers : v # w => exec'[v] = exec[v] BY DEF Inv, TypeOK
  <1>2. \A v \in Workers : v # w => SlotMoves(v) BY <1>1 DEF SlotMoves
  <1> QED BY <1>1, <1>2

\* _forget
LEMMA ForgetMoves ==
  ASSUME Inv, NEW w \in Workers, Forget(w) PROVE \A v \in Workers : SlotMoves(v)
  <1>1. Idle.phase = "idle" BY DEF Idle
  <1> QED BY <1>1, OneSlotMoves DEF Forget, SlotMoves

\* On to a phase that neither finishes nor settles.
LEMMA GoMoves ==
  ASSUME Inv, NEW w \in Workers, NEW p \in Phases \ {"idle", "finishing", "acking"},
         exec[w].phase # "idle", Go(w, p)
  PROVE  \A v \in Workers : SlotMoves(v)
  <1> DEFINE n == [exec[w] EXCEPT !.phase = p]
  <1>1. exec[w] \in Execution BY BusySlot
  <1>2. n.phase = p /\ n.msg = exec[w].msg BY <1>1 DEF Execution
  <1>3. exec' = [exec EXCEPT ![w] = n] BY DEF Go
  <1> HIDE DEF n
  <1>4. exec'[w] = n => SlotMoves(w) BY <1>2 DEF SlotMoves
  <1> QED BY <1>3, <1>4, OneSlotMoves

\* On to finish_job, of a collected job by its loader.
LEMMA FinishAsMoves ==
  ASSUME Inv, NEW w \in Workers, NEW s, exec[w].phase # "idle", FinishAs(w, s),
         s \in Collected => loader'[JobOf(w)] = w
  PROVE  \A v \in Workers : SlotMoves(v)
  <1> DEFINE n == [exec[w] EXCEPT !.phase = "finishing", !.outcome = s]
  <1>1. exec[w] \in Execution BY BusySlot
  <1>2. n.phase = "finishing" /\ n.msg = exec[w].msg /\ n.outcome = s BY <1>1 DEF Execution
  <1>3. exec' = [exec EXCEPT ![w] = n] BY DEF FinishAs
  <1> HIDE DEF n
  <1>4. exec'[w] = n => SlotMoves(w) BY <1>2 DEF SlotMoves
  <1> QED BY <1>3, <1>4, OneSlotMoves

\* On to the acknowledgement, for good reason only with the job done with.
LEMMA SettleAsMoves ==
  ASSUME Inv, NEW w \in Workers, NEW why, exec[w].phase # "idle", SettleAs(w, why),
         why = "none" =>
           row'[JobOf(w)].state \notin Active \/ row'[JobOf(w)].gen > row[JobOf(w)].gen
  PROVE  \A v \in Workers : SlotMoves(v)
  <1> DEFINE n == [exec[w] EXCEPT !.phase = "acking", !.outcome = "none", !.why = why]
  <1>1. exec[w] \in Execution BY BusySlot
  <1>2. n.phase = "acking" /\ n.msg = exec[w].msg /\ n.why = why BY <1>1 DEF Execution
  <1>3. exec' = [exec EXCEPT ![w] = n] BY DEF SettleAs
  <1> HIDE DEF n
  <1>4. exec'[w] = n => SlotMoves(w) BY <1>2 DEF SlotMoves
  <1> QED BY <1>3, <1>4, OneSlotMoves

\* A row of Row whose state, generation and token are all that is asked about.
LEMMA EndedIs ==
  ASSUME NEW r \in Row, NEW s
  PROVE  /\ Ended(r, s).state = s /\ Ended(r, s).gen = r.gen /\ Ended(r, s).token = Nobody
         /\ Bumped(Ended(r, s)).state = s /\ Bumped(Ended(r, s)).gen = r.gen + 1
         /\ Bumped(Ended(r, s)).token = Nobody
         /\ Bumped(r).state = r.state /\ Bumped(r).gen = r.gen + 1 /\ Bumped(r).token = r.token
         /\ \A due : /\ Released(r, due).state = "queued" /\ Released(r, due).gen = r.gen
                     /\ Released(r, due).token = Nobody
  BY DEF Ended, Unleased, Bumped, Released, Row

\* Who owns a row owns a leased or running one.
LEMMA OwnedIsLeased ==
  ASSUME Inv, NEW w \in Workers, exec[w].phase # "idle", Owns(w)
  PROVE  row[JobOf(w)].state \in Leasable /\ row[JobOf(w)].token = w
  BY BusySlot, NobodyIsNoWorker DEF RowOK, Owns

\* release(), by the execution that owns the row or by one that lost it.
LEMMA ReleaseMoves ==
  ASSUME Inv, NEW w \in Workers, exec[w].phase # "idle", NEW due \in BOOLEAN,
         IF Owns(w) THEN SetRow(w, Released(row[JobOf(w)], due)) ELSE UNCHANGED row
  PROVE  \A j \in Jobs : RowMoves(j)
  <1>1. JobOf(w) \in Jobs /\ RowOK(row[JobOf(w)]) /\ row[JobOf(w)] \in Row BY BusySlot
  <1>2. CASE Owns(w)
    <2>1. Calm(row[JobOf(w)], Released(row[JobOf(w)], due))
      BY <1>1, <1>2, EndedIs, OwnedIsLeased, CalmEnd DEF Leasable, TERMINAL
    <2> QED BY <1>1, <1>2, <2>1, OneRowMoves DEF SetRow, RowMoves
  <1>3. CASE ~Owns(w) BY <1>3, RowsRest
  <1> QED BY <1>2, <1>3

\* What reserve() does to a row, and to the slot that gets it.
LEMMA ReserveMoves ==
  ASSUME Inv, NEW w \in Workers, NEW m \in queue, Reserve(w, m)
  PROVE  StepMoves
  <1>1. m \in Message BY DEF Inv, TypeOK
  <1>2. m.job \in Jobs BY <1>1, MessageJob
  <1> DEFINE j == m.job
             r == row[j]
  <1>3. RowOK(r) /\ r \in Row /\ r.gen \in Nat BY <1>2 DEF Inv, TypeOK, Row
  <1>4. CASE ReserveDrops(w, m)
    BY <1>4, RowsRest, SlotsRest DEF ReserveDrops, StepMoves, LoaderMoves
  <1>5. CASE ReserveEnds(w, m)
    <2> DEFINE s == IF Enabled(j) THEN "cancelled" ELSE "skipped"
    <2>1. r.state \notin TERMINAL /\ row' = [row EXCEPT ![j] = Ended(r, s)]
      BY <1>5 DEF ReserveEnds, Current
    <2>2. s \in {"cancelled", "skipped"} OBVIOUS
    <2> HIDE DEF s
    <2>3. Calm(r, Ended(r, s)) BY <1>3, <2>1, <2>2, EndedIs, CalmEnd
    <2>4. \A i \in Jobs : RowMoves(i) BY <1>2, <2>1, <2>3, OneRowMoves DEF RowMoves
    <2> QED BY <1>5, <2>4, SlotsRest DEF ReserveEnds, StepMoves, LoaderMoves
  <1>6. CASE ReserveOnHold(w, m)
    BY <1>6, RowsRest, SlotsRest DEF ReserveOnHold, StepMoves, LoaderMoves
  <1>7. CASE ReserveExhausted(w, m)
    <2>1. r.state \notin TERMINAL /\ row' = [row EXCEPT ![j] = Ended(r, "failed")]
      BY <1>7 DEF ReserveExhausted, Due, Current
    <2>2. Calm(r, Ended(r, "failed")) BY <1>3, <2>1, EndedIs, CalmEnd
    <2>3. \A i \in Jobs : RowMoves(i) BY <1>2, <2>1, <2>2, OneRowMoves DEF RowMoves
    <2> QED BY <1>7, <2>3, SlotsRest DEF ReserveExhausted, StepMoves, LoaderMoves
  <1> DEFINE d == RoutedRow(w, m)
  <1>8. d.state = r.state /\ d.token = r.token /\ d.gen = r.gen BY <1>3 DEF RoutedRow, Row
  <1>9. d \in Row BY <1>1, <1>3, SelectedOK DEF RoutedRow, Row
  <1>10. CASE ReserveReroutes(w, m)
    <2>1. row' = [row EXCEPT ![j] = Bumped(d)] BY <1>10 DEF ReserveReroutes
    <2> HIDE DEF d
    <2>2. Calm(r, Bumped(d)) BY <1>3, <1>8, <1>9, EndedIs, CalmFlags
    <2>3. \A i \in Jobs : RowMoves(i) BY <1>2, <2>1, <2>2, OneRowMoves DEF RowMoves
    <2> QED BY <1>10, <2>3, SlotsRest DEF ReserveReroutes, StepMoves, LoaderMoves
  <1>11. CASE ReserveRuns(w, m)
    <2> DEFINE n == [d EXCEPT !.state = "leased", !.token = w, !.lease = "live"]
               e == [Idle EXCEPT !.phase = "reserved", !.msg = m]
    <2>1. row' = [row EXCEPT ![j] = n] /\ exec' = [exec EXCEPT ![w] = e]
          /\ loader' = [loader EXCEPT ![j] = Nobody] /\ Current(m) /\ ~OnHold(j)
      BY <1>11 DEF ReserveRuns, Runnable, Open, Due
    <2>2. n.state = "leased" /\ n.token = w /\ n.gen = r.gen BY <1>8, <1>9 DEF Row
    <2>3. e.phase = "reserved" /\ e.msg = m BY DEF Idle
    <2> HIDE DEF n, e
    <2>4. r.state \in Active
      BY <1>3, <2>1 DEF Current, OnHold, Row, States, Active
    <2>5. row'[j] = n /\ exec'[w] = e BY <1>2, <2>1 DEF Inv, TypeOK
    <2>6. Taken(j) BY <2>2, <2>3, <2>4, <2>5 DEF Taken
    <2>7. \A i \in Jobs : RowMoves(i) BY <1>2, <2>1, <2>6, OneRowMoves DEF RowMoves
    <2>8. SlotMoves(w) BY <1>1, <2>1, <2>3, <2>5 DEF SlotMoves, Current
    <2>9. \A v \in Workers : SlotMoves(v) BY <2>1, <2>8, OneSlotMoves
    <2>10. \A i \in Jobs : LoaderMoves(i) BY <2>1, <2>6 DEF LoaderMoves, Inv, TypeOK
    <2> QED BY <2>7, <2>9, <2>10 DEF StepMoves
  <1> QED BY <1>4, <1>5, <1>6, <1>7, <1>10, <1>11 DEF Reserve

\* An execution that ends its job, under its token, does so for its outcome
\* or, parking it, for a pause.
LEMMA LastWriteMoves ==
  ASSUME Inv, NEW w \in Workers, exec[w].phase # "idle", NEW n,
         NEW s, n.state = s, n.gen = row[JobOf(w)].gen, n.token = Nobody,
         s = "paused" \/ (s \in TERMINAL /\ exec[w].phase = "finishing" /\ s = exec[w].outcome),
         IF Owns(w) THEN SetRow(w, n) ELSE UNCHANGED row, Settle(w), loader' = loader
  PROVE  StepMoves
  <1> DEFINE j == JobOf(w)
  <1>1. j \in Jobs /\ RowOK(row[j]) /\ row[j] \in Row /\ row \in [Jobs -> Row]
    BY BusySlot DEF Inv, TypeOK
  <1>2. CASE Owns(w)
    <2>1. row' = [row EXCEPT ![j] = n] /\ row'[j] = n BY <1>1, <1>2 DEF SetRow
    <2>2. RowMoves(j)
      <3>1. CASE s = "paused"
        <4>1. Calm(row[j], n)
          BY <1>1, <1>2, <3>1, OwnedIsLeased, CalmEnd DEF Leasable, TERMINAL
        <4> QED BY <2>1, <4>1 DEF RowMoves
      <3>2. CASE s \in TERMINAL /\ exec[w].phase = "finishing" /\ s = exec[w].outcome
        BY <1>2, <2>1, <3>2 DEF RowMoves, Recorded
      <3> QED BY <3>1, <3>2
    <2>3. s \notin Active BY DEF Active, Leasable, TERMINAL
    <2>4. \A i \in Jobs : RowMoves(i) BY <1>1, <2>1, <2>2, OneRowMoves
    <2>5. \A v \in Workers : SlotMoves(v)
      BY <1>2, <2>1, <2>3, SettleAsMoves DEF Settle
    <2> QED BY <2>4, <2>5 DEF StepMoves, LoaderMoves
  <1>3. CASE ~Owns(w)
    <2>1. \A v \in Workers : SlotMoves(v) BY <1>3, SettleAsMoves DEF Settle
    <2> QED BY <1>3, <2>1, RowsRest DEF StepMoves, LoaderMoves
  <1> QED BY <1>2, <1>3

\* What the steps of an execution do to its row and its slot.
LEMMA ExecuteMoves ==
  ASSUME Inv, NEW w \in Workers, Execute(w)
  PROVE  StepMoves
  <1> USE DEF At
  <1> DEFINE j == JobOf(w)
             r == row[j]
  <1>0. exec[w].phase # "idle" =>
          /\ j \in Jobs /\ RowOK(r) /\ r \in Row /\ r.gen \in Nat
          /\ exec[w] \in Execution /\ row \in [Jobs -> Row]
    BY BusySlot DEF Row, Inv, TypeOK
  <1>1. CASE HostBusy(w)
    <2>1. \A i \in Jobs : RowMoves(i) BY <1>1, ReleaseMoves DEF HostBusy
    <2> QED BY <1>1, <2>1, ForgetMoves DEF HostBusy, StepMoves, LoaderMoves
  <1>2. CASE Start(w)
    <2> DEFINE n == [r EXCEPT !.state = "running", !.lease = "live", !.resume = FALSE,
                              !.attempt = IF r.resume THEN r.attempt ELSE r.attempt + 1]
    <2>1. exec[w].phase = "reserved" /\ row' = [row EXCEPT ![j] = n] /\ r.state = "leased"
      BY <1>2 DEF Start, SetRow, CanStart
    <2>2. n.state = "running" /\ n.gen = r.gen /\ n.token = r.token BY <1>0, <2>1 DEF Row
    <2> HIDE DEF n
    <2>3. Calm(r, n)
      BY <1>0, <2>1, <2>2 DEF Calm, Rests, TERMINAL, Collected
    <2>4. \A i \in Jobs : RowMoves(i) BY <1>0, <2>1, <2>3, OneRowMoves DEF RowMoves
    <2>5. \A v \in Workers : SlotMoves(v) BY <1>2, <2>1, GoMoves DEF Start, Phases
    <2> QED BY <1>2, <2>4, <2>5 DEF Start, StepMoves, LoaderMoves
  <1>3. CASE StartRefused(w)
    BY <1>3, RowsRest, ForgetMoves DEF StartRefused, StepMoves, LoaderMoves
  <1>4. CASE Beat(w)
    <2> DEFINE n == [r EXCEPT !.lease = "live"]
    <2>1. exec[w].phase # "idle" /\ row' = [row EXCEPT ![j] = n] BY <1>4 DEF Beat, SetRow
    <2>2. n.state = r.state /\ n.gen = r.gen /\ n.token = r.token BY <1>0, <2>1 DEF Row
    <2> HIDE DEF n
    <2>3. Calm(r, n) BY <1>0, <2>1, <2>2, CalmFlags
    <2>4. \A i \in Jobs : RowMoves(i) BY <1>0, <2>1, <2>3, OneRowMoves DEF RowMoves
    <2>5. \A v \in Workers : SlotMoves(v)
      BY <1>4, <2>1, GoMoves, SlotsRest DEF Beat, Phases
    <2> QED BY <1>4, <2>4, <2>5 DEF Beat, StepMoves, LoaderMoves
  <1>5. CASE CrawlEnds(w)
    <2>1. \A v \in Workers : SlotMoves(v)
      BY <1>5, GoMoves, FinishAsMoves DEF CrawlEnds, Phases, Collected
    <2> QED BY <1>5, <2>1, RowsRest DEF CrawlEnds, StepMoves, LoaderMoves
  <1>6. CASE RetryTransient(w)
    <2>1. \A i \in Jobs : RowMoves(i) BY <1>6, ReleaseMoves DEF RetryTransient
    <2>2. \A v \in Workers : SlotMoves(v)
      BY <1>6, GoMoves, ForgetMoves DEF RetryTransient, Phases
    <2> QED BY <1>6, <2>1, <2>2 DEF RetryTransient, StepMoves, LoaderMoves
  <1>7. CASE BrowserUnavailable(w)
    <2>0. exec[w].phase = "crawling" /\ loader' = loader BY <1>7 DEF BrowserUnavailable
    <2>1. CASE Owns(w) /\ ~r.browser
      <3> DEFINE b == Bumped(Ended(r, "queued"))
                 n == [b EXCEPT !.browser = TRUE, !.any = TRUE, !.backend = NoBackend,
                                !.resume = TRUE]
      <3>1. row' = [row EXCEPT ![j] = n] /\ SettleAs(w, "none")
        BY <1>7, <2>1 DEF BrowserUnavailable, SetRow
      <3>2. b.state = "queued" /\ b.gen = r.gen + 1 /\ b.token = Nobody
        BY <1>0, <2>0, EndedIs
      <3>3. n.state = b.state /\ n.gen = b.gen /\ n.token = b.token
        BY <1>0, <2>0 DEF Bumped, Ended, Unleased, Row
      <3> HIDE DEF b, n
      <3>4. Calm(r, n)
        BY <1>0, <2>0, <2>1, <3>2, <3>3, OwnedIsLeased, CalmEnd DEF Leasable, TERMINAL
      <3>5. row'[j] = n BY <1>0, <2>0, <3>1
      <3>6. \A i \in Jobs : RowMoves(i) BY <1>0, <2>0, <3>1, <3>4, OneRowMoves DEF RowMoves
      <3>7. row'[j].gen > r.gen BY <1>0, <2>0, <3>2, <3>3, <3>5
      <3>8. \A v \in Workers : SlotMoves(v) BY <2>0, <3>1, <3>7, SettleAsMoves
      <3> QED BY <2>0, <3>6, <3>8 DEF StepMoves, LoaderMoves
    <2>2. CASE ~(Owns(w) /\ ~r.browser)
      <3>1. FinishAs(w, "failed") /\ row' = row BY <1>7, <2>2 DEF BrowserUnavailable
      <3>2. \A v \in Workers : SlotMoves(v) BY <2>0, <3>1, FinishAsMoves DEF Collected
      <3> QED BY <2>0, <3>1, <3>2, RowsRest DEF StepMoves, LoaderMoves
    <2> QED BY <2>1, <2>2
  <1>8. CASE \E outcome \in LoadOutcomes : Load(w, outcome)
    <2>1. PICK outcome \in LoadOutcomes : Load(w, outcome) BY <1>8
    <2>2. exec[w].phase = "loading" /\ row' = row /\ loader \in [Jobs -> Workers \union {Nobody}]
      BY <2>1 DEF Load, Inv, TypeOK
    <2>3. CASE Owns(w) /\ r.state = "running"
      <3>1. loader' = [loader EXCEPT ![j] = w] /\ FinishAs(w, outcome)
        BY <2>1, <2>3 DEF Load
      <3>2. loader'[j] = w /\ \A i \in Jobs : i # j => loader'[i] = loader[i]
        BY <1>0, <2>2, <3>1
      <3>3. \A v \in Workers : SlotMoves(v) BY <2>2, <3>1, <3>2, FinishAsMoves
      <3>4. \A i \in Jobs : LoaderMoves(i) BY <2>2, <2>3, <3>2 DEF LoaderMoves, Owns
      <3> QED BY <2>2, <3>3, <3>4, RowsRest DEF StepMoves
    <2>4. CASE ~(Owns(w) /\ r.state = "running")
      <3>1. loader' = loader /\ FinishAs(w, "failed") BY <2>1, <2>4 DEF Load
      <3>2. \A v \in Workers : SlotMoves(v) BY <2>2, <3>1, FinishAsMoves DEF Collected
      <3> QED BY <2>2, <3>1, <3>2, RowsRest DEF StepMoves, LoaderMoves
    <2> QED BY <2>3, <2>4
  <1>9. CASE ReadFlags(w)
    <2>1. \A v \in Workers : SlotMoves(v)
      BY <1>9, GoMoves, FinishAsMoves DEF ReadFlags, Phases, Collected
    <2> QED BY <1>9, <2>1, RowsRest DEF ReadFlags, StepMoves, LoaderMoves
  <1>10. CASE Park(w)
    <2> DEFINE e == Ended(r, "paused")
               n == [e EXCEPT !.pause = FALSE]
    <2>1. /\ exec[w].phase = "parking" /\ Settle(w) /\ loader' = loader
          /\ IF Owns(w) THEN SetRow(w, n) ELSE UNCHANGED row
      BY <1>10 DEF Park
    <2>2. n.state = "paused" /\ n.gen = r.gen /\ n.token = Nobody
      BY <1>0, <2>1 DEF Ended, Unleased, Row
    <2> HIDE DEF n
    <2> QED BY <2>1, <2>2, LastWriteMoves
  <1>11. CASE Finish(w)
    <2> DEFINE s == exec[w].outcome
               n == [Ended(r, s) EXCEPT !.pause = FALSE, !.resume = FALSE]
    <2>1. /\ exec[w].phase = "finishing" /\ Settle(w) /\ loader' = loader
          /\ IF Owns(w) THEN SetRow(w, n) ELSE UNCHANGED row
      BY <1>11 DEF Finish
    <2>2. n.state = s /\ n.gen = r.gen /\ n.token = Nobody
      BY <1>0, <2>1 DEF Ended, Unleased, Row
    <2>3. s \in TERMINAL BY <2>1 DEF Inv, ExecOK
    <2> HIDE DEF n
    <2> QED BY <2>1, <2>2, <2>3, LastWriteMoves
  <1>12. CASE AckDone(w)
    BY <1>12, RowsRest, ForgetMoves DEF AckDone, StepMoves, LoaderMoves
  <1> QED
    BY <1>1, <1>2, <1>3, <1>4, <1>5, <1>6, <1>7, <1>8, <1>9, <1>10, <1>11, <1>12 DEF Execute

\* What cancellation, crashes and database errors do to it.
LEMMA FailMoves ==
  ASSUME Inv, NEW w \in Workers, Fail(w)
  PROVE  StepMoves
  <1> USE DEF At
  <1>1. CASE StopCrawl(w)
    <2>1. \A v \in Workers : SlotMoves(v) BY <1>1, GoMoves DEF StopCrawl, Phases
    <2> QED BY <1>1, <2>1, RowsRest DEF StopCrawl, StepMoves, LoaderMoves
  <1>2. CASE StopTask(w)
    <2>1. \A v \in Workers : SlotMoves(v) BY <1>2, ForgetMoves DEF StopTask
    <2>2. \A i \in Jobs : RowMoves(i) BY <1>2, ReleaseMoves, RowsRest DEF StopTask
    <2> QED BY <1>2, <2>1, <2>2 DEF StopTask, StepMoves, LoaderMoves
  <1>3. CASE DatabaseFails(w)
    <2>1. \A v \in Workers : SlotMoves(v)
      BY <1>3, GoMoves, FinishAsMoves, SettleAsMoves DEF DatabaseFails, Phases, Collected
    <2> QED BY <1>3, <2>1, RowsRest DEF DatabaseFails, StepMoves, LoaderMoves
  <1>4. CASE Crash(w)
    BY <1>4, RowsRest, ForgetMoves DEF Crash, StepMoves, LoaderMoves
  <1> QED BY <1>1, <1>2, <1>3, <1>4 DEF Fail

\* What time does to it.
LEMMA PassageMoves ==
  ASSUME Inv, NEW j \in Jobs, Passage(j)
  PROVE  StepMoves
  <1>0. RowOK(row[j]) /\ row[j] \in Row BY DEF Inv, TypeOK
  <1>1. PICK n : row' = [row EXCEPT ![j] = n] /\ Calm(row[j], n)
    <2>1. CASE LeaseLapse(j)
      <3> DEFINE n == [row[j] EXCEPT !.lease = "expired"]
      <3>1. row' = [row EXCEPT ![j] = n] BY <2>1 DEF LeaseLapse
      <3>2. n.state = row[j].state /\ n.gen = row[j].gen /\ n.token = row[j].token
        BY <1>0 DEF Row
      <3> HIDE DEF n
      <3> QED BY <1>0, <3>1, <3>2, CalmFlags
    <2>2. CASE Elapse(j)
      <3> DEFINE n == [row[j] EXCEPT !.due = TRUE]
      <3>1. row' = [row EXCEPT ![j] = n] BY <2>2 DEF Elapse
      <3>2. n.state = row[j].state /\ n.gen = row[j].gen /\ n.token = row[j].token
        BY <1>0 DEF Row
      <3> HIDE DEF n
      <3> QED BY <1>0, <3>1, <3>2, CalmFlags
    <2> QED BY <2>1, <2>2 DEF Passage
  <1>2. \A i \in Jobs : RowMoves(i) BY <1>1, OneRowMoves DEF RowMoves
  <1>3. exec' = exec /\ loader' = loader BY DEF Passage, LeaseLapse, Elapse
  <1> QED BY <1>2, <1>3, SlotsRest DEF StepMoves, LoaderMoves

\* What the dispatcher and the broker do to it.
LEMMA DispatchMoves ==
  ASSUME Inv, Dispatch
  PROVE  StepMoves
  <1>0. exec' = exec /\ loader' = loader
    BY DEF Dispatch, TickCommits, TickRollsBack, Redrive, Exhaust
  <1> SUFFICES \A j \in Jobs : RowMoves(j)
    BY <1>0, SlotsRest DEF StepMoves, LoaderMoves
  <1>1. ASSUME NEW ok, TickCommits(ok) PROVE \A j \in Jobs : RowMoves(j)
    <2>1. \A j \in Jobs : row'[j] = Reconciled(row[j]) BY <1>1 DEF TickCommits
    <2>2. ASSUME NEW j \in Jobs PROVE Calm(row[j], Reconciled(row[j]))
      <3>1. RowOK(row[j]) /\ row[j] \in Row BY DEF Inv, TypeOK
      <3>2. Calm(row[j], row[j]) BY <3>1, CalmFlags
      <3>3. ASSUME NEW s \in {"failed", "queued"}, row[j].state \in Leasable
            PROVE  Calm(row[j], Ended(row[j], s))
        BY <3>1, <3>3, EndedIs, CalmEnd DEF Leasable, TERMINAL
      <3> QED BY <3>2, <3>3 DEF Reconciled
    <2> QED BY <2>1, <2>2 DEF RowMoves
  <1>2. ASSUME NEW m \in dlq, Redrive(m) PROVE \A j \in Jobs : RowMoves(j)
    <2>1. m.job \in Jobs BY MessageJob DEF Inv, TypeOK
    <2>2. RowOK(row[m.job]) /\ row[m.job] \in Row BY <2>1 DEF Inv, TypeOK
    <2>3. Calm(row[m.job], Bumped(row[m.job])) BY <2>2, EndedIs, CalmFlags
    <2>4. row' = row \/ row' = [row EXCEPT ![m.job] = Bumped(row[m.job])]
      BY <1>2 DEF Redrive
    <2> QED BY <2>1, <2>3, <2>4, RowsRest, OneRowMoves DEF RowMoves
  <1>3. ASSUME row' = row PROVE \A j \in Jobs : RowMoves(j) BY <1>3, RowsRest
  <1> QED BY <1>1, <1>2, <1>3 DEF Dispatch, TickRollsBack, Exhaust

(* What operators write: a flag, or a new generation that ends, parks or   *)
(* queues the job.                                                         *)
Flagged(r, n) == n.state = r.state /\ n.gen = r.gen /\ n.token = r.token
Superseded(r, n, s) == n.state = s /\ n.gen = r.gen + 1 /\ n.token = Nobody
Stopped(r, n) ==
  \E s \in {"paused", "cancelled", "skipped"} : r.state \in Stoppable /\ Superseded(r, n, s)

\* PAUSE, RESUME, CANCEL and RETRY of a row.
LEMMA OperatedIs ==
  ASSUME NEW r \in Row
  PROVE  /\ \A b \in BOOLEAN :
              IF r.state = "running" THEN Flagged(r, PausedRow(r, b))
              ELSE Superseded(r, PausedRow(r, b), "paused")
         /\ IF r.state = "paused" THEN Superseded(r, ResumedRow(r), "queued")
            ELSE Flagged(r, ResumedRow(r))
         /\ \A s : IF r.state \in Stoppable THEN Superseded(r, StoppedRow(r, s), s)
                   ELSE Flagged(r, StoppedRow(r, s))
         /\ Superseded(r, RetriedRow(r), "queued")
  <1>1. ASSUME NEW b \in BOOLEAN
        PROVE  IF r.state = "running" THEN Flagged(r, PausedRow(r, b))
               ELSE Superseded(r, PausedRow(r, b), "paused")
    BY DEF PausedRow, Flagged, Superseded, Ended, Unleased, Bumped, Row
  <1>2. IF r.state = "paused" THEN Superseded(r, ResumedRow(r), "queued")
        ELSE Flagged(r, ResumedRow(r))
    BY DEF ResumedRow, Flagged, Superseded, Ended, Unleased, Bumped, Row
  <1>3. ASSUME NEW s
        PROVE  IF r.state \in Stoppable THEN Superseded(r, StoppedRow(r, s), s)
               ELSE Flagged(r, StoppedRow(r, s))
    BY DEF StoppedRow, Flagged, Superseded, Ended, Unleased, Bumped, Row
  <1>4. Superseded(r, RetriedRow(r), "queued")
    BY DEF RetriedRow, Superseded, Ended, Unleased, Bumped, Row
  <1> QED BY <1>1, <1>2, <1>3, <1>4

\* update_source resumes a job only out of its pause.
LEMMA SwitchedIs ==
  ASSUME NEW r \in Row, NEW old, NEW new
  PROVE  \/ Flagged(r, SwitchedRow(r, old, new)) \/ Stopped(r, SwitchedRow(r, old, new))
         \/ r.state = "paused" /\ Superseded(r, SwitchedRow(r, old, new), "queued")
  <1>1. Flagged(r, r) BY DEF Flagged
  <1>2. r.state \in {"queued"} \union Leasable =>
          Flagged(r, PausedRow(r, TRUE)) \/ Stopped(r, PausedRow(r, TRUE))
    BY OperatedIs DEF Stopped, Stoppable, Leasable
  <1>3. Flagged(r, StoppedRow(r, "skipped")) \/ Stopped(r, StoppedRow(r, "skipped"))
    BY OperatedIs DEF Stopped
  <1>4. r.state = "paused" => Superseded(r, ResumedRow(r), "queued") BY OperatedIs
  <1> QED BY <1>1, <1>2, <1>3, <1>4 DEF SwitchedRow

\* Each of the three moves a row as a step may.
LEMMA OperatedMoves ==
  ASSUME Inv, NEW j \in Jobs, exec' = exec,
         \/ Flagged(row[j], row'[j]) \/ Stopped(row[j], row'[j])
         \/ Superseded(row[j], row'[j], "queued")
  PROVE  RowMoves(j)
  <1>0. RowOK(row[j]) BY DEF Inv
  <1>1. CASE Flagged(row[j], row'[j]) BY <1>0, <1>1, CalmFlags DEF Flagged, RowMoves
  <1>2. CASE Stopped(row[j], row'[j])
    BY <1>0, <1>2, CalmEnd DEF Stopped, Stoppable, Superseded, RowMoves, TERMINAL
  <1>3. CASE Superseded(row[j], row'[j], "queued")
    BY <1>3 DEF Superseded, RowMoves, Revived
  <1> QED BY <1>1, <1>2, <1>3

\* What each of the operators' actions writes to each row; a job is queued
\* again only with an outbox row of its new generation.
OperatedJob(j) ==
  \/ Flagged(row[j], row'[j]) \/ Stopped(row[j], row'[j])
  \/ /\ Superseded(row[j], row'[j], "queued")
     /\ Enqueue(outbox, j, row'[j]) \subseteq outbox'

\* Of the operators' actions.
LEMMA OperateWrites ==
  ASSUME Inv, Operate
  PROVE  /\ \A j \in Jobs : OperatedJob(j)
         /\ outbox \subseteq outbox'
         /\ UNCHANGED <<broker, exec, swallowed, loader>>
  <1>0. /\ \A j \in Jobs : row[j] \in Row /\ Flagged(row[j], row[j])
        /\ row \in [Jobs -> Row]
    BY DEF Inv, TypeOK, Flagged
  <1>e. \A ob, j, r : ob \subseteq Enqueue(ob, j, r) BY DEF Enqueue
  <1>1. ASSUME NEW j \in Jobs, PauseJob(j)
        PROVE  (\A i \in Jobs : OperatedJob(i)) /\ outbox \subseteq outbox'
    <2>1. row' = [row EXCEPT ![j] = PausedRow(row[j], FALSE)] /\ outbox' = outbox
          /\ row[j].state \in {"queued"} \union Leasable
      BY <1>1 DEF PauseJob
    <2>2. Flagged(row[j], PausedRow(row[j], FALSE)) \/ Stopped(row[j], PausedRow(row[j], FALSE))
      BY <1>0, <2>1, OperatedIs DEF Stopped, Stoppable, Leasable
    <2> QED BY <1>0, <2>1, <2>2 DEF OperatedJob
  <1>2. ASSUME NEW j \in Jobs, ResumeJob(j)
        PROVE  (\A i \in Jobs : OperatedJob(i)) /\ outbox \subseteq outbox'
    <2> DEFINE n == ResumedRow(row[j])
    <2>1. row' = [row EXCEPT ![j] = n]
          /\ outbox' = IF n.state = "queued" THEN Enqueue(outbox, j, n) ELSE outbox
      BY <1>2 DEF ResumeJob
    <2>2. Flagged(row[j], n) \/ Superseded(row[j], n, "queued") BY <1>0, OperatedIs
    <2> HIDE DEF n
    <2>3. row'[j] = n /\ \A i \in Jobs : i # j => row'[i] = row[i] BY <1>0, <2>1
    <2>4. OperatedJob(j) BY <2>1, <2>2, <2>3 DEF OperatedJob, Superseded
    <2> QED BY <1>0, <1>e, <2>1, <2>3, <2>4 DEF OperatedJob
  <1>3. ASSUME NEW j \in Jobs, RetryJob(j)
        PROVE  (\A i \in Jobs : OperatedJob(i)) /\ outbox \subseteq outbox'
    <2> DEFINE n == RetriedRow(row[j])
    <2>1. row' = [row EXCEPT ![j] = n] /\ outbox' = Enqueue(outbox, j, n)
      BY <1>3 DEF RetryJob
    <2>2. Superseded(row[j], n, "queued") BY <1>0, OperatedIs
    <2> HIDE DEF n
    <2>3. row'[j] = n /\ \A i \in Jobs : i # j => row'[i] = row[i] BY <1>0, <2>1
    <2>4. OperatedJob(j) BY <2>1, <2>2, <2>3 DEF OperatedJob
    <2> QED BY <1>0, <1>e, <2>1, <2>3, <2>4 DEF OperatedJob
  <1>4. ASSUME NEW js, CancelJobs(js)
        PROVE  (\A i \in Jobs : OperatedJob(i)) /\ outbox \subseteq outbox'
    <2>1. \A j \in Jobs : row'[j] = row[j] \/ row'[j] = StoppedRow(row[j], "cancelled")
      BY <1>4 DEF CancelJobs
    <2>2. \A j \in Jobs : \/ Flagged(row[j], StoppedRow(row[j], "cancelled"))
                          \/ Stopped(row[j], StoppedRow(row[j], "cancelled"))
      BY <1>0, OperatedIs DEF Stopped
    <2> QED BY <1>0, <1>4, <2>1, <2>2 DEF OperatedJob, CancelJobs
  <1>5. ASSUME NEW s \in Sources, NEW new \in Setting, UpdateSource(s, new)
        PROVE  (\A i \in Jobs : OperatedJob(i)) /\ outbox \subseteq outbox'
    <2> DEFINE after(j) == SwitchedRow(row[j], setting[s], new)
    <2>1. /\ \A j \in Jobs : row'[j] = IF SourceOf[j] = s THEN after(j) ELSE row[j]
          /\ outbox \subseteq outbox'
          /\ \A j \in Jobs : SourceOf[j] = s /\ after(j).state = "queued" /\ row[j].state = "paused"
               => Enqueue(outbox, j, after(j)) \subseteq outbox'
      BY <1>5 DEF UpdateSource
    <2>2. \A j \in Jobs : \/ Flagged(row[j], after(j)) \/ Stopped(row[j], after(j))
                          \/ row[j].state = "paused" /\ Superseded(row[j], after(j), "queued")
      BY <1>0, SwitchedIs
    <2> HIDE DEF after
    <2> QED BY <1>0, <2>1, <2>2 DEF OperatedJob, Superseded
  <1>6. UNCHANGED <<broker, exec, swallowed, loader>>
    BY DEF Operate, PauseJob, ResumeJob, RetryJob, CancelJobs, UpdateSource
  <1> QED BY <1>1, <1>2, <1>3, <1>4, <1>5, <1>6 DEF Operate

\* What operators do to the rows.
LEMMA OperateMoves == ASSUME Inv, Operate PROVE StepMoves
  <1>1. (\A j \in Jobs : OperatedJob(j)) /\ exec' = exec /\ loader' = loader BY OperateWrites
  <1>2. \A j \in Jobs : RowMoves(j) BY <1>1, OperatedMoves DEF OperatedJob
  <1> QED BY <1>1, <1>2, SlotsRest DEF StepMoves, LoaderMoves

\* Every step moves rows and slots in one of these ways.
LEMMA NextMoves == ASSUME Inv, [Next]_vars PROVE StepMoves
  <1>1. CASE UNCHANGED vars
    BY <1>1, RowsRest, SlotsRest DEF vars, StepMoves, LoaderMoves
  <1>2. CASE Next
    BY <1>2, DispatchMoves, OperateMoves, PassageMoves, ExecuteMoves, FailMoves, ReserveMoves
       DEF Next
  <1> QED BY <1>1, <1>2

\* What an execution that settled for good reason, or has collected, may rely
\* on: its delivery is no newer than the row; one that only has to acknowledge
\* leaves a row that does not wait for that delivery; and one about to record a
\* collection under its token is the one that loaded it.
SlotsOfRows ==
  \A w \in Workers : exec[w].phase # "idle" => exec[w].msg.gen <= row[JobOf(w)].gen
AckIsFinal ==
  \A w \in Workers :
    exec[w].phase = "acking" /\ exec[w].why = "none" =>
      exec[w].msg.gen < row[JobOf(w)].gen \/ row[JobOf(w)].state \notin Active
LoadedByOwner ==
  \A w \in Workers :
    exec[w].phase = "finishing" /\ exec[w].outcome \in Collected /\ Owns(w) =>
      loader[JobOf(w)] = w
SlotInv == SlotsOfRows /\ AckIsFinal /\ LoadedByOwner

\* Generations only grow, and a row that is down gets up with a new one.
LEMMA GenerationsGrow ==
  ASSUME Inv, Inv', StepMoves, NEW j \in Jobs
  PROVE  /\ row[j].gen \in Nat /\ row'[j].gen \in Nat /\ row'[j].gen >= row[j].gen
         /\ row'[j].state \in Active => row[j].state \in Active \/ row'[j].gen > row[j].gen
  <1>1. row[j] \in Row /\ row'[j] \in Row BY DEF Inv, TypeOK
  <1>2. row[j].gen \in Nat /\ row'[j].gen \in Nat /\ row[j].state \in States BY <1>1 DEF Row
  <1>3. RowMoves(j) BY DEF StepMoves
  <1>4. CASE Calm(row[j], row'[j])
    BY <1>2, <1>4 DEF Calm, Rests, Active, States, Leasable, TERMINAL
  <1>5. CASE Revived(j) BY <1>2, <1>5 DEF Revived
  <1>6. CASE Recorded(j) BY <1>2, <1>6 DEF Recorded, Active, Leasable, TERMINAL
  <1>7. CASE Taken(j) BY <1>2, <1>7 DEF Taken
  <1> QED BY <1>2, <1>3, <1>4, <1>5, <1>6, <1>7 DEF RowMoves

\* A row's token is its old one, gone, or that of a slot just reserved.
LEMMA TokensMove ==
  ASSUME Inv, StepMoves, NEW j \in Jobs, NEW w \in Workers, row'[j].token = w
  PROVE  row[j].token = w \/ exec'[w].phase = "reserved"
  <1>1. RowMoves(j) BY DEF StepMoves
  <1> QED BY <1>1, NobodyIsNoWorker DEF RowMoves, Calm, Revived, Recorded, Taken

\* All three are kept by every step.
LEMMA SlotsKeep ==
  ASSUME Inv, Inv', StepMoves, SlotInv
  PROVE  SlotInv'
  <1> SUFFICES ASSUME NEW w \in Workers, exec'[w].phase # "idle"
               PROVE  /\ exec'[w].msg.gen <= row'[exec'[w].msg.job].gen
                      /\ exec'[w].phase = "acking" /\ exec'[w].why = "none" =>
                           \/ exec'[w].msg.gen < row'[exec'[w].msg.job].gen
                           \/ row'[exec'[w].msg.job].state \notin Active
                      /\ /\ exec'[w].phase = "finishing" /\ exec'[w].outcome \in Collected
                         /\ row'[exec'[w].msg.job].token = w
                         => loader'[exec'[w].msg.job] = w
    BY DEF SlotInv, SlotsOfRows, AckIsFinal, LoadedByOwner, Owns, JobOf
  <1> DEFINE m == exec'[w].msg
             j == m.job
  <1>1. m \in Message BY DEF Inv, ExecOK
  <1>2. j \in Jobs /\ m.gen \in Nat BY <1>1, MessageJob
  <1>3. /\ row[j].gen \in Nat /\ row'[j].gen \in Nat /\ row'[j].gen >= row[j].gen
        /\ row'[j].state \in Active => row[j].state \in Active \/ row'[j].gen > row[j].gen
    BY <1>2, GenerationsGrow
  <1>4. SlotMoves(w) BY DEF StepMoves
  <1>5. m = exec[w].msg /\ exec[w].phase # "idle" => m.gen <= row[j].gen
    BY DEF SlotInv, SlotsOfRows, JobOf
  <1>6. CASE exec'[w].phase = "reserved" /\ m.gen = row[j].gen
    BY <1>2, <1>3, <1>6
  <1>7. CASE exec'[w] = exec[w]
    <2>1. m.gen <= row'[j].gen BY <1>2, <1>3, <1>5, <1>7
    <2>2. exec'[w].phase = "acking" /\ exec'[w].why = "none" =>
            m.gen < row'[j].gen \/ row'[j].state \notin Active
      <3>1. exec'[w].phase = "acking" /\ exec'[w].why = "none" =>
              m.gen < row[j].gen \/ row[j].state \notin Active
        BY <1>7 DEF SlotInv, AckIsFinal, JobOf
      <3> QED BY <1>2, <1>3, <1>5, <1>7, <3>1
    <2>3. ASSUME exec'[w].phase = "finishing", exec'[w].outcome \in Collected, row'[j].token = w
          PROVE  loader'[j] = w
      <3>1. row[j].token = w BY <1>2, <2>3, TokensMove
      <3>2. loader[j] = w BY <1>7, <2>3, <3>1 DEF SlotInv, LoadedByOwner, Owns, JobOf
      <3>3. ~Taken(j)
        <4> SUFFICES ASSUME NEW v \in Workers, row'[j].token = v, exec'[v].phase = "reserved"
                     PROVE  FALSE
          BY DEF Taken
        <4> QED BY <2>3
      <3>4. LoaderMoves(j) BY <1>2 DEF StepMoves
      <3> QED BY <3>1, <3>2, <3>3, <3>4 DEF LoaderMoves
    <2> QED BY <2>1, <2>2, <2>3
  <1>8. CASE /\ exec[w].phase # "idle" /\ exec'[w].msg = exec[w].msg
             /\ exec'[w].phase = "acking" /\ exec'[w].why = "none" =>
                  row'[JobOf(w)].state \notin Active \/ row'[JobOf(w)].gen > row[JobOf(w)].gen
             /\ exec'[w].phase = "finishing" /\ exec'[w].outcome \in Collected =>
                  loader'[JobOf(w)] = w
    <2>1. JobOf(w) = j /\ m.gen <= row[j].gen BY <1>5, <1>8 DEF JobOf
    <2> QED BY <1>2, <1>3, <1>8, <2>1
  <1> QED BY <1>4, <1>6, <1>7, <1>8 DEF SlotMoves

\* No slot is busy at first.
LEMMA InitSlots == Init => SlotInv
  <1>1. Idle.phase = "idle" BY DEF Idle
  <1> QED BY <1>1 DEF Init, SlotInv, SlotsOfRows, AckIsFinal, LoadedByOwner

\* Every step keeps them.
LEMMA NextSlots == Inv /\ Inv' /\ SlotInv /\ [Next]_vars => SlotInv'
  BY NextMoves, SlotsKeep

\* So they hold of every reachable state.
THEOREM SlotInvariance == Spec => []SlotInv
  BY InitSlots, NextSlots, Invariance, PTL DEF Spec

\* A finished or parked job is set going again only by an operator (resume_job,
\* retry_job, update_source), under a new generation and without touching any
\* execution: no late worker, redelivery, redrive or reconcile revives it, and
\* an outcome once recorded by finish_job is not replaced.
THEOREM FinishedStaysFinished == Spec => OnlyOperatorsRevive
  <1>1. ASSUME Inv, [Next]_vars, NEW j \in Jobs,
               \/ row[j].state \in TERMINAL /\ row'[j].state # row[j].state
               \/ row[j].state = "paused" /\ row'[j].state \notin TERMINAL \union {"paused"}
        PROVE  /\ row'[j].state = "queued" /\ row'[j].gen = row[j].gen + 1
               /\ UNCHANGED exec
    <2>1. RowMoves(j) BY <1>1, NextMoves DEF StepMoves
    <2>2. ~Calm(row[j], row'[j]) BY <1>1 DEF Calm, Rests
    <2>3. ~Taken(j) BY <1>1 DEF Taken, Active, Leasable, TERMINAL
    <2>4. ~Recorded(j)
      <3> SUFFICES ASSUME NEW w \in Workers, exec[w].phase = "finishing", JobOf(w) = j, Owns(w)
                   PROVE  FALSE
        BY DEF Recorded
      <3>1. row[j].state \in Leasable BY <1>1, OwnedIsLeased
      <3> QED BY <1>1, <3>1 DEF Leasable, TERMINAL
    <2> QED BY <2>1, <2>2, <2>3, <2>4 DEF RowMoves, Revived
  <1>2. Inv /\ [Next]_vars =>
          [\A j \in Jobs :
             \/ row[j].state \in TERMINAL /\ row'[j].state # row[j].state
             \/ row[j].state = "paused" /\ row'[j].state \notin TERMINAL \union {"paused"}
             => /\ row'[j].state = "queued" /\ row'[j].gen = row[j].gen + 1
                /\ UNCHANGED exec]_vars
    BY <1>1
  <1> QED BY <1>2, Invariance, PTL DEF Spec, OnlyOperatorsRevive

\* finish_job records a collection only for the execution whose load the
\* catalogue holds: _load_fenced and finish_job compare the same token, and a
\* reservation in between takes it away.
THEOREM CollectedIsLoaded == Spec => FinishedByItsLoader
  <1>1. ASSUME Inv, SlotInv, [Next]_vars, NEW j \in Jobs,
               row[j].state = "running", row'[j].state \in Collected
        PROVE  loader[j] = row[j].token
    <2>1. RowMoves(j) BY <1>1, NextMoves DEF StepMoves
    <2>2. Recorded(j) BY <1>1, <2>1 DEF RowMoves, Calm, Revived, Taken, Collected
    <2>3. PICK w \in Workers : /\ exec[w].phase = "finishing" /\ JobOf(w) = j /\ Owns(w)
                               /\ row'[j].state = exec[w].outcome
      BY <2>2 DEF Recorded
    <2> QED BY <1>1, <2>3 DEF SlotInv, LoadedByOwner, Owns
  <1>2. Inv /\ SlotInv /\ [Next]_vars =>
          [\A j \in Jobs :
             row[j].state = "running" /\ row'[j].state \in {"succeeded", "degraded"} =>
               loader[j] = row[j].token]_vars
    BY <1>1 DEF Collected
  <1> QED BY <1>2, Invariance, SlotInvariance, PTL DEF Spec, FinishedByItsLoader

-----------------------------------------------------------------------------
(* What carries a job.  CarrierKept is not inductive: an outbox row that   *)
(* was published in a tick that rolled back is still unpublished, and      *)
(* JetStream will drop it as a duplicate once the message it sent is gone. *)
(* So an unpublished row counts only while the broker has not seen its key *)
(* and, with that, whether the source is on hold does not matter.          *)

Clean(j) == \A why \in Reasons : ~Swallowed(j, why)

WithBroker(j) == \E m \in queue \union dlq : m.job = j /\ m.gen = row[j].gen
Unsent(j) ==
  /\ <<j, row[j].gen>> \notin known
  /\ \E o \in outbox : o.job = j /\ o.gen = row[j].gen /\ ~o.published

KeysOfRows == \A k \in known : k[2] <= row[k[1]].gen
Carrying == \A j \in Jobs : row[j].state \in Active /\ Clean(j) => WithBroker(j) \/ Unsent(j)
CarryInv == KeysOfRows /\ Carrying

\* A step of a worker, an operator or the clock: no unpublished row is lost, a
\* job that gets a new generation and waits for it is enqueued, and a message
\* goes only when its job does not wait for it or the loss is in the history.
UnsentKept ==
  \A o \in outbox : ~o.published =>
    \E p \in outbox' : p.job = o.job /\ p.gen = o.gen /\ ~p.published
Requeued(j) ==
  \/ row'[j].gen = row[j].gen \/ row'[j].state \notin Active
  \/ row'[j].gen = row[j].gen + 1 /\ Enqueue(outbox, j, row'[j]) \subseteq outbox'
Spared(m) ==
  \/ m \in queue' \union dlq' \/ m.gen # row'[m.job].gen
  \/ row'[m.job].state \notin Active \/ ~Clean(m.job)'

\* A row enqueued under a new generation is unpublished and its key is new.
LEMMA EnqueuedIsUnsent ==
  ASSUME Inv, Inv', KeysOfRows, NEW j \in Jobs, known' = known,
         row'[j].state \in Active, row'[j].gen = row[j].gen + 1,
         Enqueue(outbox, j, row'[j]) \subseteq outbox'
  PROVE  Unsent(j)'
  <1>1. row[j].gen \in Nat BY DEF Inv, TypeOK, Row
  <1>2. ~\E o \in outbox : o.job = j /\ o.gen = row'[j].gen
    <2> SUFFICES ASSUME NEW o \in outbox, o.job = j, o.gen = row'[j].gen PROVE FALSE
      OBVIOUS
    <2>1. o.gen <= row[j].gen BY DEF Inv, DeliveriesRouted, OfRow
    <2> QED BY <1>1, <2>1
  <1>3. row'[j].state \notin TERMINAL BY DEF Active, Leasable, TERMINAL
  <1> DEFINE o == [job |-> j, gen |-> row'[j].gen, route |-> RouteOf(row'[j]),
                   avail |-> row'[j].due, published |-> FALSE]
  <1>4. o \in outbox' BY <1>2, <1>3 DEF Enqueue
  <1>5. o.job = j /\ o.gen = row'[j].gen /\ ~o.published OBVIOUS
  <1>6. <<j, row'[j].gen>> \notin known
    <2> SUFFICES ASSUME <<j, row'[j].gen>> \in known PROVE FALSE
      OBVIOUS
    <2>1. row'[j].gen <= row[j].gen BY DEF KeysOfRows
    <2> QED BY <1>1, <2>1
  <1> HIDE DEF o
  <1> QED BY <1>4, <1>5, <1>6 DEF Unsent

\* Such a step preserves the invariant.
LEMMA CarrierStep ==
  ASSUME Inv, Inv', StepMoves, CarryInv, known' = known, swallowed \subseteq swallowed',
         UnsentKept, \A j \in Jobs : Requeued(j), \A m \in queue \union dlq : Spared(m)
  PROVE  CarryInv'
  <1>1. KeysOfRows'
    <2> SUFFICES ASSUME NEW k \in known PROVE k[2] <= row'[k[1]].gen
      BY DEF KeysOfRows
    <2>1. k[1] \in Jobs /\ k[2] \in Nat BY DEF Inv, TypeOK
    <2>2. k[2] <= row[k[1]].gen BY DEF CarryInv, KeysOfRows
    <2> QED BY <2>1, <2>2, GenerationsGrow
  <1>2. ASSUME NEW j \in Jobs, row'[j].state \in Active, Clean(j)'
        PROVE  WithBroker(j)' \/ Unsent(j)'
    <2>1. CASE row'[j].gen = row[j].gen + 1 /\ Enqueue(outbox, j, row'[j]) \subseteq outbox'
      BY <1>2, <2>1, EnqueuedIsUnsent DEF CarryInv
    <2>2. CASE row'[j].gen = row[j].gen
      <3>1. row[j].state \in Active BY <1>2, <2>2, GenerationsGrow
      <3>2. Clean(j) BY <1>2, <2>2 DEF Clean, Swallowed
      <3>3. CASE WithBroker(j)
        <4>1. PICK m \in queue \union dlq : m.job = j /\ m.gen = row[j].gen
          BY <3>3 DEF WithBroker
        <4>2. Clean(m.job)' BY <1>2, <4>1
        <4>3. m \in queue' \union dlq' BY <1>2, <2>2, <4>1, <4>2 DEF Spared
        <4> QED BY <2>2, <4>1, <4>3 DEF WithBroker
      <3>4. CASE Unsent(j)
        <4>1. PICK o \in outbox : o.job = j /\ o.gen = row[j].gen /\ ~o.published
          BY <3>4 DEF Unsent
        <4>2. PICK p \in outbox' : p.job = j /\ p.gen = row[j].gen /\ ~p.published
          BY <4>1 DEF UnsentKept
        <4> QED BY <2>2, <3>4, <4>2 DEF Unsent
      <3> QED BY <3>1, <3>2, <3>3, <3>4 DEF CarryInv, Carrying
    <2> QED BY <1>2, <2>1, <2>2 DEF Requeued
  <1>3. Carrying' BY <1>2 DEF Carrying
  <1> QED BY <1>1, <1>3 DEF CarryInv

\* A message the dispatcher sends is with the broker, or was there before.
LEMMA TickCarries ==
  ASSUME Inv, Inv', StepMoves, CarryInv, NEW ok \in SUBSET Reconstructed,
         Published({Envelope(o) : o \in ok}), swallowed' = swallowed,
         \A j \in Jobs : row'[j].gen = row[j].gen,
         \A o \in outbox : ~o.published => o \in ok \/
           \E p \in outbox' : p.job = o.job /\ p.gen = o.gen /\ ~p.published
  PROVE  CarryInv'
  <1> DEFINE ms == {Envelope(o) : o \in ok}
  <1>1. /\ queue' = queue \union {m \in ms : Provider = "nats" => <<m.job, m.gen>> \notin known}
        /\ dlq' = dlq
        /\ \A k \in known' : k \in known \/ \E m \in ms : k = <<m.job, m.gen>>
    BY DEF Published
  <1>2. \A o \in ok : /\ Envelope(o) \in ms
                      /\ Envelope(o).job = o.job /\ Envelope(o).gen = o.gen
    BY DEF Envelope
  <1>3. \A m \in ms : \E o \in ok : m.job = o.job /\ m.gen = o.gen BY DEF Envelope
  <1> HIDE DEF ms
  <1>4. \A o \in ok : o.job \in Jobs /\ o.gen \in Nat /\ o.gen <= row[o.job].gen
    BY ReconstructedOK DEF Entry, OfRow
  <1>5. KeysOfRows'
    <2> SUFFICES ASSUME NEW k \in known' PROVE k[2] <= row'[k[1]].gen
      BY DEF KeysOfRows
    <2>1. CASE k \in known
      <3>1. k[1] \in Jobs BY <2>1 DEF Inv, TypeOK
      <3> QED BY <2>1, <3>1 DEF CarryInv, KeysOfRows
    <2>2. CASE k \notin known
      <3>1. PICK m \in ms : k = <<m.job, m.gen>> BY <1>1, <2>2
      <3>2. PICK o \in ok : m.job = o.job /\ m.gen = o.gen BY <1>3
      <3> QED BY <1>4, <3>1, <3>2
    <2> QED BY <2>1, <2>2
  <1>6. ASSUME NEW j \in Jobs, row'[j].state \in Active, Clean(j)'
        PROVE  WithBroker(j)' \/ Unsent(j)'
    <2>0. row'[j].gen = row[j].gen /\ row[j].gen \in Nat BY GenerationsGrow
    <2>1. row[j].state \in Active BY <1>6, <2>0, GenerationsGrow
    <2>2. Clean(j) BY <1>6, <2>0 DEF Clean, Swallowed
    <2>3. CASE WithBroker(j) BY <1>1, <2>0, <2>3 DEF WithBroker
    <2>4. CASE Unsent(j)
      <3>1. PICK o \in outbox : o.job = j /\ o.gen = row[j].gen /\ ~o.published
        BY <2>4 DEF Unsent
      <3>2. CASE \E q \in ok : q.job = j /\ q.gen = row[j].gen
        <4>1. PICK q \in ok : q.job = j /\ q.gen = row[j].gen BY <3>2
        <4>2. Envelope(q) \in queue' BY <1>1, <1>2, <2>4, <4>1 DEF Unsent
        <4> QED BY <1>2, <2>0, <4>1, <4>2 DEF WithBroker
      <3>3. CASE ~\E q \in ok : q.job = j /\ q.gen = row[j].gen
        <4>1. <<j, row[j].gen>> \notin known'
          <5> SUFFICES ASSUME <<j, row[j].gen>> \in known' PROVE FALSE
            OBVIOUS
          <5>1. PICK m \in ms : <<j, row[j].gen>> = <<m.job, m.gen>>
            BY <1>1, <2>4 DEF Unsent
          <5>2. m.job = j /\ m.gen = row[j].gen BY <5>1
          <5> QED BY <1>3, <3>3, <5>2
        <4>2. PICK p \in outbox' : p.job = j /\ p.gen = row[j].gen /\ ~p.published
          BY <3>1, <3>3
        <4> QED BY <2>0, <4>1, <4>2 DEF Unsent
      <3> QED BY <3>2, <3>3
    <2> QED BY <2>1, <2>2, <2>3, <2>4 DEF CarryInv, Carrying
  <1>7. Carrying' BY <1>6 DEF Carrying
  <1> QED BY <1>5, <1>7 DEF CarryInv

SameGens == \A j \in Jobs : row'[j].gen = row[j].gen

\* One row is written and keeps its generation.
LEMMA OneGen ==
  ASSUME Inv, NEW j \in Jobs, NEW n, row' = [row EXCEPT ![j] = n], n.gen = row[j].gen
  PROVE  SameGens
  BY DEF SameGens, Inv, TypeOK

\* A step that touches neither outbox nor broker nor history and supersedes
\* nothing.
LEMMA QuietStep ==
  ASSUME Inv, Inv', StepMoves, CarryInv, SameGens, UNCHANGED <<outbox, broker, swallowed>>
  PROVE  CarryInv'
  <1>1. known' = known /\ queue' = queue /\ dlq' = dlq /\ outbox' = outbox BY DEF broker
  <1>2. UnsentKept BY <1>1 DEF UnsentKept
  <1>3. \A j \in Jobs : Requeued(j) BY DEF SameGens, Requeued
  <1>4. \A m \in queue \union dlq : Spared(m) BY <1>1 DEF Spared
  <1> QED BY <1>1, <1>2, <1>3, <1>4, CarrierStep

\* A step that acknowledges a message its job can spare, or whose loss it
\* writes into the history.
LEMMA AckCarries ==
  ASSUME Inv, Inv', StepMoves, CarryInv, NEW m, AckedOrNot(m), Spared(m),
         swallowed \subseteq swallowed', outbox \subseteq outbox',
         \A j \in Jobs : Requeued(j)
  PROVE  CarryInv'
  <1>1. known' = known /\ dlq' = dlq /\ (queue' = queue \ {m} \/ queue' = queue)
    BY DEF AckedOrNot, Acked, broker
  <1>2. \A x \in queue \union dlq : Spared(x) BY <1>1 DEF Spared
  <1>3. UnsentKept BY DEF UnsentKept
  <1> QED BY <1>1, <1>2, <1>3, CarrierStep

\* A swallowed message is in the history, for ever.
LEMMA SwallowSpares ==
  ASSUME Inv, NEW m \in Message, NEW why \in Reasons, Swallow(m.job, m.gen, why), row' = row
  PROVE  Spared(m) /\ swallowed \subseteq swallowed'
  <1>1. swallowed \subseteq swallowed' BY DEF Swallow
  <1>2. CASE m.gen = row[m.job].gen
    <2>1. [job |-> m.job, gen |-> row'[m.job].gen, why |-> why] \in swallowed'
      BY <1>2 DEF Swallow
    <2>2. ~Clean(m.job)' BY <2>1 DEF Clean, Swallowed
    <2> QED BY <1>1, <2>2 DEF Spared
  <1>3. CASE m.gen # row[m.job].gen BY <1>1, <1>3 DEF Spared
  <1> QED BY <1>2, <1>3

\* A current delivery is on the route reserve() settles on.
LEMMA CurrentIsRouted ==
  ASSUME Inv, NEW w \in Workers, NEW m \in queue, Current(m)
  PROVE  ~Misrouted(w, m)
  <1>1. m \in Message /\ OfRow(m) BY DEF Inv, TypeOK, DeliveriesRouted
  <1>2. m.route = RouteOf(row[m.job]) BY <1>1 DEF Current, OfRow
  <1>3. row[m.job].backend \in Backends \union {NoBackend}
    BY <1>1, MessageJob DEF Inv, RowOK, Row
  <1> QED BY <1>2, <1>3 DEF Misrouted, Selected, RouteOf, Backends, NoBackend

\* reserve() acknowledges what its job can spare.
LEMMA ReserveCarries ==
  ASSUME Inv, Inv', StepMoves, CarryInv, NEW w \in Workers, NEW m \in queue, Reserve(w, m)
  PROVE  CarryInv'
  <1>1. m \in Message BY DEF Inv, TypeOK
  <1>2. m.job \in Jobs BY <1>1, MessageJob
  <1> DEFINE j == m.job
             r == row[j]
  <1>3. RowOK(r) /\ r \in Row /\ row \in [Jobs -> Row] BY <1>2 DEF Inv, TypeOK
  <1>s. row' = row => \A i \in Jobs : Requeued(i) BY DEF Requeued
  <1>4. CASE ReserveDrops(w, m)
    <2>1. ~Current(m) BY <1>4, CurrentIsRouted DEF ReserveDrops, Open, Due
    <2>2. row' = row /\ AckedOrNot(m) /\ outbox' = outbox /\ swallowed' = swallowed
      BY <1>4 DEF ReserveDrops, AckedOrNot
    <2>3. Spared(m)
      BY <2>1, <2>2 DEF Spared, Current, Active, Leasable, TERMINAL
    <2> QED BY <1>s, <2>2, <2>3, AckCarries
  <1>5. ASSUME NEW s \in {"cancelled", "skipped", "failed"},
               row' = [row EXCEPT ![j] = Ended(r, s)], AckedOrNot(m),
               outbox' = outbox, swallowed' = swallowed
        PROVE  CarryInv'
    <2>1. Ended(r, s).state = s /\ Ended(r, s).gen = r.gen BY <1>3, EndedIs
    <2>2. \A i \in Jobs : Requeued(i) BY <1>2, <1>5, <2>1, OneGen DEF SameGens, Requeued
    <2>3. row'[j].state \notin Active BY <1>2, <1>3, <1>5, <2>1 DEF Active, Leasable
    <2>4. Spared(m) BY <2>3 DEF Spared
    <2> QED BY <1>5, <2>2, <2>4, AckCarries
  <1>6. CASE ReserveEnds(w, m) BY <1>5, <1>6 DEF ReserveEnds
  <1>7. CASE ReserveOnHold(w, m)
    <2>1. row' = row /\ AckedOrNot(m) /\ outbox' = outbox /\ Swallow(j, m.gen, "held")
      BY <1>7 DEF ReserveOnHold, AckedOrNot
    <2>2. Spared(m) /\ swallowed \subseteq swallowed'
      BY <1>1, <2>1, SwallowSpares DEF Reasons
    <2> QED BY <1>s, <2>1, <2>2, AckCarries
  <1>8. CASE ReserveExhausted(w, m) BY <1>5, <1>8 DEF ReserveExhausted
  <1> DEFINE d == RoutedRow(w, m)
  <1>9. d.state = r.state /\ d.token = r.token /\ d.gen = r.gen BY <1>3 DEF RoutedRow, Row
  <1>10. d \in Row BY <1>1, <1>3, SelectedOK DEF RoutedRow, Row
  <1>11. CASE ReserveReroutes(w, m)
    <2>1. /\ row' = [row EXCEPT ![j] = Bumped(d)] /\ outbox' = Enqueue(outbox, j, Bumped(d))
          /\ AckedOrNot(m) /\ swallowed' = swallowed /\ m.gen = r.gen
      BY <1>11 DEF ReserveReroutes, Runnable, Open, Due, Current
    <2> HIDE DEF d
    <2>2. Bumped(d).gen = r.gen + 1 BY <1>9, <1>10, EndedIs
    <2>3. row'[j] = Bumped(d) /\ \A i \in Jobs : i # j => row'[i] = row[i]
      BY <1>2, <1>3, <2>1
    <2>4. \A i \in Jobs : Requeued(i) BY <2>1, <2>2, <2>3 DEF Requeued
    <2>5. outbox \subseteq outbox' BY <2>1 DEF Enqueue
    <2>6. row[j].gen \in Nat BY <1>3 DEF Row
    <2>7. Spared(m) BY <2>1, <2>2, <2>3, <2>6 DEF Spared
    <2> QED BY <2>1, <2>4, <2>5, <2>7, AckCarries
  <1>12. CASE ReserveRuns(w, m)
    <2> DEFINE n == [d EXCEPT !.state = "leased", !.token = w, !.lease = "live"]
    <2>1. row' = [row EXCEPT ![j] = n] /\ UNCHANGED <<outbox, broker, swallowed>>
      BY <1>12 DEF ReserveRuns
    <2>2. n.gen = r.gen BY <1>9, <1>10 DEF Row
    <2> HIDE DEF n
    <2> QED BY <1>2, <2>1, <2>2, OneGen, QuietStep
  <1> QED BY <1>4, <1>6, <1>7, <1>8, <1>11, <1>12 DEF Reserve

\* A released job waits for the delivery it had.
LEMMA ReleaseGens ==
  ASSUME Inv, NEW w \in Workers, exec[w].phase # "idle", NEW due \in BOOLEAN,
         IF Owns(w) THEN SetRow(w, Released(row[JobOf(w)], due)) ELSE UNCHANGED row
  PROVE  SameGens
  <1>1. JobOf(w) \in Jobs /\ row[JobOf(w)] \in Row BY BusySlot
  <1>2. Released(row[JobOf(w)], due).gen = row[JobOf(w)].gen BY <1>1, EndedIs
  <1> QED BY <1>1, <1>2, OneGen DEF SetRow, SameGens

\* The execution's last acknowledgement is of a message its job can spare.
LEMMA ExecAckCarries ==
  ASSUME Inv, Inv', StepMoves, CarryInv, SlotInv, NEW w \in Workers, exec[w].phase # "idle",
         Acked(exec[w].msg), UNCHANGED <<row, outbox>>,
         \/ \E why \in Reasons : Swallow(JobOf(w), exec[w].msg.gen, why)
         \/ exec[w].phase = "acking" /\ exec[w].why = "none" /\ UNCHANGED swallowed
  PROVE  CarryInv'
  <1> DEFINE m == exec[w].msg
  <1>1. m \in Message /\ m.job = JobOf(w) /\ JobOf(w) \in Jobs /\ m.gen \in Nat
        /\ row[JobOf(w)].gen \in Nat
    BY BusySlot DEF JobOf, Row
  <1>2. Spared(m) /\ swallowed \subseteq swallowed'
    <2>1. CASE \E why \in Reasons : Swallow(JobOf(w), exec[w].msg.gen, why)
      BY <1>1, <2>1, SwallowSpares
    <2>2. CASE exec[w].phase = "acking" /\ exec[w].why = "none" /\ UNCHANGED swallowed
      <3>1. m.gen < row[m.job].gen \/ row[m.job].state \notin Active
        BY <1>1, <2>2 DEF SlotInv, AckIsFinal
      <3> QED BY <1>1, <2>2, <3>1 DEF Spared
    <2> QED BY <2>1, <2>2
  <1>3. AckedOrNot(m) /\ outbox \subseteq outbox' BY DEF AckedOrNot
  <1>4. \A j \in Jobs : Requeued(j) BY DEF Requeued
  <1> QED BY <1>2, <1>3, <1>4, AckCarries

\* The steps of an execution.
LEMMA ExecuteCarries ==
  ASSUME Inv, Inv', StepMoves, CarryInv, SlotInv, NEW w \in Workers, Execute(w)
  PROVE  CarryInv'
  <1> USE DEF At
  <1> DEFINE j == JobOf(w)
             r == row[j]
  <1>0. exec[w].phase # "idle" => j \in Jobs /\ r \in Row /\ row \in [Jobs -> Row]
    BY BusySlot DEF Inv, TypeOK
  <1>q. ASSUME row' = row, UNCHANGED <<outbox, broker, swallowed>> PROVE CarryInv'
    BY <1>q, QuietStep DEF SameGens
  <1>1. CASE HostBusy(w) BY <1>1, ReleaseGens, QuietStep DEF HostBusy
  <1>2. CASE Start(w)
    <2> DEFINE n == [r EXCEPT !.state = "running", !.lease = "live", !.resume = FALSE,
                              !.attempt = IF r.resume THEN r.attempt ELSE r.attempt + 1]
    <2>1. exec[w].phase = "reserved" /\ row' = [row EXCEPT ![j] = n]
      BY <1>2 DEF Start, SetRow
    <2>2. n.gen = r.gen BY <1>0, <2>1 DEF Row
    <2> HIDE DEF n
    <2> QED BY <1>0, <1>2, <2>1, <2>2, OneGen, QuietStep DEF Start
  <1>3. CASE StartRefused(w) BY <1>3, ExecAckCarries DEF StartRefused, Reasons
  <1>4. CASE Beat(w)
    <2> DEFINE n == [r EXCEPT !.lease = "live"]
    <2>1. exec[w].phase # "idle" /\ row' = [row EXCEPT ![j] = n] BY <1>4 DEF Beat, SetRow
    <2>2. n.gen = r.gen BY <1>0, <2>1 DEF Row
    <2> HIDE DEF n
    <2> QED BY <1>0, <1>4, <2>1, <2>2, OneGen, QuietStep DEF Beat
  <1>5. CASE CrawlEnds(w) BY <1>5, <1>q DEF CrawlEnds
  <1>6. CASE RetryTransient(w)
    <2>1. SameGens BY <1>6, ReleaseGens DEF RetryTransient
    <2> QED BY <1>6, <2>1, QuietStep DEF RetryTransient
  <1>7. CASE BrowserUnavailable(w)
    <2>0. exec[w].phase = "crawling" /\ UNCHANGED <<broker, swallowed>>
      BY <1>7 DEF BrowserUnavailable
    <2>1. CASE Owns(w) /\ ~r.browser
      <3> DEFINE b == Bumped(Ended(r, "queued"))
                 n == [b EXCEPT !.browser = TRUE, !.any = TRUE, !.backend = NoBackend,
                                !.resume = TRUE]
      <3>1. row' = [row EXCEPT ![j] = n] /\ outbox' = Enqueue(outbox, j, n)
        BY <1>7, <2>1 DEF BrowserUnavailable, SetRow
      <3>2. n.gen = r.gen + 1
        BY <1>0, <2>0 DEF Bumped, Ended, Unleased, Row
      <3> HIDE DEF n
      <3>3. row'[j] = n /\ \A i \in Jobs : i # j => row'[i] = row[i] BY <1>0, <2>0, <3>1
      <3>4. \A i \in Jobs : Requeued(i) BY <3>1, <3>2, <3>3 DEF Requeued
      <3>5. UnsentKept BY <3>1 DEF UnsentKept, Enqueue
      <3>6. known' = known /\ \A m \in queue \union dlq : Spared(m)
        BY <2>0 DEF broker, Spared
      <3> QED BY <2>0, <3>4, <3>5, <3>6, CarrierStep
    <2>2. CASE ~(Owns(w) /\ ~r.browser) BY <1>7, <1>q, <2>2 DEF BrowserUnavailable
    <2> QED BY <2>1, <2>2
  <1>8. CASE \E outcome \in LoadOutcomes : Load(w, outcome) BY <1>8, <1>q DEF Load
  <1>9. CASE ReadFlags(w) BY <1>9, <1>q DEF ReadFlags
  <1>10. ASSUME exec[w].phase # "idle", NEW n, n.gen = r.gen,
                IF Owns(w) THEN SetRow(w, n) ELSE UNCHANGED row,
                UNCHANGED <<outbox, broker, swallowed>>
         PROVE  CarryInv'
    <2>1. CASE Owns(w) BY <1>0, <1>10, <2>1, OneGen, QuietStep DEF SetRow
    <2>2. CASE ~Owns(w) BY <1>10, <1>q, <2>2
    <2> QED BY <2>1, <2>2
  <1>11. CASE Park(w)
    <2> DEFINE n == [Ended(r, "paused") EXCEPT !.pause = FALSE]
    <2>1. /\ exec[w].phase = "parking" /\ UNCHANGED <<outbox, broker, swallowed>>
          /\ IF Owns(w) THEN SetRow(w, n) ELSE UNCHANGED row
      BY <1>11 DEF Park
    <2>2. n.gen = r.gen BY <1>0, <2>1 DEF Ended, Unleased, Row
    <2> HIDE DEF n
    <2> QED BY <1>10, <2>1, <2>2
  <1>12. CASE Finish(w)
    <2> DEFINE n == [Ended(r, exec[w].outcome) EXCEPT !.pause = FALSE, !.resume = FALSE]
    <2>1. /\ exec[w].phase = "finishing" /\ UNCHANGED <<outbox, broker, swallowed>>
          /\ IF Owns(w) THEN SetRow(w, n) ELSE UNCHANGED row
      BY <1>12 DEF Finish
    <2>2. n.gen = r.gen BY <1>0, <2>1 DEF Ended, Unleased, Row
    <2> HIDE DEF n
    <2> QED BY <1>10, <2>1, <2>2
  <1>13. CASE AckDone(w)
    <2>1. exec[w].why \in Reasons \union {"none"}
      BY <1>13, BusySlot DEF AckDone, Execution
    <2> QED BY <1>13, <2>1, ExecAckCarries DEF AckDone
  <1> QED
    BY <1>1, <1>2, <1>3, <1>4, <1>5, <1>6, <1>7, <1>8, <1>9, <1>11, <1>12, <1>13 DEF Execute

\* Its failures.
LEMMA FailCarries ==
  ASSUME Inv, Inv', StepMoves, CarryInv, SlotInv, NEW w \in Workers, Fail(w)
  PROVE  CarryInv'
  <1> USE DEF At
  <1>q. ASSUME row' = row, UNCHANGED <<outbox, broker, swallowed>> PROVE CarryInv'
    BY <1>q, QuietStep DEF SameGens
  <1>1. CASE StopCrawl(w) BY <1>1, <1>q DEF StopCrawl
  <1>2. CASE StopTask(w)
    <2>1. CASE /\ exec[w].phase \in {"reserved", "abandoned"}
               /\ IF Owns(w) THEN SetRow(w, Released(row[JobOf(w)], TRUE)) ELSE UNCHANGED row
               /\ UNCHANGED <<broker, swallowed>>
      <3>1. SameGens BY <2>1, ReleaseGens
      <3> QED BY <1>2, <2>1, <3>1, QuietStep DEF StopTask
    <2>2. CASE /\ exec[w].phase \in {"crawling", "interrupted", "loading", "parking", "finishing"}
               /\ Acked(exec[w].msg)
               /\ Swallow(JobOf(w), exec[w].msg.gen, "stopped")
               /\ UNCHANGED row
      BY <1>2, <2>2, ExecAckCarries DEF StopTask, Reasons
    <2> QED BY <1>2, <2>1, <2>2 DEF StopTask
  <1>3. CASE DatabaseFails(w) BY <1>3, <1>q DEF DatabaseFails
  <1>4. CASE Crash(w) BY <1>4, <1>q DEF Crash
  <1> QED BY <1>1, <1>2, <1>3, <1>4 DEF Fail

\* The passage of time.
LEMMA PassageCarries ==
  ASSUME Inv, Inv', StepMoves, CarryInv, NEW j \in Jobs, Passage(j)
  PROVE  CarryInv'
  <1>0. row[j] \in Row BY DEF Inv, TypeOK
  <1>1. CASE LeaseLapse(j)
    <2> DEFINE n == [row[j] EXCEPT !.lease = "expired"]
    <2>1. row' = [row EXCEPT ![j] = n] BY <1>1 DEF LeaseLapse
    <2>2. n.gen = row[j].gen BY <1>0 DEF Row
    <2> HIDE DEF n
    <2> QED BY <1>1, <2>1, <2>2, OneGen, QuietStep DEF LeaseLapse
  <1>2. CASE Elapse(j)
    <2> DEFINE n == [row[j] EXCEPT !.due = TRUE]
    <2>1. row' = [row EXCEPT ![j] = n] BY <1>2 DEF Elapse
    <2>2. n.gen = row[j].gen BY <1>0 DEF Row
    <2> HIDE DEF n
    <2>3. SameGens BY <2>1, <2>2, OneGen
    <2>4. UnsentKept
      <3> SUFFICES ASSUME NEW o \in outbox, ~o.published
                   PROVE  \E p \in outbox' : p.job = o.job /\ p.gen = o.gen /\ ~p.published
        BY DEF UnsentKept
      <3> DEFINE p == [o EXCEPT !.avail = TRUE]
      <3>1. o \in Entry BY DEF Inv, TypeOK
      <3>2. p.job = o.job /\ p.gen = o.gen /\ p.published = o.published BY <3>1 DEF Entry
      <3>3. p \in outbox' \/ o \in outbox' BY <1>2 DEF Elapse
      <3> HIDE DEF p
      <3> QED BY <3>2, <3>3
    <2>5. known' = known /\ swallowed' = swallowed /\ \A m \in queue \union dlq : Spared(m)
      BY <1>2 DEF Elapse, broker, Spared
    <2>6. \A i \in Jobs : Requeued(i) BY <2>3 DEF SameGens, Requeued
    <2> QED BY <2>4, <2>5, <2>6, CarrierStep
  <1> QED BY <1>1, <1>2 DEF Passage

\* Operators.
LEMMA OperateCarries ==
  ASSUME Inv, Inv', StepMoves, CarryInv, Operate
  PROVE  CarryInv'
  <1>1. /\ \A j \in Jobs : OperatedJob(j)
        /\ outbox \subseteq outbox' /\ known' = known /\ queue' = queue /\ dlq' = dlq
        /\ swallowed' = swallowed
    BY OperateWrites DEF broker
  <1>2. \A j \in Jobs : Requeued(j)
    BY <1>1 DEF OperatedJob, Flagged, Stopped, Superseded, Requeued, Active, Leasable
  <1>3. UnsentKept BY <1>1 DEF UnsentKept
  <1>4. \A m \in queue \union dlq : Spared(m) BY <1>1 DEF Spared
  <1> QED BY <1>1, <1>2, <1>3, <1>4, CarrierStep

\* The dispatcher and the broker's dead-lettering.
LEMMA DispatchCarries ==
  ASSUME Inv, Inv', StepMoves, CarryInv, Dispatch
  PROVE  CarryInv'
  <1> DEFINE ob == Reconstructed
  <1>0. ob \in SUBSET Entry /\ outbox \subseteq ob /\ Pending(ob) \subseteq ob
    BY ReconstructedOK DEF Reconstructed, Pending
  <1>1. ASSUME NEW ok \in SUBSET Pending(ob), TickCommits(ok) PROVE CarryInv'
    <2>1. /\ Published({Envelope(o) : o \in ok}) /\ swallowed' = swallowed
          /\ outbox' = (ob \ Pending(ob))
                       \union {[o EXCEPT !.published = TRUE] : o \in ok}
                       \union {[o EXCEPT !.avail = FALSE] : o \in Pending(ob) \ ok}
          /\ \A j \in Jobs : row'[j] = Reconciled(row[j])
      BY <1>1 DEF TickCommits
    <2>2. \A j \in Jobs : row'[j].gen = row[j].gen
      <3>1. \A j \in Jobs : row[j] \in Row BY DEF Inv, TypeOK
      <3> QED BY <2>1, <3>1, EndedIs DEF Reconciled
    <2>3. ASSUME NEW o \in outbox, ~o.published, o \notin ok
          PROVE  \E p \in outbox' : p.job = o.job /\ p.gen = o.gen /\ ~p.published
      <3> DEFINE p == [o EXCEPT !.avail = FALSE]
      <3>1. o \in Entry BY <1>0
      <3>2. p.job = o.job /\ p.gen = o.gen /\ p.published = o.published BY <3>1 DEF Entry
      <3>3. o \in outbox' \/ p \in outbox' BY <1>0, <2>1, <2>3
      <3> HIDE DEF p
      <3> QED BY <2>3, <3>2, <3>3
    <2>4. ok \in SUBSET Reconstructed BY <1>0
    <2> QED BY <2>1, <2>2, <2>3, <2>4, TickCarries
  <1>2. ASSUME NEW ok \in SUBSET Pending(ob), TickRollsBack(ok) PROVE CarryInv'
    <2>1. /\ Published({Envelope(o) : o \in ok}) /\ swallowed' = swallowed
          /\ outbox' = outbox /\ row' = row
      BY <1>2 DEF TickRollsBack
    <2>2. ok \in SUBSET Reconstructed BY <1>0
    <2> QED BY <2>1, <2>2, TickCarries
  <1>3. ASSUME NEW m \in dlq, Redrive(m) PROVE CarryInv'
    <2> DEFINE j == m.job
               r == row[j]
               live == /\ r.gen = m.gen /\ r.state \in {"queued"} \union Leasable
                       /\ ~r.cancel /\ ~r.pause /\ Enabled(j) /\ ~SourcePaused(j)
    <2>1. m \in Message /\ j \in Jobs /\ row \in [Jobs -> Row] /\ r \in Row
      BY MessageJob DEF Inv, TypeOK
    <2>2. known' = known /\ queue' = queue /\ dlq' = dlq \ {m} BY <1>3 DEF Redrive
    <2>3. CASE live
      <3>1. /\ row' = [row EXCEPT ![j] = Bumped(r)] /\ outbox' = Enqueue(outbox, j, Bumped(r))
            /\ swallowed' = swallowed /\ m.gen = r.gen
        BY <1>3, <2>3 DEF Redrive
      <3>2. Bumped(r).gen = r.gen + 1 /\ r.gen \in Nat BY <2>1, EndedIs DEF Row
      <3>3. row'[j] = Bumped(r) /\ \A i \in Jobs : i # j => row'[i] = row[i] BY <2>1, <3>1
      <3>4. \A i \in Jobs : Requeued(i) BY <3>1, <3>2, <3>3 DEF Requeued
      <3>5. UnsentKept BY <3>1 DEF UnsentKept, Enqueue
      <3>6. Spared(m) BY <3>1, <3>2, <3>3 DEF Spared
      <3>7. \A x \in queue \union dlq : Spared(x) BY <2>2, <3>6 DEF Spared
      <3> QED BY <2>2, <3>1, <3>4, <3>5, <3>7, CarrierStep
    <2>4. CASE ~live
      <3>1. /\ row' = row /\ outbox' = outbox
            /\ IF r.gen # m.gen \/ r.state \in TERMINAL \union {"paused"}
               THEN UNCHANGED swallowed ELSE Swallow(j, m.gen, "held")
        BY <1>3, <2>4 DEF Redrive
      <3>2. Spared(m) /\ swallowed \subseteq swallowed'
        <4>1. CASE r.gen # m.gen \/ r.state \in TERMINAL \union {"paused"}
          BY <3>1, <4>1 DEF Spared, Active, Leasable, TERMINAL
        <4>2. CASE ~(r.gen # m.gen \/ r.state \in TERMINAL \union {"paused"})
          BY <2>1, <3>1, <4>2, SwallowSpares DEF Reasons
        <4> QED BY <4>1, <4>2
      <3>3. \A x \in queue \union dlq : Spared(x) BY <2>2, <3>2 DEF Spared
      <3>4. UnsentKept /\ \A i \in Jobs : Requeued(i) BY <3>1 DEF UnsentKept, Requeued
      <3> QED BY <2>2, <3>2, <3>3, <3>4, CarrierStep
    <2> QED BY <2>3, <2>4
  <1>4. ASSUME NEW m \in queue, Exhaust(m) PROVE CarryInv'
    <2>1. /\ known' = known /\ swallowed' = swallowed /\ row' = row /\ outbox' = outbox
          /\ queue' \union dlq' = queue \union dlq
      BY <1>4 DEF Exhaust
    <2>2. \A x \in queue \union dlq : Spared(x) BY <2>1 DEF Spared
    <2>3. UnsentKept /\ \A i \in Jobs : Requeued(i) BY <2>1 DEF UnsentKept, Requeued
    <2> QED BY <2>1, <2>2, <2>3, CarrierStep
  <1> QED BY <1>1, <1>2, <1>3, <1>4 DEF Dispatch

\* create_jobs writes an outbox row for every job.
LEMMA InitCarries == Init => CarryInv
  <1> SUFFICES ASSUME Init PROVE CarryInv
    OBVIOUS
  <1>1. KeysOfRows BY DEF Init, KeysOfRows
  <1>2. ASSUME NEW j \in Jobs PROVE Unsent(j)
    <2> DEFINE o == [job |-> j, gen |-> row[j].gen, route |-> RouteOf(row[j]),
                     avail |-> row[j].due, published |-> FALSE]
    <2>1. row[j].state = "queued" BY DEF Init, NewRow
    <2>2. o \in Enqueue({}, j, row[j]) BY <2>1 DEF Enqueue, TERMINAL
    <2>3. o.job = j /\ o.gen = row[j].gen /\ ~o.published OBVIOUS
    <2> HIDE DEF o
    <2>4. o \in outbox BY <2>2 DEF Init
    <2>5. known = {} BY DEF Init
    <2> QED BY <2>3, <2>4, <2>5 DEF Unsent
  <1> QED BY <1>1, <1>2 DEF CarryInv, Carrying

\* Every step keeps what carries the jobs.
LEMMA NextCarries == Inv /\ Inv' /\ SlotInv /\ CarryInv /\ [Next]_vars => CarryInv'
  <1> SUFFICES ASSUME Inv, Inv', SlotInv, CarryInv, [Next]_vars PROVE CarryInv'
    OBVIOUS
  <1>0. StepMoves BY NextMoves
  <1>1. CASE UNCHANGED vars
    BY <1>0, <1>1, QuietStep DEF vars, SameGens, broker
  <1>2. CASE Next
    BY <1>0, <1>2, DispatchCarries, OperateCarries, PassageCarries, ExecuteCarries,
       FailCarries, ReserveCarries DEF Next
  <1> QED BY <1>1, <1>2

\* Workers never scan the table: a job that is neither finished nor on hold has
\* its current generation in the outbox or with the broker, for any number of
\* jobs, workers and generations and with either provider, unless one of the
\* recorded acknowledgements consumed it.
THEOREM CarrierIsKept == Spec => []CarrierKept
  <1>1. ASSUME Inv, CarryInv PROVE CarrierKept
    <2> SUFFICES ASSUME NEW j \in Jobs, Waiting(j), Clean(j) PROVE Carried(j)
      BY DEF CarrierKept, Clean
    <2>1. WithBroker(j) \/ Unsent(j) BY <1>1 DEF Waiting, Active, CarryInv, Carrying
    <2> QED BY <2>1 DEF WithBroker, Unsent, Carried
  <1>2. Spec => []CarryInv BY InitCarries, NextCarries, Invariance, SlotInvariance, PTL DEF Spec
  <1> QED BY <1>1, <1>2, Invariance, PTL
=============================================================================
