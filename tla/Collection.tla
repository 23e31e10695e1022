----------------------------- MODULE Collection -----------------------------
(***************************************************************************)
(* One job that collects a shop through a reusable connector               *)
(* (worker.py, _crawl_connector_canary): the lineage its pages are         *)
(* committed to, the staged batches, the dataset, the published artifact   *)
(* and the catalogue it is loaded into.                                    *)
(*                                                                         *)
(* Every claim of the job starts an execution.  An execution that crashed, *)
(* was cancelled or failed is followed by another one, after its lease ran *)
(* out or an operator retried the job; one that only lost its lease goes   *)
(* on beside its successor, and both commit to the same lineage.  The shop *)
(* and the source's configuration change meanwhile.                        *)
(*                                                                         *)
(* A record is a product with the execution that fetched it: records carry *)
(* the time they were fetched at, so no two executions produce the same.   *)
(***************************************************************************)
EXTENDS Connectors

CONSTANTS
  Products,      \* natural numbers above 0, in the order the shop lists them
  KindsUsed,     \* the connectors of the instance
  Limits,        \* result limits of the job's request, 0 for none
  MaxExecutions, \* executions of the job
  Disturbances   \* faults, cancellations, shop and configuration changes

ASSUME ProductsAreNumbers == Products \subseteq Nat \ {0} /\ IsFiniteSet(Products)
ASSUME KindsAreKnown == KindsUsed \subseteq Kinds /\ Limits \subseteq Nat
ASSUME ExecutionsAreCounted == MaxExecutions \in Nat /\ Disturbances \in Nat

VARIABLES
  kind,     \* the connector of the source
  limit,    \* the job's result limit
  shop,     \* the products the shop sells
  conf,     \* the source's configuration (connector_config_fingerprint)
  job,      \* jobs.state and jobs.execution_token
  lineages, \* job_checkpoint_lineages and job_pages, in the order of creation
  staged,   \* the staged batches on disk
  dataset,  \* job_datasets
  artifact, \* job_artifacts: NoArtifact or the records published
  exec,     \* the executions
  cat,      \* the products of the source in the catalogue
  left      \* disturbances still to come

vars == <<kind, limit, shop, conf, job, lineages, staged, dataset, artifact, exec, cat, left>>

Executions == 1..MaxExecutions
Ended == {"succeeded", "failed", "cancelled"}
NoArtifact == {<<0, 0>>}

At(t, where) == exec[t].at = where
LineageOf(t) == lineages[exec[t].lin]

Sealed(l) == l.status \in {"completed", "limited"}

\* The records of an execution's page.
RecordsOf(t, p) == {<<i, t>> : i \in p.items}

\* What lineage_checksum hashes: every committed page, batch and outcome.
Checksum(l) == l.pages

\* reconstruct_batches: the batches of the pages whose projection succeeded.
Batches(l) == UNION {p.batch : p \in l.pages}

Collected(l) == UNION {p.items : p \in l.pages}

Disturbed == left > 0 /\ left' = left - 1

-----------------------------------------------------------------------------
\* lineage_progress: the page that was committed last tells what is to be done.

\* Partitions come in the order they were declared in; "discovery" is only
\* declared by a resumed collection that finds no partition any more.
Behind(p, q) == p.part # q.part /\ q.part = "discovery"

Latest(l) ==
  CHOOSE p \in l.pages : \A q \in l.pages :
    \/ Behind(q, p)
    \/ p.part = q.part /\ p.seq >= q.seq

Progress(l) ==
  IF l.pages = {} THEN "empty"
  ELSE IF l.status = "limited" THEN "terminal_limited"
  ELSE IF Latest(l).next # NoCursor THEN "resumable"
  ELSE IF ~Latest(l).terminal THEN "empty"
  ELSE IF Latest(l).intact THEN "terminal_intact" ELSE "terminal_incomplete"

\* find_recoverable_library_lineage: an active lineage of the configuration
\* first, then the newest sealed one; 0 for none.
Recoverable(c) ==
  LET fit    == {i \in DOMAIN lineages : lineages[i].conf = c /\ lineages[i].status # "rejected"}
      active == {i \in fit : lineages[i].status = "active"}
  IN IF active # {} THEN Max(active) ELSE IF fit # {} THEN Max(fit) ELSE 0

NewLineage(c) == [conf |-> c, status |-> "active", pages |-> {}, sum |-> {}, kept |-> shop]

\* prepare_dataset_for_collection
Prepared(d, resuming) ==
  IF ~resuming THEN [state |-> "pending", records |-> 0]
  ELSE IF d.state \in {"cancelled", "degraded"}
  THEN [d EXCEPT !.state = IF d.records > 0 THEN "staged" ELSE "pending"]
  ELSE d

\* Which other lineages a resolution leaves active.
Superseded(i, cand) == lineages[i].status = "active" /\ i # cand

Reject(ls, gone) ==
  [i \in DOMAIN ls |-> IF i \in gone THEN [ls[i] EXCEPT !.status = "rejected"] ELSE ls[i]]

-----------------------------------------------------------------------------
\* Executions.

Idle == [at |-> "none", conf |-> 0, lin |-> 0, cursor |-> NoCursor,
         s |-> [list |-> <<>>, pos |-> 0, seq |-> 0, limit |-> 0, emitted |-> 0, buf |-> <<>>],
         todo |-> <<>>, outcome |-> "none", failed |-> FALSE, cancel |-> FALSE,
         terminal |-> FALSE, intact |-> TRUE, limited |-> FALSE, sum |-> {}, end |-> "none"]

\* The execution goes on at another place.
Goes(t, e) == exec' = [exec EXCEPT ![t] = e]
To(t, where) == Goes(t, [exec[t] EXCEPT !.at = where])

\* It ends: worker.execute records an outcome and nothing else follows.
Ending(e, end) == [e EXCEPT !.at = "finish", !.end = end]
Raises(t) == Goes(t, Ending(exec[t], "failed"))

\* The page at hand: the first of the pages still to be staged and committed.
Page(t) == Head(exec[t].todo)

\* A delivery of the queued job is claimed by a worker, which reads the
\* source's configuration.
Claim(t) ==
  /\ job.state = "queued" /\ At(t, "none")
  /\ \A u \in 1..(t - 1) : ~At(u, "none")
  /\ job' = [state |-> "running", owner |-> t]
  /\ Goes(t, [exec[t] EXCEPT !.at = "resolve", !.conf = conf])
  /\ UNCHANGED <<kind, limit, shop, conf, lineages, staged, dataset, artifact, cat, left>>

\* resolve_library_lineage, one transaction under the job's row lock, and
\* pipeline_dataset_states.  A lineage is taken up again or replaced; every
\* other active one is rejected.
Resolve(t) ==
  LET c       == exec[t].conf
      cand    == Recoverable(c)
      restart == cand # 0 /\ Progress(lineages[cand]) = "terminal_incomplete"
      keep    == cand # 0 /\ ~restart
      old     == {i \in DOMAIN lineages : Superseded(i, IF restart THEN 0 ELSE cand)}
      others  == Reject(lineages, old)
      lin     == IF keep THEN cand ELSE Len(lineages) + 1
      state   == IF keep THEN Progress(lineages[cand]) ELSE "empty"
      done    == state \in {"terminal_intact", "terminal_limited"}
      ready   == Prepared(dataset, keep)
  IN /\ At(t, "resolve")
     /\ lineages' = IF keep THEN others ELSE Append(others, NewLineage(c))
     /\ dataset' = ready
     /\ Goes(t, [exec[t] EXCEPT
          !.at = IF done THEN "collected" ELSE "discover",
          !.lin = lin, !.failed = (ready.state = "failed"),
          !.cursor = IF state = "resumable" THEN Latest(lineages[cand]).next ELSE Start(kind),
          !.terminal = done, !.intact = state # "terminal_limited",
          !.limited = (state = "terminal_limited")])
     /\ UNCHANGED <<kind, limit, shop, conf, job, staged, artifact, cat, left>>

-----------------------------------------------------------------------------
\* The connector.

Yields(t, s, pages) ==
  Goes(t, [exec[t] EXCEPT !.at = "stage", !.s = s, !.todo = pages])

\* The first requests of collect: sitemaps, categories, a token, the currency.
Discover(t) ==
  LET list == IF kind \in Listing THEN InOrder(shop) ELSE <<>>
      s    == Session(kind, exec[t].cursor, list, limit)
  IN /\ At(t, "discover") /\ ~exec[t].cancel
     /\ \/ /\ kind \in Listing => list # <<>>
           /\ ResumeAccepted(kind, exec[t].cursor, list)
           /\ Goes(t, [exec[t] EXCEPT !.at = "fetch", !.s = s])
           /\ UNCHANGED left
        \/ /\ kind \in Listing /\ list = <<>>
           /\ Yields(t, s, <<EmptyDiscovery(kind, s)>>)
           /\ UNCHANGED left
        \/ /\ kind \in Listing => list # <<>>
           /\ ~ResumeAccepted(kind, exec[t].cursor, list)
           /\ Raises(t)
           /\ UNCHANGED left
        \/ /\ kind \in Listing \union {"bigcommerce"}
           /\ Disturbed
           /\ Yields(t, s, <<DiscoveryFailure(kind, s)>>)
     /\ UNCHANGED <<kind, limit, shop, conf, job, lineages, staged, dataset, artifact, cat>>

\* One page of the shop, which answers or fails.
Fetch(t) ==
  LET s == exec[t].s
  IN /\ At(t, "fetch") /\ ~exec[t].cancel /\ kind # "woocommerce"
     /\ \/ /\ Answers(kind, s, shop)
           /\ Yields(t, s, <<NextPage(kind, s, shop)>>)
           /\ UNCHANGED left
        \/ /\ ~Answers(kind, s, shop)
           /\ Yields(t, s, <<FetchFailure(kind, s)>>)
           /\ UNCHANGED left
        \/ /\ Disturbed
           /\ kind \in Listing => s.pos \in DOMAIN s.list
           /\ Yields(t, s, <<FetchFailure(kind, s)>>)
     /\ UNCHANGED <<kind, limit, shop, conf, job, lineages, staged, dataset, artifact, cat>>

\* WooCommerce: one page more into the buffer, or the end of the reading.
FetchWoo(t) ==
  LET s == exec[t].s
  IN /\ At(t, "fetch") /\ ~exec[t].cancel /\ kind = "woocommerce"
     /\ \/ /\ s.pos <= PageLimit /\ WooPayload(s, shop) # {} /\ ~WooLimited(s)
           /\ Goes(t, [exec[t] EXCEPT !.s = WooBuffer(s, shop)])
           /\ UNCHANGED left
        \/ /\ s.pos > PageLimit /\ ~WooLimited(s)
           /\ Yields(t, s, <<WooFailure(s)>>)
           /\ UNCHANGED left
        \/ /\ WooLimited(s) \/ (s.pos <= PageLimit /\ WooPayload(s, shop) = {})
           /\ Yields(t, s, WooPages(s))
           /\ UNCHANGED left
        \/ /\ Disturbed
           /\ Yields(t, s, <<WooFailure(s)>>)
     /\ UNCHANGED <<kind, limit, shop, conf, job, lineages, staged, dataset, artifact, cat>>

\* A connector that finds its execution cancelled returns.
Return(t) ==
  /\ exec[t].at \in {"discover", "fetch"} /\ exec[t].cancel
  /\ To(t, "collected")
  /\ UNCHANGED <<kind, limit, shop, conf, job, lineages, staged, dataset, artifact, cat, left>>

-----------------------------------------------------------------------------
\* The pipeline: ConnectorPipeline.run, for each page.

BatchKey(t) == [lin |-> exec[t].lin, seq |-> Page(t).seq, id |-> Page(t).id]

\* stage_batch: a batch on disk is never replaced by another one.
MayStage(t) ==
  \A b \in staged : b.key = BatchKey(t) => b.records = RecordsOf(t, Page(t))

\* The projection of the page.  A projector that raises, and a batch that was
\* staged differently before, fail the dataset for the rest of the execution.
Stage(t) ==
  /\ At(t, "stage")
  /\ LET ok    == [exec[t] EXCEPT !.at = "commit", !.outcome = "succeeded"]
         fails == [exec[t] EXCEPT !.at = "commit", !.outcome = "failed", !.failed = TRUE]
     IN \/ /\ exec[t].failed
           /\ Goes(t, [exec[t] EXCEPT !.at = "commit", !.outcome = "skipped"])
           /\ UNCHANGED <<staged, left>>
        \/ /\ ~exec[t].failed /\ MayStage(t)
           /\ staged' = staged \union {[key |-> BatchKey(t), records |-> RecordsOf(t, Page(t))]}
           /\ Goes(t, ok)
           /\ UNCHANGED left
        \/ /\ ~exec[t].failed /\ ~MayStage(t)
           /\ Goes(t, fails)
           /\ UNCHANGED <<staged, left>>
        \/ /\ ~exec[t].failed /\ Page(t).items # {} /\ Disturbed
           /\ Goes(t, fails)
           /\ UNCHANGED staged
  /\ UNCHANGED <<kind, limit, shop, conf, job, lineages, dataset, artifact, cat>>

\* The row of job_pages with its batch and outcome.
Row(t) ==
  [part |-> Page(t).part, id |-> Page(t).id, seq |-> Page(t).seq, items |-> Page(t).items,
   from |-> Page(t).from, next |-> Page(t).next, terminal |-> Page(t).terminal,
   intact |-> Page(t).intact, outcome |-> exec[t].outcome,
   batch |-> IF exec[t].outcome = "succeeded" THEN RecordsOf(t, Page(t)) ELSE {}]

SamePartition(l, r) == {p \in l.pages : p.part = r.part}

\* _verify_replay: the page as committed, its batch and its outcome are equal.
VerifyReplay(old, r) ==
  \A f \in {"seq", "next", "terminal", "intact", "batch", "outcome"} : old[f] = r[f]

\* Fault: a terminal page does not close its partition.
AppendableAnyway(l, r) == \A p \in SamePartition(l, r) : p.seq < r.seq

\* Fault: any page that is not there yet is behind the others.
AppendableUnordered(l, r) == \A p \in SamePartition(l, r) : ~p.terminal

\* A new page of a partition must come behind the others.
Appendable(l, r) == \A p \in SamePartition(l, r) : ~p.terminal /\ p.seq < r.seq

\* _record_outcomes
Recorded(d, r) ==
  CASE r.outcome = "succeeded" /\ d.state # "failed" ->
         [state |-> IF d.state = "pending" THEN "staged" ELSE d.state,
          records |-> d.records + Cardinality(r.batch)]
    [] r.outcome = "failed" -> [d EXCEPT !.state = "failed"]
    [] OTHER -> d

\* What a committed page is to the execution.
After(t) ==
  LET e == exec[t]
      p == Page(t)
  IN [e EXCEPT !.todo = Tail(@), !.outcome = "none",
               !.at = IF p.terminal THEN "collected" ELSE IF Tail(e.todo) = <<>> THEN "fetch" ELSE "stage",
               !.s = IF kind = "woocommerce" THEN @ ELSE Advanced(kind, @, p),
               !.terminal = p.terminal, !.intact = @ /\ p.intact, !.limited = @ \/ p.limited]

\* commit_page, one transaction under the lineage's row lock.  The replay of a
\* committed page changes nothing.
Commit(t) ==
  LET l   == LineageOf(t)
      r   == Row(t)
      old == {p \in SamePartition(l, r) : p.id = r.id}
      fresh == /\ old = {} /\ Appendable(l, r)
               /\ r.outcome = "skipped" => dataset.state = "failed"
  IN /\ At(t, "commit")
     /\ \/ /\ l.status = "active" /\ fresh
           /\ lineages' = [lineages EXCEPT ![exec[t].lin].pages = @ \union {r}]
           /\ dataset' = Recorded(dataset, r)
           /\ Goes(t, After(t))
        \/ /\ l.status = "active" /\ \E p \in old : VerifyReplay(p, r)
           /\ Goes(t, After(t))
           /\ UNCHANGED <<lineages, dataset>>
        \/ /\ \/ l.status # "active"
              \/ old = {} /\ ~fresh
              \/ \E p \in old : ~VerifyReplay(p, r)
           /\ Raises(t)
           /\ UNCHANGED <<lineages, dataset>>
     /\ UNCHANGED <<kind, limit, shop, conf, job, staged, artifact, cat, left>>

-----------------------------------------------------------------------------
\* The rest of _crawl_connector_canary.

\* finish_dataset, which asks for no execution token.
FinishDataset(state) == dataset' = [dataset EXCEPT !.state = state]

\* A collection that was interrupted or fell short ends here; of any other the
\* manifest's checksum is read, in a statement of its own.
Settle(t) ==
  LET e == exec[t]
      short == ~e.intact /\ ~e.limited
  IN /\ At(t, "collected")
     /\ \/ /\ e.cancel \/ ~e.terminal
           /\ FinishDataset("cancelled")
           /\ Goes(t, Ending(e, "cancelled"))
        \/ /\ ~e.cancel /\ e.terminal /\ short
           /\ FinishDataset("failed")
           /\ Raises(t)
        \/ /\ ~e.cancel /\ e.terminal /\ ~short
           /\ Goes(t, [e EXCEPT !.at = "seal", !.sum = Checksum(LineageOf(t))])
           /\ UNCHANGED dataset
     /\ UNCHANGED <<kind, limit, shop, conf, job, lineages, staged, artifact, cat, left>>

\* complete_lineage: every partition is terminal and intact.
IntactManifest(l) ==
  /\ l.pages # {}
  /\ \A p \in l.pages : p.intact /\ \E q \in SamePartition(l, p) : q.terminal

\* complete_limited_lineage: the last page is a resumable, incomplete end.
LimitedManifest(l) ==
  /\ l.pages # {}
  /\ Latest(l).next # NoCursor /\ Latest(l).terminal /\ ~Latest(l).intact

\* Sealing, and what follows for a dataset whose projector failed: nothing of
\* it is published.
Seal(t) ==
  LET e  == exec[t]
      l  == LineageOf(t)
      to == IF e.limited THEN "limited" ELSE "completed"
      may == l.status = "active" /\ IF e.limited THEN LimitedManifest(l) ELSE IntactManifest(l)
      again == l.status = to /\ l.sum = e.sum
  IN /\ At(t, "seal")
     /\ IF may \/ again
        THEN /\ lineages' = IF again THEN lineages
                            ELSE [lineages EXCEPT ![e.lin].status = to, ![e.lin].sum = e.sum]
             /\ IF e.failed
                THEN FinishDataset("failed") /\ Raises(t)
                ELSE To(t, "publish") /\ UNCHANGED dataset
        ELSE Raises(t) /\ UNCHANGED <<lineages, dataset>>
     /\ UNCHANGED <<kind, limit, shop, conf, job, staged, artifact, cat, left>>

\* register_artifact.
\* Fault: the registered publication is replaced.
RegistersAnything(records) == TRUE
Registers(records) == artifact \in {NoArtifact, records}

\* publish_dataset: one publication per job and dataset,
\* accepted again only if it is the same.  An empty one is not loaded.
Publish(t) ==
  LET records == Batches(LineageOf(t))
  IN /\ At(t, "publish")
     /\ IF Sealed(LineageOf(t)) /\ Registers(records)
        THEN /\ artifact' = records
             /\ IF records = {}
                THEN FinishDataset("failed") /\ Raises(t)
                ELSE /\ dataset' = IF dataset.state = "failed" THEN dataset
                                   ELSE [dataset EXCEPT !.state = "published"]
                     /\ To(t, "load")
        ELSE Raises(t) /\ UNCHANGED <<artifact, dataset>>
     /\ UNCHANGED <<kind, limit, shop, conf, job, lineages, staged, cat, left>>

\* _connector_load_is_whole
\* Fault: a limited collection retires, too.
WholeAlways(e) == TRUE
Whole(e) == e.terminal /\ e.intact

\* _load_fenced and load_source, one transaction: the execution still owns the
\* job, the records are loaded, and a whole collection retires what it lacks.
Owns(t) == job.state = "running" /\ job.owner = t

Load(t) ==
  LET names == {r[1] : r \in Batches(LineageOf(t))}
  IN /\ At(t, "load")
     /\ \/ /\ Owns(t)
           /\ cat' = IF Whole(exec[t]) THEN names ELSE cat \union names
           /\ To(t, "loaded")
           /\ UNCHANGED <<dataset, left>>
        \/ /\ IF Owns(t) THEN Disturbed ELSE UNCHANGED left
           /\ FinishDataset("failed")
           /\ Raises(t)
           /\ UNCHANGED cat
     /\ UNCHANGED <<kind, limit, shop, conf, job, lineages, staged, artifact>>

RecordLoad(t) ==
  /\ At(t, "loaded")
  /\ FinishDataset("succeeded")
  /\ Goes(t, Ending(exec[t], "succeeded"))
  /\ UNCHANGED <<kind, limit, shop, conf, job, lineages, staged, artifact, cat, left>>

\* _finish: the outcome counts only from the job's owner.
Finish(t) ==
  /\ At(t, "finish")
  /\ job' = IF Owns(t) THEN [state |-> exec[t].end, owner |-> 0] ELSE job
  /\ Goes(t, [Idle EXCEPT !.at = "gone"])
  /\ UNCHANGED <<kind, limit, shop, conf, lineages, staged, dataset, artifact, cat, left>>

-----------------------------------------------------------------------------
\* What happens to an execution from outside.

Running(t) == exec[t].at \notin {"none", "gone"}

\* The process dies, or its task is cancelled on its way out.
Die(t) ==
  /\ Running(t) /\ Owns(t)
  /\ Goes(t, [Idle EXCEPT !.at = "gone"])
  /\ UNCHANGED <<kind, limit, shop, conf, job, lineages, staged, dataset, artifact, cat, left>>

\* The collection's asyncio.timeout, or an error no connector handles.
TimeOut(t) ==
  /\ exec[t].at \in {"discover", "fetch", "commit"}
  /\ Disturbed /\ Raises(t)
  /\ UNCHANGED <<kind, limit, shop, conf, job, lineages, staged, dataset, artifact, cat>>

\* An operator cancels the job, or the worker stops its executions.
Cancel(t) ==
  /\ Running(t) /\ ~exec[t].cancel /\ exec[t].at # "finish"
  /\ Disturbed
  /\ Goes(t, [exec[t] EXCEPT !.cancel = TRUE])
  /\ UNCHANGED <<kind, limit, shop, conf, job, lineages, staged, dataset, artifact, cat>>

\* The job is queued again: its lease ran out, whether or not the execution
\* is still there, or an operator retries it.
Requeue ==
  /\ job.state # "queued"
  /\ \E t \in Executions : At(t, "none")
  /\ job' = [state |-> "queued", owner |-> 0]
  /\ UNCHANGED <<kind, limit, shop, conf, lineages, staged, dataset, artifact, exec, cat, left>>

Reconfigure ==
  /\ Disturbed
  /\ conf' = 1 - conf
  /\ UNCHANGED <<kind, limit, shop, job, lineages, staged, dataset, artifact, exec, cat>>

Sell(p) ==
  /\ p \notin shop /\ Disturbed
  /\ shop' = shop \union {p}
  /\ UNCHANGED <<kind, limit, conf, job, lineages, staged, dataset, artifact, exec, cat>>

Withdraw(p) ==
  /\ p \in shop /\ Disturbed
  /\ shop' = shop \ {p}
  /\ lineages' = [i \in DOMAIN lineages |-> [lineages[i] EXCEPT !.kept = @ \ {p}]]
  /\ UNCHANGED <<kind, limit, conf, job, staged, dataset, artifact, exec, cat>>

-----------------------------------------------------------------------------

Init ==
  /\ kind \in KindsUsed /\ limit \in Limits
  /\ \E n \in 1..Cardinality(Products) : shop = {p \in Products : Cardinality({q \in Products : q < p}) < n}
  /\ conf = 0 /\ job = [state |-> "queued", owner |-> 0]
  /\ lineages = <<>> /\ staged = {} /\ artifact = NoArtifact
  /\ dataset = [state |-> "pending", records |-> 0]
  /\ exec = [t \in Executions |-> Idle]
  /\ cat = shop /\ left = Disturbances

Next ==
  \/ \E t \in Executions :
       \/ Claim(t) \/ Resolve(t) \/ Discover(t) \/ Fetch(t) \/ FetchWoo(t) \/ Return(t)
       \/ Stage(t) \/ Commit(t) \/ Settle(t) \/ Seal(t) \/ Publish(t)
       \/ Load(t) \/ RecordLoad(t) \/ Finish(t)
       \/ Die(t) \/ TimeOut(t) \/ Cancel(t)
  \/ Requeue \/ Reconfigure
  \/ \E p \in Products : Sell(p) \/ Withdraw(p)

Spec == Init /\ [][Next]_vars

-----------------------------------------------------------------------------

Places == {"none", "resolve", "discover", "fetch", "stage", "commit", "collected", "seal",
           "publish", "load", "loaded", "finish", "gone"}

\* Job, dataset, lineages, catalogue and executions keep to the states the
\* schema and the code name.
TypeOK ==
  /\ kind \in KindsUsed /\ limit \in Limits /\ shop \subseteq Products /\ cat \subseteq Products
  /\ conf \in 0..1 /\ left \in 0..Disturbances
  /\ job \in [state : {"queued", "running"} \union Ended, owner : 0..MaxExecutions]
  /\ dataset.state \in {"pending", "staged", "published", "succeeded", "failed", "cancelled"}
  /\ dataset.records \in Nat
  /\ \A i \in DOMAIN lineages : lineages[i].status \in {"active", "completed", "limited", "rejected"}
  /\ \A t \in Executions : exec[t].at \in Places /\ exec[t].end \in Ended \union {"none"}

\* A manifest has no gap: every committed page began where a page committed
\* before it left off, or at the beginning, whoever committed them (outputs.py,
\* commit_page: a page is appended in order, and replayed only if it is the
\* same page).
GaplessManifest ==
  \A i \in DOMAIN lineages : \A p \in lineages[i].pages :
    \/ p.from[1] = Start(kind)[1]
    \/ \E q \in lineages[i].pages : q.seq < p.seq /\ q.next = p.from

\* The checksum a lineage of one partition was sealed with is that of its
\* manifest, though it is read in a statement before the one that seals it
\* (worker.py, lineage_checksum and complete_lineage).  With several partitions
\* an execution that lost the job can still commit to another one in between.
SealedChecksumHolds ==
  \A i \in DOMAIN lineages : LET l == lineages[i] IN
    Sealed(l) /\ (\A p, q \in l.pages : p.part = q.part) => l.sum = Checksum(l)

\* What a succeeded job has published is what it brought into the catalogue,
\* whatever an execution that lost the job, or one with another configuration,
\* published or loaded meanwhile (outputs.py, register_artifact, and worker.py,
\* _load_fenced).
SucceededIsPublished ==
  job.state = "succeeded" =>
    /\ artifact # NoArtifact
    /\ {r[1] : r \in artifact} \subseteq cat

Loads(t) == At(t, "load") /\ exec'[t].at = "loaded"

\* No product is retired that was in the shop since its lineage began, unless a
\* page of the lineage holds it.  The connectors whose cursors name a product
\* promise it, however often the collection was interrupted and whatever the
\* shop did meanwhile.
KeptProductsAreCollected ==
  [][\A t \in Executions : Loads(t) /\ kind \in Anchored =>
       \A p \in cat \ cat' : p \in LineageOf(t).kept => p \in Collected(LineageOf(t))]_vars
=============================================================================
