------------------------------- MODULE Crawl -------------------------------
(***************************************************************************)
(* One job that collects a shop with the scrapers of catalogue-dump, from  *)
(* the first request to the load: how each scraper walks the listing, how  *)
(* product pages are read concurrently, what a failure says about the      *)
(* listing, and whether the load may withdraw what the crawl did not find. *)
(* (scrapers/base.py, pagecrawl.py and the scrapers of each platform,      *)
(* crawl/runner.py, crawl/artifacts.py, ops/worker.py _crawl_and_load,     *)
(* storage/postgres.py)                                                    *)
(*                                                                         *)
(* Products are numbered in the order the shop lists them; page i of a     *)
(* listing lists product i and leads to page i + 1, page 0 is what has to  *)
(* be read before the listing (a sitemap index, a department index, the    *)
(* shop's currency, a storefront token).  A page is read, or answers       *)
(* well-formed but empty of what the scraper looks for ("odd"), or fails:  *)
(* "refused" when the crawl has met a 429, a 5xx or a timeout by then.     *)
(***************************************************************************)
EXTENDS Naturals, FiniteSets

CONSTANTS
  Kinds,       \* the scrapers of the instance
  Products,    \* 1..n
  Drops,       \* sets of products whose rows add() drops: invalid, or out of scope
  Samples,     \* CrawlParams.limit: products wanted, 0 for all
  PageCap,     \* page_limit or category_page_limit of a listing
  ProductCap,  \* page_limit of pagecrawl: product pages read
  Concurrency, \* product_concurrency
  ZeroGains,   \* zero-gain renders after which rendering is given up
  MaxAttempts, \* jobs.max_attempts
  MaxFaults    \* bound: failures, odd answers and interruptions

ByPage    == {"pagecrawl", "wix", "axner", "ceramicolours"}  \* list URLs, then read each product's page
ByListing == {"shopify", "woocommerce", "bigcommerce", "keramik_kraft"}  \* the listing holds the rows

ASSUME KindsAreKnown == Kinds \subseteq ByPage \union ByListing
ASSUME ProductsAreNumbered == IsFiniteSet(Products) /\ Products = 1..Cardinality(Products)
ASSUME CapsArePositive == {PageCap, ProductCap, Concurrency, ZeroGains, MaxAttempts} \subseteq Nat \ {0}
ASSUME OthersAreNat == Samples \subseteq Nat /\ Drops \subseteq SUBSET Products /\ MaxFaults \in Nat

VARIABLES
  kind, limit,
  shop,        \* the products the shop sells
  poor,        \* the one of Drops that this source has
  at,          \* where the execution is
  walk,        \* the listing: the way it is walked, the next page, what it listed
  result,      \* ScrapeResult: records, discovered # 0, errors # [], truncated; priced, refused
  enumerating, \* Scraper._enumerating
  task,        \* the product pages' tasks, each with the flag that it found
  rows,        \* products whose page gave a row
  circuit,     \* _zero_gain_fallbacks, _fallback_stopped, the holders of _fallback_lock
  job,         \* jobs.state, attempt and whether it requires a browser
  file,        \* the artifact in the job's directory: none, empty or full
  load,        \* this attempt's write_status and rejected rows
  late,        \* deadline_exceeded
  cat,         \* active source_products of the source
  slips,       \* history: ends of this attempt's walk that nothing marks as early
  faults

crawl == <<walk, result, enumerating, task, rows, circuit, late, slips>>
fixed == <<kind, limit, shop, poor>>
after == <<job, file, load, cat>>
crawlVars == <<crawl, fixed, after, at, faults>>

Answers == {"ok", "odd", "failed", "refused"}
\* A request that is not answered as expected costs a fault.
Spend(o) == IF o = "ok" THEN UNCHANGED faults ELSE faults > 0 /\ faults' = faults - 1
Unread(o) == o \in {"failed", "refused"}
-----------------------------------------------------------------------------
NoResult  == [records |-> {}, discovered |-> FALSE, errors |-> FALSE, truncated |-> FALSE,
              priced |-> TRUE, refused |-> FALSE]
NoTasks   == [p \in Products |-> [at |-> "new", found |-> TRUE]]
NoCircuit == [zero |-> 0, stopped |-> FALSE, held |-> {}]
NoLoad    == [write |-> "none", rejected |-> {}]
FirstWay(k) == IF k \in {"pagecrawl", "wix"} THEN "sitemap" ELSE k
StartOf(way) == [way |-> way, next |-> IF way \in {"category", "keramik_kraft", "store"} THEN 1 ELSE 0,
                 listed |-> {}]

CrawlInit ==
  /\ kind \in Kinds /\ limit \in Samples
  /\ \E n \in 0..Cardinality(Products) : shop = {p \in Products : p <= n}
  /\ poor \in Drops
  /\ at = "robots" /\ walk = StartOf(FirstWay(kind)) /\ result = NoResult /\ enumerating = TRUE
  /\ task = NoTasks /\ rows = {} /\ circuit = NoCircuit /\ late = FALSE /\ slips = {}
  /\ job = [state |-> "running", attempt |-> 1, browser |-> FALSE]
  /\ file = "none" /\ load = NoLoad
  /\ cat = Products
  /\ faults = MaxFaults

\* Scraper.fail: an error, and a truncated listing if it happens while enumerating.
Failed(r, o) == [r EXCEPT !.errors = TRUE, !.truncated = @ \/ enumerating, !.refused = @ \/ o = "refused"]
\* Scraper.add, per row, through keep().
Added(r, ps) == [r EXCEPT !.records = @ \union (IF r.priced THEN ps \ poor ELSE {})]
-----------------------------------------------------------------------------
(* Scraper.run: robots.txt first. *)
Robots ==
  /\ at = "robots"
  /\ \/ at' = "list" /\ UNCHANGED <<result, faults>>
     \/ at' = "crawled" /\ result' = [result EXCEPT !.errors = TRUE] /\ Spend("failed")
  /\ UNCHANGED <<walk, enumerating, task, rows, circuit, late, slips, fixed, after>>

(* What is read before a listing: whether it fails, whether the walk goes on, *)
(* whether rows have a price, and whether nothing tells of an early end.      *)

Index(fails, on, priced, slip) == [fails |-> fails, on |-> on, priced |-> priced, slip |-> slip]

\* products.json has no currency; without meta.json's no row has a price.
ResolveCurrency(o) == Index(Unread(o), TRUE, o = "ok", FALSE)
\* Without the ids of its categories the whole shop is walked.
ResolveCategories(o) == Index(Unread(o), TRUE, TRUE, FALSE)
\* Without a storefront token the scraper raises Blocked, which run() records.
DiscoverToken(o) == Index(o # "ok", o = "ok", TRUE, FALSE)
\* An index that could not be read is an unknown catalogue; one without a
\* department or a category is an empty shop.
DepartmentIndex(o) == Index(Unread(o), o = "ok", TRUE, o = "odd")
CategoryIndex(o)   == Index(Unread(o), o = "ok", TRUE, o = "odd")
\* A sitemap index names the sitemaps; with none of them another way is tried.
SitemapIndex(o) == Index(Unread(o), o = "ok" /\ 1 \in shop, TRUE, FALSE)

IndexOf(way, o) ==
  CASE way = "shopify"       -> ResolveCurrency(o)
    [] way = "woocommerce"   -> ResolveCategories(o)
    [] way = "bigcommerce"   -> DiscoverToken(o)
    [] way = "axner"         -> DepartmentIndex(o)
    [] way = "ceramicolours" -> CategoryIndex(o)
    [] way = "sitemap"       -> SitemapIndex(o)

ReadIndex(o) ==
  /\ at = "list" /\ walk.next = 0 /\ Spend(o)
  /\ LET x == IndexOf(walk.way, o)
     IN /\ result' = [(IF x.fails THEN Failed(result, o) ELSE result) EXCEPT !.priced = x.priced]
        /\ at' = IF x.on THEN "list" ELSE "listed"
        /\ slips' = IF x.slip THEN slips \union {"odd"} ELSE slips
  /\ walk' = [walk EXCEPT !.next = 1]
  /\ UNCHANGED <<enumerating, task, rows, circuit, late, fixed, after>>
-----------------------------------------------------------------------------
(* A page of the listing, answered o: what it lists, whether the walk goes on, *)
(* whether the scraper marks the listing as cut short, and whether it ends or  *)
(* passes over something without marking it.                                   *)

Page(lists, on, cut, slip) == [lists |-> lists, on |-> on, cut |-> cut, slip |-> slip]
ListedOn(i, o) == IF o = "ok" THEN {i} \intersect shop ELSE {}
Sampled(ps) == limit # 0 /\ Cardinality(ps) >= limit
\* The page lists something, or is full.
Full(i, o) == o = "ok" /\ i \in shop
\* The page links the next one.
Links(i, o) == o = "ok" /\ i + 1 \in shop
Odd(o) == IF o = "odd" THEN {"odd"} ELSE {}

\* Products.json is asked for pages until one is not full.
ShopifyPage(i, o) ==
  LET got == ListedOn(i, o)
      on  == Full(i, o) /\ i < PageCap /\ ~Sampled(walk.listed \union got)
  IN Page(got, on, Full(i, o) /\ ~on, Odd(o))

\* So is the Store API, which answers 400 behind its last page.
WooPage(i, o) ==
  LET got == ListedOn(i, o)
      on  == Full(i, o) /\ i < PageCap /\ ~Sampled(walk.listed \union got)
  IN Page(got, on, Full(i, o) /\ ~on, Odd(o))

\* A GraphQL page without products leaves the loop as the page limit does.
BigcommercePage(i, o) ==
  LET got == ListedOn(i, o)
      on  == Links(i, o) /\ i < PageCap /\ ~Sampled(walk.listed \union got)
  IN Page(got, on, ~Unread(o) /\ (got = {} \/ Sampled(walk.listed \union got) \/ (Links(i, o) /\ ~on)), {})

\* A queue that is left marks the listing.
KeramikPage(i, o) ==
  LET got == ListedOn(i, o)
      on  == Links(i, o) /\ i < PageCap /\ ~Sampled(result.records \union (got \ poor))
  IN Page(got, on, Links(i, o) /\ ~on, Odd(o))

\* Here the queue that is left is forgotten.
CategoryPage(i, o) ==
  LET got == ListedOn(i, o)
      on  == Links(i, o) /\ i < PageCap /\ ~Sampled(walk.listed \union got)
  IN Page(got, on, FALSE, Odd(o) \union (IF Links(i, o) /\ ~on THEN {"capped"} ELSE {}))

\* As it is with Axner's departments.
AxnerPage(i, o) ==
  LET got == ListedOn(i, o)
      on  == Links(i, o) /\ i < PageCap /\ ~Sampled(walk.listed \union got)
  IN Page(got, on, FALSE, Odd(o) \union (IF Links(i, o) /\ ~on THEN {"capped"} ELSE {}))

\* Pages of a category are asked for until one lists nothing, or to the cap.
CeramicoloursPage(i, o) ==
  LET on == Full(i, o) /\ i < PageCap
  IN Page(ListedOn(i, o), on, FALSE, Odd(o) \union (IF Full(i, o) /\ ~on THEN {"capped"} ELSE {}))

\* The sitemaps of an index are all read, whatever becomes of one of them.
SitemapPage(i, o) == Page(ListedOn(i, o), i + 1 \in shop, FALSE, Odd(o))

\* Wix's own sitemap is one file.
StorePage(o) == Page(IF o = "ok" THEN shop ELSE {}, FALSE, FALSE, Odd(o))

PageOf(way, i, o) ==
  CASE way = "shopify"       -> ShopifyPage(i, o)
    [] way = "woocommerce"   -> WooPage(i, o)
    [] way = "bigcommerce"   -> BigcommercePage(i, o)
    [] way = "keramik_kraft" -> KeramikPage(i, o)
    [] way = "category"      -> CategoryPage(i, o)
    [] way = "axner"         -> AxnerPage(i, o)
    [] way = "ceramicolours" -> CeramicoloursPage(i, o)
    [] way = "sitemap"       -> SitemapPage(i, o)
    [] way = "store"         -> StorePage(o)

\* WooCommerce keeps its products for later; the others emit them at once.
Emitted(way, r, got) ==
  IF way \in ByListing \ {"woocommerce"}
  THEN [Added(r, got) EXCEPT !.discovered = @ \/ got # {}] ELSE r

ReadPage(o) ==
  /\ at = "list" /\ walk.next > 0 /\ Spend(o)
  /\ LET page == PageOf(walk.way, walk.next, o)
         read == Emitted(walk.way, result, page.lists)
     IN /\ walk' = [walk EXCEPT !.next = @ + 1, !.listed = @ \union page.lists]
        /\ result' = [(IF Unread(o) THEN Failed(read, o) ELSE read) EXCEPT !.truncated = @ \/ page.cut]
        /\ at' = IF page.on THEN "list" ELSE "listed"
        /\ slips' = slips \union page.slip
  /\ UNCHANGED <<enumerating, task, rows, circuit, late, fixed, after>>

\* PageScraper.discover: no product in the sitemaps, Wix's own one included, so
\* the categories are walked; a failure if the source names its sitemaps.
NextWay(named) ==
  /\ at = "listed" /\ walk.way \in {"sitemap", "store"} /\ walk.listed = {}
  /\ at' = "list"
  /\ IF walk.way = "sitemap" /\ kind = "wix"
     THEN walk' = StartOf("store") /\ UNCHANGED result
     ELSE /\ walk' = StartOf("category")
          /\ result' = IF named THEN [Failed(result, "failed") EXCEPT !.truncated = TRUE] ELSE result
  /\ UNCHANGED <<enumerating, task, rows, circuit, late, slips, fixed, after, faults>>

\* WooCommerce: one pass over the variations, then every product is emitted.
Variations(o) ==
  /\ at = "listed" /\ kind = "woocommerce" /\ Spend(o)
  /\ result' = [Added(IF Unread(o) THEN Failed(result, o) ELSE result, walk.listed)
                  EXCEPT !.discovered = walk.listed # {}]
  /\ at' = "crawled"
  /\ UNCHANGED <<walk, enumerating, task, rows, circuit, late, slips, fixed, after>>

EndListing ==
  /\ at = "listed" /\ kind \in ByListing \ {"woocommerce"}
  /\ at' = "crawled"
  /\ UNCHANGED <<crawl, fixed, after, faults>>
-----------------------------------------------------------------------------
(* PageScraper.scrape: the product pages. *)

Selected == LET most == IF limit # 0 THEN limit ELSE ProductCap
            IN {p \in walk.listed : Cardinality({q \in walk.listed : q < p}) < most}

\* Fault: whether the page limit bites is all that is kept.
SelectAssigns ==
  /\ at = "listed" /\ kind \in ByPage /\ ~(walk.way \in {"sitemap", "store"} /\ walk.listed = {})
  /\ at' = "pages"
  /\ result' = [result EXCEPT !.discovered = walk.listed # {}, !.truncated = Selected # walk.listed]
  /\ task' = [p \in Products |-> [at |-> IF p \in Selected THEN "new" ELSE "done", found |-> TRUE]]
  /\ UNCHANGED <<walk, enumerating, rows, circuit, late, slips, fixed, after, faults>>

Select ==
  /\ at = "listed" /\ kind \in ByPage /\ ~(walk.way \in {"sitemap", "store"} /\ walk.listed = {})
  /\ at' = "pages"
  /\ result' = [result EXCEPT !.discovered = walk.listed # {}, !.truncated = @ \/ Selected # walk.listed]
  /\ task' = [p \in Products |-> [at |-> IF p \in Selected THEN "new" ELSE "done", found |-> TRUE]]
  /\ UNCHANGED <<walk, enumerating, rows, circuit, late, slips, fixed, after, faults>>

On(p, where) == at = "pages" /\ task[p].at = where
Inside == {p \in Products : task[p].at \notin {"new", "done"}}

\* handle(url) enters the semaphore and extracting().
Enter(p) ==
  /\ On(p, "new") /\ Cardinality(Inside) < Concurrency
  /\ task' = [task EXCEPT ![p] = [at |-> "load", found |-> enumerating]]
  /\ enumerating' = FALSE
  /\ UNCHANGED <<at, walk, result, rows, circuit, late, slips, fixed, after, faults>>

\* It leaves both, with a row or without.
Leave(p, row) ==
  /\ task' = [task EXCEPT ![p].at = "done"]
  /\ enumerating' = task[p].found
  /\ rows' = IF row THEN rows \union {p} ELSE rows

\* The page arrives and is parsed: a row, none, or a shell that JavaScript fills;
\* or it cannot be read or parsed, and "part" of it (a pack's price) is missing.
ReadProduct(p, o) ==
  /\ On(p, "load")
  /\ Spend(IF o \in {"none", "shell"} THEN "odd" ELSE IF o = "part" THEN "failed" ELSE o)
  /\ o = "part" => kind = "ceramicolours"
  /\ result' = IF o \in {"failed", "refused", "part"} THEN Failed(result, o) ELSE result
  /\ IF o = "shell"
     THEN task' = [task EXCEPT ![p].at = "shell"] /\ UNCHANGED <<enumerating, rows>>
     ELSE Leave(p, o \in {"ok", "part"})
  /\ UNCHANGED <<at, walk, circuit, late, slips, fixed, after>>

\* Fault: renders are not serial.
LockFreeAlways == TRUE

LockFree == circuit.held = {}

\* The fallback is serial, and is skipped once it was given up.
TakeFallback(p) ==
  /\ On(p, "shell") /\ LockFree
  /\ IF circuit.stopped
     THEN Leave(p, FALSE) /\ UNCHANGED circuit
     ELSE /\ task' = [task EXCEPT ![p].at = "render"]
          /\ circuit' = [circuit EXCEPT !.held = @ \union {p}]
          /\ UNCHANGED <<enumerating, rows>>
  /\ UNCHANGED <<at, walk, result, late, slips, fixed, after, faults>>

\* Fault: a render that fails does not give the lock back.
RenderKeepsLock(p, o) ==
  /\ On(p, "render") /\ Spend(o)
  /\ result' = IF Unread(o) THEN Failed(result, o) ELSE result
  /\ Leave(p, o = "ok")
  /\ circuit' = IF Unread(o) THEN circuit ELSE [circuit EXCEPT !.held = @ \ {p}]
  /\ UNCHANGED <<at, walk, late, slips, fixed, after>>

\* The rendered page is parsed; a failure leaves the count alone.
Render(p, o) ==
  /\ On(p, "render") /\ Spend(o)
  /\ result' = IF Unread(o) THEN Failed(result, o) ELSE result
  /\ Leave(p, o = "ok")
  /\ LET zero == CASE o = "ok" -> 0 [] o = "odd" -> circuit.zero + 1 [] OTHER -> circuit.zero
     IN circuit' = [zero |-> zero, stopped |-> circuit.stopped \/ zero >= ZeroGains, held |-> circuit.held \ {p}]
  /\ UNCHANGED <<at, walk, late, slips, fixed, after>>

\* asyncio.gather returned: the rows are added in the order of the listing.
Gathered ==
  /\ at = "pages" /\ \A p \in Products : task[p].at = "done"
  /\ result' = Added(result, rows) /\ at' = "crawled"
  /\ UNCHANGED <<walk, enumerating, task, rows, circuit, late, slips, fixed, after, faults>>
-----------------------------------------------------------------------------
(* What interrupts a crawl. *)

Crawling == at \in {"list", "listed", "pages"}

\* run_source: the source's deadline.
Deadline ==
  /\ Crawling /\ Spend("failed")
  /\ at' = "crawled" /\ late' = TRUE
  /\ result' = [result EXCEPT !.errors = TRUE, !.truncated = TRUE]
  /\ UNCHANGED <<walk, enumerating, task, rows, circuit, slips, fixed, after>>

\* run_source: an exception no scraper expects ends the crawl with what it has,
\* and the listing does not count as truncated.
Exception ==
  /\ Crawling /\ Spend("failed")
  /\ at' = "crawled" /\ slips' = slips \union {"exception"}
  /\ result' = [result EXCEPT !.errors = TRUE]
  /\ UNCHANGED <<walk, enumerating, task, rows, circuit, late, fixed, after>>

\* A cancelled crawl's rows are written beside the dump and never loaded.
Cancel ==
  /\ Crawling /\ Spend("failed")
  /\ at' = "over" /\ job' = [job EXCEPT !.state = "cancelled"]
  /\ UNCHANGED <<crawl, fixed, file, load, cat>>

\* The next attempt starts from nothing but the job's directory and the catalogue.
Afresh ==
  /\ walk' = StartOf(FirstWay(kind)) /\ result' = NoResult /\ enumerating' = TRUE /\ task' = NoTasks
  /\ rows' = {} /\ circuit' = NoCircuit /\ late' = FALSE /\ slips' = {} /\ load' = NoLoad

\* This worker has no browser: the job waits for one that has, and fails if it
\* did already.
NoBrowser ==
  /\ Crawling /\ kind \notin {"shopify", "woocommerce"} /\ Spend("failed")
  /\ IF job.browser
     THEN /\ at' = "over" /\ job' = [job EXCEPT !.state = "failed"]
          /\ UNCHANGED <<crawl, load>>
     ELSE at' = "queued" /\ job' = [job EXCEPT !.state = "queued", !.browser = TRUE] /\ Afresh
  /\ UNCHANGED <<fixed, file, cat>>

\* The worker dies; the job is delivered again while it has attempts left.
WorkerDies ==
  /\ at \notin {"queued", "over"} /\ Spend("failed")
  /\ IF job.attempt < MaxAttempts
     THEN at' = "queued" /\ job' = [job EXCEPT !.state = "queued", !.attempt = @ + 1]
     ELSE at' = "over" /\ job' = [job EXCEPT !.state = "failed"]
  /\ Afresh
  /\ UNCHANGED <<fixed, file, cat>>

Claim ==
  /\ at = "queued"
  /\ at' = "robots" /\ job' = [job EXCEPT !.state = "running"]
  /\ UNCHANGED <<crawl, fixed, file, load, cat, faults>>
-----------------------------------------------------------------------------
(* _crawl_and_load, once the crawl is over. *)

\* runner.transient and the attempts that are left.
Retries == /\ result.records = {} /\ result.errors /\ result.refused /\ ~late
           /\ job.attempt < MaxAttempts

RetryTransient ==
  /\ at = "crawled" /\ Retries
  /\ at' = "queued" /\ job' = [job EXCEPT !.state = "queued", !.attempt = @ + 1]
  /\ Afresh
  /\ UNCHANGED <<fixed, file, cat, faults>>

\* write_source: an empty crawl leaves the file of an earlier attempt alone.
WriteSource ==
  /\ at = "crawled" /\ ~Retries
  /\ at' = "load"
  /\ IF result.records = {} /\ file = "full"
     THEN load' = [load EXCEPT !.write = "preserved_existing_nonempty"] /\ UNCHANGED file
     ELSE /\ load' = [load EXCEPT !.write = "replaced"]
          /\ file' = IF result.records = {} THEN "empty" ELSE "full"
  /\ UNCHANGED <<crawl, fixed, job, cat, faults>>

\* Nothing was collected, after errors or though products were listed (barren).
Error == result.records = {} /\ (result.errors \/ result.discovered)

\* may_retire
MayRetire == load.write = "replaced" /\ ~result.truncated

\* _legacy_load_plan
Whole == MayRetire /\ ~Error

\* Retirement asks the staged rows, the refused ones included.
Retired == cat \ result.records

\* load_source under the job's fence: load, row by row if the batch is refused,
\* and retire, in one transaction.
Load(bad) ==
  /\ at = "load" /\ bad \subseteq result.records /\ Spend(IF bad = {} THEN "ok" ELSE "odd")
  /\ cat' = (IF Whole THEN cat \ Retired ELSE cat) \union (result.records \ bad)
  /\ load' = [load EXCEPT !.rejected = bad]
  /\ at' = "finish"
  /\ UNCHANGED <<crawl, fixed, job, file>>

\* _legacy_terminal_state
Finish ==
  /\ at = "finish"
  /\ at' = "over"
  /\ job' = [job EXCEPT !.state = IF Error THEN "failed"
                                  ELSE IF load.rejected # {} THEN "degraded" ELSE "succeeded"]
  /\ UNCHANGED <<crawl, fixed, file, load, cat, faults>>
-----------------------------------------------------------------------------
Step ==
  \/ Robots \/ EndListing \/ Select \/ Gathered \/ Claim
  \/ \E o \in Answers : ReadIndex(o) \/ ReadPage(o) \/ Variations(o)
  \/ \E named \in BOOLEAN : NextWay(named)
  \/ \E p \in Products :
       \/ Enter(p) \/ TakeFallback(p)
       \/ \E o \in {"ok", "none", "shell", "part", "failed", "refused"} : ReadProduct(p, o)
       \/ \E o \in Answers : Render(p, o)
  \/ RetryTransient \/ WriteSource \/ Finish
  \/ \E bad \in SUBSET Products : Load(bad)

CrawlNext == Step \/ Deadline \/ Exception \/ Cancel \/ NoBrowser \/ WorkerDies

\* The event loop runs what is ready: requests time out, so every await returns.
CrawlSpec == CrawlInit /\ [][CrawlNext]_crawlVars /\ WF_crawlVars(Step)
-----------------------------------------------------------------------------
\* Types.
CrawlTypeOK ==
  /\ kind \in Kinds /\ limit \in Samples /\ shop \subseteq Products /\ poor \subseteq Products
  /\ at \in {"robots", "list", "listed", "pages", "crawled", "load", "finish", "queued", "over"}
  /\ walk \in [way : Kinds \union {"sitemap", "store", "category"}, next : Nat, listed : SUBSET Products]
  /\ result \in [records : SUBSET Products, discovered : BOOLEAN, errors : BOOLEAN,
                 truncated : BOOLEAN, priced : BOOLEAN, refused : BOOLEAN]
  /\ enumerating \in BOOLEAN /\ late \in BOOLEAN /\ rows \subseteq Products
  /\ task \in [Products -> [at : {"new", "load", "shell", "render", "done"}, found : BOOLEAN]]
  /\ circuit \in [zero : Nat, stopped : BOOLEAN, held : SUBSET Products]
  /\ job.attempt \in 1..MaxAttempts /\ job.browser \in BOOLEAN
  /\ job.state \in {"running", "queued", "succeeded", "degraded", "failed", "cancelled"}
  /\ file \in {"none", "empty", "full"} /\ cat \subseteq Products
  /\ slips \subseteq {"odd", "capped", "exception"} /\ faults \in 0..MaxFaults

\* A load withdraws a product that the shop still sells only if this attempt has
\* seen it listed and got no row of it: its page could not be read, or add()
\* dropped it.  A listing that was not read to its end withdraws nothing, unless
\* it ended in one of the ways that no scraper marks; nor does a crawl that will
\* be recorded as failed (base.py fail, postgres.py may_retire, _legacy_load_plan).
WithdrawnWasListed ==
  [][\A p \in cat \ cat' :
       /\ ~Error
       /\ p \in shop => p \notin result.records /\ (p \in walk.listed \/ slips # {})]_crawlVars

\* The circuit of zero-gain renders is exact: however many pages fall back at
\* once, no render starts after ZeroGains of them in a row gave nothing
\* (pagecrawl.py, _fallback_lock).
CircuitIsExact ==
  /\ circuit.zero <= ZeroGains
  /\ circuit.stopped => \A p \in Products : task[p].at # "render"

\* Every job ends, whatever fails on its way: no page waits for a permit or for
\* the render lock for ever, and the deadline is not needed for that.
EveryCrawlEnds == <>(at = "over")
=============================================================================
