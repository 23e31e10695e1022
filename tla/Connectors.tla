----------------------------- MODULE Connectors -----------------------------
(***************************************************************************)
(* How the connectors of commerce-scraper walk a shop: which page follows  *)
(* which, what cursor a page leaves behind, how a page and a failure are   *)
(* named and numbered, and what a checkpoint is turned back into.  Prices, *)
(* variants and markup are left out: a product is its place in the shop's  *)
(* own order, and a page holds at most one product (page_size = 1).        *)
(*                                                                         *)
(* A session is the local state of one call of collect: the discovered     *)
(* list, the position, the next page sequence, the request's result limit  *)
(* (0 for none), the number of products emitted, and the pages WooCommerce *)
(* has buffered.                                                           *)
(***************************************************************************)
EXTENDS Integers, Sequences, FiniteSets, FiniteSetsExt, SequencesExt

CONSTANT PageLimit   \* options.page_limit

ASSUME PageLimitIsPositive == PageLimit \in Nat \ {0}

Kinds == {"shopify", "woocommerce", "wix", "bigcommerce", "prestashop", "page_engine"}

\* These discover the product addresses first and then fetch them one by one.
Listing == {"wix", "prestashop", "page_engine"}

\* These leave a cursor that names a product, not a place in a list.
Anchored == {"bigcommerce", "page_engine"}

NoCursor == <<>>

\* The order in which the shop lists its products.
InOrder(shop) ==
  CHOOSE list \in [1..Cardinality(shop) -> shop] :
    ToSet(list) = shop /\ \A m, n \in 1..Cardinality(shop) : m < n => list[m] < list[n]

-----------------------------------------------------------------------------
\* EntityPage: what a connector yields.  "from" is the cursor the page began at.

EntityPage(part, id, seq, items, from, next, terminal, intact, limited) ==
  [part |-> part, id |-> id, seq |-> seq, items |-> items, from |-> from, next |-> next,
   terminal |-> terminal, intact |-> intact, limited |-> limited]

\* A page after which the collection stops short.
Stopped(part, id, seq, from, next) ==
  EntityPage(part, id, seq, {}, from, next, TRUE, FALSE, FALSE)

\* result_limit_diagnostic: the request asks for no more and there is more.
LimitReached(s, more) == s.limit > 0 /\ s.emitted + 1 >= s.limit /\ more

-----------------------------------------------------------------------------
\* Checkpoints.  Shopify and WooCommerce count pages, Wix and PrestaShop count
\* list entries, BigCommerce keeps the shop's own cursor (0 is the beginning),
\* and the page engine keeps the entry with its address.

Start(k) ==
  CASE k \in {"shopify", "woocommerce"}  -> <<1>>
    [] k \in {"wix", "prestashop"}       -> <<1, 0>>
    [] k = "bigcommerce"                 -> <<0, 0>>
    [] OTHER                             -> <<1, 0, 0>>

Sequence(k, cursor) ==
  CASE k \in {"shopify", "woocommerce"}  -> 0
    [] k = "page_engine"                 -> cursor[3]
    [] OTHER                             -> cursor[2]

\* The session a call of collect begins with.
Session(k, cursor, list, limit) ==
  [list |-> list, pos |-> cursor[1], seq |-> Sequence(k, cursor), limit |-> limit,
   emitted |-> 0, buf |-> <<>>]

WixResume(cursor, list) == cursor[1] <= Len(list) + 1

PrestaShopResume(cursor, list) ==
  cursor = Start("prestashop") \/ cursor[1] \in DOMAIN list

PageEngineResume(cursor, list) ==
  \/ cursor = Start("page_engine")
  \/ cursor[1] \in DOMAIN list /\ list[cursor[1]] = cursor[2]

\* A checkpoint a connector refuses (CHECKPOINT_INVALID) ends the attempt.
ResumeAccepted(k, cursor, list) ==
  CASE k = "wix"         -> WixResume(cursor, list)
    [] k = "prestashop"  -> PrestaShopResume(cursor, list)
    [] k = "page_engine" -> PageEngineResume(cursor, list)
    [] OTHER             -> TRUE

-----------------------------------------------------------------------------
\* The page at the session's position, for the connectors that ask the shop.

ShopifyPage(s, shop) ==
  LET list  == InOrder(shop)
      items == IF s.pos <= Len(list) THEN {list[s.pos]} ELSE {}
      full  == items # {}
      limited == full /\ LimitReached(s, TRUE)
  IN IF s.pos > PageLimit
     THEN Stopped("main", <<"limit">>, s.seq, <<s.pos>>, <<s.pos>>)
     ELSE EntityPage("main", <<"page", s.pos>>, s.seq, items, <<s.pos>>,
                     IF full THEN <<s.pos + 1>> ELSE NoCursor, ~full \/ limited, ~limited, limited)

ShopifyFailure(s) == Stopped("main", <<"page", s.pos>>, s.seq, <<s.pos>>, <<s.pos>>)

\* GraphQL "after" paging: the products behind the cursor, wherever it points.
BigCommercePage(s, shop) ==
  LET behind  == {p \in shop : p > s.pos}
      node    == IF behind = {} THEN s.pos ELSE Min(behind)
      hasNext == Cardinality(behind) > 1
      limited == LimitReached(s, hasNext)
      from    == <<s.pos, s.seq>>
      id      == <<"graphql", s.seq, s.pos>>
  IN IF s.emitted >= PageLimit
     THEN Stopped("main", id, s.seq, from, from)
     ELSE EntityPage("main", id, s.seq, behind \intersect {node}, from,
                     IF hasNext THEN <<node, s.seq + 1>> ELSE NoCursor,
                     limited \/ ~hasNext, ~limited, limited)

BigCommerceFailure(s) ==
  Stopped("main", <<"graphql", s.seq, s.pos>>, s.seq, <<s.pos, s.seq>>, <<s.pos, s.seq>>)

\* No storefront token was found.
BigCommerceNoToken == BigCommerceFailure(Session("bigcommerce", Start("bigcommerce"), <<>>, 0))

-----------------------------------------------------------------------------
\* The page at the session's position, for the connectors with a list.

WixFailure(s) ==
  Stopped("main", <<"wix", s.seq, s.pos>>, s.seq, <<s.pos, s.seq>>, <<s.pos, s.seq>>)

WixPage(s) ==
  LET stop    == Min({Len(s.list), PageLimit})
      more    == s.pos < Len(s.list)
      limited == LimitReached(s, more)
      page(items, next, terminal) ==
        EntityPage("main", <<"wix", s.seq, s.pos>>, s.seq, items, <<s.pos, s.seq>>,
                   next, terminal, ~limited, limited)
  IN IF s.pos > stop
     THEN IF s.emitted = 0 THEN [page({}, NoCursor, TRUE) EXCEPT !.intact = TRUE, !.limited = FALSE]
                           ELSE WixFailure(s)
     ELSE page({s.list[s.pos]}, IF more THEN <<s.pos + 1, s.seq + 1>> ELSE NoCursor,
               ~more \/ limited)

\* The window a session works on is cut to the smaller limit when it begins.
PrestaShopPage(s) ==
  LET maximum == IF s.limit > 0 THEN Min({s.limit, PageLimit}) ELSE PageLimit
      more    == s.pos < Len(s.list)
      cut     == more /\ s.emitted + 1 >= maximum
  IN EntityPage("sitemap", <<"item", s.pos, s.list[s.pos]>>, s.seq, {s.list[s.pos]}, <<s.pos, s.seq>>,
                IF more THEN <<s.pos + 1, s.seq + 1>> ELSE NoCursor,
                ~more \/ cut, ~cut, cut /\ s.limit > 0 /\ s.limit <= PageLimit)

PrestaShopFailure(s) ==
  Stopped("sitemap", <<"failed", s.seq>>, s.seq, <<s.pos, s.seq>>, <<s.pos, s.seq>>)

PageEngineCursor(s, pos, seq) == <<pos, s.list[pos], seq>>

PageEngineFailure(s) ==
  LET here == PageEngineCursor(s, s.pos, s.seq)
  IN Stopped("main", <<"product", s.seq>>, s.seq, here, here)

PageEnginePage(s) ==
  LET more    == s.pos < Len(s.list)
      limited == LimitReached(s, more)
  IN IF s.pos > PageLimit
     THEN PageEngineFailure(s)
     ELSE EntityPage("main", <<"product", s.seq>>, s.seq, {s.list[s.pos]},
                     PageEngineCursor(s, s.pos, s.seq),
                     IF more THEN PageEngineCursor(s, s.pos + 1, s.seq + 1) ELSE NoCursor,
                     ~more \/ limited, ~limited, limited)

-----------------------------------------------------------------------------
\* WooCommerce reads every page before it yields the first, and yields none of
\* them when the reading failed.

WooPayload(s, shop) ==
  IF s.pos <= Cardinality(shop) THEN {InOrder(shop)[s.pos]} ELSE {}

WooSeen(s) == UNION {s.buf[i].items : i \in DOMAIN s.buf}

\* One more page into the buffer; a product met before is left out.
WooBuffer(s, shop) ==
  LET fresh == WooPayload(s, shop) \ WooSeen(s)
  IN [s EXCEPT !.buf = Append(@, [page |-> s.pos, items |-> fresh]), !.pos = @ + 1,
               !.emitted = @ + Cardinality(fresh)]

WooLimited(s) == s.limit > 0 /\ s.emitted >= s.limit

\* Where a failed reading is to be taken up again.
WooFailure(s) ==
  LET first == IF s.buf = <<>> THEN s.pos ELSE s.buf[1].page
  IN Stopped("main", <<"failure", first>>, first - 1, <<first>>, <<first>>)

WooPage(s, i) ==
  LET raw     == s.buf[i]
      final   == i = Len(s.buf)
      limited == final /\ WooLimited(s)
  IN EntityPage("main", <<"page", raw.page>>, raw.page - 1, raw.items, <<raw.page>>,
                IF final /\ ~limited THEN NoCursor ELSE <<raw.page + 1>>,
                final, ~limited, limited)

WooEmpty(s) ==
  EntityPage("main", <<"empty">>, 0, {}, <<s.pos>>, NoCursor, TRUE, TRUE, FALSE)

WooPages(s) ==
  IF s.buf = <<>> THEN <<WooEmpty(s)>> ELSE [i \in DOMAIN s.buf |-> WooPage(s, i)]

-----------------------------------------------------------------------------
\* What a discovery that failed, or that found no product, yields.  PrestaShop
\* takes a shop without products for an intact, empty catalogue; the cursor of
\* the others names no product (PrestaShop's partition "discovery", the page
\* engine's base address) and is refused when it is taken up again.

PrestaShopUndiscovered == Stopped("discovery", <<"failed", 0>>, 0, <<1, 0>>, <<0, 0>>)

PageEngineUndiscovered == Stopped("main", <<"product", 0>>, 0, <<1, 0, 0>>, NoCursor)

DiscoveryFailure(k, s) ==
  CASE k = "wix"         -> WixFailure(s)
    [] k = "prestashop"  -> PrestaShopUndiscovered
    [] k = "page_engine" -> PageEngineUndiscovered
    [] k = "bigcommerce" -> BigCommerceNoToken

EmptyDiscovery(k, s) ==
  CASE k = "wix"         -> WixFailure(s)
    [] k = "prestashop"  -> EntityPage("discovery", <<"empty">>, 0, {}, <<1, 0>>, NoCursor,
                                       TRUE, TRUE, FALSE)
    [] k = "page_engine" -> Stopped("main", <<"product", 0>>, 0, <<1, 0, 0>>, <<0, 0, 0>>)

NextPage(k, s, shop) ==
  CASE k = "shopify"     -> ShopifyPage(s, shop)
    [] k = "bigcommerce" -> BigCommercePage(s, shop)
    [] k = "wix"         -> WixPage(s)
    [] k = "prestashop"  -> PrestaShopPage(s)
    [] k = "page_engine" -> PageEnginePage(s)

FetchFailure(k, s) ==
  CASE k = "shopify"     -> ShopifyFailure(s)
    [] k = "bigcommerce" -> BigCommerceFailure(s)
    [] k = "wix"         -> WixFailure(s)
    [] k = "prestashop"  -> PrestaShopFailure(s)
    [] k = "page_engine" -> PageEngineFailure(s)
    [] k = "woocommerce" -> WooFailure(s)

\* A listed product that has left the shop answers with an error status.
Answers(k, s, shop) ==
  k \in Listing /\ s.pos \in DOMAIN s.list /\ s.pos <= PageLimit => s.list[s.pos] \in shop

\* The session behind a page that was committed.
Advanced(k, s, p) ==
  [s EXCEPT !.pos = IF k = "bigcommerce" /\ p.next # NoCursor THEN p.next[1] ELSE @ + 1,
            !.seq = @ + 1, !.emitted = @ + 1]
=============================================================================
