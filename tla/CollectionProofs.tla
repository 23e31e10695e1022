-------------------------- MODULE CollectionProofs --------------------------
(***************************************************************************)
(* Proofs about Collection, for any products, executions, result limits    *)
(* and number of disturbances, and for each of the six connectors.         *)
(*                                                                         *)
(* The properties of a lineage are about pages that were committed at      *)
(* different times by different executions.  What holds them together is   *)
(* the cursor: an execution stands where a committed page left off, and a  *)
(* page that is ready to be committed began there.  Lineages only grow,    *)
(* behind what is there, so that whatever an execution relies on stays     *)
(* true while others commit, seal, reject and start lineages.              *)
(***************************************************************************)
EXTENDS Collection, FiniteSetTheorems, TLAPS

-----------------------------------------------------------------------------
(* The invariant.  Every part names the connector k that it is about. *)

\* The partitions of a lineage, and the one the products are in.
Parts(k) == IF k = "prestashop" THEN {"sitemap", "discovery"} ELSE {"main"}
Body(k) == IF k = "prestashop" THEN "sitemap" ELSE "main"

\* The form of a checkpoint, and the positions it may name.
Positions(k) == IF k \in {"shopify", "woocommerce", "wix"} THEN Nat \ {0} ELSE Int
Checkpoint(k, c) ==
  /\ c[1] \in Positions(k)
  /\ IF k \in {"shopify", "woocommerce"} THEN c = <<c[1]>>
     ELSE IF k = "page_engine" THEN c = <<c[1], c[2], c[3]>> /\ c[2] \in Int /\ c[3] \in Int
     ELSE c = <<c[1], c[2]>> /\ c[2] \in Int

\* A page, yielded or committed.  A discovery that failed leaves nowhere to go on
\* from, and a cursor that names a product is left out only by the last page.
PageOK(k, p) ==
  /\ p.part \in Parts(k) /\ p.seq \in Int /\ p.items \subseteq Products
  /\ p.next # NoCursor => Checkpoint(k, p.next)
  /\ p.part = "discovery" => p.next \in {NoCursor, <<0, 0>>}
  /\ k \in Anchored /\ p.terminal /\ p.intact => p.next = NoCursor

\* A page of this partition may begin at cursor c.
Follows(k, pages, part, c) ==
  c[1] = Start(k)[1] \/ \E q \in pages : q.part = part /\ q.next = c

\* The product x comes before what cursor c stands for.
Before(k, x, c) == IF k = "bigcommerce" THEN x <= c[1] ELSE x < c[2]

\* Of the products that were kept, those before c are among the ones got.
Covered(k, kept, c, got) == \A x \in kept : c = NoCursor \/ Before(k, x, c) => x \in got

\* With this page, all products are got up to where it leaves off.
PageCovers(k, kept, p, got) ==
  k \in Anchored /\ (p.next = NoCursor => p.intact) => Covered(k, kept, p.next, got)

\* GaplessManifest and SealedChecksumHolds, of one lineage.
Gapless(k, l) ==
  \A p \in l.pages : \/ p.from[1] = Start(k)[1]
                     \/ \E q \in l.pages : q.seq < p.seq /\ q.next = p.from
SealHolds(l) ==
  Sealed(l) /\ (\A p, q \in l.pages : p.part = q.part) => l.sum = Checksum(l)

LinOK(k, l) ==
  /\ IsFiniteSet(l.pages)
  /\ \A p \in l.pages : PageOK(k, p) /\ p.batch \subseteq Products \X Executions
  /\ \A p \in l.pages : PageCovers(k, l.kept, p, Collected(l))
  /\ Gapless(k, l) /\ SealHolds(l)

\* The cursor a session stands at.
Here(k, s) ==
  IF k = "shopify" THEN <<s.pos>>
  ELSE IF k = "woocommerce" THEN <<IF s.buf = <<>> THEN s.pos ELSE s.buf[1].page>>
  ELSE IF k = "page_engine" THEN <<s.pos, s.list[s.pos], s.seq>>
  ELSE <<s.pos, s.seq>>

Rising(list) == \A m, n \in DOMAIN list : m < n => list[m] < list[n]

\* A session at a position; the page engine's list has all that was kept.
SessionOK(k, s, kept) ==
  /\ s.pos \in Positions(k) /\ s.seq \in Int
  /\ k \in Listing => s.list \in Seq(Products)
  /\ k = "prestashop" => s.pos \in DOMAIN s.list
  /\ k = "page_engine" => s.pos \in DOMAIN s.list /\ Rising(s.list) /\ kept \subseteq ToSet(s.list)

\* WooCommerce's session: the pages buffered are the ones before its position.
WooOK(s) ==
  /\ s.pos \in Int /\ s.pos > Len(s.buf)
  /\ s.buf \in Seq([page : Int, items : SUBSET Products])
  /\ \A i \in DOMAIN s.buf : s.buf[i].page = s.pos - Len(s.buf) + i - 1

FetchOK(k, s, l) ==
  /\ Follows(k, l.pages, Body(k), Here(k, s))
  /\ IF k = "woocommerce" THEN WooOK(s)
     ELSE /\ SessionOK(k, s, l.kept)
          /\ k \in Anchored => Covered(k, l.kept, Here(k, s), Collected(l))

\* A page that is ready to be committed, and what the session is after it.
PageReady(k, p, s, l) ==
  /\ PageOK(k, p)
  /\ Follows(k, l.pages, p.part, p.from)
  /\ PageCovers(k, l.kept, p, Collected(l) \union p.items)
  /\ ~p.terminal => /\ p.part = Body(k) /\ p.next = Here(k, Advanced(k, s, p)) /\ p.next # NoCursor
                    /\ SessionOK(k, Advanced(k, s, p), l.kept)

\* The pages WooCommerce yields, each beginning where the one before left off.
WooReady(k, todo, l) ==
  /\ todo # <<>> /\ todo \in Seq(ToSet(todo))
  /\ \A i \in DOMAIN todo : PageOK(k, todo[i]) /\ (todo[i].terminal <=> i = Len(todo))
  /\ \A i, j \in DOMAIN todo : j = i + 1 => todo[j].from = todo[i].next
  /\ Follows(k, l.pages, "main", todo[1].from)

TodoOK(k, e, l) ==
  IF k = "woocommerce" THEN WooReady(k, e.todo, l)
  ELSE Tail(e.todo) = <<>> /\ PageReady(k, Head(e.todo), e.s, l)

\* The checksum was read when a partition was complete, and has all of it.
ReadAll(sum, pages) ==
  /\ sum \subseteq pages
  /\ \E p \in sum : p.terminal /\ \A q \in pages : q.part = p.part => q \in sum

CursorOK(k, c, pages) ==
  c = Start(k) \/ (c # NoCursor /\ \E q \in pages : q.next = c)

\* What an execution at work on lineage l relies on.
ExecOK(k, e, l) ==
  /\ e.at = "discover" => CursorOK(k, e.cursor, l.pages)
  /\ e.at = "fetch" => FetchOK(k, e.s, l)
  /\ e.at \in {"discover", "fetch"} => ~e.terminal
  /\ e.at \in {"stage", "commit"} => TodoOK(k, e, l)
  /\ e.at \in {"collected", "seal", "publish", "load"} =>
       (k \in Anchored /\ e.terminal /\ e.intact => l.kept \subseteq Collected(l))
  /\ e.at = "collected" /\ e.terminal /\ l.status = "active" => \E p \in l.pages : p.terminal
  /\ e.at = "seal" /\ l.status = "active" => ReadAll(e.sum, l.pages)

Working == Places \ {"none", "resolve", "gone"}

\* Records and sequences.
Shapes ==
  /\ kind \in Kinds /\ limit \in Nat /\ shop \subseteq Products
  /\ lineages \in Seq(ToSet(lineages))
  /\ \A i \in DOMAIN lineages : DOMAIN lineages[i] = {"conf", "status", "pages", "sum", "kept"}
  /\ DOMAIN exec = Executions
  /\ \A t \in Executions : /\ DOMAIN exec[t] = DOMAIN Idle /\ DOMAIN exec[t].s = DOMAIN Idle.s
                           /\ exec[t].at \in Working => exec[t].lin \in DOMAIN lineages

Walks ==
  /\ \A i \in DOMAIN lineages : LinOK(kind, lineages[i]) /\ lineages[i].kept \subseteq shop
  /\ \A t \in Executions : exec[t].at \in Working => ExecOK(kind, exec[t], LineageOf(t))

\* The inductive invariant of the lineages.
WalkInv == Shapes /\ Walks

\* An execution that brought its records in, and one that published them.
Loaded(e) == e.at = "loaded" \/ (e.at = "finish" /\ e.end = "succeeded")
HasPublished(e) == e.at = "load" \/ Loaded(e)

Names(records) == {r[1] : r \in records}

\* With WalkInv, the inductive invariant of the publication: it is the one of
\* every execution that published, and the owner that loaded has brought it in.
PublicationInv ==
  /\ \A t \in Executions : HasPublished(exec[t]) =>
       /\ Sealed(LineageOf(t))
       /\ artifact # NoArtifact /\ artifact = Batches(LineageOf(t))
  /\ \A t \in Executions : Loaded(exec[t]) /\ Owns(t) => Names(artifact) \subseteq cat
  /\ SucceededIsPublished

\* With WalkInv, the inductive invariant of the types.
TypeInv ==
  /\ TypeOK
  /\ DOMAIN dataset = {"state", "records"}
  /\ \A t \in Executions : exec[t].at = "finish" => exec[t].end \in Ended
-----------------------------------------------------------------------------
(* Finite sets of numbers and their order. *)

\* A finite set of numbers that is not empty has a greatest member: a least set
\* without one could spare a member and would have none either.
LEMMA GreatestMember ==
  ASSUME NEW S \in SUBSET Int, IsFiniteSet(S), S # {}
  PROVE  \E n \in S : \A m \in S : m <= n
<1> DEFINE Bad == {T \in FiniteSubsetsOf(S) : T # {} /\ ~ \E n \in T : \A m \in T : m <= n}
<1>1. ASSUME Bad # {}
      PROVE  FALSE
  <2>1. Bad \subseteq FiniteSubsetsOf(S)
    OBVIOUS
  <2>2. PICK T \in Bad : \A U \in Bad : <<U, T>> \notin StrictSubsetOrdering(S)
    BY <2>1, <1>1, FS_StrictSubsetOrderingWellFounded, WFMin
  <2>3. T \in SUBSET S /\ IsFiniteSet(T) /\ T # {} /\ ~ \E n \in T : \A m \in T : m <= n
    BY DEF FiniteSubsetsOf
  <2>4. PICK x \in T : TRUE
    BY <2>3
  <2> DEFINE U == T \ {x}
  <2>5. U \in FiniteSubsetsOf(S) /\ <<U, T>> \in StrictSubsetOrdering(S)
    <3>1. IsFiniteSet(U)
      BY <2>3, FS_RemoveElement
    <3>2. QED
      BY <3>1, <2>3, <2>4 DEF FiniteSubsetsOf, StrictSubsetOrdering
  <2>6. U \notin Bad
    BY <2>5, <2>2
  <2>7. U # {}
    <3>1. U = {} => T = {x} /\ x <= x
      BY <2>3, <2>4
    <3>2. QED
      BY <3>1, <2>3
  <2>8. PICK n \in U : \A m \in U : m <= n
    BY <2>5, <2>6, <2>7
  <2>9. n \in T /\ n \in Int /\ x \in Int /\ \A m \in T : m \in U \/ m = x
    BY <2>8, <2>3, <2>4
  <2>10. CASE x <= n
    BY <2>10, <2>8, <2>9, <2>3
  <2>11. CASE n <= x
    <3>1. \A m \in T : m \in Int /\ m <= x
      BY <2>11, <2>8, <2>9, <2>3
    <3>2. QED
      BY <3>1, <2>3, <2>4
  <2>12. QED
    BY <2>9, <2>10, <2>11
<1>2. S \notin Bad /\ S \in FiniteSubsetsOf(S)
  BY <1>1 DEF FiniteSubsetsOf
<1>3. QED
  BY <1>2

\* ... and a least one.
LEMMA LeastMember ==
  ASSUME NEW S \in SUBSET Int, IsFiniteSet(S), S # {}
  PROVE  \E n \in S : \A m \in S : n <= m
<1> DEFINE f == [x \in S |-> 0 - x]
           T == {f[x] : x \in S}
<1>1. IsFiniteSet(T)
  <2>1. f \in Surjection(S, T)
    BY DEF Surjection
  <2>2. QED
    BY <2>1, FS_Surjection
<1>2. T \in SUBSET Int /\ T # {}
  <2>1. ASSUME NEW x \in S
        PROVE  f[x] \in Int
    <3>1. x \in Int /\ f[x] = 0 - x
      OBVIOUS
    <3>2. QED
      BY <3>1
  <2>2. PICK x \in S : TRUE
    OBVIOUS
  <2>3. f[x] \in T
    OBVIOUS
  <2>4. T \subseteq Int
    BY <2>1
  <2>5. QED
    BY <2>3, <2>4
<1>3. PICK n \in T : \A m \in T : m <= n
  BY <1>1, <1>2, GreatestMember
<1>4. PICK x \in S : n = 0 - x
  OBVIOUS
<1>5. ASSUME NEW y \in S
      PROVE  x <= y
  <2>1. (0 - y) \in T
    OBVIOUS
  <2>2. 0 - y <= 0 - x
    BY <2>1, <1>3, <1>4
  <2>3. QED
    BY <2>2
<1>6. QED
  BY <1>5

\* A shop's products can be listed in their order, and InOrder does it.  Were there
\* products that cannot, there would be some of least number; without the last of
\* them they can be.
IsOrder(list, S) ==
  ToSet(list) = S /\ \A m, n \in 1..Cardinality(S) : m < n => list[m] < list[n]

\* Any finite set of numbers can be listed in order.
LEMMA OrderExists ==
  ASSUME NEW S \in SUBSET Nat, IsFiniteSet(S)
  PROVE  \E list \in [1..Cardinality(S) -> S] : IsOrder(list, S)
<1> DEFINE Can(V) == \E list \in [1..Cardinality(V) -> V] : IsOrder(list, V)
           Bad == {V \in FiniteSubsetsOf(S) : ~ Can(V)}
<1>1. ASSUME Bad # {}
      PROVE  FALSE
  <2>1. Bad \subseteq FiniteSubsetsOf(S)
    OBVIOUS
  <2>2. PICK V \in Bad : \A U \in Bad : <<U, V>> \notin StrictSubsetOrdering(S)
    BY <2>1, <1>1, FS_StrictSubsetOrderingWellFounded, WFMin
  <2>3. V \in SUBSET S /\ IsFiniteSet(V) /\ ~Can(V)
    BY DEF FiniteSubsetsOf
  <2>4. V # {}
    <3>1. ASSUME V = {}
          PROVE  FALSE
      <4>1. Cardinality(V) = 0
        BY <3>1, FS_EmptySet
      <4>2. <<>> \in [1..0 -> {}] /\ ToSet(<<>>) = {}
        BY DEF ToSet
      <4>3. IsOrder(<<>>, V)
        BY <4>1, <4>2, <3>1 DEF IsOrder
      <4>4. QED
        BY <4>1, <4>2, <4>3, <3>1, <2>3
    <3>2. QED
      BY <3>1
  <2>5. PICK x \in V : \A y \in V : y <= x
    <3>1. V \in SUBSET Int
      BY <2>3
    <3>2. QED
      BY <3>1, <2>3, <2>4, GreatestMember
  <2> DEFINE W == V \ {x}
             c == Cardinality(V)
  <2>6. IsFiniteSet(W) /\ Cardinality(W) = c - 1 /\ Cardinality(W) \in Nat /\ c \in Nat
    BY <2>3, FS_RemoveElement, FS_CardinalityType
  <2>7. Can(W)
    <3>1. W \in FiniteSubsetsOf(S) /\ <<W, V>> \in StrictSubsetOrdering(S)
      BY <2>3, <2>5, <2>6 DEF FiniteSubsetsOf, StrictSubsetOrdering
    <3>2. W \notin Bad
      BY <3>1, <2>2
    <3>3. QED
      BY <3>1, <3>2
  <2>8. PICK s \in [1..Cardinality(W) -> W] : IsOrder(s, W)
    BY <2>7
  <2> DEFINE t == [k \in 1..c |-> IF k = c THEN x ELSE s[k]]
  <2>9. c \in Nat /\ Cardinality(W) = c - 1 /\ c - 1 \in Nat
    BY <2>6
  <2> HIDE DEF c
  <2>10. \A k \in 1..c : k # c => k \in 1..(c-1) /\ s[k] \in W /\ t[k] = s[k]
    <3> HIDE DEF W
    <3>1. s \in [1..(c-1) -> W]
      BY <2>8, <2>9
    <3>2. ASSUME NEW k \in 1..c, k # c
          PROVE  k \in 1..(c-1) /\ t[k] = s[k]
      BY <3>2, <2>9
    <3>3. QED
      BY <3>1, <3>2
  <2>11. c \in 1..c /\ t[c] = x
    BY <2>9
  <2>12. t \in [1..c -> V]
    BY <2>10, <2>11
  <2>13. ToSet(t) = V
    <3>1. ASSUME NEW y \in V
          PROVE  \E k \in 1..c : t[k] = y
      <4>1. CASE y = x
        BY <4>1, <2>11
      <4>2. CASE y # x
        <5>1. y \in ToSet(s)
          BY <4>2, <2>8 DEF IsOrder
        <5>2. PICK k \in DOMAIN s : y = s[k]
          BY <5>1 DEF ToSet
        <5>3. k \in 1..(c - 1)
          BY <5>2, <2>8, <2>9
        <5>4. k \in 1..c /\ k # c
          BY <5>3, <2>9
        <5>5. QED
          BY <5>4, <5>2, <2>10
      <4>3. QED
        BY <4>1, <4>2
    <3>2. DOMAIN t = 1..c
      OBVIOUS
    <3> HIDE DEF t
    <3>3. QED
      BY <3>1, <3>2, <2>12 DEF ToSet
  <2>14. ASSUME NEW m \in 1..c, NEW n \in 1..c, m < n
         PROVE  t[m] < t[n]
    <3>1. m # c /\ t[m] = s[m] /\ s[m] \in W /\ m \in 1..(c-1)
      <4>1. m # c
        BY <2>14, <2>9
      <4>2. QED
        BY <4>1, <2>10
    <3>2. CASE n = c
      <4>1. t[m] \in V /\ t[m] # x /\ t[m] <= x /\ t[n] = x
        BY <3>1, <3>2, <2>5, <2>11
      <4>2. t[m] \in Nat /\ x \in Nat
        BY <4>1, <2>3
      <4> HIDE DEF t
      <4>3. QED
        BY <4>1, <4>2
    <3>3. CASE n # c
      <4>1. n \in 1..(c-1) /\ t[n] = s[n]
        BY <3>3, <2>10
      <4>2. s[m] < s[n]
        BY <4>1, <3>1, <2>14, <2>8, <2>9 DEF IsOrder
      <4>3. QED
        BY <4>1, <4>2, <3>1
    <3>4. QED
      BY <3>2, <3>3
  <2>15. IsOrder(t, V)
    <3> HIDE DEF t
    <3>1. QED
      BY <2>13, <2>14 DEF IsOrder, c
  <2>16. QED
    <3> HIDE DEF t
    <3>1. Can(V)
      BY <2>12, <2>15 DEF c
    <3>2. QED
      BY <3>1, <2>3
<1>2. S \in FiniteSubsetsOf(S)
  BY DEF FiniteSubsetsOf
<1>3. QED
  BY <1>1, <1>2

\* What InOrder returns: the shop's products, each once, in their order.
LEMMA InOrderLists ==
  ASSUME NEW S \in SUBSET Products
  PROVE  /\ InOrder(S) \in Seq(Products) /\ ToSet(InOrder(S)) = S /\ Rising(InOrder(S))
         /\ Len(InOrder(S)) = Cardinality(S)
         /\ IsFiniteSet(S) /\ S \in SUBSET Nat
<1>1. IsFiniteSet(S) /\ S \in SUBSET Nat
  BY ProductsAreNumbers, FS_Subset
<1>2. \E list \in [1..Cardinality(S) -> S] : IsOrder(list, S)
  BY <1>1, OrderExists
<1>3. InOrder(S) \in [1..Cardinality(S) -> S] /\ IsOrder(InOrder(S), S)
  BY <1>2 DEF InOrder, IsOrder
<1>4. Cardinality(S) \in Nat
  BY <1>1, FS_CardinalityType
<1>5. InOrder(S) \in Seq(Products) /\ Len(InOrder(S)) = Cardinality(S)
  BY <1>3, <1>4
<1>6. DOMAIN InOrder(S) = 1..Cardinality(S)
  BY <1>3
<1>7. QED
  BY <1>1, <1>3, <1>5, <1>6 DEF IsOrder, Rising

-----------------------------------------------------------------------------
(* Connectors: every page they yield is ready to be committed. *)

\* The fields of an execution and of a session.
LEMMA Fields ==
  /\ DOMAIN Idle = {"at", "conf", "lin", "cursor", "s", "todo", "outcome", "failed", "cancel",
                    "terminal", "intact", "limited", "sum", "end"}
  /\ DOMAIN Idle.s = {"list", "pos", "seq", "limit", "emitted", "buf"}
BY DEF Idle

\* Products are numbered.
LEMMA ProductNumbers == \A x \in Products : x \in Int /\ x \in Nat /\ x > 0
BY ProductsAreNumbers

\* The smaller of two numbers (min() in the connectors).
LEMMA MinOfTwo ==
  ASSUME NEW a \in Int, NEW b \in Int
  PROVE  Min({a, b}) \in {a, b} /\ Min({a, b}) <= a /\ Min({a, b}) <= b
<1>1. \E x \in {a, b} : \A y \in {a, b} : x <= y
  OBVIOUS
<1>2. QED
  BY <1>1 DEF Min

\* Where the page that follows is read.
LEMMA AdvancedMoves ==
  ASSUME NEW k, NEW s, NEW p, DOMAIN s = DOMAIN Idle.s
  PROVE  LET n == Advanced(k, s, p) IN
         /\ DOMAIN n = DOMAIN Idle.s
         /\ n.list = s.list /\ n.buf = s.buf /\ n.seq = s.seq + 1
         /\ n.pos = IF k = "bigcommerce" /\ p.next # NoCursor THEN p.next[1] ELSE s.pos + 1
BY Fields DEF Advanced

\* A page after which the collection stops short leaves off where it began, or
\* at its beginning.
LEMMA StoppedIsReady ==
  ASSUME NEW k, NEW s, NEW l, NEW part \in Parts(k), NEW id, NEW seq \in Int, NEW c,
         Checkpoint(k, c), c # NoCursor, part # "discovery",
         Follows(k, l.pages, part, c),
         k \in Anchored => Covered(k, l.kept, c, Collected(l))
  PROVE  PageReady(k, Stopped(part, id, seq, c, c), s, l)
<1> DEFINE p == Stopped(part, id, seq, c, c)
<1>1. p.part = part /\ p.seq = seq /\ p.items = {} /\ p.from = c /\ p.next = c
      /\ p.terminal = TRUE /\ p.intact = FALSE
  BY DEF Stopped, EntityPage
<1> HIDE DEF p
<1>2. PageOK(k, p)
  BY <1>1 DEF PageOK
<1>3. PageCovers(k, l.kept, p, Collected(l) \union p.items)
  BY <1>1 DEF PageCovers, Covered
<1>4. QED
  BY <1>1, <1>2, <1>3 DEF PageReady, p

\* Here is a checkpoint of the connector.
LEMMA HereIsACheckpoint ==
  ASSUME NEW k \in Kinds \ {"woocommerce"}, NEW s, NEW kept, SessionOK(k, s, kept)
  PROVE  Checkpoint(k, Here(k, s)) /\ Here(k, s) # NoCursor /\ Here(k, s)[1] = s.pos
<1>1. CASE k = "shopify"
  BY <1>1 DEF SessionOK, Checkpoint, Here, NoCursor
<1>2. CASE k = "page_engine"
  <2>1. s.list[s.pos] \in Products /\ Products \subseteq Nat
    BY <1>2, ProductsAreNumbers DEF SessionOK, Listing
  <2> DEFINE h == <<s.pos, s.list[s.pos], s.seq>>
  <2>2. h[1] = s.pos /\ h[2] = s.list[s.pos] /\ h[3] = s.seq /\ h # <<>>
    OBVIOUS
  <2>3. s.pos \in Positions(k) /\ s.seq \in Int
    BY DEF SessionOK
  <2>4. Here(k, s) = h
    BY <1>2 DEF Here
  <2>5. Checkpoint(k, h)
    <3>1. s.list[s.pos] \in Int
      BY <2>1, ProductNumbers, Zenon
    <3>2. QED
      BY <1>2, <2>2, <2>3, <3>1, Zenon DEF Checkpoint
  <2>6. QED
    BY <2>2, <2>4, <2>5 DEF NoCursor
<1>3. CASE k \in {"wix", "bigcommerce", "prestashop"}
  BY <1>3 DEF SessionOK, Checkpoint, Here, NoCursor
<1>4. QED
  BY <1>1, <1>2, <1>3 DEF Kinds

\* Shopify's products.json, page by page.
LEMMA ShopifyReady ==
  ASSUME NEW s, NEW l, NEW S \in SUBSET Products, DOMAIN s = DOMAIN Idle.s,
         FetchOK("shopify", s, l)
  PROVE  /\ PageReady("shopify", ShopifyPage(s, S), s, l)
         /\ PageReady("shopify", ShopifyFailure(s), s, l)
<1> DEFINE k == "shopify"
           here == <<s.pos>>
           p == ShopifyPage(s, S)
           list == InOrder(S)
<1>1. /\ SessionOK(k, s, l.kept) /\ Here(k, s) = here /\ Body(k) = "main" /\ k \notin Anchored
      /\ Follows(k, l.pages, "main", here) /\ Parts(k) = {"main"}
  BY DEF FetchOK, Here, Body, Anchored, Parts
<1>2. Checkpoint(k, here) /\ here # NoCursor /\ s.pos \in Nat \ {0} /\ s.seq \in Int
  BY <1>1, HereIsACheckpoint DEF SessionOK, Positions, Kinds
<1>3. \A id : PageReady(k, Stopped("main", id, s.seq, here, here), s, l)
  BY <1>1, <1>2, StoppedIsReady
<1>4. list \in Seq(Products)
  BY InOrderLists
<1>5. CASE s.pos > PageLimit
  <2>1. p = Stopped("main", <<"limit">>, s.seq, here, here)
    BY <1>5 DEF ShopifyPage
  <2>2. QED
    BY <2>1, <1>3 DEF ShopifyFailure
<1>6. CASE ~ (s.pos > PageLimit)
  <2> DEFINE items == IF s.pos <= Len(list) THEN {list[s.pos]} ELSE {}
             limited == items # {} /\ LimitReached(s, TRUE)
  <2>1. /\ p.part = "main" /\ p.seq = s.seq /\ p.items = items /\ p.from = here
        /\ p.next = IF items # {} THEN <<s.pos + 1>> ELSE NoCursor
        /\ p.terminal <=> (items = {} \/ limited)
    BY <1>6 DEF ShopifyPage, EntityPage
  <2>2. items \subseteq Products
    BY <1>2, <1>4
  <2>3. Checkpoint(k, <<s.pos + 1>>)
    BY <1>2 DEF Checkpoint, Positions
  <2> HIDE DEF p, items, limited
  <2>4. PageOK(k, p)
    BY <2>1, <2>2, <2>3, <1>1, <1>2 DEF PageOK
  <2>5. ASSUME ~p.terminal
        PROVE  /\ p.next = Here(k, Advanced(k, s, p)) /\ p.next # NoCursor
               /\ SessionOK(k, Advanced(k, s, p), l.kept)
    <3>1. items # {} /\ p.next = <<s.pos + 1>>
      BY <2>1, <2>5
    <3>2. Advanced(k, s, p).pos = s.pos + 1 /\ Advanced(k, s, p).seq = s.seq + 1
      BY AdvancedMoves
    <3>3. p.next = Here(k, Advanced(k, s, p)) /\ p.next # NoCursor
      BY <3>1, <3>2 DEF Here, NoCursor
    <3>4. QED
      BY <3>2, <3>3, <1>2 DEF SessionOK, Positions, Listing
  <2>6. PageReady(k, p, s, l)
    BY <2>1, <2>4, <2>5, <1>1 DEF PageReady, PageCovers
  <2>7. QED
    BY <2>6, <1>3 DEF ShopifyFailure, p
<1>7. QED
  BY <1>5, <1>6

\* The least of some products (BigCommerce's next node).
LEMMA MinOfProducts ==
  ASSUME NEW S \in SUBSET Products, S # {}
  PROVE  Min(S) \in S /\ \A x \in S : Min(S) <= x
<1>1. S \in SUBSET Int /\ IsFiniteSet(S)
  BY ProductNumbers, InOrderLists, Zenon
<1>2. \E n \in S : \A m \in S : n <= m
  BY <1>1, LeastMember
<1>3. QED
  BY <1>2 DEF Min

\* BigCommerce's GraphQL pages: the first product behind the cursor.
LEMMA BigCommerceReady ==
  ASSUME NEW s, NEW l, NEW S \in SUBSET Products, DOMAIN s = DOMAIN Idle.s,
         l.kept \subseteq S, FetchOK("bigcommerce", s, l)
  PROVE  /\ PageReady("bigcommerce", BigCommercePage(s, S), s, l)
         /\ PageReady("bigcommerce", BigCommerceFailure(s), s, l)
<1> DEFINE k == "bigcommerce"
           here == <<s.pos, s.seq>>
           id == <<"graphql", s.seq, s.pos>>
           p == BigCommercePage(s, S)
<1>1. /\ SessionOK(k, s, l.kept) /\ Here(k, s) = here /\ Body(k) = "main" /\ k \in Anchored
      /\ Follows(k, l.pages, "main", here) /\ Parts(k) = {"main"}
      /\ Covered(k, l.kept, here, Collected(l))
  BY DEF FetchOK, Here, Body, Anchored, Parts
<1>2. Checkpoint(k, here) /\ here # NoCursor /\ s.pos \in Int /\ s.seq \in Int /\ here[1] = s.pos
  BY <1>1, HereIsACheckpoint DEF SessionOK, Positions, Kinds
<1>3. PageReady(k, Stopped("main", id, s.seq, here, here), s, l)
  BY <1>1, <1>2, StoppedIsReady
<1>4. PageReady(k, BigCommerceFailure(s), s, l)
  BY <1>3 DEF BigCommerceFailure
<1>5. CASE s.emitted >= PageLimit
  BY <1>5, <1>3, <1>4 DEF BigCommercePage
<1>6. CASE ~ (s.emitted >= PageLimit)
  <2> DEFINE behind == {x \in S : x > s.pos}
             node == IF behind = {} THEN s.pos ELSE Min(behind)
             hasNext == Cardinality(behind) > 1
             limited == LimitReached(s, hasNext)
  <2>1. /\ p.part = "main" /\ p.seq = s.seq /\ p.items = behind \intersect {node} /\ p.from = here
        /\ p.next = IF hasNext THEN <<node, s.seq + 1>> ELSE NoCursor
        /\ p.terminal <=> (limited \/ ~hasNext)
        /\ p.intact <=> ~limited
    BY <1>6 DEF BigCommercePage, EntityPage
  <2>2. limited => hasNext
    BY DEF LimitReached
  <2>3. behind \in SUBSET Products /\ IsFiniteSet(behind)
    <3>1. behind \in SUBSET Products
      OBVIOUS
    <3>2. QED
      BY <3>1, InOrderLists
  <2>4. behind # {} => node \in behind /\ \A x \in behind : node <= x
    BY <2>3, MinOfProducts
  <2>5. hasNext => behind # {}
    <3>1. behind = {} => Cardinality(behind) = 0
      BY FS_EmptySet
    <3>2. QED
      BY <3>1
  <2>6. ~hasNext => behind \subseteq {node}
    <3>1. Cardinality(behind) \in Nat
      BY <2>3, FS_CardinalityType
    <3>2. ~hasNext => Cardinality(behind) = 0 \/ Cardinality(behind) = 1
      BY <3>1
    <3> HIDE DEF behind, node, hasNext
    <3>3. ~hasNext => behind = {} \/ \E x : behind = {x}
      BY <3>2, <2>3, FS_EmptySet, FS_Singleton, Zenon
    <3>4. QED
      BY <3>3, <2>4
  <2>7. node \in Int
    BY <2>3, <2>4, <1>2, ProductNumbers
  <2>8. l.kept \in SUBSET Products /\ \A x \in l.kept : x \in Int /\ (x <= s.pos \/ x \in behind)
    <3>1. \A x \in l.kept : x \in S /\ x \in Products
      OBVIOUS
    <3>2. \A x \in l.kept : x \in Int
      BY <3>1, ProductNumbers, Zenon
    <3>3. QED
      BY <3>1, <3>2, <1>2
  <2> HIDE DEF p, behind, node, hasNext, limited
  <2>9. Checkpoint(k, <<node, s.seq + 1>>) /\ <<node, s.seq + 1>> # NoCursor
    BY <2>7, <1>2 DEF Checkpoint, Positions, NoCursor
  <2>10. PageOK(k, p)
    BY <2>1, <2>2, <2>3, <2>9, <1>1, <1>2 DEF PageOK
  <2>11. \A x \in l.kept : x <= s.pos => x \in Collected(l)
    BY <1>1, <1>2 DEF Covered, Before
  <2>12. PageCovers(k, l.kept, p, Collected(l) \union p.items)
    <3>1. CASE hasNext
      <4>1. p.next = <<node, s.seq + 1>> /\ p.next # NoCursor /\ p.next[1] = node /\ p.items = {node}
        BY <3>1, <2>1, <2>4, <2>5, <2>9
      <4>2. \A x \in l.kept : x <= node => x \in Collected(l) \union {node}
        <5>1. SUFFICES ASSUME NEW x \in l.kept, x <= node, ~ (x <= s.pos)
                       PROVE  x = node
          BY <2>11
        <5>2. x \in behind /\ node <= x /\ x \in Int
          BY <5>1, <2>8, <2>4
        <5>3. QED
          BY <5>1, <5>2, <2>7
      <4>3. QED
        BY <4>1, <4>2 DEF PageCovers, Covered, Before
    <3>2. CASE ~hasNext
      <4>1. p.next = NoCursor /\ behind \subseteq p.items
        BY <3>2, <2>1, <2>6
      <4>2. QED
        BY <4>1, <2>8, <2>11 DEF PageCovers, Covered
    <3>3. QED
      BY <3>1, <3>2
  <2>13. ASSUME ~p.terminal
         PROVE  /\ p.next = Here(k, Advanced(k, s, p)) /\ p.next # NoCursor
                /\ SessionOK(k, Advanced(k, s, p), l.kept)
    <3>1. hasNext /\ p.next = <<node, s.seq + 1>> /\ p.next # NoCursor /\ p.next[1] = node
      BY <2>1, <2>13, <2>9
    <3>2. Advanced(k, s, p).pos = node /\ Advanced(k, s, p).seq = s.seq + 1
      <4>1. /\ Advanced(k, s, p).pos = IF k = "bigcommerce" /\ p.next # NoCursor
                                      THEN p.next[1] ELSE s.pos + 1
            /\ Advanced(k, s, p).seq = s.seq + 1
        BY AdvancedMoves, ZenonT(60)
      <4>2. QED
        BY <3>1, <4>1
    <3>3. p.next = Here(k, Advanced(k, s, p))
      BY <3>1, <3>2 DEF Here
    <3>4. QED
      BY <3>1, <3>2, <3>3, <2>7, <1>2 DEF SessionOK, Positions, Listing
  <2>14. PageReady(k, p, s, l)
    BY <2>1, <2>10, <2>12, <2>13, <1>1 DEF PageReady
  <2>15. QED
    BY <2>14, <1>4 DEF p
<1>7. QED
  BY <1>5, <1>6

\* Wix: the entries of a list.
LEMMA WixReady ==
  ASSUME NEW s, NEW l, DOMAIN s = DOMAIN Idle.s, FetchOK("wix", s, l)
  PROVE  PageReady("wix", WixPage(s), s, l) /\ PageReady("wix", WixFailure(s), s, l)
<1> DEFINE k == "wix"
           here == <<s.pos, s.seq>>
           id == <<"wix", s.seq, s.pos>>
           p == WixPage(s)
<1>1. /\ SessionOK(k, s, l.kept) /\ Here(k, s) = here /\ Body(k) = "main" /\ k \notin Anchored
      /\ Follows(k, l.pages, "main", here) /\ Parts(k) = {"main"}
  BY DEF FetchOK, Here, Body, Anchored, Parts
<1>2. /\ Checkpoint(k, here) /\ here # NoCursor /\ s.pos \in Nat \ {0} /\ s.seq \in Int
      /\ s.list \in Seq(Products)
  BY <1>1, HereIsACheckpoint DEF SessionOK, Positions, Kinds, Listing
<1>3. PageReady(k, Stopped("main", id, s.seq, here, here), s, l)
  BY <1>1, <1>2, StoppedIsReady
<1>4. PageReady(k, WixFailure(s), s, l)
  BY <1>3 DEF WixFailure
<1> DEFINE stop == Min({Len(s.list), PageLimit})
           more == s.pos < Len(s.list)
           limited == LimitReached(s, more)
<1>5. Len(s.list) \in Nat /\ stop \in Int /\ stop <= Len(s.list)
  <2>1. Len(s.list) \in Nat /\ Len(s.list) \in Int /\ PageLimit \in Int
    BY <1>2, PageLimitIsPositive
  <2>2. stop \in {Len(s.list), PageLimit} /\ stop <= Len(s.list)
    BY <2>1, MinOfTwo, Zenon
  <2>3. QED
    BY <2>1, <2>2
<1>6. CASE s.pos > stop
  <2>1. CASE s.emitted = 0
    <3>1. /\ p.part = "main" /\ p.seq = s.seq /\ p.items = {} /\ p.from = here
          /\ p.next = NoCursor /\ p.terminal = TRUE
      BY <1>6, <2>1 DEF WixPage, EntityPage
    <3> HIDE DEF p
    <3>2. PageOK(k, p)
      BY <3>1, <1>1, <1>2 DEF PageOK
    <3>3. PageReady(k, p, s, l)
      BY <3>1, <3>2, <1>1 DEF PageReady, PageCovers
    <3>4. QED
      BY <3>3, <1>4 DEF p
  <2>2. CASE s.emitted # 0
    BY <1>6, <2>2, <1>4 DEF WixPage
  <2>3. QED
    BY <2>1, <2>2
<1>7. CASE ~ (s.pos > stop)
  <2>1. /\ p.part = "main" /\ p.seq = s.seq /\ p.items = {s.list[s.pos]} /\ p.from = here
        /\ p.next = IF more THEN <<s.pos + 1, s.seq + 1>> ELSE NoCursor
        /\ p.terminal <=> (~more \/ limited)
    BY <1>7 DEF WixPage, EntityPage
  <2>2. s.list[s.pos] \in Products
    BY <1>2, <1>5, <1>7
  <2>3. Checkpoint(k, <<s.pos + 1, s.seq + 1>>) /\ <<s.pos + 1, s.seq + 1>> # NoCursor
    BY <1>2 DEF Checkpoint, Positions, NoCursor
  <2> HIDE DEF p, more, limited
  <2>4. PageOK(k, p)
    BY <2>1, <2>2, <2>3, <1>1, <1>2 DEF PageOK
  <2>5. ASSUME ~p.terminal
        PROVE  /\ p.next = Here(k, Advanced(k, s, p)) /\ p.next # NoCursor
               /\ SessionOK(k, Advanced(k, s, p), l.kept)
    <3>1. more /\ p.next = <<s.pos + 1, s.seq + 1>>
      BY <2>1, <2>5
    <3>2. /\ Advanced(k, s, p).pos = s.pos + 1 /\ Advanced(k, s, p).seq = s.seq + 1
          /\ Advanced(k, s, p).list = s.list
      BY AdvancedMoves
    <3>3. p.next = Here(k, Advanced(k, s, p)) /\ p.next # NoCursor
      BY <3>1, <3>2, <2>3 DEF Here
    <3>4. QED
      BY <3>2, <3>3, <1>2 DEF SessionOK, Positions, Listing
  <2>6. PageReady(k, p, s, l)
    BY <2>1, <2>4, <2>5, <1>1 DEF PageReady, PageCovers
  <2>7. QED
    BY <2>6, <1>4 DEF p
<1>8. QED
  BY <1>6, <1>7

\* PrestaShop: the entries of a sitemap, up to the limit of the session.
LEMMA PrestaShopReady ==
  ASSUME NEW s, NEW l, DOMAIN s = DOMAIN Idle.s, FetchOK("prestashop", s, l)
  PROVE  /\ PageReady("prestashop", PrestaShopPage(s), s, l)
         /\ PageReady("prestashop", PrestaShopFailure(s), s, l)
<1> DEFINE k == "prestashop"
           here == <<s.pos, s.seq>>
           p == PrestaShopPage(s)
<1>1. /\ SessionOK(k, s, l.kept) /\ Here(k, s) = here /\ Body(k) = "sitemap" /\ k \notin Anchored
      /\ Follows(k, l.pages, "sitemap", here) /\ Parts(k) = {"sitemap", "discovery"}
  BY DEF FetchOK, Here, Body, Anchored, Parts
<1>2. /\ Checkpoint(k, here) /\ here # NoCursor /\ s.pos \in DOMAIN s.list /\ s.seq \in Int
      /\ s.list \in Seq(Products)
  BY <1>1, HereIsACheckpoint DEF SessionOK, Positions, Kinds, Listing
<1>3. PageReady(k, Stopped("sitemap", <<"failed", s.seq>>, s.seq, here, here), s, l)
  BY <1>1, <1>2, StoppedIsReady
<1>4. PageReady(k, PrestaShopFailure(s), s, l)
  BY <1>3 DEF PrestaShopFailure
<1> DEFINE maximum == IF s.limit > 0 THEN Min({s.limit, PageLimit}) ELSE PageLimit
           more == s.pos < Len(s.list)
           cut == more /\ s.emitted + 1 >= maximum
<1>5. /\ p.part = "sitemap" /\ p.seq = s.seq /\ p.items = {s.list[s.pos]} /\ p.from = here
      /\ p.next = IF more THEN <<s.pos + 1, s.seq + 1>> ELSE NoCursor
      /\ p.terminal <=> (~more \/ cut)
  BY DEF PrestaShopPage, EntityPage
<1>6. s.list[s.pos] \in Products /\ s.pos \in Int /\ s.pos \in 1..Len(s.list) /\ Len(s.list) \in Nat
  BY <1>2
<1>7. Checkpoint(k, <<s.pos + 1, s.seq + 1>>) /\ <<s.pos + 1, s.seq + 1>> # NoCursor
  BY <1>2, <1>6 DEF Checkpoint, Positions, NoCursor
<1> HIDE DEF p, cut
<1>8. PageOK(k, p)
  BY <1>5, <1>6, <1>7, <1>1, <1>2 DEF PageOK
<1>9. ASSUME ~p.terminal
      PROVE  /\ p.next = Here(k, Advanced(k, s, p)) /\ p.next # NoCursor
             /\ SessionOK(k, Advanced(k, s, p), l.kept)
  <2>1. more /\ p.next = <<s.pos + 1, s.seq + 1>>
    BY <1>5, <1>9
  <2>2. /\ Advanced(k, s, p).pos = s.pos + 1 /\ Advanced(k, s, p).seq = s.seq + 1
        /\ Advanced(k, s, p).list = s.list
    BY AdvancedMoves
  <2>3. p.next = Here(k, Advanced(k, s, p)) /\ p.next # NoCursor
    BY <2>1, <2>2, <1>7 DEF Here
  <2>4. s.pos + 1 \in DOMAIN s.list /\ s.pos + 1 \in Int
    BY <2>1, <1>2, <1>6
  <2>5. QED
    BY <2>2, <2>3, <2>4, <1>2 DEF SessionOK, Positions, Listing
<1>10. PageReady(k, p, s, l)
  BY <1>5, <1>8, <1>9, <1>1 DEF PageReady, PageCovers
<1>11. QED
  BY <1>10, <1>4 DEF p

\* The page engine: the entries of a list, each cursor with the address it names.
LEMMA PageEngineReady ==
  ASSUME NEW s, NEW l, DOMAIN s = DOMAIN Idle.s, FetchOK("page_engine", s, l)
  PROVE  /\ PageReady("page_engine", PageEnginePage(s), s, l)
         /\ PageReady("page_engine", PageEngineFailure(s), s, l)
<1> DEFINE k == "page_engine"
           here == <<s.pos, s.list[s.pos], s.seq>>
           p == PageEnginePage(s)
<1>1. /\ SessionOK(k, s, l.kept) /\ Here(k, s) = here /\ Body(k) = "main" /\ k \in Anchored
      /\ Follows(k, l.pages, "main", here) /\ Parts(k) = {"main"}
      /\ Covered(k, l.kept, here, Collected(l))
  BY DEF FetchOK, Here, Body, Anchored, Parts
<1>2. Checkpoint(k, here) /\ here # NoCursor
  BY <1>1, HereIsACheckpoint DEF Kinds
<1>3. /\ s.pos \in DOMAIN s.list /\ s.seq \in Int /\ s.list \in Seq(Products)
      /\ Rising(s.list) /\ l.kept \subseteq ToSet(s.list)
  BY <1>1 DEF SessionOK, Listing
<1>4. PageReady(k, Stopped("main", <<"product", s.seq>>, s.seq, here, here), s, l)
  BY <1>1, <1>2, <1>3, StoppedIsReady
<1>5. PageReady(k, PageEngineFailure(s), s, l)
  BY <1>4 DEF PageEngineFailure, PageEngineCursor
<1>6. CASE s.pos > PageLimit
  BY <1>6, <1>5 DEF PageEnginePage
<1>7. CASE ~ (s.pos > PageLimit)
  <2> DEFINE more == s.pos < Len(s.list)
             limited == LimitReached(s, more)
             then == <<s.pos + 1, s.list[s.pos + 1], s.seq + 1>>
  <2>1. /\ p.part = "main" /\ p.seq = s.seq /\ p.items = {s.list[s.pos]} /\ p.from = here
        /\ p.next = IF more THEN then ELSE NoCursor
        /\ p.terminal <=> (~more \/ limited)
        /\ p.intact <=> ~limited
    BY <1>7 DEF PageEnginePage, EntityPage, PageEngineCursor
  <2>2. limited => more
    BY DEF LimitReached
  <2>3. /\ Len(s.list) \in Nat /\ DOMAIN s.list = 1..Len(s.list) /\ s.pos \in 1..Len(s.list)
        /\ \A i \in 1..Len(s.list) : s.list[i] \in Products
    BY <1>3
  <2>4. \A i \in 1..Len(s.list) : s.list[i] \in Int
    BY <2>3, ProductNumbers, Zenon
  <2>5. then[1] = s.pos + 1 /\ then[2] = s.list[s.pos + 1] /\ then[3] = s.seq + 1 /\ then # <<>>
    OBVIOUS
  <2>6. more => s.pos + 1 \in 1..Len(s.list) /\ s.pos + 1 \in Int /\ s.seq + 1 \in Int
    BY <2>3, <1>3
  <2>7. more => s.list[s.pos + 1] \in Int
    BY <2>4, <2>6
  <2> HIDE DEF p, limited, then
  <2>8. more => Checkpoint(k, then) /\ then # NoCursor
    <3>1. more => then[1] \in Positions(k) /\ then[2] \in Int /\ then[3] \in Int
      BY <2>5, <2>6, <2>7 DEF Positions
    <3>2. then = <<then[1], then[2], then[3]>>
      BY <2>5 DEF then
    <3>3. QED
      BY <3>1, <3>2, <2>5 DEF Checkpoint, NoCursor
  <2>9. PageOK(k, p)
    <3>1. p.items \subseteq Products
      BY <2>1, <2>3
    <3>2. QED
      BY <2>1, <2>2, <2>8, <3>1, <1>1, <1>3 DEF PageOK
  <2>10. ASSUME NEW x \in l.kept, more => x < s.list[s.pos + 1]
         PROVE  x \in Collected(l) \union p.items
    <3>1. PICK j \in 1..Len(s.list) : x = s.list[j]
      BY <1>3, <2>3 DEF ToSet
    <3>2. CASE j < s.pos
      <4>1. s.list[j] < s.list[s.pos]
        BY <3>1, <3>2, <2>3, <1>3 DEF Rising
      <4>2. x < here[2] /\ here[2] = s.list[s.pos]
        BY <4>1, <3>1
      <4>3. QED
        BY <4>2, <1>1 DEF Covered, Before
    <3>3. CASE j = s.pos
      BY <3>1, <3>3, <2>1
    <3>4. CASE j > s.pos
      <4>1. more /\ s.pos + 1 \in 1..Len(s.list)
        BY <3>4, <3>1, <2>3, <2>6
      <4>2. j = s.pos + 1 \/ s.pos + 1 < j
        BY <3>1, <3>4, <2>3
      <4>3. s.list[s.pos + 1] = x \/ s.list[s.pos + 1] < x
        BY <4>1, <4>2, <3>1, <2>3, <1>3 DEF Rising
      <4>4. x \in Int /\ s.list[s.pos + 1] \in Int /\ x < s.list[s.pos + 1]
        BY <4>1, <3>1, <2>4, <2>10
      <4>5. QED
        BY <4>3, <4>4
    <3>5. QED
      BY <3>2, <3>3, <3>4, <2>3
  <2>11. PageCovers(k, l.kept, p, Collected(l) \union p.items)
    <3>1. CASE more
      <4>1. p.next = then /\ p.next # NoCursor /\ p.next[2] = s.list[s.pos + 1]
        BY <3>1, <2>1, <2>5, <2>8
      <4>2. QED
        BY <4>1, <2>10 DEF PageCovers, Covered, Before
    <3>2. CASE ~more
      <4>1. \A x \in l.kept : x \in Collected(l) \union p.items
        BY <3>2, <2>10
      <4>2. QED
        BY <4>1 DEF PageCovers, Covered
    <3>3. QED
      BY <3>1, <3>2
  <2>12. ASSUME ~p.terminal
         PROVE  /\ p.next = Here(k, Advanced(k, s, p)) /\ p.next # NoCursor
                /\ SessionOK(k, Advanced(k, s, p), l.kept)
    <3>1. more /\ p.next = then
      BY <2>1, <2>12
    <3>2. /\ Advanced(k, s, p).pos = s.pos + 1 /\ Advanced(k, s, p).seq = s.seq + 1
          /\ Advanced(k, s, p).list = s.list
      BY AdvancedMoves
    <3>3. p.next = Here(k, Advanced(k, s, p)) /\ p.next # NoCursor
      BY <3>1, <3>2, <2>8 DEF Here, then
    <3>4. s.pos + 1 \in DOMAIN s.list /\ s.pos + 1 \in Int /\ s.seq + 1 \in Int
      BY <3>1, <2>3, <2>6
    <3>5. QED
      BY <3>2, <3>3, <3>4, <1>3 DEF SessionOK, Positions
  <2>13. PageReady(k, p, s, l)
    BY <2>1, <2>9, <2>11, <2>12, <1>1 DEF PageReady
  <2>14. QED
    BY <2>13, <1>5 DEF p
<1>8. QED
  BY <1>6, <1>7

\* One page of the shop, whether it answers or fails.
LEMMA FetchYields ==
  ASSUME NEW k \in Kinds \ {"woocommerce"}, NEW s, NEW l, NEW S \in SUBSET Products,
         DOMAIN s = DOMAIN Idle.s, l.kept \subseteq S, FetchOK(k, s, l)
  PROVE  PageReady(k, NextPage(k, s, S), s, l) /\ PageReady(k, FetchFailure(k, s), s, l)
<1>1. CASE k = "shopify"
  BY <1>1, ShopifyReady DEF NextPage, FetchFailure
<1>2. CASE k = "bigcommerce"
  BY <1>2, BigCommerceReady DEF NextPage, FetchFailure
<1>3. CASE k = "wix"
  BY <1>3, WixReady DEF NextPage, FetchFailure
<1>4. CASE k = "prestashop"
  BY <1>4, PrestaShopReady DEF NextPage, FetchFailure
<1>5. CASE k = "page_engine"
  BY <1>5, PageEngineReady DEF NextPage, FetchFailure
<1>6. QED
  BY <1>1, <1>2, <1>3, <1>4, <1>5 DEF Kinds

\* A cursor to take a collection up at: the beginning, or where a page left off.
LEMMA CursorStands ==
  ASSUME NEW k \in Kinds, NEW l, NEW c, LinOK(k, l), CursorOK(k, c, l.pages),
         l.kept \in SUBSET Products
  PROVE  /\ Checkpoint(k, c) /\ c # NoCursor
         /\ k # "prestashop" \/ c[1] # 0 => Follows(k, l.pages, Body(k), c)
         /\ k \in Anchored => Covered(k, l.kept, c, Collected(l))
<1>1. CASE c = Start(k)
  <2>1. c[1] = Start(k)[1]
    BY <1>1
  <2>2. Checkpoint(k, c) /\ c # NoCursor
    <3>1. CASE k \in {"shopify", "woocommerce"}
      BY <1>1, <3>1 DEF Start, Checkpoint, NoCursor, Positions
    <3>2. CASE k \in {"wix", "prestashop"}
      BY <1>1, <3>2 DEF Start, Checkpoint, NoCursor, Positions
    <3>3. CASE k = "bigcommerce"
      BY <1>1, <3>3 DEF Start, Checkpoint, NoCursor, Positions
    <3>4. CASE k = "page_engine"
      BY <1>1, <3>4 DEF Start, Checkpoint, NoCursor, Positions
    <3>5. QED
      BY <3>1, <3>2, <3>3, <3>4 DEF Kinds
  <2>3. ASSUME k \in Anchored
        PROVE  Covered(k, l.kept, c, Collected(l))
    <3>1. \A x \in l.kept : x \in Int /\ x > 0
      BY ProductNumbers
    <3>2. CASE k = "bigcommerce"
      <4>1. c[1] = 0
        BY <1>1, <3>2 DEF Start
      <4>2. QED
        BY <4>1, <3>1, <3>2, <2>2 DEF Covered, Before
    <3>3. CASE k = "page_engine"
      <4>1. c[2] = 0
        BY <1>1, <3>3 DEF Start
      <4>2. QED
        BY <4>1, <3>1, <3>3, <2>2 DEF Covered, Before
    <3>4. QED
      BY <2>3, <3>2, <3>3 DEF Anchored
  <2>4. QED
    BY <2>1, <2>2, <2>3 DEF Follows
<1>2. CASE c # NoCursor /\ \E q \in l.pages : q.next = c
  <2>1. PICK q \in l.pages : q.next = c
    BY <1>2
  <2>2. PageOK(k, q) /\ PageCovers(k, l.kept, q, Collected(l))
    BY DEF LinOK
  <2>3. Checkpoint(k, c)
    BY <1>2, <2>1, <2>2 DEF PageOK
  <2>4. ASSUME k # "prestashop" \/ c[1] # 0
        PROVE  q.part = Body(k)
    <3>1. q.part = "discovery" => c = <<0, 0>>
      BY <1>2, <2>1, <2>2 DEF PageOK
    <3>2. q.part # "discovery" \/ k # "prestashop"
      BY <3>1, <2>4
    <3>3. QED
      BY <3>2, <2>2 DEF PageOK, Parts, Body
  <2>5. QED
    BY <1>2, <2>1, <2>2, <2>3, <2>4 DEF Follows, PageCovers
<1>3. QED
  BY <1>1, <1>2 DEF CursorOK

\* collect() takes the walk up where the cursor says.
LEMMA DiscoverStarts ==
  ASSUME NEW k \in Kinds, NEW l, NEW c, NEW S \in SUBSET Products, NEW lim, NEW list,
         LinOK(k, l), CursorOK(k, c, l.pages), l.kept \subseteq S,
         list = IF k \in Listing THEN InOrder(S) ELSE <<>>,
         k \in Listing => list # <<>>, ResumeAccepted(k, c, list)
  PROVE  FetchOK(k, Session(k, c, list, lim), l)
<1> DEFINE s == Session(k, c, list, lim)
<1>1. s.list = list /\ s.pos = c[1] /\ s.seq = Sequence(k, c) /\ s.buf = <<>>
  BY DEF Session
<1> HIDE DEF s
<1>2. /\ Checkpoint(k, c) /\ c # NoCursor
      /\ k # "prestashop" \/ c[1] # 0 => Follows(k, l.pages, Body(k), c)
      /\ k \in Anchored => Covered(k, l.kept, c, Collected(l))
  BY CursorStands
<1>3. k \in Listing =>
        /\ list \in Seq(Products) /\ ToSet(list) = S /\ Rising(list)
        /\ Len(list) \in Nat /\ Len(list) >= 1 /\ DOMAIN list = 1..Len(list)
  <2>1. InOrder(S) \in Seq(Products) /\ ToSet(InOrder(S)) = S /\ Rising(InOrder(S))
    BY InOrderLists
  <2>2. QED
    BY <2>1
<1>4. CASE k = "shopify"
  <2>1. Here(k, s) = c /\ c[1] \in Positions(k) /\ s.seq = 0
    BY <1>1, <1>2, <1>4 DEF Here, Checkpoint, Sequence
  <2>2. SessionOK(k, s, l.kept)
    BY <2>1, <1>1, <1>4 DEF SessionOK, Listing
  <2>3. QED
    BY <2>1, <2>2, <1>2, <1>4 DEF FetchOK, Anchored, s
<1>5. CASE k = "woocommerce"
  <2>1. Here(k, s) = c /\ c[1] \in Nat \ {0}
    BY <1>1, <1>2, <1>5 DEF Here, Checkpoint, Positions
  <2>2. WooOK(s)
    <3>1. <<>> \in Seq([page : Int, items : SUBSET Products]) /\ Len(<<>>) = 0 /\ DOMAIN <<>> = {}
      OBVIOUS
    <3>2. QED
      BY <2>1, <3>1, <1>1 DEF WooOK
  <2>3. QED
    BY <2>1, <2>2, <1>2, <1>5 DEF FetchOK, s
<1>6. CASE k = "bigcommerce"
  <2>1. Here(k, s) = c /\ c[1] \in Positions(k) /\ c[2] \in Int /\ s.seq = c[2]
    BY <1>1, <1>2, <1>6 DEF Here, Checkpoint, Sequence
  <2>2. SessionOK(k, s, l.kept)
    BY <2>1, <1>1, <1>6 DEF SessionOK, Listing
  <2>3. QED
    BY <2>1, <2>2, <1>2, <1>6 DEF FetchOK, s
<1>7. CASE k = "wix"
  <2>1. Here(k, s) = c /\ c[1] \in Positions(k) /\ c[2] \in Int /\ s.seq = c[2]
    BY <1>1, <1>2, <1>7 DEF Here, Checkpoint, Sequence
  <2>2. SessionOK(k, s, l.kept)
    BY <2>1, <1>1, <1>3, <1>7 DEF SessionOK, Listing
  <2>3. QED
    BY <2>1, <2>2, <1>2, <1>7 DEF FetchOK, Anchored, s
<1>8. CASE k = "prestashop"
  <2>1. Here(k, s) = c /\ c[1] \in Positions(k) /\ c[2] \in Int /\ s.seq = c[2]
    BY <1>1, <1>2, <1>8 DEF Here, Checkpoint, Sequence
  <2>2. c[1] \in DOMAIN list
    <3>1. CASE c = Start("prestashop")
      <4>1. c[1] = 1
        BY <3>1 DEF Start
      <4>2. QED
        BY <4>1, <1>3, <1>8 DEF Listing
    <3>2. CASE c # Start("prestashop")
      BY <3>2, <1>8 DEF ResumeAccepted, PrestaShopResume
    <3>3. QED
      BY <3>1, <3>2
  <2>3. c[1] # 0
    BY <2>2, <1>3, <1>8 DEF Listing
  <2>4. SessionOK(k, s, l.kept)
    BY <2>1, <2>2, <1>1, <1>3, <1>8 DEF SessionOK, Listing
  <2>5. QED
    BY <2>1, <2>3, <2>4, <1>2, <1>8 DEF FetchOK, Anchored, s
<1>9. CASE k = "page_engine"
  <2> DEFINE h == <<c[1], list[c[1]], c[3]>>
  <2>1. /\ c = <<c[1], c[2], c[3]>> /\ c[1] \in Positions(k) /\ c[2] \in Int /\ c[3] \in Int
        /\ s.seq = c[3]
    BY <1>1, <1>2, <1>9 DEF Checkpoint, Sequence
  <2>2. Here(k, s) = h /\ h[1] = c[1] /\ h[2] = list[c[1]] /\ h # NoCursor
    BY <2>1, <1>1, <1>9 DEF Here, NoCursor
  <2>3. l.kept \subseteq ToSet(list)
    BY <1>3, <1>9 DEF Listing
  <2>4. CASE c = Start("page_engine")
    <3>1. c[1] = 1 /\ Start(k)[1] = 1
      BY <2>4, <1>9 DEF Start
    <3>2. 1 \in DOMAIN list
      BY <1>3, <1>9 DEF Listing
    <3>3. \A x \in l.kept : ~ (x < list[1])
      <4>1. SUFFICES ASSUME NEW x \in l.kept, x < list[1]
                     PROVE  FALSE
        OBVIOUS
      <4>2. PICK j \in DOMAIN list : x = list[j]
        BY <2>3 DEF ToSet
      <4>3. list[j] \in Int /\ list[1] \in Int /\ j \in 1..Len(list)
        <5>1. list[j] \in Products /\ list[1] \in Products /\ j \in 1..Len(list)
          BY <4>2, <3>2, <1>3, <1>9 DEF Listing
        <5>2. QED
          BY <5>1, ProductNumbers, Zenon
      <4>4. j = 1 \/ list[1] < list[j]
        BY <4>3, <3>2, <1>3, <1>9 DEF Rising, Listing
      <4>5. QED
        BY <4>1, <4>2, <4>3, <4>4
    <3>4. Covered(k, l.kept, h, Collected(l))
      BY <3>1, <3>3, <2>2, <1>9 DEF Covered, Before
    <3>5. SessionOK(k, s, l.kept)
      BY <2>1, <2>3, <3>1, <3>2, <1>1, <1>3, <1>9 DEF SessionOK, Listing
    <3>6. Follows(k, l.pages, Body(k), h)
      BY <3>1, <2>2 DEF Follows
    <3>7. QED
      BY <3>4, <3>5, <3>6, <2>2, <1>9 DEF FetchOK, s
  <2>5. CASE c # Start("page_engine")
    <3>1. c[1] \in DOMAIN list /\ list[c[1]] = c[2]
      BY <2>5, <1>9 DEF ResumeAccepted, PageEngineResume
    <3>2. h = c
      BY <3>1, <2>1
    <3>3. SessionOK(k, s, l.kept)
      BY <2>1, <2>3, <3>1, <1>1, <1>3, <1>9 DEF SessionOK, Listing
    <3>4. QED
      BY <3>2, <3>3, <2>2, <1>2, <1>9 DEF FetchOK, s
  <2>6. QED
    BY <2>4, <2>5
<1>10. QED
  BY <1>4, <1>5, <1>6, <1>7, <1>8, <1>9 DEF Kinds

\* What a discovery yields that failed or found nothing.
LEMMA DiscoveryYields ==
  ASSUME NEW k \in Kinds, NEW l, NEW c, NEW list, NEW lim, NEW s,
         LinOK(k, l), CursorOK(k, c, l.pages), l.kept \in SUBSET Products,
         s = Session(k, c, list, lim)
  PROVE  /\ k \in Listing \union {"bigcommerce"} => PageReady(k, DiscoveryFailure(k, s), s, l)
         /\ k \in Listing => PageReady(k, EmptyDiscovery(k, s), s, l)
<1>1. s.pos = c[1] /\ s.seq = Sequence(k, c)
  BY DEF Session
<1>2. /\ Checkpoint(k, c) /\ c # NoCursor
      /\ k # "prestashop" \/ c[1] # 0 => Follows(k, l.pages, Body(k), c)
  BY CursorStands
<1>3. \A x \in l.kept : x \in Int /\ x > 0
  BY ProductNumbers
<1>4. CASE k = "wix"
  <2>1. <<s.pos, s.seq>> = c /\ s.seq \in Int
    BY <1>1, <1>2, <1>4 DEF Checkpoint, Sequence
  <2>2. Follows(k, l.pages, "main", c) /\ "main" \in Parts(k) /\ k \notin Anchored
    BY <1>2, <1>4 DEF Body, Parts, Anchored
  <2>3. PageReady(k, Stopped("main", <<"wix", s.seq, s.pos>>, s.seq, c, c), s, l)
    BY <2>1, <2>2, <1>2, StoppedIsReady
  <2>4. PageReady(k, WixFailure(s), s, l)
    BY <2>1, <2>3 DEF WixFailure
  <2>5. QED
    BY <2>4, <1>4 DEF DiscoveryFailure, EmptyDiscovery
<1>5. CASE k = "prestashop"
  <2>1. <<1, 0>>[1] = Start(k)[1]
    BY <1>5 DEF Start
  <2>2. Checkpoint(k, <<0, 0>>)
    BY <1>5 DEF Checkpoint, Positions
  <2>3. k \notin Anchored /\ "discovery" \in Parts(k)
    BY <1>5 DEF Anchored, Parts
  <2>4. ASSUME NEW p, p.part = "discovery", p.seq = 0, p.items = {}, p.from = <<1, 0>>,
               p.next \in {NoCursor, <<0, 0>>}, p.terminal = TRUE
        PROVE  PageReady(k, p, s, l)
    BY <2>1, <2>2, <2>3, <2>4 DEF PageReady, PageOK, PageCovers, Follows
  <2>5. PageReady(k, PrestaShopUndiscovered, s, l)
    <3>1. /\ PrestaShopUndiscovered.part = "discovery" /\ PrestaShopUndiscovered.seq = 0
          /\ PrestaShopUndiscovered.items = {} /\ PrestaShopUndiscovered.from = <<1, 0>>
          /\ PrestaShopUndiscovered.next = <<0, 0>> /\ PrestaShopUndiscovered.terminal = TRUE
      BY DEF PrestaShopUndiscovered, Stopped, EntityPage
    <3>2. QED
      BY <3>1, <2>4
  <2>6. PageReady(k, EmptyDiscovery(k, s), s, l)
    <3>1. /\ EmptyDiscovery(k, s).part = "discovery" /\ EmptyDiscovery(k, s).seq = 0
          /\ EmptyDiscovery(k, s).items = {} /\ EmptyDiscovery(k, s).from = <<1, 0>>
          /\ EmptyDiscovery(k, s).next = NoCursor /\ EmptyDiscovery(k, s).terminal = TRUE
      BY <1>5 DEF EmptyDiscovery, EntityPage
    <3>2. QED
      BY <3>1, <2>4
  <2>7. QED
    BY <2>5, <2>6, <1>5 DEF DiscoveryFailure
<1>6. CASE k = "page_engine"
  <2>1. <<1, 0, 0>>[1] = Start(k)[1] /\ k \in Anchored /\ "main" \in Parts(k)
    BY <1>6 DEF Start, Anchored, Parts
  <2>2. Checkpoint(k, <<0, 0, 0>>) /\ <<0, 0, 0>>[2] = 0 /\ <<0, 0, 0>> # NoCursor
    BY <1>6 DEF Checkpoint, Positions, NoCursor
  <2>3. Covered(k, l.kept, <<0, 0, 0>>, Collected(l))
    BY <2>2, <1>3, <1>6 DEF Covered, Before
  <2>4. ASSUME NEW p, p.part = "main", p.seq = 0, p.items = {}, p.from = <<1, 0, 0>>,
               p.next \in {NoCursor, <<0, 0, 0>>}, p.terminal = TRUE, p.intact = FALSE
        PROVE  PageReady(k, p, s, l)
    <3>1. PageOK(k, p)
      BY <2>1, <2>2, <2>4 DEF PageOK
    <3>2. PageCovers(k, l.kept, p, Collected(l) \union p.items)
      <4>1. CASE p.next = NoCursor
        BY <4>1, <2>4 DEF PageCovers
      <4>2. CASE p.next = <<0, 0, 0>>
        BY <4>2, <2>2, <2>3, <2>4 DEF PageCovers, Covered
      <4>3. QED
        BY <4>1, <4>2, <2>4
    <3>3. QED
      BY <3>1, <3>2, <2>1, <2>4 DEF PageReady, Follows
  <2>5. PageReady(k, PageEngineUndiscovered, s, l)
    <3>1. /\ PageEngineUndiscovered.part = "main" /\ PageEngineUndiscovered.seq = 0
          /\ PageEngineUndiscovered.items = {} /\ PageEngineUndiscovered.from = <<1, 0, 0>>
          /\ PageEngineUndiscovered.next = NoCursor /\ PageEngineUndiscovered.terminal = TRUE
          /\ PageEngineUndiscovered.intact = FALSE
      BY DEF PageEngineUndiscovered, Stopped, EntityPage
    <3>2. QED
      BY <3>1, <2>4
  <2>6. PageReady(k, EmptyDiscovery(k, s), s, l)
    <3>1. /\ EmptyDiscovery(k, s).part = "main" /\ EmptyDiscovery(k, s).seq = 0
          /\ EmptyDiscovery(k, s).items = {} /\ EmptyDiscovery(k, s).from = <<1, 0, 0>>
          /\ EmptyDiscovery(k, s).next = <<0, 0, 0>> /\ EmptyDiscovery(k, s).terminal = TRUE
          /\ EmptyDiscovery(k, s).intact = FALSE
      BY <1>6 DEF EmptyDiscovery, Stopped, EntityPage
    <3>2. QED
      BY <3>1, <2>4
  <2>7. QED
    BY <2>5, <2>6, <1>6 DEF DiscoveryFailure
<1>7. CASE k = "bigcommerce"
  <2> DEFINE o == <<0, 0>>
  <2>1. BigCommerceNoToken = Stopped("main", <<"graphql", 0, 0>>, 0, o, o)
    BY DEF BigCommerceNoToken, BigCommerceFailure, Session, Start, Sequence
  <2>2. /\ o[1] = Start(k)[1] /\ o[1] = 0 /\ "main" \in Parts(k) /\ o # NoCursor
        /\ Checkpoint(k, o)
    BY <1>7 DEF Start, Parts, Checkpoint, Positions, NoCursor
  <2>3. Covered(k, l.kept, o, Collected(l))
    BY <2>2, <1>3, <1>7 DEF Covered, Before
  <2>4. Follows(k, l.pages, "main", o)
    BY <2>2 DEF Follows
  <2>5. PageReady(k, Stopped("main", <<"graphql", 0, 0>>, 0, o, o), s, l)
    BY <2>2, <2>3, <2>4, StoppedIsReady
  <2>6. QED
    BY <2>1, <2>5, <1>7 DEF DiscoveryFailure, Listing
<1>8. QED
  BY <1>4, <1>5, <1>6, <1>7 DEF Kinds, Listing

\* A sequence of one page.
LEMMA OnePage ==
  ASSUME NEW p
  PROVE  /\ <<p>> # <<>> /\ <<p>> \in Seq(ToSet(<<p>>)) /\ Len(<<p>>) = 1
         /\ DOMAIN <<p>> = {1} /\ <<p>>[1] = p /\ Head(<<p>>) = p /\ Tail(<<p>>) = <<>>
BY DEF ToSet

\* WooCommerce reads one page more into its buffer.
LEMMA WooBuffers ==
  ASSUME NEW s, NEW l, NEW S \in SUBSET Products, DOMAIN s = DOMAIN Idle.s,
         FetchOK("woocommerce", s, l)
  PROVE  FetchOK("woocommerce", WooBuffer(s, S), l) /\ DOMAIN WooBuffer(s, S) = DOMAIN Idle.s
<1> DEFINE n == WooBuffer(s, S)
           fresh == WooPayload(s, S) \ WooSeen(s)
           raw == [page |-> s.pos, items |-> fresh]
           B == [page : Int, items : SUBSET Products]
<1>1. n.pos = s.pos + 1 /\ n.buf = Append(s.buf, raw) /\ DOMAIN n = DOMAIN Idle.s
  BY Fields DEF WooBuffer
<1>2. /\ s.pos \in Int /\ s.pos > Len(s.buf) /\ s.buf \in Seq(B) /\ Len(s.buf) \in Nat
      /\ \A i \in 1..Len(s.buf) : s.buf[i].page = s.pos - Len(s.buf) + i - 1
  BY DEF FetchOK, WooOK
<1>3. fresh \subseteq Products
  <2>1. InOrder(S) \in Seq(Products) /\ Len(InOrder(S)) = Cardinality(S)
    BY InOrderLists
  <2>2. s.pos <= Cardinality(S) => InOrder(S)[s.pos] \in Products
    BY <2>1, <1>2
  <2>3. QED
    BY <2>2 DEF WooPayload
<1> HIDE DEF fresh
<1>4. raw \in B /\ raw.page = s.pos
  BY <1>2, <1>3
<1> HIDE DEF raw, n, B
<1>5. /\ n.buf \in Seq(B) /\ Len(n.buf) = Len(s.buf) + 1 /\ n.buf[Len(s.buf) + 1] = raw
      /\ \A i \in 1..Len(s.buf) : n.buf[i] = s.buf[i]
  BY <1>1, <1>2, <1>4
<1>6. \A i \in 1..(Len(s.buf) + 1) : n.buf[i].page = s.pos - Len(s.buf) + i - 1
  <2>1. SUFFICES ASSUME NEW i \in 1..(Len(s.buf) + 1)
                 PROVE  n.buf[i].page = s.pos - Len(s.buf) + i - 1
    OBVIOUS
  <2>2. CASE i = Len(s.buf) + 1
    BY <2>2, <1>2, <1>4, <1>5
  <2>3. CASE i # Len(s.buf) + 1
    <3>1. i \in 1..Len(s.buf)
      BY <2>3, <1>2
    <3>2. QED
      BY <3>1, <1>2, <1>5
  <2>4. QED
    BY <2>2, <2>3
<1>7. WooOK(n)
  <2>1. n.pos \in Int /\ n.pos > Len(n.buf) /\ n.pos - Len(n.buf) = s.pos - Len(s.buf)
        /\ DOMAIN n.buf = 1..(Len(s.buf) + 1)
    BY <1>1, <1>2, <1>5
  <2>2. \A i \in DOMAIN n.buf : n.buf[i].page = n.pos - Len(n.buf) + i - 1
    BY <2>1, <1>6
  <2>3. QED
    BY <2>1, <2>2, <1>5 DEF WooOK, B
<1>8. Here("woocommerce", n) = Here("woocommerce", s)
  <2>1. n.buf # <<>>
    BY <1>2, <1>5
  <2>2. CASE s.buf = <<>>
    <3>1. n.buf[1] = raw
      BY <2>2, <1>5
    <3>2. QED
      BY <3>1, <2>1, <2>2, <1>4 DEF Here
  <2>3. CASE s.buf # <<>>
    <3>1. n.buf[1] = s.buf[1]
      BY <2>3, <1>2, <1>5
    <3>2. QED
      BY <3>1, <2>1, <2>3 DEF Here
  <2>4. QED
    BY <2>2, <2>3
<1>9. QED
  BY <1>1, <1>7, <1>8 DEF FetchOK, n

\* One of the pages that WooCommerce yields.
LEMMA WooPageFields ==
  ASSUME NEW s, NEW i, NEW n, n = Len(s.buf)
  PROVE  /\ WooPage(s, i).part = "main" /\ WooPage(s, i).seq = s.buf[i].page - 1
         /\ WooPage(s, i).items = s.buf[i].items /\ WooPage(s, i).from = <<s.buf[i].page>>
         /\ WooPage(s, i).next \in {NoCursor, <<s.buf[i].page + 1>>}
         /\ i # n => WooPage(s, i).next = <<s.buf[i].page + 1>>
         /\ WooPage(s, i).terminal <=> i = n
<1> DEFINE lim == i = n /\ WooLimited(s)
           nxt == IF i = n /\ ~lim THEN NoCursor ELSE <<s.buf[i].page + 1>>
           e   == EntityPage("main", <<"page", s.buf[i].page>>, s.buf[i].page - 1, s.buf[i].items,
                             <<s.buf[i].page>>, nxt, i = n, ~lim, lim)
<1>1. WooPage(s, i) = e
  BY DEF WooPage
<1>2. nxt \in {NoCursor, <<s.buf[i].page + 1>>} /\ (i # n => nxt = <<s.buf[i].page + 1>>)
  OBVIOUS
<1> HIDE DEF nxt, lim
<1>3. /\ e.part = "main" /\ e.seq = s.buf[i].page - 1 /\ e.items = s.buf[i].items
      /\ e.from = <<s.buf[i].page>> /\ e.next = nxt /\ e.terminal = (i = n)
  BY DEF EntityPage
<1> HIDE DEF e
<1>4. QED
  BY <1>1, <1>2, <1>3

\* What a sequence is made of, and what is left of it.
LEMMA SequenceParts ==
  ASSUME NEW T, NEW b \in Seq(T), b # <<>>
  PROVE  /\ Len(b) \in Nat \ {0} /\ DOMAIN b = 1..Len(b) /\ \A i \in 1..Len(b) : b[i] \in T
         /\ Head(b) = b[1] /\ Tail(b) \in Seq(T) /\ Len(Tail(b)) = Len(b) - 1
         /\ DOMAIN Tail(b) = 1..(Len(b) - 1)
         /\ \A i \in 1..(Len(b) - 1) : Tail(b)[i] = b[i + 1]
         /\ Len(b) # 1 => Tail(b) # <<>>
<1>1. Len(b) \in Nat \ {0} /\ DOMAIN b = 1..Len(b) /\ \A i \in 1..Len(b) : b[i] \in T
  OBVIOUS
<1>2. Head(b) = b[1] /\ Tail(b) \in Seq(T) /\ Len(Tail(b)) = Len(b) - 1
  BY <1>1
<1>3. DOMAIN Tail(b) = 1..(Len(b) - 1)
  BY <1>1, <1>2
<1>4. \A i \in 1..(Len(b) - 1) : Tail(b)[i] = b[i + 1]
  BY <1>1, <1>2
<1>5. Len(b) # 1 => Tail(b) # <<>>
  <2>1. Len(<<>>) = 0
    OBVIOUS
  <2>2. Len(b) # 1 => Len(Tail(b)) # 0
    BY <1>1, <1>2
  <2>3. QED
    BY <2>1, <2>2
<1>6. QED
  BY <1>1, <1>2, <1>3, <1>4, <1>5

\* WooCommerce yields what it buffered, or where it failed.
LEMMA WooYields ==
  ASSUME NEW s, NEW l, FetchOK("woocommerce", s, l)
  PROVE  /\ WooReady("woocommerce", <<WooFailure(s)>>, l)
         /\ WooReady("woocommerce", WooPages(s), l)
<1> DEFINE k == "woocommerce"
           first == IF s.buf = <<>> THEN s.pos ELSE s.buf[1].page
           B == [page : Int, items : SUBSET Products]
<1>1. /\ s.pos \in Int /\ s.pos > Len(s.buf) /\ s.buf \in Seq(B) /\ Len(s.buf) \in Nat
      /\ DOMAIN s.buf = 1..Len(s.buf)
      /\ \A i \in 1..Len(s.buf) : s.buf[i].page = s.pos - Len(s.buf) + i - 1
  BY DEF FetchOK, WooOK
<1>2. /\ Follows(k, l.pages, "main", <<first>>) /\ Parts(k) = {"main"} /\ k \notin Anchored
  BY DEF FetchOK, Here, Body, Parts, Anchored
<1>3. first \in Nat \ {0}
  <2>1. CASE s.buf = <<>>
    BY <2>1, <1>1
  <2>2. CASE s.buf # <<>>
    <3>1. Len(s.buf) >= 1 /\ s.buf[1].page = s.pos - Len(s.buf) + 1 - 1
      BY <2>2, <1>1
    <3>2. QED
      BY <3>1, <2>2, <1>1
  <2>3. QED
    BY <2>1, <2>2
<1>4. \A n \in Nat \ {0} : Checkpoint(k, <<n>>) /\ <<n>> # NoCursor
  BY DEF Checkpoint, Positions, NoCursor
<1>5. ASSUME NEW p, PageOK(k, p), p.terminal, Follows(k, l.pages, "main", p.from)
      PROVE  WooReady(k, <<p>>, l)
  <2>1. /\ <<p>> # <<>> /\ <<p>> \in Seq(ToSet(<<p>>)) /\ Len(<<p>>) = 1
        /\ DOMAIN <<p>> = {1} /\ <<p>>[1] = p
    BY OnePage
  <2> DEFINE q == <<p>>
  <2> HIDE DEF q
  <2>2. QED
    BY <2>1, <1>5 DEF WooReady, q
<1>6. WooReady(k, <<WooFailure(s)>>, l)
  <2> DEFINE p == WooFailure(s)
  <2>1. /\ p.part = "main" /\ p.seq = first - 1 /\ p.items = {} /\ p.from = <<first>>
        /\ p.next = <<first>> /\ p.terminal = TRUE
    BY DEF WooFailure, Stopped, EntityPage
  <2> HIDE DEF p, first
  <2>2. PageOK(k, p)
    BY <2>1, <1>2, <1>3, <1>4 DEF PageOK
  <2>3. QED
    BY <2>1, <2>2, <1>2, <1>5 DEF p
<1>7. CASE s.buf = <<>>
  <2> DEFINE p == WooEmpty(s)
  <2>1. /\ p.part = "main" /\ p.seq = 0 /\ p.items = {} /\ p.from = <<first>>
        /\ p.next = NoCursor /\ p.terminal = TRUE
    BY <1>7 DEF WooEmpty, EntityPage
  <2> HIDE DEF p, first
  <2>2. PageOK(k, p)
    BY <2>1, <1>2 DEF PageOK
  <2>3. WooPages(s) = <<p>>
    BY <1>7 DEF WooPages, p
  <2>4. QED
    BY <2>1, <2>2, <2>3, <1>2, <1>5, <1>6
<1>8. CASE s.buf # <<>>
  <2> DEFINE q == WooPages(s)
             n == Len(s.buf)
  <2>1. q = [i \in 1..n |-> WooPage(s, i)] /\ n \in Nat /\ n >= 1
    BY <1>8, <1>1 DEF WooPages
  <2>2. q # <<>> /\ q \in Seq(ToSet(q)) /\ Len(q) = n /\ DOMAIN q = 1..n
    <3> HIDE DEF q, n
    <3>1. DOMAIN q = 1..n /\ \A i \in 1..n : q[i] \in ToSet(q)
      BY <2>1 DEF ToSet
    <3>2. q = [i \in 1..n |-> q[i]]
      BY <2>1
    <3>3. q \in [1..n -> ToSet(q)]
      BY <3>1, <3>2
    <3>4. q \in Seq(ToSet(q)) /\ Len(q) = n
      BY <3>3, <2>1
    <3>5. QED
      BY <3>1, <3>4, <2>1
  <2>3. ASSUME NEW i \in 1..n
        PROVE  /\ q[i].part = "main" /\ q[i].seq = s.buf[i].page - 1 /\ q[i].items = s.buf[i].items
               /\ q[i].from = <<s.buf[i].page>>
               /\ q[i].next \in {NoCursor, <<s.buf[i].page + 1>>}
               /\ i # n => q[i].next = <<s.buf[i].page + 1>>
               /\ q[i].terminal <=> i = n
    <3>1. q[i] = WooPage(s, i)
      BY <2>1
    <3>2. n = Len(s.buf)
      OBVIOUS
    <3> HIDE DEF q, n
    <3> DEFINE w == WooPage(s, i)
    <3>3. /\ w.part = "main" /\ w.seq = s.buf[i].page - 1 /\ w.items = s.buf[i].items
          /\ w.from = <<s.buf[i].page>>
          /\ w.next \in {NoCursor, <<s.buf[i].page + 1>>}
          /\ i # n => w.next = <<s.buf[i].page + 1>>
          /\ w.terminal <=> i = n
      BY <3>2, WooPageFields
    <3>4. q[i] = w
      BY <3>1
    <3> HIDE DEF w
    <3>5. QED
      BY <3>3, <3>4
  <2> HIDE DEF q
  <2>4. ASSUME NEW i \in 1..n
        PROVE  s.buf[i].page \in Nat \ {0} /\ s.buf[i].items \subseteq Products
    <3>1. s.buf[i] \in B
      BY <1>1, <1>8, SequenceParts
    <3>2. s.buf[i].items \subseteq Products
      BY <3>1
    <3>3. s.buf[i].page = s.pos - n + i - 1
      BY <1>1
    <3>4. QED
      BY <3>2, <3>3, <1>1
  <2>5. ASSUME NEW i \in 1..n
        PROVE  PageOK(k, q[i])
    <3>1. s.buf[i].page + 1 \in Nat \ {0} /\ s.buf[i].page - 1 \in Int /\ s.buf[i].items \subseteq Products
      BY <2>4
    <3>2. Checkpoint(k, <<s.buf[i].page + 1>>)
      BY <3>1, <1>4
    <3>3. QED
      BY <2>3, <3>1, <3>2, <1>2 DEF PageOK
  <2>6. ASSUME NEW i \in 1..n, NEW j \in 1..n, j = i + 1
        PROVE  q[j].from = q[i].next
    <3>1. s.buf[i].page = s.pos - n + i - 1 /\ s.buf[j].page = s.pos - n + j - 1
      BY <1>1
    <3>2. s.buf[j].page = s.buf[i].page + 1 /\ i # n
      BY <3>1, <2>6, <1>1
    <3>3. QED
      BY <3>2, <2>3
  <2>7. q[1].from = <<first>>
    <3>1. 1 \in 1..n
      BY <2>1
    <3>2. q[1].from = <<s.buf[1].page>>
      BY <3>1, <2>3
    <3>3. QED
      BY <3>2, <1>8
  <2> HIDE DEF n, first
  <2>8. WooReady(k, q, l)
    BY <2>1, <2>2, <2>3, <2>5, <2>6, <2>7, <1>2 DEF WooReady
  <2>9. QED
    BY <2>8, <1>6 DEF q
<1>9. QED
  BY <1>7, <1>8

\* When the first of WooCommerce's pages is committed, the others are ready.
LEMMA WooRest ==
  ASSUME NEW todo, NEW l, NEW m, WooReady("woocommerce", todo, l), ~Head(todo).terminal,
         NEW q \in m.pages, q.part = "main", q.next = Head(todo).next
  PROVE  WooReady("woocommerce", Tail(todo), m) /\ Tail(todo) # <<>>
<1> DEFINE T == ToSet(todo)
           r == Tail(todo)
<1>1. /\ todo # <<>> /\ todo \in Seq(T) /\ Len(todo) \in Nat /\ DOMAIN todo = 1..Len(todo)
      /\ Head(todo) = todo[1] /\ Len(todo) >= 1
  BY DEF WooReady
<1>2. Len(todo) # 1
  BY <1>1 DEF WooReady
<1>3. /\ r \in Seq(T) /\ Len(r) = Len(todo) - 1 /\ \A i \in 1..(Len(todo) - 1) : r[i] = todo[i + 1]
      /\ r # <<>> /\ DOMAIN r = 1..(Len(todo) - 1) /\ 1 \in DOMAIN r
  <2>1. /\ r \in Seq(T) /\ Len(r) = Len(todo) - 1 /\ r # <<>> /\ DOMAIN r = 1..(Len(todo) - 1)
        /\ \A i \in 1..(Len(todo) - 1) : r[i] = todo[i + 1]
    BY <1>1, <1>2, SequenceParts
  <2>2. 1 \in 1..(Len(todo) - 1)
    BY <1>1, <1>2
  <2>3. QED
    BY <2>1, <2>2
<1> HIDE DEF T, r
<1>4. r \in Seq(ToSet(r))
  BY <1>3 DEF ToSet
<1>5. ASSUME NEW i \in DOMAIN r
      PROVE  PageOK("woocommerce", r[i]) /\ (r[i].terminal <=> i = Len(r))
  <2>1. i + 1 \in DOMAIN todo /\ r[i] = todo[i + 1] /\ (i = Len(r) <=> i + 1 = Len(todo))
    BY <1>1, <1>3
  <2>2. QED
    BY <2>1 DEF WooReady
<1>6. ASSUME NEW i \in DOMAIN r, NEW j \in DOMAIN r, j = i + 1
      PROVE  r[j].from = r[i].next
  <2>1. i + 1 \in DOMAIN todo /\ r[i] = todo[i + 1] /\ j + 1 \in DOMAIN todo /\ r[j] = todo[j + 1]
        /\ j + 1 = (i + 1) + 1
    BY <1>1, <1>3, <1>6
  <2>2. QED
    BY <2>1 DEF WooReady
<1>7. r[1].from = q.next
  <2>1. 1 \in DOMAIN todo /\ 2 \in DOMAIN todo /\ 2 = 1 + 1 /\ r[1] = todo[2]
    BY <1>1, <1>2, <1>3
  <2>2. todo[2].from = todo[1].next
    BY <2>1 DEF WooReady
  <2>3. QED
    BY <2>1, <2>2, <1>1
<1>8. QED
  BY <1>3, <1>4, <1>5, <1>6, <1>7 DEF WooReady, Follows, r

\* lineage_progress finds the page that was committed last.
LEMMA LatestIsCommitted ==
  ASSUME NEW k \in Kinds, NEW l, LinOK(k, l), l.pages # {}
  PROVE  Latest(l) \in l.pages
<1> DEFINE D == {p \in l.pages : p.part = "discovery"}
           P == IF D # {} THEN D ELSE l.pages
           f == [p \in P |-> p.seq]
           T == {f[p] : p \in P}
<1>1. \A p \in l.pages : p.part \in Parts(k) /\ p.seq \in Int
  BY DEF LinOK, PageOK
<1>2. P # {} /\ P \subseteq l.pages
  OBVIOUS
<1>3. IsFiniteSet(P)
  BY <1>2, FS_Subset DEF LinOK
<1>4. IsFiniteSet(T)
  <2>1. f \in Surjection(P, T)
    BY DEF Surjection
  <2>2. QED
    BY <2>1, <1>3, FS_Surjection
<1>5. T \in SUBSET Int /\ T # {}
  BY <1>1, <1>2
<1>6. PICK n \in T : \A m \in T : m <= n
  BY <1>4, <1>5, GreatestMember
<1>7. PICK p \in P : n = p.seq
  OBVIOUS
<1>8. \A q \in P : q.seq <= p.seq /\ q.part = p.part
  <2>1. \A q \in P : q.seq \in T
    OBVIOUS
  <2>2. \A q \in P : q.part = p.part
    <3>1. CASE D # {}
      BY <3>1
    <3>2. CASE D = {}
      BY <3>2, <1>1 DEF Parts
    <3>3. QED
      BY <3>1, <3>2
  <2>3. QED
    BY <2>1, <2>2, <1>6, <1>7
<1>9. \A q \in l.pages : Behind(q, p) \/ (p.part = q.part /\ p.seq >= q.seq)
  <2>1. SUFFICES ASSUME NEW q \in l.pages
                 PROVE  Behind(q, p) \/ (p.part = q.part /\ p.seq >= q.seq)
    OBVIOUS
  <2>2. CASE q \in P
    <3>1. q.seq <= p.seq /\ q.part = p.part /\ p.seq \in Int /\ q.seq \in Int
      BY <2>2, <1>1, <1>2, <1>7, <1>8
    <3>2. QED
      BY <3>1
  <2>3. CASE q \notin P
    BY <2>3, <1>7 DEF Behind
  <2>4. QED
    BY <2>2, <2>3
<1>10. p \in l.pages
  BY <1>2, <1>7
<1>11. \E x \in l.pages : \A q \in l.pages : Behind(q, x) \/ (x.part = q.part /\ x.seq >= q.seq)
  BY <1>9, <1>10
<1> HIDE DEF D, P, f, T
<1>12. QED
  BY <1>11 DEF Latest


-----------------------------------------------------------------------------
\* What an execution relies on stays true while others work on its lineage.

\* How a lineage may change: pages are added, none to a partition that is
\* complete; products that were kept are given up; it does not become active
\* again; a sealed one stays as it is.
LinGrows(l, m) ==
  /\ l.pages \subseteq m.pages /\ m.kept \subseteq l.kept
  /\ m.status = "active" => l.status = "active"
  /\ \A q \in m.pages \ l.pages : \A p \in l.pages : p.part = q.part => ~p.terminal
  /\ Sealed(l) => m.status = l.status /\ m.pages = l.pages

Grow ==
  /\ lineages' \in Seq(ToSet(lineages'))
  /\ DOMAIN lineages \subseteq DOMAIN lineages'
  /\ \A i \in DOMAIN lineages : LinGrows(lineages[i], lineages'[i])

\* More pages, more products.
LEMMA MoreIsCollected ==
  ASSUME NEW l, NEW m, l.pages \subseteq m.pages
  PROVE  Collected(l) \subseteq Collected(m)
BY DEF Collected

\* A page may begin where it could begin before.
LEMMA StillFollows ==
  ASSUME NEW k, NEW P, NEW Q, P \subseteq Q, NEW part, NEW c, Follows(k, P, part, c)
  PROVE  Follows(k, Q, part, c)
BY DEF Follows

\* Fewer products to keep, more that are got.
LEMMA StillCovered ==
  ASSUME NEW k, NEW kept, NEW fewer, fewer \subseteq kept, NEW got, NEW more, got \subseteq more,
         NEW c, Covered(k, kept, c, got)
  PROVE  Covered(k, fewer, c, more)
BY DEF Covered

\* A session is as good with fewer products to keep.
LEMMA StillSession ==
  ASSUME NEW k, NEW s, NEW kept, NEW fewer, fewer \subseteq kept, SessionOK(k, s, kept)
  PROVE  SessionOK(k, s, fewer)
BY DEF SessionOK

\* A page that was ready stays ready while the lineage grows.
LEMMA StillReady ==
  ASSUME NEW k, NEW p, NEW s, NEW l, NEW m, LinGrows(l, m), PageReady(k, p, s, l)
  PROVE  PageReady(k, p, s, m)
<1>1. l.pages \subseteq m.pages /\ m.kept \subseteq l.kept
  BY DEF LinGrows
<1>2. Collected(l) \union p.items \subseteq Collected(m) \union p.items
  BY <1>1, MoreIsCollected
<1>3. PageOK(k, p) /\ Follows(k, l.pages, p.part, p.from)
  BY DEF PageReady
<1>4. Follows(k, m.pages, p.part, p.from)
  BY <1>1, <1>3, StillFollows
<1>5. PageCovers(k, m.kept, p, Collected(m) \union p.items)
  <2>1. PageCovers(k, l.kept, p, Collected(l) \union p.items)
    BY DEF PageReady
  <2> DEFINE a == Collected(l) \union p.items
             b == Collected(m) \union p.items
  <2> HIDE DEF a, b
  <2>2. a \subseteq b /\ PageCovers(k, l.kept, p, a)
    BY <1>2, <2>1 DEF a, b
  <2>3. PageCovers(k, m.kept, p, b)
    BY <2>2, <1>1, StillCovered DEF PageCovers
  <2>4. QED
    BY <2>3 DEF b
<1>6. ASSUME ~p.terminal
      PROVE  /\ p.part = Body(k) /\ p.next = Here(k, Advanced(k, s, p)) /\ p.next # NoCursor
             /\ SessionOK(k, Advanced(k, s, p), m.kept)
  <2>1. /\ p.part = Body(k) /\ p.next = Here(k, Advanced(k, s, p)) /\ p.next # NoCursor
        /\ SessionOK(k, Advanced(k, s, p), l.kept)
    BY <1>6 DEF PageReady
  <2>2. QED
    BY <2>1, <1>1, StillSession
<1>7. QED
  BY <1>3, <1>4, <1>5, <1>6 DEF PageReady

\* A session that could be fetched from still can.
LEMMA StillFetches ==
  ASSUME NEW k, NEW s, NEW l, NEW m, LinGrows(l, m), FetchOK(k, s, l)
  PROVE  FetchOK(k, s, m)
<1>1. l.pages \subseteq m.pages /\ m.kept \subseteq l.kept
  BY DEF LinGrows
<1>2. Collected(l) \subseteq Collected(m)
  BY <1>1, MoreIsCollected
<1>3. Follows(k, m.pages, Body(k), Here(k, s))
  BY <1>1, StillFollows DEF FetchOK
<1>4. CASE k = "woocommerce"
  BY <1>3, <1>4 DEF FetchOK
<1>5. CASE k # "woocommerce"
  <2>1. SessionOK(k, s, m.kept)
    BY <1>1, <1>5, StillSession DEF FetchOK
  <2>2. ASSUME k \in Anchored
        PROVE  Covered(k, m.kept, Here(k, s), Collected(m))
    <3>1. Covered(k, l.kept, Here(k, s), Collected(l))
      BY <1>5, <2>2 DEF FetchOK
    <3>2. QED
      BY <3>1, <1>1, <1>2, StillCovered
  <2>3. QED
    BY <1>3, <1>5, <2>1, <2>2 DEF FetchOK
<1>6. QED
  BY <1>4, <1>5

\* An execution that does not move can go on as if nothing had happened.
LEMMA StillOK ==
  ASSUME NEW k, NEW e, NEW l, NEW m, LinGrows(l, m), ExecOK(k, e, l)
  PROVE  ExecOK(k, e, m)
<1>1. /\ l.pages \subseteq m.pages /\ m.kept \subseteq l.kept
      /\ m.status = "active" => l.status = "active"
  BY DEF LinGrows
<1>2. Collected(l) \subseteq Collected(m)
  BY <1>1, MoreIsCollected
<1>3. e.at = "discover" => CursorOK(k, e.cursor, m.pages)
  BY <1>1 DEF ExecOK, CursorOK
<1>4. e.at = "fetch" => FetchOK(k, e.s, m)
  BY StillFetches DEF ExecOK
<1>5. ASSUME e.at \in {"stage", "commit"}
      PROVE  TodoOK(k, e, m)
  <2>1. TodoOK(k, e, l)
    BY <1>5 DEF ExecOK
  <2>2. CASE k = "woocommerce"
    <3>1. WooReady(k, e.todo, l)
      BY <2>1, <2>2 DEF TodoOK
    <3>2. Follows(k, m.pages, "main", e.todo[1].from)
      BY <3>1, <1>1, StillFollows DEF WooReady
    <3>3. WooReady(k, e.todo, m)
      BY <3>1, <3>2 DEF WooReady
    <3>4. QED
      BY <3>3, <2>2 DEF TodoOK
  <2>3. CASE k # "woocommerce"
    BY <2>1, <2>3, StillReady DEF TodoOK
  <2>4. QED
    BY <2>2, <2>3
<1>6. ASSUME e.at \in {"collected", "seal", "publish", "load"}, k \in Anchored, e.terminal, e.intact
      PROVE  m.kept \subseteq Collected(m)
  <2>1. l.kept \subseteq Collected(l)
    BY <1>6 DEF ExecOK
  <2>2. QED
    BY <2>1, <1>1, <1>2
<1>7. ASSUME e.at = "collected", e.terminal, m.status = "active"
      PROVE  \E p \in m.pages : p.terminal
  <2>1. \E p \in l.pages : p.terminal
    BY <1>7, <1>1 DEF ExecOK
  <2>2. QED
    BY <2>1, <1>1
<1>8. ASSUME e.at = "seal", m.status = "active"
      PROVE  ReadAll(e.sum, m.pages)
  <2>1. ReadAll(e.sum, l.pages)
    BY <1>8, <1>1 DEF ExecOK
  <2>2. PICK p \in e.sum : p.terminal /\ \A q \in l.pages : q.part = p.part => q \in e.sum
    BY <2>1 DEF ReadAll
  <2>3. e.sum \subseteq l.pages
    BY <2>1 DEF ReadAll
  <2>4. ASSUME NEW q \in m.pages, q.part = p.part
        PROVE  q \in e.sum
    BY <2>2, <2>3, <2>4 DEF LinGrows
  <2>5. QED
    BY <2>2, <2>3, <2>4, <1>1 DEF ReadAll
<1>9. e.at \in {"discover", "fetch"} => ~e.terminal
  BY DEF ExecOK
<1>10. QED
  BY <1>3, <1>4, <1>5, <1>6, <1>7, <1>8, <1>9 DEF ExecOK

\* The fields of a lineage.
LineageFields == {"conf", "status", "pages", "sum", "kept"}

\* One execution moves to e; the lineages grow.
LEMMA OneMoves ==
  ASSUME WalkInv, NEW t \in Executions, NEW e, Goes(t, e), kind' = kind, limit' = limit,
         shop' \subseteq Products, Grow,
         \A i \in DOMAIN lineages' : /\ DOMAIN lineages'[i] = LineageFields
                                     /\ LinOK(kind, lineages'[i]) /\ lineages'[i].kept \subseteq shop',
         DOMAIN e = DOMAIN Idle, DOMAIN e.s = DOMAIN Idle.s,
         e.at \in Working => e.lin \in DOMAIN lineages' /\ ExecOK(kind, e, lineages'[e.lin])
  PROVE  WalkInv'
<1>1. DOMAIN exec = Executions
  BY DEF WalkInv, Shapes
<1>2. DOMAIN exec' = Executions /\ exec'[t] = e /\ \A u \in Executions \ {t} : exec'[u] = exec[u]
  BY <1>1 DEF Goes
<1>3. ASSUME NEW u \in Executions
      PROVE  /\ DOMAIN exec'[u] = DOMAIN Idle /\ DOMAIN exec'[u].s = DOMAIN Idle.s
             /\ exec'[u].at \in Working => /\ exec'[u].lin \in DOMAIN lineages'
                                           /\ ExecOK(kind, exec'[u], lineages'[exec'[u].lin])
  <2>1. CASE u = t
    BY <2>1, <1>2
  <2>2. CASE u # t
    <3>1. exec'[u] = exec[u] /\ DOMAIN exec[u] = DOMAIN Idle /\ DOMAIN exec[u].s = DOMAIN Idle.s
      BY <1>2, <2>2 DEF WalkInv, Shapes
    <3>2. ASSUME exec[u].at \in Working
          PROVE  exec[u].lin \in DOMAIN lineages' /\ ExecOK(kind, exec[u], lineages'[exec[u].lin])
      <4>1. exec[u].lin \in DOMAIN lineages /\ ExecOK(kind, exec[u], lineages[exec[u].lin])
        BY <3>2 DEF WalkInv, Shapes, Walks, LineageOf
      <4>2. LinGrows(lineages[exec[u].lin], lineages'[exec[u].lin]) /\ exec[u].lin \in DOMAIN lineages'
        BY <4>1 DEF Grow
      <4>3. QED
        BY <4>1, <4>2, StillOK
    <3>3. QED
      BY <3>1, <3>2
  <2>3. QED
    BY <2>1, <2>2
<1>4. Shapes'
  BY <1>2, <1>3 DEF WalkInv, Shapes, Grow, LineageFields
<1>5. Walks'
  BY <1>3 DEF Walks, LineageOf
<1>6. QED
  BY <1>4, <1>5 DEF WalkInv

\* Lineages that stay as they are grow.
LEMMA SameGrow ==
  ASSUME WalkInv, lineages' = lineages
  PROVE  /\ Grow
         /\ \A i \in DOMAIN lineages : /\ DOMAIN lineages[i] = LineageFields
                                       /\ LinOK(kind, lineages[i]) /\ lineages[i].kept \subseteq shop
         /\ shop \subseteq Products
<1>1. \A l : LinGrows(l, l)
  BY DEF LinGrows
<1>2. QED
  BY <1>1 DEF WalkInv, Shapes, Walks, Grow, LineageFields

\* One execution moves to e, and nothing else that it relies on.
LEMMA OnlyItMoves ==
  ASSUME WalkInv, NEW t \in Executions, NEW e, Goes(t, e), UNCHANGED <<kind, limit, shop, lineages>>,
         DOMAIN e = DOMAIN Idle, DOMAIN e.s = DOMAIN Idle.s,
         e.at \in Working => e.lin \in DOMAIN lineages /\ ExecOK(kind, e, lineages[e.lin])
  PROVE  WalkInv'
<1>1. /\ Grow /\ shop' \subseteq Products
      /\ \A i \in DOMAIN lineages' : /\ DOMAIN lineages'[i] = LineageFields
                                     /\ LinOK(kind, lineages'[i]) /\ lineages'[i].kept \subseteq shop'
  BY SameGrow
<1>2. e.at \in Working => e.lin \in DOMAIN lineages' /\ ExecOK(kind, e, lineages'[e.lin])
  OBVIOUS
<1>3. QED
  BY <1>1, <1>2, OneMoves

\* What is known of an execution at work.
LEMMA AtWork ==
  ASSUME WalkInv, NEW t \in Executions
  PROVE  /\ DOMAIN exec[t] = DOMAIN Idle /\ DOMAIN exec[t].s = DOMAIN Idle.s
         /\ kind \in Kinds /\ shop \subseteq Products
         /\ exec[t].at \in Working =>
              /\ exec[t].lin \in DOMAIN lineages /\ LineageOf(t) = lineages[exec[t].lin]
              /\ ExecOK(kind, exec[t], LineageOf(t)) /\ LinOK(kind, LineageOf(t))
              /\ LineageOf(t).kept \subseteq shop /\ DOMAIN LineageOf(t) = LineageFields
BY DEF WalkInv, Shapes, Walks, LineageOf, LineageFields

\* The places where an execution relies on nothing.
LEMMA NothingAsked ==
  ASSUME NEW k, NEW e, NEW l, e.at \in {"loaded", "finish"}
  PROVE  ExecOK(k, e, l)
BY DEF ExecOK

-----------------------------------------------------------------------------
\* The steps that change only the execution.

\* A claimed execution has no lineage yet.
LEMMA ClaimWalks ==
  ASSUME WalkInv, NEW t \in Executions, Claim(t)
  PROVE  WalkInv'
<1> DEFINE e == [exec[t] EXCEPT !.at = "resolve", !.conf = conf]
<1>1. Goes(t, e) /\ UNCHANGED <<kind, limit, shop, lineages>>
  BY DEF Claim
<1>2. DOMAIN e = DOMAIN Idle /\ DOMAIN e.s = DOMAIN Idle.s /\ e.at \notin Working
  BY AtWork, Fields DEF Working
<1> HIDE DEF e
<1>3. QED
  BY <1>1, <1>2, OnlyItMoves

\* An execution that raises has nothing to rely on.
LEMMA RaisesWalks ==
  ASSUME WalkInv, NEW t \in Executions, NEW end, exec[t].at \in Working,
         Goes(t, Ending(exec[t], end)), UNCHANGED <<kind, limit, shop, lineages>>
  PROVE  WalkInv'
<1> DEFINE e == Ending(exec[t], end)
<1>1. DOMAIN e = DOMAIN Idle /\ DOMAIN e.s = DOMAIN Idle.s /\ e.at = "finish" /\ e.lin = exec[t].lin
  BY AtWork, Fields DEF Ending
<1> HIDE DEF e
<1>2. Goes(t, e) /\ exec[t].lin \in DOMAIN lineages
  BY AtWork DEF e
<1>3. ExecOK(kind, e, lineages[e.lin])
  BY <1>1, NothingAsked
<1>4. QED
  BY <1>1, <1>2, <1>3, OnlyItMoves

\* One that is gone, neither.
LEMMA GoneWalks ==
  ASSUME WalkInv, NEW t \in Executions, Goes(t, [Idle EXCEPT !.at = "gone"]),
         UNCHANGED <<kind, limit, shop, lineages>>
  PROVE  WalkInv'
<1> DEFINE e == [Idle EXCEPT !.at = "gone"]
<1>1. DOMAIN e = DOMAIN Idle /\ e.s = Idle.s /\ e.at \notin Working
  BY Fields DEF Working
<1>2. Goes(t, e)
  OBVIOUS
<1> HIDE DEF e
<1>3. QED
  BY <1>1, <1>2, OnlyItMoves

\* A connector yields pages that are ready.
LEMMA YieldsWalks ==
  ASSUME WalkInv, NEW t \in Executions, exec[t].at \in Working, NEW s, DOMAIN s = DOMAIN Idle.s,
         NEW pages, Yields(t, s, pages), UNCHANGED <<kind, limit, shop, lineages>>,
         IF kind = "woocommerce" THEN WooReady(kind, pages, LineageOf(t))
         ELSE Tail(pages) = <<>> /\ PageReady(kind, Head(pages), s, LineageOf(t))
  PROVE  WalkInv'
<1> DEFINE e == [exec[t] EXCEPT !.at = "stage", !.s = s, !.todo = pages]
<1>1. /\ DOMAIN e = DOMAIN Idle /\ e.s = s /\ e.at = "stage" /\ e.lin = exec[t].lin /\ e.todo = pages
  BY AtWork, Fields
<1>2. Goes(t, e)
  BY DEF Yields
<1> HIDE DEF e
<1>3. exec[t].lin \in DOMAIN lineages /\ LineageOf(t) = lineages[exec[t].lin]
  BY AtWork
<1>4. ExecOK(kind, e, lineages[e.lin])
  BY <1>1, <1>3 DEF ExecOK, TodoOK
<1>5. QED
  BY <1>1, <1>2, <1>3, <1>4, OnlyItMoves

\* The first requests: the walk is taken up at the cursor, or stops at once.
LEMMA DiscoverWalks ==
  ASSUME WalkInv, NEW t \in Executions, Discover(t)
  PROVE  WalkInv'
<1> DEFINE list == IF kind \in Listing THEN InOrder(shop) ELSE <<>>
           c == exec[t].cursor
           s == Session(kind, c, list, limit)
           l == LineageOf(t)
<1>1. /\ UNCHANGED <<kind, limit, shop, lineages>> /\ exec[t].at = "discover"
      /\ \/ /\ kind \in Listing => list # <<>>
            /\ ResumeAccepted(kind, c, list)
            /\ Goes(t, [exec[t] EXCEPT !.at = "fetch", !.s = s])
         \/ kind \in Listing /\ Yields(t, s, <<EmptyDiscovery(kind, s)>>)
         \/ Raises(t)
         \/ kind \in Listing \union {"bigcommerce"} /\ Yields(t, s, <<DiscoveryFailure(kind, s)>>)
  BY DEF Discover, At
<1>2. exec[t].at \in Working
  BY <1>1 DEF Working, Places
<1>3. /\ exec[t].lin \in DOMAIN lineages /\ l = lineages[exec[t].lin] /\ CursorOK(kind, c, l.pages)
      /\ ~exec[t].terminal /\ LinOK(kind, l) /\ l.kept \subseteq shop
      /\ shop \in SUBSET Products /\ kind \in Kinds /\ l.kept \in SUBSET Products
  BY <1>1, <1>2, AtWork DEF ExecOK
<1>4. DOMAIN s = DOMAIN Idle.s
  BY Fields DEF Session
<1>5. list = IF kind \in Listing THEN InOrder(shop) ELSE <<>>
  OBVIOUS
<1>6. s = Session(kind, c, list, limit)
  OBVIOUS
<1> HIDE DEF list, s, c, l
<1>7. CASE /\ kind \in Listing => list # <<>>
           /\ ResumeAccepted(kind, c, list)
           /\ Goes(t, [exec[t] EXCEPT !.at = "fetch", !.s = s])
  <2> DEFINE e == [exec[t] EXCEPT !.at = "fetch", !.s = s]
  <2>1. DOMAIN e = DOMAIN Idle /\ e.s = s /\ e.at = "fetch" /\ e.lin = exec[t].lin
        /\ e.terminal = exec[t].terminal
    BY AtWork, Fields
  <2>2. FetchOK(kind, s, l)
    BY <1>3, <1>5, <1>6, <1>7, DiscoverStarts
  <2> HIDE DEF e
  <2>3. ExecOK(kind, e, lineages[e.lin])
    BY <2>1, <2>2, <1>3 DEF ExecOK
  <2>4. Goes(t, e)
    BY <1>7 DEF e
  <2>5. QED
    BY <2>1, <2>3, <2>4, <1>1, <1>3, <1>4, OnlyItMoves
<1>8. CASE kind \in Listing /\ Yields(t, s, <<EmptyDiscovery(kind, s)>>)
  <2> DEFINE p == EmptyDiscovery(kind, s)
  <2>1. PageReady(kind, p, s, l)
    BY <1>3, <1>6, <1>8, DiscoveryYields
  <2> HIDE DEF p
  <2>2. Tail(<<p>>) = <<>> /\ Head(<<p>>) = p /\ Yields(t, s, <<p>>) /\ kind # "woocommerce"
    BY <1>8 DEF p, Listing
  <2>3. QED
    BY <2>1, <2>2, <1>1, <1>2, <1>4, YieldsWalks DEF l
<1>9. CASE Raises(t)
  BY <1>1, <1>2, <1>9, RaisesWalks DEF Raises
<1>10. CASE kind \in Listing \union {"bigcommerce"} /\ Yields(t, s, <<DiscoveryFailure(kind, s)>>)
  <2> DEFINE p == DiscoveryFailure(kind, s)
  <2>1. PageReady(kind, p, s, l)
    BY <1>3, <1>6, <1>10, DiscoveryYields
  <2> HIDE DEF p
  <2>2. Tail(<<p>>) = <<>> /\ Head(<<p>>) = p /\ Yields(t, s, <<p>>) /\ kind # "woocommerce"
    BY <1>10 DEF p, Listing
  <2>3. QED
    BY <2>1, <2>2, <1>1, <1>2, <1>4, YieldsWalks DEF l
<1>11. QED
  BY <1>1, <1>7, <1>8, <1>9, <1>10

\* One page of the shop, which answers or fails, is ready to be committed.
LEMMA FetchWalks ==
  ASSUME WalkInv, NEW t \in Executions, Fetch(t)
  PROVE  WalkInv'
<1> DEFINE s == exec[t].s
           l == LineageOf(t)
<1>1. /\ UNCHANGED <<kind, limit, shop, lineages>> /\ exec[t].at = "fetch" /\ kind # "woocommerce"
      /\ \/ Yields(t, s, <<NextPage(kind, s, shop)>>)
         \/ Yields(t, s, <<FetchFailure(kind, s)>>)
  BY DEF Fetch, At
<1>2. exec[t].at \in Working
  BY <1>1 DEF Working, Places
<1>3. /\ FetchOK(kind, s, l) /\ l.kept \subseteq shop /\ shop \in SUBSET Products
      /\ kind \in Kinds \ {"woocommerce"} /\ DOMAIN s = DOMAIN Idle.s
  BY <1>1, <1>2, AtWork DEF ExecOK
<1> HIDE DEF s, l
<1>4. PageReady(kind, NextPage(kind, s, shop), s, l) /\ PageReady(kind, FetchFailure(kind, s), s, l)
  BY <1>3, FetchYields
<1>5. ASSUME NEW p, PageReady(kind, p, s, l), Yields(t, s, <<p>>)
      PROVE  WalkInv'
  <2>1. Tail(<<p>>) = <<>> /\ Head(<<p>>) = p
    OBVIOUS
  <2>2. QED
    BY <2>1, <1>1, <1>2, <1>3, <1>5, YieldsWalks DEF l
<1>6. QED
  BY <1>1, <1>4, <1>5

\* WooCommerce buffers a page, or yields what it has.
LEMMA FetchWooWalks ==
  ASSUME WalkInv, NEW t \in Executions, FetchWoo(t)
  PROVE  WalkInv'
<1> DEFINE s == exec[t].s
           l == LineageOf(t)
<1>1. /\ UNCHANGED <<kind, limit, shop, lineages>> /\ exec[t].at = "fetch" /\ kind = "woocommerce"
      /\ \/ Goes(t, [exec[t] EXCEPT !.s = WooBuffer(s, shop)])
         \/ Yields(t, s, <<WooFailure(s)>>)
         \/ Yields(t, s, WooPages(s))
  BY DEF FetchWoo, At
<1>2. exec[t].at \in Working
  BY <1>1 DEF Working, Places
<1>3. /\ FetchOK("woocommerce", s, l) /\ shop \in SUBSET Products /\ DOMAIN s = DOMAIN Idle.s
      /\ exec[t].lin \in DOMAIN lineages /\ l = lineages[exec[t].lin] /\ ~exec[t].terminal
  BY <1>1, <1>2, AtWork DEF ExecOK
<1> HIDE DEF s, l
<1>4. CASE Goes(t, [exec[t] EXCEPT !.s = WooBuffer(s, shop)])
  <2> DEFINE n == WooBuffer(s, shop)
             e == [exec[t] EXCEPT !.s = n]
  <2>1. FetchOK("woocommerce", n, l) /\ DOMAIN n = DOMAIN Idle.s
    BY <1>3, WooBuffers
  <2> HIDE DEF n
  <2>2. DOMAIN e = DOMAIN Idle /\ e.s = n /\ e.at = "fetch" /\ e.lin = exec[t].lin
        /\ e.terminal = exec[t].terminal
    BY <1>1, AtWork, Fields
  <2>3. Goes(t, e)
    BY <1>4 DEF n
  <2> HIDE DEF e
  <2>4. ExecOK(kind, e, lineages[e.lin])
    BY <2>1, <2>2, <1>1, <1>3 DEF ExecOK
  <2>5. QED
    BY <2>1, <2>2, <2>3, <2>4, <1>1, <1>3, OnlyItMoves
<1>5. CASE Yields(t, s, <<WooFailure(s)>>) \/ Yields(t, s, WooPages(s))
  <2>1. WooReady(kind, <<WooFailure(s)>>, l) /\ WooReady(kind, WooPages(s), l)
    BY <1>1, <1>3, WooYields
  <2>2. ASSUME NEW pages, WooReady(kind, pages, l), Yields(t, s, pages)
        PROVE  WalkInv'
    BY <2>2, <1>1, <1>2, <1>3, YieldsWalks DEF l
  <2>3. QED
    BY <2>1, <2>2, <1>5
<1>6. QED
  BY <1>1, <1>4, <1>5

\* A connector that returns early has not reached the end.
LEMMA ReturnWalks ==
  ASSUME WalkInv, NEW t \in Executions, Return(t)
  PROVE  WalkInv'
<1> DEFINE e == [exec[t] EXCEPT !.at = "collected"]
<1>1. /\ Goes(t, e) /\ UNCHANGED <<kind, limit, shop, lineages>>
      /\ exec[t].at \in {"discover", "fetch"}
  BY DEF Return, To
<1>2. exec[t].at \in Working
  BY <1>1 DEF Working, Places
<1>3. exec[t].lin \in DOMAIN lineages /\ ~exec[t].terminal
  BY <1>1, <1>2, AtWork DEF ExecOK
<1>4. /\ DOMAIN e = DOMAIN Idle /\ e.s = exec[t].s /\ DOMAIN e.s = DOMAIN Idle.s
      /\ e.at = "collected" /\ e.lin = exec[t].lin /\ e.terminal = exec[t].terminal
  BY AtWork, Fields
<1> HIDE DEF e
<1>5. ExecOK(kind, e, lineages[e.lin])
  BY <1>3, <1>4 DEF ExecOK
<1>6. QED
  BY <1>1, <1>3, <1>4, <1>5, OnlyItMoves

-----------------------------------------------------------------------------
\* The pipeline.

\* The projection of a page leaves the page as it is.
LEMMA StageWalks ==
  ASSUME WalkInv, NEW t \in Executions, Stage(t)
  PROVE  WalkInv'
<1>1. /\ UNCHANGED <<kind, limit, shop, lineages>> /\ exec[t].at = "stage"
      /\ \/ Goes(t, [exec[t] EXCEPT !.at = "commit", !.outcome = "skipped"])
         \/ Goes(t, [exec[t] EXCEPT !.at = "commit", !.outcome = "succeeded"])
         \/ Goes(t, [exec[t] EXCEPT !.at = "commit", !.outcome = "failed", !.failed = TRUE])
  BY DEF Stage, At
<1>2. exec[t].at \in Working
  BY <1>1 DEF Working, Places
<1>3. /\ exec[t].lin \in DOMAIN lineages /\ LineageOf(t) = lineages[exec[t].lin]
      /\ TodoOK(kind, exec[t], LineageOf(t))
  BY <1>1, <1>2, AtWork DEF ExecOK
<1>4. ASSUME NEW e, Goes(t, e), DOMAIN e = DOMAIN Idle, e.s = exec[t].s, e.at = "commit",
             e.lin = exec[t].lin, e.todo = exec[t].todo
      PROVE  WalkInv'
  <2>1. TodoOK(kind, e, lineages[e.lin])
    BY <1>3, <1>4 DEF TodoOK
  <2>2. ExecOK(kind, e, lineages[e.lin]) /\ DOMAIN e.s = DOMAIN Idle.s
    BY <2>1, <1>4, AtWork DEF ExecOK
  <2>3. QED
    BY <2>2, <1>1, <1>3, <1>4, OnlyItMoves
<1>5. CASE Goes(t, [exec[t] EXCEPT !.at = "commit", !.outcome = "skipped"])
  <2> DEFINE e == [exec[t] EXCEPT !.at = "commit", !.outcome = "skipped"]
  <2>1. /\ DOMAIN e = DOMAIN Idle /\ e.s = exec[t].s /\ e.at = "commit" /\ e.lin = exec[t].lin
        /\ e.todo = exec[t].todo
    BY AtWork, Fields
  <2> HIDE DEF e
  <2>2. QED
    BY <2>1, <1>4, <1>5 DEF e
<1>6. CASE Goes(t, [exec[t] EXCEPT !.at = "commit", !.outcome = "succeeded"])
  <2> DEFINE e == [exec[t] EXCEPT !.at = "commit", !.outcome = "succeeded"]
  <2>1. /\ DOMAIN e = DOMAIN Idle /\ e.s = exec[t].s /\ e.at = "commit" /\ e.lin = exec[t].lin
        /\ e.todo = exec[t].todo
    BY AtWork, Fields
  <2> HIDE DEF e
  <2>2. QED
    BY <2>1, <1>4, <1>6 DEF e
<1>7. CASE Goes(t, [exec[t] EXCEPT !.at = "commit", !.outcome = "failed", !.failed = TRUE])
  <2> DEFINE e == [exec[t] EXCEPT !.at = "commit", !.outcome = "failed", !.failed = TRUE]
  <2>1. /\ DOMAIN e = DOMAIN Idle /\ e.s = exec[t].s /\ e.at = "commit" /\ e.lin = exec[t].lin
        /\ e.todo = exec[t].todo
    BY AtWork, Fields
  <2> HIDE DEF e
  <2>2. QED
    BY <2>1, <1>4, <1>7 DEF e
<1>8. QED
  BY <1>1, <1>5, <1>6, <1>7

\* An execution at work goes on with the lineage it has.
LEMMA GoesOn ==
  ASSUME WalkInv, NEW t \in Executions, exec[t].at \in Working, NEW e, Goes(t, e),
         UNCHANGED <<kind, limit, shop, lineages>>,
         DOMAIN e = DOMAIN Idle, e.s = exec[t].s, e.lin = exec[t].lin,
         ExecOK(kind, e, LineageOf(t))
  PROVE  WalkInv'
<1>1. /\ exec[t].lin \in DOMAIN lineages /\ LineageOf(t) = lineages[exec[t].lin]
      /\ DOMAIN exec[t].s = DOMAIN Idle.s
  BY AtWork
<1>2. QED
  BY <1>1, OnlyItMoves

-----------------------------------------------------------------------------
\* The rest of a collection.

\* The checksum is read of a lineage with a complete partition.
LEMMA SettleWalks ==
  ASSUME WalkInv, NEW t \in Executions, Settle(t)
  PROVE  WalkInv'
<1> DEFINE l == LineageOf(t)
           e == [exec[t] EXCEPT !.at = "seal", !.sum = Checksum(l)]
<1>1. /\ UNCHANGED <<kind, limit, shop, lineages>> /\ exec[t].at = "collected"
      /\ \/ Goes(t, Ending(exec[t], "cancelled"))
         \/ Raises(t)
         \/ Goes(t, e) /\ exec[t].terminal
  BY DEF Settle, At
<1>2. exec[t].at \in Working
  BY <1>1 DEF Working, Places
<1>3. CASE Goes(t, Ending(exec[t], "cancelled"))
  BY <1>1, <1>2, <1>3, RaisesWalks
<1>4. CASE Raises(t)
  BY <1>1, <1>2, <1>4, RaisesWalks DEF Raises
<1>5. CASE Goes(t, e) /\ exec[t].terminal
  <2>1. /\ DOMAIN e = DOMAIN Idle /\ e.s = exec[t].s /\ e.lin = exec[t].lin /\ e.at = "seal"
        /\ e.terminal = exec[t].terminal /\ e.intact = exec[t].intact /\ e.sum = l.pages
    BY AtWork, Fields DEF Checksum
  <2>2. ExecOK(kind, exec[t], l)
    BY <1>2, AtWork
  <2>3. kind \in Anchored /\ e.terminal /\ e.intact => l.kept \subseteq Collected(l)
    BY <2>1, <2>2, <1>1 DEF ExecOK
  <2>4. l.status = "active" => ReadAll(e.sum, l.pages)
    BY <2>1, <2>2, <1>1, <1>5 DEF ExecOK, ReadAll
  <2> HIDE DEF e
  <2>5. ExecOK(kind, e, l)
    BY <2>1, <2>3, <2>4 DEF ExecOK
  <2>6. QED
    BY <2>1, <2>5, <1>1, <1>2, <1>5, GoesOn
<1>6. QED
  BY <1>1, <1>3, <1>4, <1>5

\* Publishing changes no lineage.
LEMMA PublishWalks ==
  ASSUME WalkInv, NEW t \in Executions, Publish(t)
  PROVE  WalkInv'
<1> DEFINE e == [exec[t] EXCEPT !.at = "load"]
<1>1. UNCHANGED <<kind, limit, shop, lineages>> /\ exec[t].at = "publish" /\ (Raises(t) \/ Goes(t, e))
  BY DEF Publish, At, To
<1>2. exec[t].at \in Working
  BY <1>1 DEF Working, Places
<1>3. CASE Raises(t)
  BY <1>1, <1>2, <1>3, RaisesWalks DEF Raises
<1>4. CASE Goes(t, e)
  <2>1. /\ DOMAIN e = DOMAIN Idle /\ e.s = exec[t].s /\ e.lin = exec[t].lin /\ e.at = "load"
        /\ e.terminal = exec[t].terminal /\ e.intact = exec[t].intact
    BY AtWork, Fields
  <2>2. ExecOK(kind, exec[t], LineageOf(t))
    BY <1>2, AtWork
  <2> HIDE DEF e
  <2>3. ExecOK(kind, e, LineageOf(t))
    BY <2>1, <2>2, <1>1 DEF ExecOK
  <2>4. QED
    BY <2>1, <2>3, <1>1, <1>2, <1>4, GoesOn
<1>5. QED
  BY <1>1, <1>3, <1>4

\* Loading, recording the load and finishing change no lineage.
LEMMA LoadWalks ==
  ASSUME WalkInv, NEW t \in Executions, Load(t) \/ RecordLoad(t) \/ Finish(t)
  PROVE  WalkInv'
<1> DEFINE e == [exec[t] EXCEPT !.at = "loaded"]
<1>1. UNCHANGED <<kind, limit, shop, lineages>>
  BY DEF Load, RecordLoad, Finish
<1>2. CASE Load(t)
  <2>1. exec[t].at = "load" /\ (Raises(t) \/ Goes(t, e))
    BY <1>2 DEF Load, At, To
  <2>2. exec[t].at \in Working
    BY <2>1 DEF Working, Places
  <2>3. CASE Raises(t)
    BY <1>1, <2>2, <2>3, RaisesWalks DEF Raises
  <2>4. CASE Goes(t, e)
    <3>1. DOMAIN e = DOMAIN Idle /\ e.s = exec[t].s /\ e.lin = exec[t].lin /\ e.at = "loaded"
      BY AtWork, Fields
    <3> HIDE DEF e
    <3>2. ExecOK(kind, e, LineageOf(t))
      BY <3>1, NothingAsked
    <3>3. QED
      BY <3>1, <3>2, <1>1, <2>2, <2>4, GoesOn
  <2>5. QED
    BY <2>1, <2>3, <2>4
<1>3. CASE RecordLoad(t)
  <2>1. exec[t].at \in Working /\ Goes(t, Ending(exec[t], "succeeded"))
    BY <1>3 DEF RecordLoad, At, Working, Places
  <2>2. QED
    BY <2>1, <1>1, RaisesWalks
<1>4. CASE Finish(t)
  BY <1>1, <1>4, GoneWalks DEF Finish
<1>5. QED
  BY <1>2, <1>3, <1>4

-----------------------------------------------------------------------------
\* What comes from outside.

\* A death, a timeout or a cancellation changes no lineage.
LEMMA DisturbanceWalks ==
  ASSUME WalkInv, NEW t \in Executions, Die(t) \/ TimeOut(t) \/ Cancel(t)
  PROVE  WalkInv'
<1>1. UNCHANGED <<kind, limit, shop, lineages>>
  BY DEF Die, TimeOut, Cancel
<1>2. CASE Die(t)
  BY <1>1, <1>2, GoneWalks DEF Die
<1>3. CASE TimeOut(t)
  <2>1. exec[t].at \in Working /\ Goes(t, Ending(exec[t], "failed"))
    BY <1>3 DEF TimeOut, Raises, Working, Places
  <2>2. QED
    BY <2>1, <1>1, RaisesWalks
<1>4. CASE Cancel(t)
  <2> DEFINE e == [exec[t] EXCEPT !.cancel = TRUE]
  <2>1. Goes(t, e)
    BY <1>4 DEF Cancel
  <2>2. /\ DOMAIN e = DOMAIN Idle /\ e.s = exec[t].s /\ e.lin = exec[t].lin /\ e.at = exec[t].at
        /\ e.terminal = exec[t].terminal /\ e.intact = exec[t].intact /\ e.sum = exec[t].sum
        /\ e.cursor = exec[t].cursor /\ e.todo = exec[t].todo
    BY AtWork, Fields
  <2> HIDE DEF e
  <2>3. CASE exec[t].at \in Working
    <3>1. ExecOK(kind, exec[t], LineageOf(t))
      BY <2>3, AtWork
    <3>2. ExecOK(kind, e, LineageOf(t))
      BY <3>1, <2>2 DEF ExecOK, TodoOK
    <3>3. QED
      BY <3>2, <2>1, <2>2, <2>3, <1>1, GoesOn
  <2>4. CASE exec[t].at \notin Working
    <3>1. DOMAIN e.s = DOMAIN Idle.s
      BY <2>2, AtWork
    <3>2. QED
      BY <3>1, <2>1, <2>2, <2>4, <1>1, OnlyItMoves
  <2>5. QED
    BY <2>3, <2>4
<1>5. QED
  BY <1>2, <1>3, <1>4

\* The executions stay where they are, and the lineages grow.
LEMMA NoneMoves ==
  ASSUME WalkInv, UNCHANGED <<kind, limit, exec>>, shop' \subseteq Products, Grow,
         \A i \in DOMAIN lineages' : /\ DOMAIN lineages'[i] = LineageFields
                                     /\ LinOK(kind, lineages'[i]) /\ lineages'[i].kept \subseteq shop'
  PROVE  WalkInv'
<1>1. ASSUME NEW u \in Executions, exec[u].at \in Working
      PROVE  exec[u].lin \in DOMAIN lineages' /\ ExecOK(kind, exec[u], lineages'[exec[u].lin])
  <2>1. exec[u].lin \in DOMAIN lineages /\ ExecOK(kind, exec[u], lineages[exec[u].lin])
    BY <1>1 DEF WalkInv, Shapes, Walks, LineageOf
  <2>2. LinGrows(lineages[exec[u].lin], lineages'[exec[u].lin]) /\ exec[u].lin \in DOMAIN lineages'
    BY <2>1 DEF Grow
  <2>3. QED
    BY <2>1, <2>2, StillOK
<1>2. Shapes'
  BY <1>1 DEF WalkInv, Shapes, Grow, LineageFields
<1>3. Walks'
  BY <1>1 DEF Walks, LineageOf
<1>4. QED
  BY <1>2, <1>3 DEF WalkInv

\* Neither does the queue, the configuration, or a product that is new in the shop.
LEMMA OutsideWalks ==
  ASSUME WalkInv, Requeue \/ Reconfigure \/ \E p \in Products : Sell(p)
  PROVE  WalkInv'
<1>1. /\ UNCHANGED <<kind, limit, exec, lineages>>
      /\ shop \subseteq shop' /\ shop' \subseteq shop \union Products
  BY DEF Requeue, Reconfigure, Sell
<1>2. /\ Grow /\ shop' \subseteq Products
      /\ \A i \in DOMAIN lineages' : /\ DOMAIN lineages'[i] = LineageFields
                                     /\ LinOK(kind, lineages'[i]) /\ lineages'[i].kept \subseteq shop'
  BY <1>1, SameGrow
<1>3. QED
  BY <1>1, <1>2, NoneMoves

-----------------------------------------------------------------------------
\* The steps that change lineages.

\* A function over the indices of a sequence is a sequence.
LEMMA MappedIsASequence ==
  ASSUME NEW T, NEW q \in Seq(T), NEW r, DOMAIN r = DOMAIN q, r = [i \in DOMAIN q |-> r[i]]
  PROVE  r \in Seq(ToSet(r)) /\ Len(r) = Len(q) /\ DOMAIN r = 1..Len(q) /\ Len(q) \in Nat
<1>1. DOMAIN q = 1..Len(q) /\ Len(q) \in Nat
  OBVIOUS
<1>2. \A i \in 1..Len(q) : r[i] \in ToSet(r)
  BY <1>1 DEF ToSet
<1>3. r \in [1..Len(q) -> ToSet(r)]
  BY <1>1, <1>2
<1>4. QED
  BY <1>1, <1>3

\* With the same pages a lineage stays as good as it is.
LEMMA SamePages ==
  ASSUME NEW k, NEW l, NEW m, LinOK(k, l), m.pages = l.pages, m.kept \subseteq l.kept, SealHolds(m)
  PROVE  LinOK(k, m)
<1>1. Collected(m) = Collected(l)
  BY DEF Collected
<1>2. \A p \in m.pages : PageCovers(k, m.kept, p, Collected(m))
  <2>1. ASSUME NEW p \in m.pages
        PROVE  PageCovers(k, m.kept, p, Collected(m))
    <3>1. PageCovers(k, l.kept, p, Collected(l))
      BY DEF LinOK
    <3>2. QED
      BY <3>1, <1>1, StillCovered DEF PageCovers
  <2>2. QED
    BY <2>1
<1>3. Gapless(k, m)
  BY DEF LinOK, Gapless
<1>4. QED
  BY <1>2, <1>3 DEF LinOK

\* A product is withdrawn: it is not kept any more.
LEMMA WithdrawWalks ==
  ASSUME WalkInv, NEW p \in Products, Withdraw(p)
  PROVE  WalkInv'
<1>1. /\ UNCHANGED <<kind, limit, exec>> /\ shop' = shop \ {p}
      /\ lineages' = [i \in DOMAIN lineages |-> [lineages[i] EXCEPT !.kept = @ \ {p}]]
  BY DEF Withdraw
<1>2. /\ lineages \in Seq(ToSet(lineages)) /\ shop \subseteq Products
      /\ \A i \in DOMAIN lineages : /\ DOMAIN lineages[i] = LineageFields
                                    /\ LinOK(kind, lineages[i]) /\ lineages[i].kept \subseteq shop
  BY DEF WalkInv, Shapes, Walks, LineageFields
<1>3. DOMAIN lineages' = DOMAIN lineages /\ lineages' = [i \in DOMAIN lineages |-> lineages'[i]]
  BY <1>1
<1>4. lineages' \in Seq(ToSet(lineages'))
  BY <1>2, <1>3, MappedIsASequence
<1>5. ASSUME NEW i \in DOMAIN lineages
      PROVE  /\ LinGrows(lineages[i], lineages'[i]) /\ DOMAIN lineages'[i] = LineageFields
             /\ LinOK(kind, lineages'[i]) /\ lineages'[i].kept \subseteq shop'
  <2> DEFINE l == lineages[i]
             m == lineages'[i]
  <2>1. m = [l EXCEPT !.kept = @ \ {p}]
    BY <1>1
  <2>2. DOMAIN l = LineageFields /\ LinOK(kind, l) /\ l.kept \subseteq shop
    BY <1>2
  <2> HIDE DEF l, m
  <2>3. /\ DOMAIN m = LineageFields /\ m.pages = l.pages /\ m.status = l.status /\ m.sum = l.sum
        /\ m.kept = l.kept \ {p}
    BY <2>1, <2>2 DEF LineageFields
  <2>4. SealHolds(m)
    BY <2>2, <2>3 DEF LinOK, SealHolds, Sealed, Checksum
  <2>5. LinOK(kind, m)
    BY <2>2, <2>3, <2>4, SamePages
  <2>6. LinGrows(l, m)
    BY <2>3 DEF LinGrows
  <2>7. QED
    BY <2>2, <2>3, <2>5, <2>6, <1>1 DEF l, m
<1>6. Grow /\ shop' \subseteq Products
  BY <1>1, <1>2, <1>3, <1>4, <1>5 DEF Grow
<1>7. QED
  BY <1>1, <1>3, <1>5, <1>6, NoneMoves

\* One lineage grows.
LEMMA OneGrows ==
  ASSUME WalkInv, NEW i \in DOMAIN lineages, NEW m, lineages' = [lineages EXCEPT ![i] = m],
         DOMAIN m = LineageFields, LinGrows(lineages[i], m), LinOK(kind, m), m.kept \subseteq shop,
         shop' = shop
  PROVE  /\ Grow /\ lineages'[i] = m /\ shop' \subseteq Products /\ i \in DOMAIN lineages'
         /\ \A j \in DOMAIN lineages' : /\ DOMAIN lineages'[j] = LineageFields
                                        /\ LinOK(kind, lineages'[j]) /\ lineages'[j].kept \subseteq shop'
<1>1. /\ lineages \in Seq(ToSet(lineages)) /\ shop \subseteq Products
      /\ \A j \in DOMAIN lineages : /\ DOMAIN lineages[j] = LineageFields
                                    /\ LinOK(kind, lineages[j]) /\ lineages[j].kept \subseteq shop
  BY DEF WalkInv, Shapes, Walks, LineageFields
<1>2. /\ DOMAIN lineages' = DOMAIN lineages /\ lineages' = [j \in DOMAIN lineages |-> lineages'[j]]
      /\ lineages'[i] = m /\ \A j \in DOMAIN lineages \ {i} : lineages'[j] = lineages[j]
  OBVIOUS
<1>3. lineages' \in Seq(ToSet(lineages'))
  BY <1>1, <1>2, MappedIsASequence
<1>4. \A l : LinGrows(l, l)
  BY DEF LinGrows
<1>5. ASSUME NEW j \in DOMAIN lineages
      PROVE  /\ LinGrows(lineages[j], lineages'[j]) /\ DOMAIN lineages'[j] = LineageFields
             /\ LinOK(kind, lineages'[j]) /\ lineages'[j].kept \subseteq shop'
  <2>1. CASE j = i
    BY <2>1, <1>2
  <2>2. CASE j # i
    BY <2>2, <1>1, <1>2, <1>4
  <2>3. QED
    BY <2>1, <2>2
<1>6. QED
  BY <1>1, <1>2, <1>3, <1>5 DEF Grow

\* The page at hand is ready, whatever the connector.
LEMMA PageAtHand ==
  ASSUME NEW k \in Kinds, NEW e, NEW l, TodoOK(k, e, l)
  PROVE  LET p == Head(e.todo) IN
         /\ PageOK(k, p) /\ Follows(k, l.pages, p.part, p.from)
         /\ PageCovers(k, l.kept, p, Collected(l) \union p.items)
         /\ ~p.terminal => p.part = Body(k)
<1> DEFINE p == Head(e.todo)
<1>1. CASE k = "woocommerce"
  <2>1. WooReady(k, e.todo, l)
    BY <1>1 DEF TodoOK
  <2>2. e.todo \in Seq(ToSet(e.todo)) /\ e.todo # <<>>
    BY <2>1 DEF WooReady
  <2>3. p = e.todo[1] /\ 1 \in DOMAIN e.todo
    BY <2>2, SequenceParts
  <2> HIDE DEF p
  <2>4. PageOK(k, p) /\ Follows(k, l.pages, "main", p.from)
    BY <2>1, <2>3 DEF WooReady
  <2>5. p.part = "main" /\ Body(k) = "main" /\ k \notin Anchored
    BY <2>4, <1>1 DEF PageOK, Parts, Body, Anchored
  <2>6. PageCovers(k, l.kept, p, Collected(l) \union p.items)
    BY <2>5 DEF PageCovers
  <2>7. QED
    BY <2>4, <2>5, <2>6 DEF p
<1>2. CASE k # "woocommerce"
  BY <1>2 DEF TodoOK, PageReady
<1>3. QED
  BY <1>1, <1>2

\* What a committed page is to the execution.
LEMMA AfterFields ==
  ASSUME WalkInv, NEW t \in Executions
  PROVE  LET e == exec[t]
             p == Page(t)
             a == After(t)
         IN /\ DOMAIN a = DOMAIN Idle /\ DOMAIN a.s = DOMAIN Idle.s /\ a.lin = e.lin /\ a.end = e.end
            /\ a.todo = Tail(e.todo) /\ a.terminal = p.terminal /\ a.intact = (e.intact /\ p.intact)
            /\ a.s = IF kind = "woocommerce" THEN e.s ELSE Advanced(kind, e.s, p)
            /\ a.at = IF p.terminal THEN "collected"
                      ELSE IF Tail(e.todo) = <<>> THEN "fetch" ELSE "stage"
<1> DEFINE e == exec[t]
           p == Page(t)
           n == IF kind = "woocommerce" THEN e.s ELSE Advanced(kind, e.s, p)
<1>1. DOMAIN e = DOMAIN Idle /\ DOMAIN e.s = DOMAIN Idle.s
  BY AtWork
<1>2. DOMAIN n = DOMAIN Idle.s
  BY <1>1, AdvancedMoves
<1> HIDE DEF p
<1>3. After(t) = [e EXCEPT !.todo = Tail(@), !.outcome = "none",
               !.at = IF p.terminal THEN "collected" ELSE IF Tail(e.todo) = <<>> THEN "fetch" ELSE "stage",
               !.s = n, !.terminal = p.terminal, !.intact = @ /\ p.intact, !.limited = @ \/ p.limited]
  BY <1>1 DEF After, p
<1> HIDE DEF n, e
<1>4. LET a == After(t)
      IN /\ DOMAIN a = DOMAIN Idle /\ a.lin = e.lin /\ a.end = e.end
         /\ a.todo = Tail(e.todo) /\ a.terminal = p.terminal /\ a.intact = (e.intact /\ p.intact)
         /\ a.s = n
         /\ a.at = IF p.terminal THEN "collected"
                   ELSE IF Tail(e.todo) = <<>> THEN "fetch" ELSE "stage"
  BY <1>1, <1>3, Fields
<1>5. QED
  BY <1>2, <1>4 DEF n, p, e

\* The page at hand, or one that is equal to it, is committed: the execution
\* goes on behind it.
LEMMA GoesOnBehind ==
  ASSUME WalkInv, NEW t \in Executions, exec[t].at = "commit", NEW m, NEW q \in m.pages,
         q.part = Page(t).part, q.next = Page(t).next, q.terminal = Page(t).terminal,
         q.intact = Page(t).intact, LinOK(kind, m), LinGrows(LineageOf(t), m)
  PROVE  ExecOK(kind, After(t), m)
<1> DEFINE k == kind
           e == exec[t]
           p == Page(t)
           a == After(t)
           l == LineageOf(t)
<1>1. e.at \in Working
  BY DEF Working, Places
<1>2. TodoOK(k, e, l) /\ k \in Kinds
  BY <1>1, AtWork DEF ExecOK
<1>3. /\ a.todo = Tail(e.todo) /\ a.terminal = p.terminal /\ a.intact = (e.intact /\ p.intact)
      /\ a.s = IF k = "woocommerce" THEN e.s ELSE Advanced(k, e.s, p)
      /\ a.at = IF p.terminal THEN "collected"
                ELSE IF Tail(e.todo) = <<>> THEN "fetch" ELSE "stage"
  BY AfterFields
<1>4. p = Head(e.todo)
  BY DEF Page
<1>5. TodoOK(k, e, m)
  <2>1. ExecOK(k, e, m)
    BY <1>1, AtWork, StillOK
  <2>2. QED
    BY <2>1 DEF ExecOK
<1>6. PageOK(k, p) /\ PageCovers(k, m.kept, q, Collected(m)) /\ (~p.terminal => p.part = Body(k))
  BY <1>2, <1>4, PageAtHand DEF LinOK
<1> HIDE DEF a, p, l, e, k
<1>7. CASE p.terminal
  <2>1. a.at = "collected" /\ \E x \in m.pages : x.terminal
    BY <1>3, <1>7 DEF p
  <2>2. ASSUME k \in Anchored, a.terminal, a.intact
        PROVE  m.kept \subseteq Collected(m)
    <3>1. p.next = NoCursor /\ p.intact
      BY <2>2, <1>3, <1>6, <1>7 DEF PageOK
    <3>2. Covered(k, m.kept, NoCursor, Collected(m))
      BY <3>1, <2>2, <1>6 DEF PageCovers, p
    <3>3. QED
      BY <3>2 DEF Covered
  <2>3. QED
    BY <2>1, <2>2 DEF ExecOK, k, a
<1>8. CASE ~p.terminal /\ k = "woocommerce"
  <2>1. WooReady("woocommerce", e.todo, m)
    BY <1>5, <1>8 DEF TodoOK
  <2>2. p.part = "main"
    BY <1>6, <1>8 DEF PageOK, Parts
  <2>3. WooReady("woocommerce", Tail(e.todo), m) /\ Tail(e.todo) # <<>>
    BY <2>1, <2>2, <1>4, <1>8, WooRest DEF p
  <2>4. a.at = "stage" /\ TodoOK(k, a, m)
    BY <2>3, <1>3, <1>8 DEF TodoOK
  <2>5. QED
    BY <2>4 DEF ExecOK, k, a
<1>9. CASE ~p.terminal /\ k # "woocommerce"
  <2> DEFINE s == Advanced(k, e.s, p)
  <2>1. PageReady(k, p, e.s, m) /\ Tail(e.todo) = <<>>
    BY <1>4, <1>5, <1>9 DEF TodoOK
  <2>2. a.at = "fetch" /\ a.s = s /\ ~a.terminal
    BY <2>1, <1>3, <1>9
  <2>3. p.part = Body(k) /\ p.next = Here(k, s) /\ p.next # NoCursor /\ SessionOK(k, s, m.kept)
    BY <2>1, <1>9 DEF PageReady
  <2> HIDE DEF s
  <2>4. Follows(k, m.pages, Body(k), Here(k, s))
    BY <2>3 DEF Follows, p
  <2>5. k \in Anchored => Covered(k, m.kept, Here(k, s), Collected(m))
    BY <2>3, <1>6 DEF PageCovers, p
  <2>6. FetchOK(k, s, m)
    BY <2>3, <2>4, <2>5, <1>9 DEF FetchOK
  <2>7. QED
    BY <2>2, <2>6 DEF ExecOK, k, a
<1>10. QED
  BY <1>7, <1>8, <1>9

\* The row of a page has its fields, and a batch of the execution.
LEMMA RowFields ==
  ASSUME NEW t \in Executions
  PROVE  LET p == Page(t)
             r == Row(t)
         IN /\ r.part = p.part /\ r.id = p.id /\ r.seq = p.seq /\ r.items = p.items /\ r.from = p.from
            /\ r.next = p.next /\ r.terminal = p.terminal /\ r.intact = p.intact
            /\ r.outcome = exec[t].outcome
            /\ p.items \subseteq Products => r.batch \subseteq Products \X Executions
<1> DEFINE p == Page(t)
           r == Row(t)
           b == IF exec[t].outcome = "succeeded" THEN RecordsOf(t, p) ELSE {}
<1>1. p.items \subseteq Products => b \subseteq Products \X Executions
  BY DEF RecordsOf
<1> HIDE DEF b, p
<1>2. /\ r.part = p.part /\ r.id = p.id /\ r.seq = p.seq /\ r.items = p.items /\ r.from = p.from
      /\ r.next = p.next /\ r.terminal = p.terminal /\ r.intact = p.intact
      /\ r.outcome = exec[t].outcome /\ r.batch = b
  BY DEF Row, p, b
<1> HIDE DEF r
<1>3. QED
  BY <1>1, <1>2 DEF p, r

\* A page that is appended leaves the lineage without a gap.
LEMMA AppendedIsOK ==
  ASSUME NEW k, NEW l, LinOK(k, l), ~Sealed(l), NEW r, Appendable(l, r),
         PageOK(k, r), r.batch \subseteq Products \X Executions,
         Follows(k, l.pages, r.part, r.from),
         PageCovers(k, l.kept, r, Collected(l) \union r.items),
         NEW m, m.pages = l.pages \union {r}, m.kept = l.kept, m.status = l.status
  PROVE  LinOK(k, m) /\ LinGrows(l, m)
<1>1. Collected(m) = Collected(l) \union r.items
  BY DEF Collected
<1>2. IsFiniteSet(m.pages)
  BY FS_AddElement DEF LinOK
<1>3. \A p \in m.pages : PageOK(k, p) /\ p.batch \subseteq Products \X Executions
  BY DEF LinOK
<1>4. ASSUME NEW p \in m.pages
      PROVE  PageCovers(k, m.kept, p, Collected(m))
  <2>1. CASE p = r
    BY <2>1, <1>1
  <2>2. CASE p \in l.pages
    <3>1. PageCovers(k, l.kept, p, Collected(l)) /\ Collected(l) \subseteq Collected(m)
      BY <2>2, <1>1 DEF LinOK
    <3>2. QED
      BY <3>1, StillCovered DEF PageCovers
  <2>3. QED
    BY <2>1, <2>2
<1>5. ASSUME NEW p \in m.pages
      PROVE  \/ p.from[1] = Start(k)[1]
             \/ \E q \in m.pages : q.seq < p.seq /\ q.next = p.from
  <2>1. CASE p = r
    <3>1. CASE r.from[1] = Start(k)[1]
      BY <2>1, <3>1
    <3>2. CASE \E q \in l.pages : q.part = r.part /\ q.next = r.from
      <4>1. PICK q \in l.pages : q.part = r.part /\ q.next = r.from
        BY <3>2
      <4>2. q.seq < r.seq
        BY <4>1 DEF Appendable, SamePartition
      <4>3. QED
        BY <4>1, <4>2, <2>1
    <3>3. QED
      BY <3>1, <3>2 DEF Follows
  <2>2. CASE p \in l.pages
    BY <2>2 DEF LinOK, Gapless
  <2>3. QED
    BY <2>1, <2>2
<1>6. SealHolds(m)
  BY DEF SealHolds, Sealed
<1>7. LinGrows(l, m)
  BY DEF LinGrows, Appendable, SamePartition
<1>8. QED
  BY <1>2, <1>3, <1>4, <1>5, <1>6, <1>7 DEF LinOK, Gapless

\* commit_page: a page is appended, or replayed.
LEMMA CommitWalks ==
  ASSUME WalkInv, NEW t \in Executions, Commit(t)
  PROVE  WalkInv'
<1> DEFINE l == LineageOf(t)
           r == Row(t)
           i == exec[t].lin
           p == Page(t)
           old == {x \in SamePartition(l, r) : x.id = r.id}
<1>1. /\ UNCHANGED <<kind, limit, shop>> /\ exec[t].at = "commit"
      /\ \/ /\ l.status = "active" /\ Appendable(l, r) /\ Goes(t, After(t))
            /\ lineages' = [lineages EXCEPT ![i].pages = @ \union {r}]
         \/ /\ Goes(t, After(t)) /\ lineages' = lineages
            /\ \E x \in old : VerifyReplay(x, r)
         \/ Raises(t) /\ lineages' = lineages
  BY DEF Commit, At
<1>2. exec[t].at \in Working
  BY <1>1 DEF Working, Places
<1>3. /\ i \in DOMAIN lineages /\ l = lineages[i] /\ TodoOK(kind, exec[t], l) /\ LinOK(kind, l)
      /\ l.kept \subseteq shop /\ DOMAIN l = LineageFields /\ kind \in Kinds
  BY <1>1, <1>2, AtWork DEF ExecOK
<1>4. /\ PageOK(kind, p) /\ Follows(kind, l.pages, p.part, p.from)
      /\ PageCovers(kind, l.kept, p, Collected(l) \union p.items)
  BY <1>3, PageAtHand DEF Page
<1>5. /\ r.part = p.part /\ r.id = p.id /\ r.seq = p.seq /\ r.items = p.items /\ r.from = p.from
      /\ r.next = p.next /\ r.terminal = p.terminal /\ r.intact = p.intact
      /\ p.items \subseteq Products => r.batch \subseteq Products \X Executions
  BY RowFields
<1>6. DOMAIN After(t) = DOMAIN Idle /\ DOMAIN After(t).s = DOMAIN Idle.s /\ After(t).lin = i
  BY AfterFields
<1> HIDE DEF l, r, i, p
<1>7. CASE /\ l.status = "active" /\ Appendable(l, r) /\ Goes(t, After(t))
           /\ lineages' = [lineages EXCEPT ![i].pages = @ \union {r}]
  <2> DEFINE m == [l EXCEPT !.pages = @ \union {r}]
  <2>1. lineages' = [lineages EXCEPT ![i] = m]
    BY <1>3, <1>7
  <2>2. /\ DOMAIN m = LineageFields /\ m.pages = l.pages \union {r} /\ m.kept = l.kept
        /\ m.status = l.status
    BY <1>3 DEF LineageFields
  <2> HIDE DEF m
  <2>3. PageOK(kind, r) /\ r.batch \subseteq Products \X Executions
    BY <1>4, <1>5 DEF PageOK
  <2>4. PageCovers(kind, l.kept, r, Collected(l) \union r.items)
    BY <1>4, <1>5 DEF PageCovers
  <2>5. Follows(kind, l.pages, r.part, r.from) /\ ~Sealed(l)
    BY <1>4, <1>5, <1>7 DEF Sealed
  <2>6. LinOK(kind, m) /\ LinGrows(l, m)
    BY <1>3, <1>7, <2>2, <2>3, <2>4, <2>5, AppendedIsOK
  <2>7. /\ Grow /\ lineages'[i] = m /\ shop' \subseteq Products /\ i \in DOMAIN lineages'
        /\ \A j \in DOMAIN lineages' : /\ DOMAIN lineages'[j] = LineageFields
                                       /\ LinOK(kind, lineages'[j]) /\ lineages'[j].kept \subseteq shop'
    BY <1>1, <1>3, <2>1, <2>2, <2>6, OneGrows
  <2>8. r \in m.pages
    BY <2>2
  <2>9. ExecOK(kind, After(t), m)
    BY <1>1, <1>5, <2>6, <2>8, GoesOnBehind DEF p, l
  <2> DEFINE a == After(t)
  <2>10. /\ Goes(t, a) /\ DOMAIN a = DOMAIN Idle /\ DOMAIN a.s = DOMAIN Idle.s
         /\ a.lin \in DOMAIN lineages' /\ ExecOK(kind, a, lineages'[a.lin])
    BY <1>6, <1>7, <2>7, <2>9
  <2> HIDE DEF a
  <2>11. QED
    BY <1>1, <2>7, <2>10, OneMoves
<1>8. CASE /\ Goes(t, After(t)) /\ lineages' = lineages
           /\ \E x \in old : VerifyReplay(x, r)
  <2>1. PICK x \in old : VerifyReplay(x, r)
    BY <1>8
  <2>2. x \in l.pages /\ x.part = r.part
    BY DEF SamePartition
  <2>3. x.next = r.next /\ x.terminal = r.terminal /\ x.intact = r.intact
    BY <2>1 DEF VerifyReplay
  <2>4. LinGrows(l, l)
    BY DEF LinGrows
  <2>5. ExecOK(kind, After(t), l)
    BY <1>1, <1>3, <1>5, <2>2, <2>3, <2>4, GoesOnBehind DEF p, l
  <2> DEFINE a == After(t)
  <2>6. /\ Goes(t, a) /\ DOMAIN a = DOMAIN Idle /\ DOMAIN a.s = DOMAIN Idle.s
        /\ a.lin \in DOMAIN lineages /\ ExecOK(kind, a, lineages[a.lin])
    BY <1>3, <1>6, <1>8, <2>5
  <2> HIDE DEF a
  <2>7. QED
    BY <1>1, <1>8, <2>6, OnlyItMoves
<1>9. CASE Raises(t) /\ lineages' = lineages
  BY <1>1, <1>2, <1>9, RaisesWalks DEF Raises
<1>10. QED
  BY <1>1, <1>7, <1>8, <1>9

\* complete_lineage and complete_limited_lineage: the checksum was read before.
LEMMA SealWalks ==
  ASSUME WalkInv, NEW t \in Executions, Seal(t)
  PROVE  WalkInv'
<1> DEFINE l == LineageOf(t)
           i == exec[t].lin
           sum == exec[t].sum
           to == IF exec[t].limited THEN "limited" ELSE "completed"
           e == [exec[t] EXCEPT !.at = "publish"]
<1>1. /\ UNCHANGED <<kind, limit, shop>> /\ exec[t].at = "seal" /\ (Raises(t) \/ Goes(t, e))
      /\ \/ lineages' = lineages
         \/ /\ l.status = "active"
            /\ lineages' = [lineages EXCEPT ![i].status = to, ![i].sum = sum]
  BY DEF Seal, At, To
<1>2. exec[t].at \in Working
  BY <1>1 DEF Working, Places
<1>3. /\ i \in DOMAIN lineages /\ l = lineages[i] /\ LinOK(kind, l) /\ ExecOK(kind, exec[t], l)
      /\ l.kept \subseteq shop /\ DOMAIN l = LineageFields
  BY <1>1, <1>2, AtWork
<1>4. /\ DOMAIN e = DOMAIN Idle /\ e.s = exec[t].s /\ e.lin = i /\ e.at = "publish"
      /\ e.terminal = exec[t].terminal /\ e.intact = exec[t].intact
  BY AtWork, Fields
<1> HIDE DEF e
<1>5. ExecOK(kind, e, l)
  BY <1>1, <1>3, <1>4 DEF ExecOK
<1>6. CASE lineages' = lineages
  <2>1. CASE Raises(t)
    BY <1>1, <1>2, <1>6, <2>1, RaisesWalks DEF Raises
  <2>2. CASE Goes(t, e)
    BY <1>1, <1>2, <1>4, <1>5, <1>6, <2>2, GoesOn
  <2>3. QED
    BY <1>1, <2>1, <2>2
<1>7. CASE /\ l.status = "active"
           /\ lineages' = [lineages EXCEPT ![i].status = to, ![i].sum = sum]
  <2> DEFINE m == [l EXCEPT !.status = to, !.sum = sum]
  <2>1. lineages' = [lineages EXCEPT ![i] = m]
    BY <1>3, <1>7
  <2>2. /\ DOMAIN m = LineageFields /\ m.pages = l.pages /\ m.kept = l.kept /\ m.sum = sum
        /\ m.status = to /\ to # "active"
    BY <1>3 DEF LineageFields
  <2> HIDE DEF m, to
  <2>3. SealHolds(m)
    <3>1. PICK x \in sum : \A q \in l.pages : q.part = x.part => q \in sum
      BY <1>1, <1>3, <1>7 DEF ExecOK, ReadAll
    <3>2. sum \subseteq l.pages
      BY <1>1, <1>3, <1>7 DEF ExecOK, ReadAll
    <3>3. (\A p, q \in l.pages : p.part = q.part) => l.pages = sum
      BY <3>1, <3>2
    <3>4. QED
      BY <3>3, <2>2 DEF SealHolds, Checksum
  <2>4. LinOK(kind, m)
    BY <1>3, <2>2, <2>3, SamePages
  <2>5. LinGrows(l, m)
    BY <1>7, <2>2 DEF LinGrows, Sealed
  <2> HIDE DEF l, i, sum
  <2>6. /\ Grow /\ lineages'[i] = m /\ shop' \subseteq Products /\ i \in DOMAIN lineages'
        /\ \A j \in DOMAIN lineages' : /\ DOMAIN lineages'[j] = LineageFields
                                       /\ LinOK(kind, lineages'[j]) /\ lineages'[j].kept \subseteq shop'
    BY <1>1, <1>3, <2>1, <2>2, <2>4, <2>5, OneGrows
  <2>7. CASE Goes(t, e)
    <3>1. ExecOK(kind, e, m)
      BY <1>5, <2>5, StillOK
    <3>2. e.lin \in DOMAIN lineages' /\ ExecOK(kind, e, lineages'[e.lin]) /\ DOMAIN e.s = DOMAIN Idle.s
      BY <3>1, <2>6, <1>4, AtWork
    <3>3. QED
      BY <1>1, <1>4, <2>6, <2>7, <3>2, OneMoves
  <2>8. CASE Raises(t)
    <3> DEFINE f == Ending(exec[t], "failed")
    <3>1. DOMAIN f = DOMAIN Idle /\ f.s = exec[t].s /\ f.lin = i /\ f.at = "finish"
      BY AtWork, Fields DEF Ending, i
    <3> HIDE DEF f
    <3>2. Goes(t, f) /\ DOMAIN f.s = DOMAIN Idle.s
      BY <2>8, <3>1, AtWork DEF Raises, f
    <3>3. f.lin \in DOMAIN lineages' /\ ExecOK(kind, f, lineages'[f.lin])
      BY <2>6, <3>1, NothingAsked
    <3>4. QED
      BY <1>1, <2>6, <3>1, <3>2, <3>3, OneMoves
  <2>9. QED
    BY <1>1, <2>7, <2>8
<1>8. QED
  BY <1>1, <1>6, <1>7

\* find_recoverable_library_lineage finds one that was not rejected, or none.
LEMMA RecoverableIsThere ==
  ASSUME WalkInv, NEW c
  PROVE  \/ Recoverable(c) = 0
         \/ Recoverable(c) \in DOMAIN lineages /\ lineages[Recoverable(c)].status # "rejected"
<1> DEFINE fit == {i \in DOMAIN lineages : lineages[i].conf = c /\ lineages[i].status # "rejected"}
           active == {i \in fit : lineages[i].status = "active"}
<1>1. DOMAIN lineages = 1..Len(lineages) /\ Len(lineages) \in Nat
  BY DEF WalkInv, Shapes
<1>2. IsFiniteSet(1..Len(lineages)) /\ 1..Len(lineages) \subseteq Int
  BY <1>1, FS_Interval
<1>3. ASSUME NEW S, S \subseteq fit, S # {}
      PROVE  Max(S) \in S
  <2>1. S \subseteq 1..Len(lineages)
    BY <1>1, <1>3
  <2>2. IsFiniteSet(S) /\ S \in SUBSET Int
    BY <2>1, <1>2, FS_Subset
  <2>3. \E n \in S : \A m \in S : m <= n
    BY <2>2, <1>3, GreatestMember
  <2>4. \E n \in S : \A m \in S : n >= m
    BY <2>2, <2>3
  <2>5. QED
    BY <2>4 DEF Max
<1>4. Recoverable(c) = IF active # {} THEN Max(active) ELSE IF fit # {} THEN Max(fit) ELSE 0
  BY DEF Recoverable
<1>5. active \subseteq fit
  OBVIOUS
<1> HIDE DEF active
<1>6. Recoverable(c) = 0 \/ Recoverable(c) \in fit
  BY <1>3, <1>4, <1>5
<1>7. QED
  BY <1>6

\* lineage_progress of a lineage that is taken up again.
LEMMA ProgressIs ==
  ASSUME NEW k \in Kinds, NEW l, LinOK(k, l)
  PROVE  LET s == Progress(l) IN
         /\ s = "resumable" => Latest(l) \in l.pages /\ Latest(l).next # NoCursor
         /\ s = "terminal_limited" => l.status = "limited"
         /\ s = "terminal_intact" => /\ Latest(l) \in l.pages /\ Latest(l).terminal
                                     /\ Latest(l).next = NoCursor /\ Latest(l).intact
BY LatestIsCommitted DEF Progress

\* A new lineage has no page.
LEMMA NewLineageIsOK ==
  ASSUME NEW k, NEW c
  PROVE  /\ LinOK(k, NewLineage(c)) /\ NewLineage(c).kept = shop
         /\ DOMAIN NewLineage(c) = LineageFields
<1> DEFINE m == NewLineage(c)
<1>1. m.pages = {} /\ m.status = "active" /\ m.kept = shop /\ DOMAIN m = LineageFields
  BY DEF NewLineage, LineageFields
<1> HIDE DEF m
<1>2. LinOK(k, m)
  BY <1>1, FS_EmptySet DEF LinOK, Gapless, SealHolds, Sealed
<1>3. QED
  BY <1>1, <1>2 DEF m

\* Rejected lineages keep what they have.
LEMMA RejectGrows ==
  ASSUME WalkInv, NEW gone, \A i \in gone : i \in DOMAIN lineages /\ lineages[i].status = "active",
         NEW others, others = Reject(lineages, gone)
  PROVE  /\ others \in Seq(ToSet(others)) /\ DOMAIN others = DOMAIN lineages
         /\ DOMAIN others = 1..Len(lineages) /\ Len(others) = Len(lineages) /\ Len(lineages) \in Nat
         /\ \A i \in DOMAIN lineages : /\ LinGrows(lineages[i], others[i]) /\ LinOK(kind, others[i])
                                       /\ DOMAIN others[i] = LineageFields /\ others[i].kept \subseteq shop
                                       /\ i \notin gone => others[i] = lineages[i]
<1>1. /\ lineages \in Seq(ToSet(lineages))
      /\ \A i \in DOMAIN lineages : /\ DOMAIN lineages[i] = LineageFields
                                    /\ LinOK(kind, lineages[i]) /\ lineages[i].kept \subseteq shop
  BY DEF WalkInv, Shapes, Walks, LineageFields
<1>2. /\ DOMAIN others = DOMAIN lineages /\ others = [i \in DOMAIN lineages |-> others[i]]
      /\ \A i \in DOMAIN lineages :
           others[i] = IF i \in gone THEN [lineages[i] EXCEPT !.status = "rejected"] ELSE lineages[i]
  BY DEF Reject
<1>3. /\ others \in Seq(ToSet(others)) /\ Len(others) = Len(lineages) /\ DOMAIN others = 1..Len(lineages)
      /\ Len(lineages) \in Nat
  BY <1>1, <1>2, MappedIsASequence
<1>4. ASSUME NEW i \in DOMAIN lineages
      PROVE  /\ LinGrows(lineages[i], others[i]) /\ LinOK(kind, others[i])
             /\ DOMAIN others[i] = LineageFields /\ others[i].kept \subseteq shop
             /\ i \notin gone => others[i] = lineages[i]
  <2> DEFINE l == lineages[i]
             m == others[i]
  <2>1. DOMAIN l = LineageFields /\ LinOK(kind, l) /\ l.kept \subseteq shop
    BY <1>1
  <2>2. CASE i \in gone
    <3>1. m = [l EXCEPT !.status = "rejected"] /\ l.status = "active"
      BY <1>2, <2>2
    <3> HIDE DEF l, m
    <3>2. DOMAIN m = LineageFields /\ m.pages = l.pages /\ m.kept = l.kept /\ m.status = "rejected"
      BY <3>1, <2>1 DEF LineageFields
    <3>3. SealHolds(m) /\ LinGrows(l, m)
      BY <3>1, <3>2 DEF SealHolds, Sealed, LinGrows
    <3>4. LinOK(kind, m)
      BY <3>2, <3>3, <2>1, SamePages
    <3>5. QED
      BY <3>2, <3>3, <3>4, <2>1, <2>2 DEF l, m
  <2>3. CASE i \notin gone
    <3>1. m = l
      BY <1>2, <2>3
    <3>2. LinGrows(l, l)
      BY DEF LinGrows
    <3>3. QED
      BY <3>1, <3>2, <2>1, <2>3
  <2>4. QED
    BY <2>2, <2>3
<1>5. QED
  BY <1>2, <1>3, <1>4

\* resolve_library_lineage: a lineage is taken up where it stands, or a new one
\* begins; the other active ones are rejected.
LEMMA ResolveWalks ==
  ASSUME WalkInv, NEW t \in Executions, Resolve(t)
  PROVE  WalkInv'
<1> DEFINE c == exec[t].conf
           cand == Recoverable(c)
           restart == cand # 0 /\ Progress(lineages[cand]) = "terminal_incomplete"
           keep == cand # 0 /\ ~restart
           old == {i \in DOMAIN lineages : Superseded(i, IF restart THEN 0 ELSE cand)}
           others == Reject(lineages, old)
           lin == IF keep THEN cand ELSE Len(lineages) + 1
           state == IF keep THEN Progress(lineages[cand]) ELSE "empty"
           done == state \in {"terminal_intact", "terminal_limited"}
           ready == Prepared(dataset, keep)
           e == [exec[t] EXCEPT
                   !.at = IF done THEN "collected" ELSE "discover",
                   !.lin = lin, !.failed = (ready.state = "failed"),
                   !.cursor = IF state = "resumable" THEN Latest(lineages[cand]).next ELSE Start(kind),
                   !.terminal = done, !.intact = state # "terminal_limited",
                   !.limited = (state = "terminal_limited")]
<1>1. /\ UNCHANGED <<kind, limit, shop>> /\ Goes(t, e)
      /\ lineages' = IF keep THEN others ELSE Append(others, NewLineage(c))
  BY DEF Resolve
<1>2. \A i \in old : i \in DOMAIN lineages /\ lineages[i].status = "active"
  BY DEF Superseded
<1>3. keep => cand \in DOMAIN lineages /\ cand \notin old
  BY RecoverableIsThere DEF Superseded
<1>4. lin = IF keep THEN cand ELSE Len(lineages) + 1
  OBVIOUS
<1>5. state = IF keep THEN Progress(lineages[cand]) ELSE "empty"
  OBVIOUS
<1> HIDE DEF old, restart, keep, cand, state, lin, ready
<1>6. /\ DOMAIN e = DOMAIN Idle /\ e.s = exec[t].s /\ e.lin = lin
      /\ e.at = IF done THEN "collected" ELSE "discover"
      /\ e.cursor = IF state = "resumable" THEN Latest(lineages[cand]).next ELSE Start(kind)
      /\ e.terminal = done /\ e.intact = (state # "terminal_limited")
  BY AtWork, Fields
<1>7. DOMAIN e.s = DOMAIN Idle.s /\ kind \in Kinds /\ shop \subseteq Products
  BY <1>6, AtWork
<1> HIDE DEF e
<1>8. others = Reject(lineages, old)
  OBVIOUS
<1> HIDE DEF others
<1>9. /\ others \in Seq(ToSet(others)) /\ DOMAIN others = DOMAIN lineages
      /\ DOMAIN others = 1..Len(lineages) /\ Len(others) = Len(lineages) /\ Len(lineages) \in Nat
      /\ \A i \in DOMAIN lineages : /\ LinGrows(lineages[i], others[i]) /\ LinOK(kind, others[i])
                                    /\ DOMAIN others[i] = LineageFields /\ others[i].kept \subseteq shop
                                    /\ i \notin old => others[i] = lineages[i]
  BY <1>2, <1>8, RejectGrows
<1>10. CASE keep
  <2> DEFINE l == lineages[cand]
  <2>1. lineages' = others /\ lin = cand /\ state = Progress(l)
    BY <1>1, <1>4, <1>5, <1>10
  <2>2. cand \in DOMAIN lineages /\ others[cand] = l /\ LinOK(kind, l)
    BY <1>3, <1>9, <1>10 DEF WalkInv, Walks
  <2>3. Grow
    BY <2>1, <1>9 DEF Grow
  <2>4. ExecOK(kind, e, l)
    <3> HIDE DEF l
    <3>1. /\ state = "resumable" => Latest(l) \in l.pages /\ Latest(l).next # NoCursor
          /\ state = "terminal_limited" => l.status = "limited"
          /\ state = "terminal_intact" => /\ Latest(l) \in l.pages /\ Latest(l).terminal
                                          /\ Latest(l).next = NoCursor /\ Latest(l).intact
      BY <2>1, <2>2, <1>7, ProgressIs
    <3>2. CASE state = "terminal_intact"
      <4>1. Latest(l) \in l.pages /\ Latest(l).terminal /\ Latest(l).next = NoCursor /\ Latest(l).intact
        BY <3>1, <3>2
      <4>2. e.at = "collected"
        BY <3>2, <1>6
      <4>3. kind \in Anchored => l.kept \subseteq Collected(l)
        <5>1. PageCovers(kind, l.kept, Latest(l), Collected(l))
          BY <4>1, <2>2 DEF LinOK
        <5>2. QED
          BY <5>1, <4>1 DEF PageCovers, Covered
      <4>4. QED
        BY <4>1, <4>2, <4>3 DEF ExecOK
    <3>3. CASE state = "terminal_limited"
      <4>1. e.at = "collected" /\ ~e.intact /\ l.status # "active"
        BY <3>1, <3>3, <1>6
      <4>2. QED
        BY <4>1 DEF ExecOK
    <3>4. CASE state \notin {"terminal_intact", "terminal_limited"}
      <4>1. e.at = "discover" /\ ~e.terminal
        BY <3>4, <1>6
      <4>2. CursorOK(kind, e.cursor, l.pages)
        BY <3>1, <1>6 DEF CursorOK, l
      <4>3. QED
        BY <4>1, <4>2 DEF ExecOK
    <3>5. QED
      BY <3>2, <3>3, <3>4
  <2>5. \A i \in DOMAIN lineages' : /\ DOMAIN lineages'[i] = LineageFields
                                    /\ LinOK(kind, lineages'[i]) /\ lineages'[i].kept \subseteq shop'
    BY <2>1, <1>1, <1>9
  <2>6. e.lin \in DOMAIN lineages' /\ ExecOK(kind, e, lineages'[e.lin]) /\ shop' \subseteq Products
    BY <2>1, <2>2, <2>4, <1>1, <1>6, <1>7, <1>9
  <2>7. QED
    BY <1>1, <1>6, <1>7, <2>3, <2>5, <2>6, OneMoves
<1>11. CASE ~keep
  <2> DEFINE m == NewLineage(c)
             n == Len(lineages) + 1
  <2>1. lineages' = Append(others, m) /\ lin = n /\ state = "empty"
    BY <1>1, <1>4, <1>5, <1>11
  <2>2. LinOK(kind, m) /\ m.kept = shop /\ DOMAIN m = LineageFields
    BY NewLineageIsOK
  <2> HIDE DEF m
  <2>3. /\ DOMAIN lineages' = 1..n /\ lineages'[n] = m /\ Len(lineages') = n
        /\ \A i \in 1..Len(lineages) : lineages'[i] = others[i]
    BY <2>1, <1>9
  <2>4. lineages' \in Seq(ToSet(lineages'))
    <3>1. lineages' \in Seq(ToSet(others) \union {m})
      BY <2>1, <1>9
    <3>2. \A i \in 1..Len(lineages') : lineages'[i] \in ToSet(lineages')
      BY <2>3 DEF ToSet
    <3>3. QED
      BY <3>1, <3>2
  <2>5. \A i \in DOMAIN lineages' : i = n \/ i \in DOMAIN lineages
    BY <2>3, <1>9
  <2>6. Grow
    BY <2>3, <2>4, <1>9 DEF Grow
  <2>7. \A i \in DOMAIN lineages' : /\ DOMAIN lineages'[i] = LineageFields
                                    /\ LinOK(kind, lineages'[i]) /\ lineages'[i].kept \subseteq shop'
    BY <2>2, <2>3, <2>5, <1>1, <1>9
  <2>8. e.at = "discover" /\ ~e.terminal /\ e.cursor = Start(kind) /\ e.lin = n
    BY <2>1, <1>6
  <2>9. e.lin \in DOMAIN lineages' /\ shop' \subseteq Products
    BY <2>3, <2>8, <1>1, <1>7, <1>9
  <2>10. ExecOK(kind, e, lineages'[e.lin])
    BY <2>8 DEF ExecOK, CursorOK
  <2>11. QED
    BY <1>1, <1>6, <1>7, <2>6, <2>7, <2>9, <2>10, OneMoves
<1>12. QED
  BY <1>10, <1>11

-----------------------------------------------------------------------------
\* The lineages of a job.

\* Before anything is claimed there is no lineage.
LEMMA WalkInit == Init => WalkInv
<1> SUFFICES ASSUME Init PROVE WalkInv
  OBVIOUS
<1>1. /\ kind \in Kinds /\ limit \in Nat /\ shop \subseteq Products /\ lineages = <<>>
      /\ exec = [t \in Executions |-> Idle]
  BY KindsAreKnown DEF Init
<1>2. DOMAIN lineages = {} /\ lineages \in Seq(ToSet(lineages))
  BY <1>1
<1>3. \A t \in Executions : exec[t] = Idle
  BY <1>1
<1>4. Idle.at = "none" /\ "none" \notin Working
  BY DEF Idle, Working
<1> HIDE DEF Idle
<1>5. QED
  BY <1>1, <1>2, <1>3, <1>4 DEF WalkInv, Shapes, Walks

\* Every step of the job, the shop and the operator keeps the walk.
LEMMA WalkStep == WalkInv /\ [Next]_vars => WalkInv'
<1> SUFFICES ASSUME WalkInv, [Next]_vars PROVE WalkInv'
  OBVIOUS
<1>1. ASSUME NEW t \in Executions,
             \/ Claim(t) \/ Resolve(t) \/ Discover(t) \/ Fetch(t) \/ FetchWoo(t) \/ Return(t)
             \/ Stage(t) \/ Commit(t) \/ Settle(t) \/ Seal(t) \/ Publish(t)
             \/ Load(t) \/ RecordLoad(t) \/ Finish(t)
             \/ Die(t) \/ TimeOut(t) \/ Cancel(t)
      PROVE  WalkInv'
  BY <1>1, ClaimWalks, ResolveWalks, DiscoverWalks, FetchWalks, FetchWooWalks, ReturnWalks,
     StageWalks, CommitWalks, SettleWalks, SealWalks, PublishWalks, LoadWalks, DisturbanceWalks
<1>2. CASE Requeue \/ Reconfigure \/ \E p \in Products : Sell(p)
  BY <1>2, OutsideWalks
<1>3. ASSUME NEW p \in Products, Withdraw(p)
      PROVE  WalkInv'
  BY <1>3, WithdrawWalks
<1>4. CASE UNCHANGED vars
  BY <1>4 DEF vars, WalkInv, Shapes, Walks, LineageOf
<1>5. QED
  BY <1>1, <1>2, <1>3, <1>4 DEF Next

\* The inductive invariant of the lineages holds.
THEOREM WalkIsKept == Spec => []WalkInv
BY WalkInit, WalkStep, PTL DEF Spec

\* A manifest has no gap: every committed page began where a page committed
\* before it left off, or at the beginning, for every connector, any number of
\* executions that commit to the lineage at once, and any disturbances
\* (outputs.py, commit_page).
THEOREM ManifestIsGapless == Spec => []GaplessManifest
<1>1. WalkInv => GaplessManifest
  BY DEF WalkInv, Walks, LinOK, Gapless, GaplessManifest
<1>2. QED
  BY <1>1, WalkIsKept, PTL

\* The checksum a lineage of one partition was sealed with is the one of its
\* manifest, though it is read before the lineage is sealed (worker.py,
\* lineage_checksum and complete_lineage).
THEOREM SealedChecksum == Spec => []SealedChecksumHolds
<1>1. WalkInv => SealedChecksumHolds
  BY DEF WalkInv, Walks, LinOK, SealHolds, SealedChecksumHolds
<1>2. QED
  BY <1>1, WalkIsKept, PTL

-----------------------------------------------------------------------------
\* Which steps change what.

\* Only the owner's load changes the catalogue; a claim, an end and the queue
\* change the job; lineages change by being resolved, committed to, sealed, and
\* with the shop.
LEMMA Touches ==
  ASSUME [Next]_vars
  PROVE  /\ cat' = cat \/ \E t \in Executions : Load(t)
         /\ job' = job \/ Requeue \/ \E t \in Executions : Claim(t) \/ Finish(t)
         /\ \/ dataset' = dataset
            \/ \E t \in Executions : \/ Resolve(t) \/ Commit(t) \/ Publish(t)
                                     \/ Settle(t) \/ Seal(t) \/ Load(t) \/ RecordLoad(t)
         /\ \/ lineages' = lineages
            \/ \E t \in Executions : Resolve(t) \/ Commit(t) \/ Seal(t)
            \/ \E p \in Products : Withdraw(p)
<1>1. ASSUME NEW t \in Executions, Discover(t) \/ Fetch(t) \/ FetchWoo(t) \/ Return(t)
      PROVE  UNCHANGED <<cat, job, dataset, lineages>>
  BY <1>1 DEF Discover, Fetch, FetchWoo, Return
<1>2. ASSUME NEW t \in Executions, Stage(t) \/ Die(t) \/ TimeOut(t) \/ Cancel(t)
      PROVE  UNCHANGED <<cat, job, dataset, lineages>>
  BY <1>2 DEF Stage, Die, TimeOut, Cancel
<1>3. ASSUME NEW t \in Executions, Resolve(t) \/ Commit(t) \/ Seal(t)
      PROVE  UNCHANGED <<cat, job>>
  BY <1>3 DEF Resolve, Commit, Seal
<1>4. ASSUME NEW t \in Executions, Publish(t) \/ Settle(t) \/ RecordLoad(t)
      PROVE  UNCHANGED <<cat, job, lineages>>
  BY <1>4 DEF Publish, Settle, RecordLoad
<1>5. ASSUME NEW t \in Executions, Load(t)
      PROVE  UNCHANGED <<job, lineages>>
  BY <1>5 DEF Load
<1>6. ASSUME NEW t \in Executions, Claim(t) \/ Finish(t)
      PROVE  UNCHANGED <<cat, dataset, lineages>>
  BY <1>6 DEF Claim, Finish
<1>7. Requeue => UNCHANGED <<cat, dataset, lineages>>
  BY DEF Requeue
<1>8. ASSUME Reconfigure \/ (\E p \in Products : Sell(p)) \/ UNCHANGED vars
      PROVE  UNCHANGED <<cat, job, dataset, lineages>>
  BY <1>8 DEF Reconfigure, Sell, vars
<1>9. ASSUME NEW p \in Products, Withdraw(p)
      PROVE  UNCHANGED <<cat, job, dataset>>
  BY <1>9 DEF Withdraw
<1>10. QED
  BY <1>1, <1>2, <1>3, <1>4, <1>5, <1>6, <1>7, <1>8, <1>9 DEF Next

\* No product is retired that was in the shop since its lineage began, unless a
\* page of the lineage holds it: what a whole collection loads by a connector
\* whose cursor names a product was walked without leaving a kept product out,
\* however often it was interrupted (worker.py, _connector_load_is_whole and
\* load_source).
THEOREM RetiredWereLookedFor == Spec => KeptProductsAreCollected
<1>1. ASSUME WalkInv, [Next]_vars, NEW t \in Executions, Loads(t), kind \in Anchored,
             NEW p \in cat \ cat', p \in LineageOf(t).kept
      PROVE  p \in Collected(LineageOf(t))
  <2>1. \E u \in Executions : Load(u)
    BY <1>1, Touches
  <2>2. PICK u \in Executions : Load(u)
    BY <2>1
  <2>3. exec[t].at = "load" /\ exec'[t].at = "loaded"
    BY <1>1 DEF Loads, At
  <2>4. Whole(exec[u])
    BY <2>2, <1>1 DEF Load
  <2>5. u = t
    <3>1. \E e : exec' = [exec EXCEPT ![u] = e]
      BY <2>2 DEF Load, To, Raises, Goes
    <3>2. QED
      BY <3>1, <2>3
  <2>6. ExecOK(kind, exec[t], LineageOf(t))
    BY <2>3, <1>1, AtWork DEF Working, Places
  <2>7. LineageOf(t).kept \subseteq Collected(LineageOf(t))
    BY <2>3, <2>4, <2>5, <2>6, <1>1 DEF ExecOK, Whole
  <2>8. QED
    BY <2>7, <1>1
<1>2. WalkInv /\ [Next]_vars =>
        [\A t \in Executions : Loads(t) /\ kind \in Anchored =>
           \A p \in cat \ cat' : p \in LineageOf(t).kept => p \in Collected(LineageOf(t))]_vars
  BY <1>1
<1>3. QED
  BY <1>2, WalkIsKept, PTL DEF Spec, KeptProductsAreCollected

-----------------------------------------------------------------------------
\* The publication.

\* A sealed lineage stays what it is.
LEMMA SealedStays ==
  ASSUME WalkInv, [Next]_vars, NEW i \in DOMAIN lineages, Sealed(lineages[i])
  PROVE  Sealed(lineages'[i]) /\ Batches(lineages'[i]) = Batches(lineages[i])
<1>1. /\ lineages \in Seq(ToSet(lineages)) /\ DOMAIN lineages[i] = LineageFields
      /\ lineages[i].status # "active"
  BY DEF WalkInv, Shapes, LineageFields, Sealed
<1>2. ASSUME lineages'[i].status = lineages[i].status, lineages'[i].pages = lineages[i].pages
      PROVE  Sealed(lineages'[i]) /\ Batches(lineages'[i]) = Batches(lineages[i])
  BY <1>2 DEF Sealed, Batches
<1>3. CASE lineages' = lineages
  BY <1>2, <1>3
<1>4. ASSUME NEW t \in Executions, Resolve(t)
      PROVE  lineages'[i] = lineages[i]
  <2>1. PICK old, c : /\ \A j \in old : lineages[j].status = "active" /\ j \in DOMAIN lineages
                      /\ \/ lineages' = Reject(lineages, old)
                         \/ lineages' = Append(Reject(lineages, old), NewLineage(c))
    BY <1>4 DEF Resolve, Superseded
  <2> DEFINE others == Reject(lineages, old)
  <2>2. others = Reject(lineages, old)
    OBVIOUS
  <2> HIDE DEF others
  <2>3. /\ others \in Seq(ToSet(others)) /\ DOMAIN others = 1..Len(lineages)
        /\ Len(others) = Len(lineages) /\ DOMAIN others = DOMAIN lineages
        /\ i \notin old => others[i] = lineages[i]
    BY <2>1, <2>2, RejectGrows
  <2>4. i \notin old
    BY <2>1, <1>1
  <2>5. QED
    BY <2>1, <2>2, <2>3, <2>4
<1>5. ASSUME NEW t \in Executions, Commit(t) \/ Seal(t)
      PROVE  lineages'[i] = lineages[i]
  <2> DEFINE j == exec[t].lin
  <2>1. \/ lineages' = lineages
        \/ lineages[j].status = "active" /\ \E m : lineages' = [lineages EXCEPT ![j] = m]
    BY <1>5 DEF Commit, Seal, LineageOf
  <2>2. QED
    BY <2>1, <1>1
<1>6. ASSUME NEW p \in Products, Withdraw(p)
      PROVE  lineages'[i].status = lineages[i].status /\ lineages'[i].pages = lineages[i].pages
  <2>1. lineages'[i] = [lineages[i] EXCEPT !.kept = @ \ {p}]
    BY <1>6 DEF Withdraw
  <2>2. QED
    BY <2>1, <1>1 DEF LineageFields
<1>7. \/ lineages' = lineages
      \/ \E t \in Executions : Resolve(t) \/ Commit(t) \/ Seal(t)
      \/ \E p \in Products : Withdraw(p)
  BY Touches
<1>8. QED
  BY <1>2, <1>3, <1>4, <1>5, <1>6, <1>7

\* The records of a lineage are of products and executions, so that they are
\* never taken for no publication at all.
LEMMA RecordsArePublished ==
  ASSUME NEW k, NEW l, LinOK(k, l)
  PROVE  Batches(l) \subseteq Products \X Executions /\ Batches(l) # NoArtifact
<1>1. Batches(l) \subseteq Products \X Executions
  BY DEF LinOK, Batches
<1>2. <<0, 0>> \notin Products \X Executions
  BY ProductNumbers
<1>3. QED
  BY <1>1, <1>2 DEF NoArtifact

\* A step that neither publishes nor loads.
LEMMA QuietPublication ==
  ASSUME WalkInv, PublicationInv, [Next]_vars, UNCHANGED <<artifact, cat>>,
         \A u \in Executions : HasPublished(exec'[u]) =>
           /\ HasPublished(exec[u]) /\ exec'[u].lin = exec[u].lin
           /\ Loaded(exec'[u]) => Loaded(exec[u]),
         \A u \in Executions : job'.state = "running" /\ job'.owner = u /\ Loaded(exec'[u]) => Owns(u),
         job'.state = "succeeded" =>
           job.state = "succeeded" \/ \E u \in Executions : Loaded(exec[u]) /\ Owns(u)
  PROVE  PublicationInv'
<1>1. ASSUME NEW u \in Executions, HasPublished(exec'[u])
      PROVE  /\ Sealed(lineages'[exec'[u].lin]) /\ artifact' # NoArtifact
             /\ artifact' = Batches(lineages'[exec'[u].lin])
  <2>1. HasPublished(exec[u]) /\ exec'[u].lin = exec[u].lin
    BY <1>1
  <2>2. Sealed(lineages[exec[u].lin]) /\ artifact # NoArtifact /\ artifact = Batches(lineages[exec[u].lin])
    BY <2>1 DEF PublicationInv, LineageOf
  <2>3. exec[u].lin \in DOMAIN lineages
    BY <2>1, AtWork DEF HasPublished, Loaded, Working, Places
  <2>4. QED
    BY <2>1, <2>2, <2>3, SealedStays
<1>2. ASSUME NEW u \in Executions, Loaded(exec'[u]), job'.state = "running", job'.owner = u
      PROVE  Names(artifact') \subseteq cat'
  <2>1. Loaded(exec[u]) /\ Owns(u)
    BY <1>2 DEF HasPublished
  <2>2. QED
    BY <2>1 DEF PublicationInv
<1>3. ASSUME job'.state = "succeeded"
      PROVE  artifact' # NoArtifact /\ Names(artifact') \subseteq cat'
  <2>1. CASE job.state = "succeeded"
    BY <2>1 DEF PublicationInv, SucceededIsPublished, Names
  <2>2. ASSUME NEW u \in Executions, Loaded(exec[u]), Owns(u)
        PROVE  artifact' # NoArtifact /\ Names(artifact') \subseteq cat'
    BY <2>2 DEF PublicationInv, HasPublished
  <2>3. QED
    BY <1>3, <2>1, <2>2
<1>4. QED
  BY <1>1, <1>2, <1>3 DEF PublicationInv, SucceededIsPublished, Names, LineageOf, Owns

\* Where the executions are after one of them moved.
LEMMA Moved ==
  ASSUME WalkInv, NEW t \in Executions, NEW e, Goes(t, e)
  PROVE  exec'[t] = e /\ \A u \in Executions \ {t} : exec'[u] = exec[u]
BY DEF Goes, WalkInv, Shapes

\* An execution moves without publishing or loading anything.
LEMMA QuietMove ==
  ASSUME WalkInv, PublicationInv, [Next]_vars, UNCHANGED <<artifact, cat, job>>,
         NEW t \in Executions, \A u \in Executions \ {t} : exec'[u] = exec[u],
         HasPublished(exec'[t]) => /\ HasPublished(exec[t]) /\ exec'[t].lin = exec[t].lin
                                   /\ Loaded(exec'[t]) => Loaded(exec[t])
  PROVE  PublicationInv'
<1>1. \A u \in Executions : HasPublished(exec'[u]) =>
        /\ HasPublished(exec[u]) /\ exec'[u].lin = exec[u].lin
        /\ Loaded(exec'[u]) => Loaded(exec[u])
  OBVIOUS
<1>2. \A u \in Executions : job'.state = "running" /\ job'.owner = u /\ Loaded(exec'[u]) => Owns(u)
  BY DEF Owns
<1>3. job'.state = "succeeded" => job.state = "succeeded"
  OBVIOUS
<1>4. QED
  BY <1>1, <1>2, <1>3, QuietPublication

\* An execution that raises or is interrupted has not succeeded.
LEMMA EndingIsQuiet ==
  ASSUME WalkInv, NEW t \in Executions, NEW end \in {"failed", "cancelled"}
  PROVE  ~HasPublished(Ending(exec[t], end))
<1> DEFINE e == Ending(exec[t], end)
<1>1. e.at = "finish" /\ e.end = end
  BY AtWork, Fields DEF Ending
<1> HIDE DEF e
<1>2. ~HasPublished(e)
  BY <1>1 DEF HasPublished, Loaded
<1>3. QED
  BY <1>2 DEF e

\* The other executions stay where they are when one takes a step.
LEMMA OthersStay ==
  ASSUME WalkInv, NEW t \in Executions,
         \/ Claim(t) \/ Resolve(t) \/ Discover(t) \/ Fetch(t) \/ FetchWoo(t) \/ Return(t)
         \/ Stage(t) \/ Commit(t) \/ Settle(t) \/ Seal(t) \/ Publish(t)
         \/ Load(t) \/ RecordLoad(t) \/ Finish(t)
         \/ Die(t) \/ TimeOut(t) \/ Cancel(t)
  PROVE  \A u \in Executions \ {t} : exec'[u] = exec[u]
<1>1. \E e : Goes(t, e)
  BY DEF Claim, Resolve, Discover, Fetch, FetchWoo, Return, Stage, Commit, Settle, Seal, Publish,
         Load, RecordLoad, Finish, Die, TimeOut, Cancel, Yields, Raises, To
<1>2. QED
  BY <1>1, Moved

\* The places up to the seal.
Early == {"discover", "collected", "fetch", "stage", "commit", "seal", "publish", "gone"}

\* Up to the seal an execution publishes nothing, and ends only by raising or
\* by being interrupted.
LEMMA CollectingGoesOn ==
  ASSUME WalkInv, NEW t \in Executions,
         \/ Resolve(t) \/ Discover(t) \/ Fetch(t) \/ FetchWoo(t) \/ Return(t)
         \/ Stage(t) \/ Commit(t) \/ Settle(t) \/ Seal(t) \/ Die(t) \/ TimeOut(t)
  PROVE  /\ UNCHANGED <<artifact, cat, job>>
         /\ \/ exec'[t].at \in Early /\ exec'[t].end \in {exec[t].end, "none"}
            \/ \E end \in {"failed", "cancelled"} : exec'[t] = Ending(exec[t], end)
<1>1. UNCHANGED <<artifact, cat, job>>
  BY DEF Resolve, Discover, Fetch, FetchWoo, Return, Stage, Commit, Settle, Seal, Die, TimeOut
<1> DEFINE x == exec'[t]
           Goal == \/ x.at \in Early /\ x.end \in {exec[t].end, "none"}
                   \/ \E end \in {"failed", "cancelled"} : x = Ending(exec[t], end)
<1>2. x.at \in Early /\ x.end \in {exec[t].end, "none"} => Goal
  OBVIOUS
<1>3. DOMAIN exec[t] = {"at", "conf", "lin", "cursor", "s", "todo", "outcome", "failed", "cancel",
                        "terminal", "intact", "limited", "sum", "end"}
  BY AtWork, Fields
<1>4. \A e : Goes(t, e) => x = e
  BY Moved
<1>5. Raises(t) \/ Goes(t, Ending(exec[t], "cancelled")) => Goal
  BY <1>4 DEF Raises
<1>6. ASSUME NEW w, NEW pages, Yields(t, w, pages)
      PROVE  x.at = "stage" /\ x.end = exec[t].end
  <2> DEFINE e == [exec[t] EXCEPT !.at = "stage", !.s = w, !.todo = pages]
  <2>1. x = e
    BY <1>4, <1>6 DEF Yields
  <2>2. e.at = "stage" /\ e.end = exec[t].end
    BY <1>3
  <2>3. QED
    BY <2>1, <2>2
<1> HIDE DEF x, Goal
<1>7. CASE Resolve(t)
  <2> DEFINE cand == Recoverable(exec[t].conf)
             restart == cand # 0 /\ Progress(lineages[cand]) = "terminal_incomplete"
             keep == cand # 0 /\ ~restart
             lin == IF keep THEN cand ELSE Len(lineages) + 1
             state == IF keep THEN Progress(lineages[cand]) ELSE "empty"
             done == state \in {"terminal_intact", "terminal_limited"}
             ready == Prepared(dataset, keep)
             e == [exec[t] EXCEPT
                     !.at = IF done THEN "collected" ELSE "discover",
                     !.lin = lin, !.failed = (ready.state = "failed"),
                     !.cursor = IF state = "resumable" THEN Latest(lineages[cand]).next ELSE Start(kind),
                     !.terminal = done, !.intact = state # "terminal_limited",
                     !.limited = (state = "terminal_limited")]
  <2>1. Goes(t, e)
    BY <1>7 DEF Resolve
  <2> HIDE DEF state, lin, ready
  <2>2. e.at \in Early /\ e.end = exec[t].end
    BY <1>3 DEF Early
  <2> HIDE DEF e
  <2>3. QED
    BY <2>1, <2>2, <1>1, <1>2, <1>4 DEF x, Goal, Early
<1>8. CASE Discover(t)
  <2> DEFINE list == IF kind \in Listing THEN InOrder(shop) ELSE <<>>
             w == Session(kind, exec[t].cursor, list, limit)
             e == [exec[t] EXCEPT !.at = "fetch", !.s = w]
  <2>1. \/ Raises(t) \/ Goes(t, e)
        \/ Yields(t, w, <<EmptyDiscovery(kind, w)>>) \/ Yields(t, w, <<DiscoveryFailure(kind, w)>>)
    BY <1>8 DEF Discover
  <2> HIDE DEF w
  <2>2. e.at \in Early /\ e.end = exec[t].end
    BY <1>3 DEF Early
  <2> HIDE DEF e
  <2>3. QED
    BY <2>1, <2>2, <1>1, <1>2, <1>4, <1>5, <1>6 DEF x, Goal, Early
<1>9. CASE Fetch(t)
  <2> DEFINE w == exec[t].s
  <2>1. Yields(t, w, <<NextPage(kind, w, shop)>>) \/ Yields(t, w, <<FetchFailure(kind, w)>>)
    BY <1>9 DEF Fetch
  <2>2. QED
    BY <2>1, <1>1, <1>2, <1>6 DEF x, Goal, Early
<1>10. CASE FetchWoo(t)
  <2> DEFINE w == exec[t].s
             n == WooBuffer(w, shop)
             e == [exec[t] EXCEPT !.s = n]
  <2>1. /\ exec[t].at = "fetch"
        /\ Goes(t, e) \/ Yields(t, w, <<WooFailure(w)>>) \/ Yields(t, w, WooPages(w))
    BY <1>10 DEF FetchWoo, At
  <2> HIDE DEF n
  <2>2. e.at = exec[t].at /\ e.end = exec[t].end
    BY <1>3 DEF Early
  <2> HIDE DEF e
  <2>3. QED
    BY <2>1, <2>2, <1>1, <1>2, <1>4, <1>6 DEF x, Goal, Early
<1>11. CASE Return(t)
  <2> DEFINE e == [exec[t] EXCEPT !.at = "collected"]
  <2>1. Goes(t, e) /\ e.at \in Early /\ e.end = exec[t].end
    BY <1>3, <1>11 DEF Return, To, Early
  <2> HIDE DEF e
  <2>2. QED
    BY <2>1, <1>1, <1>2, <1>4 DEF x, Goal, Early
<1>12. CASE Stage(t)
  <2> DEFINE e == [exec[t] EXCEPT !.at = "commit", !.outcome = "skipped"]
             f == [exec[t] EXCEPT !.at = "commit", !.outcome = "succeeded"]
             g == [exec[t] EXCEPT !.at = "commit", !.outcome = "failed", !.failed = TRUE]
  <2>1. Goes(t, e) \/ Goes(t, f) \/ Goes(t, g)
    BY <1>12 DEF Stage
  <2>2. e.at \in Early /\ f.at \in Early /\ g.at \in Early
        /\ e.end = exec[t].end /\ f.end = exec[t].end /\ g.end = exec[t].end
    BY <1>3 DEF Early
  <2> HIDE DEF e, f, g
  <2>3. QED
    BY <2>1, <2>2, <1>1, <1>2, <1>4 DEF x, Goal, Early
<1>13. CASE Commit(t)
  <2>1. Raises(t) \/ Goes(t, After(t))
    BY <1>13 DEF Commit
  <2>2. After(t).at \in Early /\ After(t).end = exec[t].end
    BY AfterFields DEF Early
  <2>3. QED
    BY <2>1, <2>2, <1>1, <1>2, <1>4, <1>5 DEF x, Goal, Early
<1>14. CASE Settle(t)
  <2> DEFINE e == [exec[t] EXCEPT !.at = "seal", !.sum = Checksum(LineageOf(t))]
  <2>1. Goes(t, Ending(exec[t], "cancelled")) \/ Raises(t) \/ Goes(t, e)
    BY <1>14 DEF Settle
  <2>2. e.at \in Early /\ e.end = exec[t].end
    BY <1>3 DEF Early
  <2> HIDE DEF e
  <2>3. QED
    BY <2>1, <2>2, <1>1, <1>2, <1>4, <1>5 DEF x, Goal, Early
<1>15. CASE Seal(t)
  <2> DEFINE e == [exec[t] EXCEPT !.at = "publish"]
  <2>1. Raises(t) \/ Goes(t, e)
    BY <1>15 DEF Seal, To
  <2>2. e.at \in Early /\ e.end = exec[t].end
    BY <1>3 DEF Early
  <2> HIDE DEF e
  <2>3. QED
    BY <2>1, <2>2, <1>1, <1>2, <1>4, <1>5 DEF x, Goal, Early
<1>16. CASE Die(t)
  <2> DEFINE e == [Idle EXCEPT !.at = "gone"]
  <2>1. Goes(t, e) /\ e.at \in Early /\ e.end = "none"
    BY <1>16, Fields DEF Die, Early, Idle
  <2> HIDE DEF e
  <2>2. QED
    BY <2>1, <1>1, <1>2, <1>4 DEF x, Goal, Early
<1>17. CASE TimeOut(t)
  BY <1>1, <1>5, <1>17 DEF TimeOut, x, Goal
<1>18. QED
  BY <1>7, <1>8, <1>9, <1>10, <1>11, <1>12, <1>13, <1>14, <1>15, <1>16, <1>17

\* Up to the seal an execution has not published.
LEMMA CollectingIsQuiet ==
  ASSUME WalkInv, NEW t \in Executions,
         \/ Resolve(t) \/ Discover(t) \/ Fetch(t) \/ FetchWoo(t) \/ Return(t)
         \/ Stage(t) \/ Commit(t) \/ Settle(t) \/ Seal(t) \/ Die(t) \/ TimeOut(t)
  PROVE  UNCHANGED <<artifact, cat, job>> /\ ~HasPublished(exec'[t])
<1>1. /\ UNCHANGED <<artifact, cat, job>>
      /\ \/ exec'[t].at \in Early
         \/ \E end \in {"failed", "cancelled"} : exec'[t] = Ending(exec[t], end)
  BY CollectingGoesOn
<1>2. exec'[t].at \in Early => ~HasPublished(exec'[t])
  BY DEF HasPublished, Loaded, Early
<1>3. QED
  BY <1>1, <1>2, EndingIsQuiet

\* A claim makes another execution the owner, which has loaded nothing yet.
LEMMA ClaimIsQuiet ==
  ASSUME WalkInv, PublicationInv, [Next]_vars, NEW t \in Executions, Claim(t)
  PROVE  PublicationInv'
<1> DEFINE e == [exec[t] EXCEPT !.at = "resolve", !.conf = conf]
<1>1. Goes(t, e) /\ UNCHANGED <<artifact, cat>> /\ job' = [state |-> "running", owner |-> t]
  BY DEF Claim
<1>2. e.at = "resolve"
  BY AtWork, Fields
<1> HIDE DEF e
<1>3. exec'[t] = e /\ \A u \in Executions \ {t} : exec'[u] = exec[u]
  BY <1>1, Moved
<1>4. ~HasPublished(exec'[t])
  BY <1>2, <1>3 DEF HasPublished, Loaded
<1>5. job'.state = "running" /\ job'.owner = t
  BY <1>1
<1>6. QED
  BY <1>1, <1>3, <1>4, <1>5, QuietPublication DEF HasPublished

\* A cancelled execution stays where it is.
LEMMA CancelIsQuiet ==
  ASSUME WalkInv, PublicationInv, [Next]_vars, NEW t \in Executions, Cancel(t)
  PROVE  PublicationInv'
<1> DEFINE e == [exec[t] EXCEPT !.cancel = TRUE]
<1>1. Goes(t, e) /\ UNCHANGED <<artifact, cat, job>>
  BY DEF Cancel
<1>2. e.at = exec[t].at /\ e.lin = exec[t].lin /\ e.end = exec[t].end
  BY AtWork, Fields
<1> HIDE DEF e
<1>3. exec'[t] = e /\ \A u \in Executions \ {t} : exec'[u] = exec[u]
  BY <1>1, Moved
<1>4. QED
  BY <1>1, <1>2, <1>3, QuietMove DEF HasPublished, Loaded

\* publish_dataset: a publication is registered once, or is the same.
LEMMA PublishRegisters ==
  ASSUME WalkInv, PublicationInv, [Next]_vars, NEW t \in Executions, Publish(t)
  PROVE  PublicationInv'
<1> DEFINE records == Batches(LineageOf(t))
           e == [exec[t] EXCEPT !.at = "load"]
<1>1. /\ exec[t].at = "publish" /\ UNCHANGED <<job, lineages, cat>>
      /\ \/ Raises(t) /\ artifact' = artifact
         \/ /\ Sealed(LineageOf(t)) /\ artifact \in {NoArtifact, records}
            /\ artifact' = records /\ (Raises(t) \/ Goes(t, e))
  BY DEF Publish, At, To, Registers
<1>2. \A u \in Executions \ {t} : exec'[u] = exec[u]
  BY OthersStay
<1>3. ~HasPublished(exec[t])
  BY <1>1 DEF HasPublished, Loaded
<1>4. Raises(t) => ~HasPublished(exec'[t])
  BY Moved, EndingIsQuiet DEF Raises
<1>5. CASE Raises(t) /\ artifact' = artifact
  BY <1>1, <1>2, <1>4, <1>5, QuietMove
<1>6. CASE /\ Sealed(LineageOf(t)) /\ artifact \in {NoArtifact, records}
           /\ artifact' = records /\ (Raises(t) \/ Goes(t, e))
  <2>1. records # NoArtifact
    BY <1>1, AtWork, RecordsArePublished DEF Working, Places
  <2>2. e.at = "load" /\ e.lin = exec[t].lin
    BY AtWork, Fields
  <2>3. /\ HasPublished(exec'[t]) => exec'[t].lin = exec[t].lin
        /\ ~Loaded(exec'[t])
    <3>1. CASE Raises(t)
      BY <3>1, <1>4 DEF HasPublished
    <3>2. CASE Goes(t, e)
      <4>1. exec'[t] = e
        BY <3>2, Moved
      <4>2. QED
        BY <4>1, <2>2 DEF Loaded
    <3>3. QED
      BY <1>6, <3>1, <3>2
  <2> HIDE DEF e
  <2>4. ASSUME NEW u \in Executions, HasPublished(exec'[u])
        PROVE  /\ Sealed(lineages'[exec'[u].lin]) /\ artifact' # NoArtifact
               /\ artifact' = Batches(lineages'[exec'[u].lin])
    <3>1. CASE u = t
      BY <3>1, <1>1, <1>6, <2>1, <2>3, <2>4 DEF LineageOf
    <3>2. CASE u # t
      <4>1. exec'[u] = exec[u] /\ HasPublished(exec[u])
        BY <3>2, <1>2, <2>4
      <4>2. Sealed(LineageOf(u)) /\ artifact # NoArtifact /\ artifact = Batches(LineageOf(u))
        BY <4>1 DEF PublicationInv
      <4>3. QED
        BY <4>1, <4>2, <1>1, <1>6 DEF LineageOf
    <3>3. QED
      BY <3>1, <3>2
  <2>5. ASSUME NEW u \in Executions, Loaded(exec'[u]), job'.state = "running", job'.owner = u
        PROVE  Names(artifact') \subseteq cat'
    <3>1. u # t /\ exec'[u] = exec[u]
      BY <1>2, <2>3, <2>5
    <3>2. Loaded(exec[u]) /\ Owns(u)
      BY <3>1, <2>5, <1>1 DEF Owns
    <3>3. artifact # NoArtifact /\ Names(artifact) \subseteq cat
      BY <3>2 DEF PublicationInv, HasPublished
    <3>4. QED
      BY <3>3, <1>1, <1>6
  <2>6. ASSUME job'.state = "succeeded"
        PROVE  artifact' # NoArtifact /\ Names(artifact') \subseteq cat'
    BY <2>6, <1>1, <1>6 DEF PublicationInv, SucceededIsPublished, Names
  <2>7. QED
    BY <2>4, <2>5, <2>6 DEF PublicationInv, SucceededIsPublished, Names, LineageOf, Owns
<1>7. QED
  BY <1>1, <1>5, <1>6

\* _load_fenced: what the owner loads is what was published.
LEMMA LoadBringsIn ==
  ASSUME WalkInv, PublicationInv, [Next]_vars, NEW t \in Executions, Load(t)
  PROVE  PublicationInv'
<1> DEFINE names == {r[1] : r \in Batches(LineageOf(t))}
           e == [exec[t] EXCEPT !.at = "loaded"]
<1>1. /\ exec[t].at = "load" /\ UNCHANGED <<job, lineages, artifact>>
      /\ \/ Raises(t) /\ cat' = cat
         \/ Goes(t, e) /\ cat' \in {names, cat \union names}
  BY DEF Load, At, To
<1>2. \A u \in Executions \ {t} : exec'[u] = exec[u]
  BY OthersStay
<1>3. CASE Raises(t) /\ cat' = cat
  <2>1. ~HasPublished(exec'[t])
    BY <1>3, Moved, EndingIsQuiet DEF Raises
  <2>2. QED
    BY <2>1, <1>1, <1>2, <1>3, QuietMove
<1>4. CASE Goes(t, e) /\ cat' \in {names, cat \union names}
  <2>1. e.at = "loaded" /\ e.lin = exec[t].lin
    BY AtWork, Fields
  <2>2. exec'[t] = e
    BY <1>4, Moved
  <2> HIDE DEF e
  <2>3. HasPublished(exec[t])
    BY <1>1 DEF HasPublished
  <2>4. artifact = Batches(LineageOf(t)) /\ artifact # NoArtifact
    BY <2>3 DEF PublicationInv
  <2>5. Names(artifact') \subseteq cat' /\ artifact' # NoArtifact
    BY <2>4, <1>1, <1>4 DEF Names
  <2>6. \A u \in Executions : HasPublished(exec'[u]) => HasPublished(exec[u]) /\ exec'[u].lin = exec[u].lin
    BY <2>1, <2>2, <2>3, <1>2
  <2>7. ASSUME NEW u \in Executions, HasPublished(exec'[u])
        PROVE  /\ Sealed(lineages'[exec'[u].lin]) /\ artifact' # NoArtifact
               /\ artifact' = Batches(lineages'[exec'[u].lin])
    <3>1. HasPublished(exec[u]) /\ exec'[u].lin = exec[u].lin
      BY <2>6, <2>7
    <3>2. QED
      BY <3>1, <1>1 DEF PublicationInv, LineageOf
  <2>8. QED
    BY <2>5, <2>7 DEF PublicationInv, SucceededIsPublished, Names, LineageOf, Owns
<1>5. QED
  BY <1>1, <1>3, <1>4

\* The load is recorded by the execution that did it.
LEMMA RecordLoadIsQuiet ==
  ASSUME WalkInv, PublicationInv, [Next]_vars, NEW t \in Executions, RecordLoad(t)
  PROVE  PublicationInv'
<1> DEFINE e == Ending(exec[t], "succeeded")
<1>1. exec[t].at = "loaded" /\ Goes(t, e) /\ UNCHANGED <<artifact, cat, job>>
  BY DEF RecordLoad, At
<1>2. e.lin = exec[t].lin
  BY AtWork, Fields DEF Ending
<1> HIDE DEF e
<1>3. exec'[t] = e /\ \A u \in Executions \ {t} : exec'[u] = exec[u]
  BY <1>1, Moved
<1>4. HasPublished(exec[t]) /\ Loaded(exec[t])
  BY <1>1 DEF HasPublished, Loaded
<1>5. QED
  BY <1>1, <1>2, <1>3, <1>4, QuietMove

\* _finish: a job succeeds only by the owner, which has loaded.
LEMMA FinishSucceeds ==
  ASSUME WalkInv, PublicationInv, [Next]_vars, NEW t \in Executions, Finish(t)
  PROVE  PublicationInv'
<1> DEFINE e == [Idle EXCEPT !.at = "gone"]
<1>1. /\ exec[t].at = "finish" /\ Goes(t, e) /\ UNCHANGED <<artifact, cat>>
      /\ job' = IF Owns(t) THEN [state |-> exec[t].end, owner |-> 0] ELSE job
  BY DEF Finish, At
<1>2. e.at = "gone"
  BY Fields
<1> HIDE DEF e
<1>3. exec'[t] = e /\ \A u \in Executions \ {t} : exec'[u] = exec[u]
  BY <1>1, Moved
<1>4. \A u \in Executions : HasPublished(exec'[u]) =>
        HasPublished(exec[u]) /\ exec'[u].lin = exec[u].lin /\ (Loaded(exec'[u]) => Loaded(exec[u]))
  BY <1>2, <1>3 DEF HasPublished, Loaded
<1>5. \A u \in Executions : job'.state = "running" /\ job'.owner = u /\ Loaded(exec'[u]) => Owns(u)
  <2>1. CASE Owns(t)
    BY <1>1, <2>1 DEF Executions
  <2>2. CASE ~Owns(t)
    BY <1>1, <2>2 DEF Owns
  <2>3. QED
    BY <2>1, <2>2
<1>6. job'.state = "succeeded" =>
        job.state = "succeeded" \/ \E u \in Executions : Loaded(exec[u]) /\ Owns(u)
  <2>1. CASE Owns(t)
    BY <1>1, <2>1 DEF Loaded
  <2>2. CASE ~Owns(t)
    BY <1>1, <2>2
  <2>3. QED
    BY <2>1, <2>2
<1>7. QED
  BY <1>1, <1>4, <1>5, <1>6, QuietPublication

\* Nothing is published before the job begins.
LEMMA PublicationInit == Init => PublicationInv
<1> SUFFICES ASSUME Init PROVE PublicationInv
  OBVIOUS
<1>1. exec = [t \in Executions |-> Idle] /\ job.state = "queued"
  BY DEF Init
<1>2. Idle.at = "none"
  BY DEF Idle
<1> HIDE DEF Idle
<1>3. \A t \in Executions : ~HasPublished(exec[t]) /\ ~Loaded(exec[t])
  BY <1>1, <1>2 DEF HasPublished, Loaded
<1>4. QED
  BY <1>1, <1>3 DEF PublicationInv, SucceededIsPublished

\* Every step keeps the publication.
LEMMA PublicationStep == WalkInv /\ PublicationInv /\ [Next]_vars => PublicationInv'
<1> SUFFICES ASSUME WalkInv, PublicationInv, [Next]_vars PROVE PublicationInv'
  OBVIOUS
<1>1. ASSUME NEW t \in Executions,
             \/ Resolve(t) \/ Discover(t) \/ Fetch(t) \/ FetchWoo(t) \/ Return(t)
             \/ Stage(t) \/ Commit(t) \/ Settle(t) \/ Seal(t) \/ Die(t) \/ TimeOut(t)
      PROVE  PublicationInv'
  <2>1. UNCHANGED <<artifact, cat, job>> /\ ~HasPublished(exec'[t])
    BY <1>1, CollectingIsQuiet
  <2>2. \A u \in Executions \ {t} : exec'[u] = exec[u]
    BY <1>1, OthersStay
  <2>3. QED
    BY <2>1, <2>2, QuietMove
<1>2. ASSUME NEW t \in Executions,
             Claim(t) \/ Publish(t) \/ Load(t) \/ RecordLoad(t) \/ Finish(t) \/ Cancel(t)
      PROVE  PublicationInv'
  BY <1>2, ClaimIsQuiet, PublishRegisters, LoadBringsIn, RecordLoadIsQuiet, FinishSucceeds, CancelIsQuiet
<1>3. CASE Requeue \/ Reconfigure \/ (\E p \in Products : Sell(p) \/ Withdraw(p)) \/ UNCHANGED vars
  <2>1. UNCHANGED <<exec, artifact, cat>> /\ (job' = job \/ job' = [state |-> "queued", owner |-> 0])
    BY <1>3 DEF Requeue, Reconfigure, Sell, Withdraw, vars
  <2>2. job'.state \in {"running", "succeeded"} => job' = job
    BY <2>1
  <2>3. QED
    BY <2>1, <2>2, QuietPublication DEF Owns
<1>4. QED
  BY <1>1, <1>2, <1>3 DEF Next

\* What a succeeded job has published is what it brought into the catalogue,
\* whatever an execution that lost the job, or one with another configuration,
\* published or loaded meanwhile (outputs.py, register_artifact, and worker.py,
\* _load_fenced).
THEOREM SucceededHasPublished == Spec => []SucceededIsPublished
<1>1. PublicationInv => SucceededIsPublished
  BY DEF PublicationInv
<1>2. QED
  BY <1>1, PublicationInit, PublicationStep, WalkIsKept, PTL DEF Spec

-----------------------------------------------------------------------------
\* Types.

Ends == Ended \union {"none"}
JobStates == {"queued", "running"} \union Ended
DatasetStates == {"pending", "staged", "published", "succeeded", "failed", "cancelled"}
LineageStates == {"active", "completed", "limited", "rejected"}

DatasetOK(d) ==
  DOMAIN d = {"state", "records"} /\ d.state \in DatasetStates /\ d.records \in Nat

ExecTyped(e) == e.at \in Places /\ e.end \in Ends /\ (e.at = "finish" => e.end \in Ended)

\* TypeInv, part by part.
LEMMA TypeParts ==
  TypeInv <=> /\ kind \in KindsUsed /\ limit \in Limits /\ shop \subseteq Products
              /\ conf \in 0..1 /\ left \in 0..Disturbances
              /\ cat \subseteq Products
              /\ job \in [state : JobStates, owner : 0..MaxExecutions]
              /\ DatasetOK(dataset)
              /\ \A i \in DOMAIN lineages : lineages[i].status \in LineageStates
              /\ \A t \in Executions : ExecTyped(exec[t])
BY DEF TypeInv, TypeOK, JobStates, DatasetOK, DatasetStates, LineageStates, ExecTyped, Ends

\* The source, the shop and the disturbances.
LEMMA SettingsTyped ==
  ASSUME TypeInv, [Next]_vars
  PROVE  /\ kind' \in KindsUsed /\ limit' \in Limits /\ shop' \subseteq Products
         /\ conf' \in 0..1 /\ left' \in 0..Disturbances
<1> DEFINE Still == UNCHANGED <<kind, limit, shop, conf>> /\ (left' = left \/ Disturbed)
<1>1. ASSUME NEW t \in Executions,
             \/ Claim(t) \/ Resolve(t) \/ Discover(t) \/ Fetch(t) \/ FetchWoo(t) \/ Return(t)
             \/ Stage(t) \/ Commit(t) \/ Settle(t) \/ Seal(t) \/ Publish(t)
             \/ Load(t) \/ RecordLoad(t) \/ Finish(t)
             \/ Die(t) \/ TimeOut(t) \/ Cancel(t)
      PROVE  Still
  <2>1. CASE Claim(t) \/ Resolve(t) \/ Return(t) \/ Commit(t) \/ Settle(t) \/ Seal(t)
    BY <2>1 DEF Claim, Resolve, Return, Commit, Settle, Seal
  <2>2. CASE Publish(t) \/ RecordLoad(t) \/ Finish(t) \/ Die(t)
    BY <2>2 DEF Publish, RecordLoad, Finish, Die
  <2>3. CASE Discover(t)
    BY <2>3 DEF Discover
  <2>4. CASE Fetch(t) \/ FetchWoo(t)
    BY <2>4 DEF Fetch, FetchWoo
  <2>5. CASE Stage(t)
    BY <2>5 DEF Stage
  <2>6. CASE Load(t) \/ TimeOut(t) \/ Cancel(t)
    BY <2>6 DEF Load, TimeOut, Cancel
  <2>7. QED
    BY <1>1, <2>1, <2>2, <2>3, <2>4, <2>5, <2>6
<1>2. Requeue => Still
  BY DEF Requeue
<1>3. UNCHANGED vars => Still
  BY DEF vars
<1>4. ASSUME NEW p \in Products, Sell(p) \/ Withdraw(p)
      PROVE  UNCHANGED <<kind, limit, conf>> /\ Disturbed /\ shop' \in {shop \union {p}, shop \ {p}}
  BY <1>4 DEF Sell, Withdraw
<1>5. /\ kind \in KindsUsed /\ limit \in Limits /\ shop \subseteq Products /\ conf \in 0..1
      /\ left \in 0..Disturbances
  BY DEF TypeInv, TypeOK
<1>6. left' = left \/ Disturbed => left' \in 0..Disturbances
  BY <1>5, ExecutionsAreCounted DEF Disturbed
<1>7. CASE Still
  BY <1>5, <1>6, <1>7
<1>8. CASE Reconfigure
  <2>1. UNCHANGED <<kind, limit, shop>> /\ conf' = 1 - conf /\ Disturbed
    BY <1>8 DEF Reconfigure
  <2>2. QED
    BY <1>5, <1>6, <2>1
<1>9. ASSUME NEW p \in Products, Sell(p) \/ Withdraw(p)
      PROVE  /\ kind' \in KindsUsed /\ limit' \in Limits /\ shop' \subseteq Products
             /\ conf' \in 0..1 /\ left' \in 0..Disturbances
  BY <1>4, <1>5, <1>6, <1>9
<1>10. QED
  BY <1>1, <1>2, <1>3, <1>7, <1>8, <1>9 DEF Next

\* The catalogue: what is loaded is of the shop's products.
LEMMA CatalogueTyped ==
  ASSUME WalkInv, TypeInv, [Next]_vars
  PROVE  cat' \subseteq Products
<1>1. cat \subseteq Products
  BY DEF TypeInv, TypeOK
<1>2. ASSUME NEW t \in Executions, Load(t)
      PROVE  cat' \subseteq Products
  <2> DEFINE names == {r[1] : r \in Batches(LineageOf(t))}
  <2>1. exec[t].at = "load" /\ cat' \in {cat, names, cat \union names}
    BY <1>2 DEF Load, At
  <2>2. LinOK(kind, LineageOf(t))
    BY <2>1, AtWork DEF Working, Places
  <2>3. Batches(LineageOf(t)) \subseteq Products \X Executions
    BY <2>2, RecordsArePublished
  <2>4. names \subseteq Products
    BY <2>3
  <2>5. QED
    BY <1>1, <2>1, <2>4
<1>3. cat' = cat \/ \E t \in Executions : Load(t)
  BY Touches
<1>4. QED
  BY <1>1, <1>2, <1>3

\* The job: its owner is the execution that claimed it last.
LEMMA JobTyped ==
  ASSUME TypeInv, [Next]_vars
  PROVE  job' \in [state : JobStates, owner : 0..MaxExecutions]
<1>1. job \in [state : JobStates, owner : 0..MaxExecutions]
  BY TypeParts
<1>2. 0 \in 0..MaxExecutions /\ \A t \in Executions : t \in 0..MaxExecutions
  BY ExecutionsAreCounted DEF Executions
<1>3. ASSUME NEW t \in Executions, Claim(t)
      PROVE  job' \in [state : JobStates, owner : 0..MaxExecutions]
  BY <1>2, <1>3 DEF Claim, JobStates
<1>4. ASSUME NEW t \in Executions, Finish(t)
      PROVE  job' \in [state : JobStates, owner : 0..MaxExecutions]
  <2>1. exec[t].end \in JobStates
    BY <1>4 DEF Finish, At, TypeInv, JobStates
  <2>2. job' = job \/ job' = [state |-> exec[t].end, owner |-> 0]
    BY <1>4 DEF Finish
  <2>3. QED
    BY <2>1, <2>2, <1>1, <1>2
<1>5. CASE Requeue
  BY <1>2, <1>5 DEF Requeue, JobStates
<1>6. job' = job \/ Requeue \/ \E t \in Executions : Claim(t) \/ Finish(t)
  BY Touches
<1>7. QED
  BY <1>1, <1>3, <1>4, <1>5, <1>6

\* The states of the dataset.
LEMMA DatasetTyped ==
  ASSUME WalkInv, TypeInv, [Next]_vars
  PROVE  DatasetOK(dataset')
<1>1. DatasetOK(dataset)
  BY TypeParts
<1>2. \A w \in DatasetStates : DatasetOK([dataset EXCEPT !.state = w])
  BY <1>1 DEF DatasetOK
<1>3. \A w \in {"failed", "cancelled", "succeeded"} : FinishDataset(w) => DatasetOK(dataset')
  BY <1>2 DEF FinishDataset, DatasetStates
<1>4. ASSUME NEW t \in Executions, Resolve(t)
      PROVE  DatasetOK(dataset')
  <2>1. PICK resuming : dataset' = Prepared(dataset, resuming)
    BY <1>4 DEF Resolve
  <2>2. DatasetOK([state |-> "pending", records |-> 0])
    BY DEF DatasetOK, DatasetStates
  <2>3. \A w \in {"staged", "pending"} : DatasetOK([dataset EXCEPT !.state = w])
    BY <1>2 DEF DatasetStates
  <2>4. QED
    BY <1>1, <2>1, <2>2, <2>3 DEF Prepared
<1>5. ASSUME NEW t \in Executions, Commit(t)
      PROVE  DatasetOK(dataset')
  <2> DEFINE r == Row(t)
  <2>1. exec[t].at = "commit" /\ (dataset' = dataset \/ dataset' = Recorded(dataset, r))
    BY <1>5 DEF Commit, At
  <2>2. r.batch \subseteq Products \X {t}
    <3>1. Page(t).items \subseteq Products
      <4>1. exec[t].at \in Working
        BY <2>1 DEF Working, Places
      <4>2. TodoOK(kind, exec[t], LineageOf(t)) /\ kind \in Kinds
        BY <4>1, <2>1, AtWork DEF ExecOK
      <4>3. PageOK(kind, Page(t))
        BY <4>2, PageAtHand DEF Page
      <4>4. QED
        BY <4>3 DEF PageOK
    <3>2. r.batch = IF exec[t].outcome = "succeeded" THEN RecordsOf(t, Page(t)) ELSE {}
      BY DEF Row
    <3>3. QED
      BY <3>1, <3>2 DEF RecordsOf
  <2> HIDE DEF r
  <2>3. Cardinality(r.batch) \in Nat
    <3>1. IsFiniteSet(Products) /\ IsFiniteSet({t})
      BY ProductsAreNumbers, FS_Singleton
    <3>2. IsFiniteSet(Products \X {t})
      BY <3>1, FS_Product
    <3>3. QED
      BY <3>2, <2>2, FS_Subset, FS_CardinalityType
  <2>4. Recorded(dataset, r) \in
          {dataset, [dataset EXCEPT !.state = "failed"],
           [state |-> IF dataset.state = "pending" THEN "staged" ELSE dataset.state,
            records |-> dataset.records + Cardinality(r.batch)]}
    BY DEF Recorded
  <2>5. DatasetOK([state |-> IF dataset.state = "pending" THEN "staged" ELSE dataset.state,
                   records |-> dataset.records + Cardinality(r.batch)])
    BY <1>1, <2>3 DEF DatasetOK, DatasetStates
  <2>6. DatasetOK([dataset EXCEPT !.state = "failed"])
    BY <1>2 DEF DatasetStates
  <2>7. QED
    BY <1>1, <2>1, <2>4, <2>5, <2>6
<1>6. ASSUME NEW t \in Executions, Publish(t)
      PROVE  DatasetOK(dataset')
  <2>1. \/ dataset' = dataset \/ FinishDataset("failed")
        \/ dataset' = [dataset EXCEPT !.state = "published"]
    BY <1>6 DEF Publish
  <2>2. QED
    BY <1>1, <1>2, <1>3, <2>1 DEF DatasetStates
<1>7. ASSUME NEW t \in Executions, Settle(t) \/ Seal(t) \/ Load(t) \/ RecordLoad(t)
      PROVE  DatasetOK(dataset')
  <2>1. dataset' = dataset \/ \E w \in {"failed", "cancelled", "succeeded"} : FinishDataset(w)
    BY <1>7 DEF Settle, Seal, Load, RecordLoad
  <2>2. QED
    BY <1>1, <1>3, <2>1
<1>8. \/ dataset' = dataset
      \/ \E t \in Executions : \/ Resolve(t) \/ Commit(t) \/ Publish(t)
                               \/ Settle(t) \/ Seal(t) \/ Load(t) \/ RecordLoad(t)
  BY Touches
<1>9. QED
  BY <1>1, <1>4, <1>5, <1>6, <1>7, <1>8

\* The states of the lineages.
LEMMA LineagesTyped ==
  ASSUME WalkInv, TypeInv, [Next]_vars
  PROVE  \A i \in DOMAIN lineages' : lineages'[i].status \in LineageStates
<1> DEFINE Typed == \A i \in DOMAIN lineages' : lineages'[i].status \in LineageStates
<1>1. /\ \A i \in DOMAIN lineages : /\ lineages[i].status \in LineageStates
                                     /\ DOMAIN lineages[i] = LineageFields
      /\ lineages \in Seq(ToSet(lineages))
  BY TypeParts DEF WalkInv, Shapes, LineageFields
<1>2. ASSUME NEW t \in Executions, Resolve(t)
      PROVE  Typed
  <2>1. PICK old, c : /\ \A j \in old : j \in DOMAIN lineages /\ lineages[j].status = "active"
                      /\ \/ lineages' = Reject(lineages, old)
                         \/ lineages' = Append(Reject(lineages, old), NewLineage(c))
    BY <1>2 DEF Resolve, Superseded
  <2> DEFINE others == Reject(lineages, old)
  <2>2. \A i \in DOMAIN lineages : others[i].status \in LineageStates
    BY <1>1 DEF Reject, LineageStates, LineageFields
  <2>3. others = Reject(lineages, old)
    OBVIOUS
  <2> HIDE DEF others
  <2>4. /\ others \in Seq(ToSet(others)) /\ DOMAIN others = DOMAIN lineages
        /\ DOMAIN others = 1..Len(lineages) /\ Len(others) = Len(lineages) /\ Len(lineages) \in Nat
    BY <2>1, <2>3, RejectGrows
  <2>5. NewLineage(c).status \in LineageStates
    BY DEF NewLineage, LineageStates
  <2> DEFINE m == NewLineage(c)
             n == Len(lineages) + 1
  <2> HIDE DEF m
  <2>6. CASE lineages' = others
    BY <2>2, <2>4, <2>6
  <2>7. CASE lineages' = Append(others, m)
    <3>1. /\ DOMAIN lineages' = 1..n /\ lineages'[n] = m
          /\ \A i \in 1..Len(lineages) : lineages'[i] = others[i]
      BY <2>4, <2>7
    <3>2. \A i \in 1..n : i = n \/ i \in 1..Len(lineages)
      BY <2>4
    <3>3. QED
      BY <3>1, <3>2, <2>2, <2>4, <2>5 DEF m
  <2>8. QED
    BY <2>1, <2>3, <2>6, <2>7 DEF m
<1>3. ASSUME NEW t \in Executions, Commit(t) \/ Seal(t)
      PROVE  Typed
  <2> DEFINE j == exec[t].lin
             l == lineages[j]
             to == IF exec[t].limited THEN "limited" ELSE "completed"
  <2>1. \/ lineages' = lineages
        \/ lineages' = [lineages EXCEPT ![j].pages = @ \union {Row(t)}]
        \/ lineages' = [lineages EXCEPT ![j].status = to, ![j].sum = exec[t].sum]
    BY <1>3 DEF Commit, Seal, LineageOf
  <2>2. CASE lineages' = [lineages EXCEPT ![j].pages = @ \union {Row(t)}]
    BY <1>1, <2>2 DEF LineageFields
  <2>3. CASE lineages' = [lineages EXCEPT ![j].status = to, ![j].sum = exec[t].sum]
    BY <1>1, <2>3 DEF LineageFields, LineageStates
  <2>4. QED
    BY <1>1, <2>1, <2>2, <2>3
<1>4. ASSUME NEW p \in Products, Withdraw(p)
      PROVE  Typed
  <2>1. lineages' = [i \in DOMAIN lineages |-> [lineages[i] EXCEPT !.kept = @ \ {p}]]
    BY <1>4 DEF Withdraw
  <2>2. QED
    BY <2>1, <1>1 DEF LineageFields
<1>5. \/ lineages' = lineages
      \/ \E t \in Executions : Resolve(t) \/ Commit(t) \/ Seal(t)
      \/ \E p \in Products : Withdraw(p)
  BY Touches
<1>6. QED
  BY <1>1, <1>2, <1>3, <1>4, <1>5

\* The places and the outcomes of the executions.
LEMMA ExecutionsTyped ==
  ASSUME WalkInv, TypeInv, [Next]_vars
  PROVE  \A t \in Executions : ExecTyped(exec'[t])
<1>1. \A t \in Executions : ExecTyped(exec[t])
  BY TypeParts
<1>2. ASSUME NEW t \in Executions, \A u \in Executions \ {t} : exec'[u] = exec[u], ExecTyped(exec'[t])
      PROVE  \A u \in Executions : ExecTyped(exec'[u])
  BY <1>1, <1>2
<1>3. ASSUME NEW t \in Executions, NEW end \in Ended
      PROVE  ExecTyped(Ending(exec[t], end))
  <2> DEFINE e == Ending(exec[t], end)
  <2>1. e.at = "finish" /\ e.end = end
    BY AtWork, Fields DEF Ending
  <2> HIDE DEF e
  <2>2. ExecTyped(e)
    BY <2>1 DEF ExecTyped, Places, Ends
  <2>3. QED
    BY <2>2 DEF e
<1>4. ASSUME NEW t \in Executions, NEW where \in Places \ {"finish"}
      PROVE  ExecTyped([exec[t] EXCEPT !.at = where])
  <2> DEFINE e == [exec[t] EXCEPT !.at = where]
  <2>1. e.at = where /\ e.end = exec[t].end
    BY AtWork, Fields
  <2> HIDE DEF e
  <2>2. ExecTyped(e)
    BY <2>1, <1>1 DEF ExecTyped
  <2>3. QED
    BY <2>2 DEF e
<1>5. ASSUME NEW t \in Executions,
             \/ Resolve(t) \/ Discover(t) \/ Fetch(t) \/ FetchWoo(t) \/ Return(t)
             \/ Stage(t) \/ Commit(t) \/ Settle(t) \/ Seal(t) \/ Die(t) \/ TimeOut(t)
      PROVE  ExecTyped(exec'[t])
  <2>1. \/ exec'[t].at \in Early /\ exec'[t].end \in {exec[t].end, "none"}
        \/ \E end \in {"failed", "cancelled"} : exec'[t] = Ending(exec[t], end)
    BY <1>5, CollectingGoesOn
  <2>2. CASE exec'[t].at \in Early /\ exec'[t].end \in {exec[t].end, "none"}
    BY <2>2, <1>1 DEF ExecTyped, Early, Places, Ends
  <2>3. CASE \E end \in {"failed", "cancelled"} : exec'[t] = Ending(exec[t], end)
    BY <2>3, <1>3 DEF Ended
  <2>4. QED
    BY <2>1, <2>2, <2>3
<1>6. ASSUME NEW t \in Executions, Publish(t) \/ Load(t) \/ RecordLoad(t)
      PROVE  ExecTyped(exec'[t])
  <2>1. \/ \E where \in {"load", "loaded"} : Goes(t, [exec[t] EXCEPT !.at = where])
        \/ \E end \in {"failed", "succeeded"} : Goes(t, Ending(exec[t], end))
    BY <1>6 DEF Publish, Load, RecordLoad, To, Raises
  <2>2. \A e : Goes(t, e) => exec'[t] = e
    BY Moved
  <2>3. QED
    BY <2>1, <2>2, <1>3, <1>4 DEF Places, Ended
<1>7. ASSUME NEW t \in Executions, Claim(t) \/ Finish(t) \/ Cancel(t)
      PROVE  ExecTyped(exec'[t])
  <2> DEFINE e == [exec[t] EXCEPT !.at = "resolve", !.conf = conf]
             f == [Idle EXCEPT !.at = "gone"]
             g == [exec[t] EXCEPT !.cancel = TRUE]
  <2>1. Goes(t, e) \/ Goes(t, f) \/ Goes(t, g)
    BY <1>7 DEF Claim, Finish, Cancel
  <2>2. e.at = "resolve" /\ e.end = exec[t].end /\ g.at = exec[t].at /\ g.end = exec[t].end
    BY AtWork, Fields
  <2>3. f.at = "gone" /\ f.end = "none"
    BY DEF Idle
  <2> HIDE DEF e, f, g
  <2>4. exec'[t] \in {e, f, g}
    BY <2>1, Moved
  <2>5. QED
    BY <2>2, <2>3, <2>4, <1>1 DEF ExecTyped, Places, Ends
<1>8. ASSUME NEW t \in Executions,
             \/ Claim(t) \/ Resolve(t) \/ Discover(t) \/ Fetch(t) \/ FetchWoo(t) \/ Return(t)
             \/ Stage(t) \/ Commit(t) \/ Settle(t) \/ Seal(t) \/ Publish(t)
             \/ Load(t) \/ RecordLoad(t) \/ Finish(t)
             \/ Die(t) \/ TimeOut(t) \/ Cancel(t)
      PROVE  \A u \in Executions : ExecTyped(exec'[u])
  <2>1. ExecTyped(exec'[t])
    BY <1>5, <1>6, <1>7, <1>8
  <2>2. \A u \in Executions \ {t} : exec'[u] = exec[u]
    BY <1>8, OthersStay
  <2>3. QED
    BY <2>1, <2>2, <1>2
<1>9. CASE Requeue \/ Reconfigure \/ (\E p \in Products : Sell(p) \/ Withdraw(p)) \/ UNCHANGED vars
  BY <1>1, <1>9 DEF Requeue, Reconfigure, Sell, Withdraw, vars
<1>10. QED
  BY <1>8, <1>9 DEF Next

\* A job begins well typed.
LEMMA TypeInit == Init => TypeInv
<1> SUFFICES ASSUME Init PROVE TypeInv
  OBVIOUS
<1>1. /\ kind \in KindsUsed /\ limit \in Limits /\ shop \subseteq Products /\ cat = shop
      /\ conf = 0 /\ left = Disturbances /\ job = [state |-> "queued", owner |-> 0]
      /\ lineages = <<>> /\ dataset = [state |-> "pending", records |-> 0]
      /\ exec = [t \in Executions |-> Idle]
  BY DEF Init
<1>2. Idle.at = "none" /\ Idle.end = "none"
  BY DEF Idle
<1>3. ExecTyped(Idle)
  BY <1>2 DEF ExecTyped, Places, Ends
<1>4. DatasetOK(dataset)
  BY <1>1 DEF DatasetOK, DatasetStates
<1>5. job \in [state : JobStates, owner : 0..MaxExecutions] /\ left \in 0..Disturbances /\ conf \in 0..1
  BY <1>1, ExecutionsAreCounted DEF JobStates
<1>6. DOMAIN lineages = {}
  BY <1>1
<1>7. \A t \in Executions : ExecTyped(exec[t])
  BY <1>1, <1>3
<1> HIDE DEF Idle
<1>8. QED
  BY <1>1, <1>4, <1>5, <1>6, <1>7, TypeParts

\* Every step keeps the types.
LEMMA TypeStep == WalkInv /\ TypeInv /\ [Next]_vars => TypeInv'
<1> SUFFICES ASSUME WalkInv, TypeInv, [Next]_vars PROVE TypeInv'
  OBVIOUS
<1>1. /\ kind' \in KindsUsed /\ limit' \in Limits /\ shop' \subseteq Products
      /\ conf' \in 0..1 /\ left' \in 0..Disturbances
  BY SettingsTyped
<1>2. /\ cat' \subseteq Products /\ job' \in [state : JobStates, owner : 0..MaxExecutions]
      /\ DatasetOK(dataset')
  BY CatalogueTyped, JobTyped, DatasetTyped
<1>3. /\ \A i \in DOMAIN lineages' : lineages'[i].status \in LineageStates
      /\ \A t \in Executions : ExecTyped(exec'[t])
  BY LineagesTyped, ExecutionsTyped
<1>4. QED
  BY <1>1, <1>2, <1>3 DEF TypeInv, TypeOK, JobStates, DatasetOK, DatasetStates, LineageStates,
                           ExecTyped, Ends

\* Job, dataset, lineages, catalogue and executions keep to the states the
\* schema and the code name: only records of shop products are loaded, and a job
\* ends with one of the three outcomes an execution can have.
THEOREM TypesAreKept == Spec => []TypeOK
<1>1. TypeInv => TypeOK
  BY DEF TypeInv
<1>2. QED
  BY <1>1, TypeInit, TypeStep, WalkIsKept, PTL DEF Spec
=============================================================================
