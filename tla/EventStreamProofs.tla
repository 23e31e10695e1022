--------------------------- MODULE EventStreamProofs ---------------------------
(***************************************************************************)
(* Proofs about EventStream, for every number of draining tasks and every  *)
(* size of the buffer, the queues, a drain and a replay: every step of the *)
(* broker is a step of EventFeed, no gap in what a browser gets is silent, *)
(* what a browser shows once all is delivered is what is open, and every   *)
(* variable keeps its type.                                                *)
(***************************************************************************)
EXTENDS EventStream, FiniteSetTheorems, TLAPS

\* catalogue.event_log: an id is visible once, is never above the sequence, and
\* is not visible while its transaction is open (events.py emit).
LogInv ==
  /\ drawn \in 0..MaxId /\ log \in Seq(Ids)
  /\ \A m, n \in DOMAIN log : log[m] = log[n] => m = n
  /\ \A i \in Visible : i <= drawn
  /\ flying \subseteq Txn
  /\ \A t \in flying : t.id <= drawn /\ t.id \notin Visible
  /\ \A t, u \in flying : t.id = u.id => t = u

\* Rows that a task holds were visible when it read them and come in the order of
\* their ids (broker.py _drain_events).
RowsInv ==
  /\ rows \in [Tasks -> Seq(Ids)]
  /\ \A t \in Tasks : ToSet(rows[t]) \subseteq Visible
  /\ \A t \in Tasks : \A m, n \in DOMAIN rows[t] : m < n => rows[t][m] < rows[t][n]

\* What was sent is visible and not above the watermark, and the watermark is a
\* visible id (broker.py _drain_events, start).
SentInv ==
  /\ pub \subseteq Visible
  /\ watermark \in {0} \union Visible
  /\ \A i \in pub : i <= watermark

\* A drain left out nothing between the watermark and its last row but what was
\* overtaken: an edge that became visible below a row that had been read.
DrainsAreWhole ==
  \A t \in Tasks : \A i \in Visible :
    rows[t] # <<>> /\ i <= Last(rows[t]) =>
      i \in ToSet(rows[t]) \/ i <= watermark \/ Feed!Overtaken(i)

\* Below the watermark every edge was sent, was overtaken, or is gone for good.
PassedIsSettled ==
  \A i \in Visible : i <= watermark => i \in pub \/ i \in Gone \/ Feed!Overtaken(i)

\* The inductive invariant of the refinement.
FeedInv == LogInv /\ RowsInv /\ SentInv /\ DrainsAreWhole /\ PassedIsSettled

\* A browser's connection (broker.py Subscriber, app.py stream).
Clients ==
  [phase : {"off", "boot", "replay", "live"}, last : 0..MaxId \union {Null},
   queue : Seq(1..Resync), resync : BOOLEAN, replay : Seq(Ids),
   owed : SUBSET (1..Resync)]

\* The browser's connection and the buffer have their types.
ClientInv == client \in Clients /\ buffer \in Seq(Ids)

\* As long as no older edge was published after a newer one, the buffer holds
\* everything published from any of its messages on, behind that message.
BufferIsASuffix ==
  "order" \notin slips =>
    \A k \in DOMAIN buffer : \A i \in pub :
      i >= buffer[k] => \E j \in DOMAIN buffer : k <= j /\ buffer[j] = i

\* While the rows of a replay are awaited, what the browser is owed is among them
\* or queued already.
ReplayHasTheRest ==
  client.phase = "replay" =>
    \/ client.resync
    \/ "order" \in slips
    \/ client.owed \subseteq ToSet(client.queue) \union ToSet(client.replay)

\* With FeedInv, the inductive invariant of NoSilentGap.
GapInv == ClientInv /\ BufferIsASuffix /\ ReplayHasTheRest /\ NoSilentGap

-----------------------------------------------------------------------------
(* Sequences and the helpers of the broker. *)

\* A set of naturals that is not empty has a least member (see CrawlProofs,
\* which proves the same of the rows of ACQUIRE).
LEMMA LeastMember ==
  ASSUME NEW T \in SUBSET Nat, T # {}
  PROVE  \E n \in T : \A m \in T : n <= m
<1> DEFINE Below == {0..n : n \in T}
<1>1. Below \subseteq FiniteSubsetsOf(Nat)
  <2>1. \A n \in Nat : IsFiniteSet(0..n)
    BY FS_Interval
  <2>2. QED
    BY <2>1 DEF FiniteSubsetsOf
<1>2. Below # {}
  OBVIOUS
<1>3. PICK b \in Below : \A c \in Below : <<c, b>> \notin StrictSubsetOrdering(Nat)
  BY <1>1, <1>2, FS_StrictSubsetOrderingWellFounded, WFMin
<1>4. PICK n \in T : b = 0..n
  OBVIOUS
<1>5. ASSUME NEW m \in T, ~ (n <= m)
      PROVE  FALSE
  <2>1. 0..m \subseteq 0..n /\ 0..m # 0..n
    BY <1>5
  <2>2. 0..m \in Below /\ 0..m \in SUBSET Nat /\ 0..n \in SUBSET Nat
    OBVIOUS
  <2>3. <<0..m, 0..n>> \in StrictSubsetOrdering(Nat)
    BY <2>1, <2>2 DEF StrictSubsetOrdering
  <2>4. QED
    BY <2>2, <2>3, <1>3, <1>4
<1>6. QED
  BY <1>5

\* ORDER BY event_id DESC LIMIT 1 finds a row whenever there is one.
LEMMA GreatestMember ==
  ASSUME NEW N \in Nat, NEW T \in SUBSET (0..N), T # {}
  PROVE  \E n \in T : \A m \in T : m <= n
<1> DEFINE U == {N - n : n \in T}
<1>1. U \in SUBSET Nat /\ U # {}
  <2>1. \A n \in T : n \in 0..N /\ N - n \in Nat
    OBVIOUS
  <2>2. QED
    BY <2>1, Zenon
<1>2. PICK u \in U : \A v \in U : u <= v
  BY <1>1, LeastMember
<1>3. PICK n \in T : u = N - n
  OBVIOUS
<1>4. ASSUME NEW m \in T
      PROVE  m <= n
  <2>1. N - m \in U
    OBVIOUS
  <2>2. N - n <= N - m
    BY <2>1, <1>2, <1>3
  <2>3. QED
    BY <2>2
<1>5. QED
  BY <1>4

\* The members of a sequence are its entries.
LEMMA Entries ==
  ASSUME NEW S, NEW s \in Seq(S)
  PROVE  /\ DOMAIN s = 1..Len(s) /\ Len(s) \in Nat
         /\ \A x : x \in ToSet(s) <=> \E k \in 1..Len(s) : x = s[k]
         /\ \A k \in 1..Len(s) : s[k] \in ToSet(s) /\ s[k] \in S
         /\ ToSet(s) \subseteq S
         /\ s = <<>> <=> Len(s) = 0
BY DEF ToSet

\* Enumerations from the lowest to the highest.
IsAscending(s, S) ==
  ToSet(s) = S /\ \A m, n \in 1..Cardinality(S) : m < n => s[m] < s[n]
\* The ids of a finite set can be put in order, and Ascending does it (SQL's ORDER
\* BY event_id).  Were there a set that cannot, there would be one of the smallest
\* size; without its greatest member it can be.
LEMMA OrderExists ==
  ASSUME NEW N \in Nat, NEW S \in SUBSET (1..N)
  PROVE  /\ IsFiniteSet(S) /\ Cardinality(S) \in Nat
         /\ \E s \in [1..Cardinality(S) -> S] : IsAscending(s, S)
<1> DEFINE Can(V) == \E s \in [1..Cardinality(V) -> V] : IsAscending(s, V)
           Bad == {V \in SUBSET (1..N) : ~ Can(V)}
           Sizes == {Cardinality(V) : V \in Bad}
<1>1. \A V \in SUBSET (1..N) : IsFiniteSet(V) /\ Cardinality(V) \in Nat
  <2>1. IsFiniteSet(1..N)
    BY FS_Interval
  <2>2. QED
    BY <2>1, FS_Subset, FS_CardinalityType, Zenon
<1>2. ASSUME NEW V \in Bad, \A W \in Bad : Cardinality(V) <= Cardinality(W)
      PROVE  FALSE
  <2>1. V # {}
    <3>1. ASSUME V = {}
          PROVE  FALSE
      <4>1. Cardinality(V) = 0
        BY <3>1, FS_EmptySet
      <4>2. <<>> \in [1..0 -> {}] /\ ToSet(<<>>) = {}
        BY DEF ToSet
      <4>3. IsAscending(<<>>, V)
        BY <4>1, <4>2, <3>1 DEF IsAscending
      <4>4. QED
        BY <4>1, <4>2, <4>3, <3>1
    <3>2. QED
      BY <3>1
  <2>2. V \in SUBSET (0..N)
    OBVIOUS
  <2>3. PICK x \in V : \A y \in V : y <= x
    BY <2>1, <2>2, GreatestMember
  <2> DEFINE W == V \ {x}
  <2>4. W \in SUBSET (1..N) /\ IsFiniteSet(V)
    BY <1>1
  <2>5. Cardinality(W) = Cardinality(V) - 1 /\ Cardinality(W) \in Nat /\ Cardinality(V) \in Nat
    BY <2>4, <1>1, FS_RemoveElement
  <2>6. Can(W)
    <3>1. ~ (Cardinality(V) <= Cardinality(W))
      BY <2>5
    <3>2. W \notin Bad
      BY <3>1, <1>2, Zenon
    <3>3. QED
      BY <3>2, <2>4
  <2>7. PICK s \in [1..Cardinality(W) -> W] : IsAscending(s, W)
    BY <2>6
  <2> DEFINE c == Cardinality(V)
             t == [k \in 1..c |-> IF k = c THEN x ELSE s[k]]
  <2>8. c \in Nat /\ Cardinality(W) = c - 1 /\ c - 1 \in Nat
    BY <2>5
  <2> HIDE DEF c
  <2>9. \A k \in 1..c : k # c => k \in 1..(c-1) /\ s[k] \in W /\ t[k] = s[k]
    <3> HIDE DEF W
    <3>1. s \in [1..(c-1) -> W]
      BY <2>7, <2>8
    <3>2. ASSUME NEW k \in 1..c, k # c
          PROVE  k \in 1..(c-1) /\ t[k] = s[k]
      BY <3>2, <2>8
    <3>3. QED
      BY <3>1, <3>2
  <2>10. c \in 1..c /\ t[c] = x
    BY <2>8
  <2>11. t \in [1..c -> V]
    BY <2>9, <2>10
  <2>12. ToSet(t) = V
    <3>1. ASSUME NEW y \in V
          PROVE  \E k \in 1..c : t[k] = y
      <4>1. CASE y = x
        BY <4>1, <2>10
      <4>2. CASE y # x
        <5>1. y \in ToSet(s)
          BY <4>2, <2>7 DEF IsAscending
        <5>2. PICK k \in DOMAIN s : y = s[k]
          BY <5>1 DEF ToSet
        <5>3. k \in 1..(c - 1)
          BY <5>2, <2>7, <2>8
        <5>4. k \in 1..c /\ k # c
          BY <5>3, <2>8
        <5>5. QED
          BY <5>4, <5>2, <2>9
      <4>3. QED
        BY <4>1, <4>2
    <3>2. DOMAIN t = 1..c
      OBVIOUS
    <3> HIDE DEF t
    <3>3. QED
      BY <3>1, <3>2, <2>11 DEF ToSet
  <2>13. ASSUME NEW m \in 1..c, NEW n \in 1..c, m < n
         PROVE  t[m] < t[n]
    <3>1. m # c /\ t[m] = s[m] /\ s[m] \in W /\ m \in 1..(c-1)
      <4>1. m # c
        BY <2>13, <2>8
      <4>2. QED
        BY <4>1, <2>9
    <3>2. CASE n = c
      <4>1. t[m] \in V /\ t[m] # x /\ t[m] <= x /\ t[n] = x
        BY <3>1, <3>2, <2>3, <2>10
      <4>2. t[m] \in 1..N /\ x \in 1..N
        BY <4>1
      <4> HIDE DEF t
      <4>3. QED
        BY <4>1, <4>2
    <3>3. CASE n # c
      <4>1. n \in 1..(c-1) /\ t[n] = s[n]
        BY <3>3, <2>9
      <4>2. s[m] < s[n]
        BY <4>1, <3>1, <2>13, <2>7, <2>8 DEF IsAscending
      <4>3. QED
        BY <4>1, <4>2, <3>1
    <3>4. QED
      BY <3>2, <3>3
  <2>14. IsAscending(t, V)
    <3> HIDE DEF t
    <3>1. QED
      BY <2>12, <2>13 DEF IsAscending, c
  <2>15. QED
    <3> HIDE DEF t
    <3>1. Can(V)
      BY <2>11, <2>14 DEF c
    <3>2. QED
      BY <3>1
<1>3. Bad = {}
  <2>1. ASSUME Bad # {}
        PROVE  FALSE
    <3>1. Sizes \in SUBSET Nat /\ Sizes # {}
      <4>1. \A V \in Bad : Cardinality(V) \in Nat
        BY <1>1
      <4> HIDE DEF Bad
      <4>2. QED
        BY <4>1, <2>1
    <3>2. PICK n \in Sizes : \A m \in Sizes : n <= m
      BY <3>1, LeastMember
    <3>3. PICK V \in Bad : n = Cardinality(V)
      OBVIOUS
    <3>4. \A W \in Bad : Cardinality(V) <= Cardinality(W)
      BY <3>2, <3>3
    <3>5. QED
      BY <3>3, <3>4, <1>2
  <2>2. QED
    BY <2>1
<1>4. Can(S)
  <2>1. S \notin Bad
    BY <1>3
  <2>2. QED
    BY <2>1
<1>5. QED
  BY <1>1, <1>4

\* What Ascending returns: the set's members, each once, each below the next.
LEMMA AscendingOrders ==
  ASSUME NEW N \in Nat, NEW S \in SUBSET (1..N)
  PROVE  /\ Ascending(S) \in Seq(S)
         /\ Len(Ascending(S)) = Cardinality(S)
         /\ ToSet(Ascending(S)) = S
         /\ \A m, n \in 1..Len(Ascending(S)) : m < n => Ascending(S)[m] < Ascending(S)[n]
<1> DEFINE c == Cardinality(S)
           a == Ascending(S)
<1>1. c \in Nat
  BY OrderExists
<1>2. a \in [1..c -> S] /\ IsAscending(a, S)
  BY OrderExists DEF IsAscending, Ascending
<1> HIDE DEF c, a
<1>3. a \in Seq(S) /\ Len(a) = c
  BY <1>1, <1>2
<1>4. QED
  BY <1>2, <1>3 DEF IsAscending, a, c
\* Numbers above low that ascend leave low at least one behind at every entry: the
\* k-th edge above an id is at least k above it.
LEMMA AscendingGrows ==
  ASSUME NEW s \in Seq(Nat), NEW low \in Nat,
         \A k \in 1..Len(s) : s[k] > low,
         \A m, n \in 1..Len(s) : m < n => s[m] < s[n]
  PROVE  \A k \in 1..Len(s) : s[k] >= low + k
<1> DEFINE Bad == {k \in 1..Len(s) : ~ (s[k] >= low + k)}
<1>1. ASSUME Bad # {}
      PROVE  FALSE
  <2>1. Bad \in SUBSET Nat
    OBVIOUS
  <2>2. PICK k \in Bad : \A m \in Bad : k <= m
    BY <1>1, <2>1, LeastMember
  <2>3. k \in 1..Len(s) /\ Len(s) \in Nat /\ s[k] \in Nat
    OBVIOUS
  <2>4. CASE k = 1
    BY <2>2, <2>3, <2>4
  <2>5. CASE k # 1
    <3>1. k - 1 \in 1..Len(s) /\ k - 1 < k /\ k - 1 \in Nat
      BY <2>3, <2>5
    <3>2. k - 1 \notin Bad
      BY <3>1, <2>2
    <3>3. s[k-1] >= low + (k - 1) /\ s[k-1] \in Nat
      BY <3>1, <3>2
    <3>4. s[k-1] < s[k]
      BY <3>1, <2>3
    <3>5. s[k] >= low + k
      BY <3>3, <3>4, <2>3
    <3>6. QED
      BY <3>5, <2>2
  <2>6. QED
    BY <2>4, <2>5
<1>2. QED
  BY <1>1

\* LIMIT n, and the size of a queue: the first entries, all of them if they fit.
LEMMA FirstEntries ==
  ASSUME NEW S, NEW s \in Seq(S), NEW n \in Nat
  PROVE  /\ First(s, n) \in Seq(S)
         /\ Len(First(s, n)) = IF Len(s) < n THEN Len(s) ELSE n
         /\ \A k \in 1..Len(First(s, n)) : k \in 1..Len(s) /\ First(s, n)[k] = s[k]
         /\ ~ (Len(s) > n) => First(s, n) = s
BY DEF First

\* deque(maxlen): the last entries.
LEMMA LatestEntries ==
  ASSUME NEW S, NEW s \in Seq(S), NEW n \in Nat \ {0}
  PROVE  \E d \in Nat :
           /\ d <= Len(s)
           /\ Latest(s, n) \in Seq(S)
           /\ Len(Latest(s, n)) = Len(s) - d
           /\ \A k \in 1..Len(Latest(s, n)) : k + d \in 1..Len(s) /\ Latest(s, n)[k] = s[k + d]
<1>1. CASE Len(s) > n
  <2>1. Len(s) - n \in Nat /\ Len(s) - n <= Len(s)
    BY <1>1
  <2>2. Latest(s, n) = SubSeq(s, Len(s) - n + 1, Len(s))
    BY <1>1 DEF Latest
  <2>3. Latest(s, n) \in Seq(S) /\ Len(Latest(s, n)) = Len(s) - (Len(s) - n)
    BY <2>1, <2>2, <1>1
  <2>4. \A k \in 1..Len(Latest(s, n)) :
          k + (Len(s) - n) \in 1..Len(s) /\ Latest(s, n)[k] = s[k + (Len(s) - n)]
    BY <2>1, <2>2, <2>3, <1>1
  <2>5. QED
    BY <2>1, <2>3, <2>4
<1>2. CASE ~ (Len(s) > n)
  <2>1. Latest(s, n) = s
    BY <1>2 DEF Latest
  <2>2. QED
    BY <2>1
<1>3. QED
  BY <1>1, <1>2

\* The members of two sequences after each other.
LEMMA Joining ==
  ASSUME NEW S, NEW s \in Seq(S), NEW t \in Seq(S)
  PROVE  /\ s \o t \in Seq(S) /\ Len(s \o t) = Len(s) + Len(t)
         /\ \A k \in 1..Len(s) : (s \o t)[k] = s[k]
         /\ \A k \in 1..Len(t) : (s \o t)[Len(s) + k] = t[k]
         /\ ToSet(s \o t) = ToSet(s) \union ToSet(t)
<1>1. /\ s \o t \in Seq(S) /\ Len(s \o t) = Len(s) + Len(t)
      /\ \A k \in 1..Len(s) : (s \o t)[k] = s[k]
      /\ \A k \in 1..Len(t) : (s \o t)[Len(s) + k] = t[k]
  OBVIOUS
<1>2. ASSUME NEW x \in ToSet(s) \union ToSet(t)
      PROVE  x \in ToSet(s \o t)
  <2>1. CASE x \in ToSet(s)
    <3>1. PICK k \in 1..Len(s) : x = s[k]
      BY <2>1, Entries
    <3>2. k \in 1..Len(s \o t) /\ x = (s \o t)[k]
      BY <3>1, <1>1
    <3>3. QED
      BY <3>2, <1>1, Entries
  <2>2. CASE x \in ToSet(t)
    <3>1. PICK k \in 1..Len(t) : x = t[k]
      BY <2>2, Entries
    <3>2. Len(s) + k \in 1..Len(s \o t) /\ x = (s \o t)[Len(s) + k]
      BY <3>1, <1>1
    <3>3. QED
      BY <3>2, <1>1, Entries
  <2>3. QED
    BY <2>1, <2>2
<1>3. ASSUME NEW x \in ToSet(s \o t)
      PROVE  x \in ToSet(s) \union ToSet(t)
  <2>0. s \o t \in Seq(S)
    BY <1>1
  <2>1. PICK k \in 1..Len(s \o t) : x = (s \o t)[k]
    <3>1. PICK k \in DOMAIN (s \o t) : x = (s \o t)[k]
      BY <1>3 DEF ToSet
    <3>2. QED
      BY <3>1, <2>0
  <2>2. CASE k <= Len(s)
    <3>1. k \in 1..Len(s) /\ x = s[k]
      BY <2>1, <2>2, <1>1
    <3>2. QED
      BY <3>1, Entries
  <2>3. CASE ~ (k <= Len(s))
    <3>1. k - Len(s) \in 1..Len(t) /\ k = Len(s) + (k - Len(s))
      BY <2>1, <2>3, <1>1
    <3>2. x = t[k - Len(s)]
      BY <3>1, <2>1, <1>1
    <3>3. QED
      BY <3>1, <3>2, Entries
  <2>4. QED
    BY <2>2, <2>3
<1>4. QED
  BY <1>1, <1>2, <1>3

\* An append adds one member, at the end.
LEMMA Appending ==
  ASSUME NEW S, NEW s \in Seq(S), NEW x \in S
  PROVE  /\ Append(s, x) \in Seq(S) /\ Len(Append(s, x)) = Len(s) + 1
         /\ \A k \in 1..Len(s) : Append(s, x)[k] = s[k]
         /\ Append(s, x)[Len(s) + 1] = x
         /\ ToSet(Append(s, x)) = ToSet(s) \union {x}
<1>1. /\ Append(s, x) \in Seq(S) /\ Len(Append(s, x)) = Len(s) + 1
      /\ \A k \in 1..Len(s) : Append(s, x)[k] = s[k]
      /\ Append(s, x)[Len(s) + 1] = x
  OBVIOUS
<1>2. ASSUME NEW y \in ToSet(s) \union {x}
      PROVE  y \in ToSet(Append(s, x))
  <2>1. \E k \in 1..(Len(s) + 1) : y = Append(s, x)[k]
    <3>1. CASE y = x
      <4>1. Len(s) + 1 \in 1..(Len(s) + 1)
        BY Entries
      <4>2. QED
        BY <4>1, <3>1, <1>1
    <3>2. CASE y \in ToSet(s)
      <4>1. PICK k \in 1..Len(s) : y = s[k]
        BY <3>2, Entries
      <4>2. k \in 1..(Len(s) + 1)
        BY <4>1, Entries
      <4>3. QED
        BY <4>1, <4>2, <1>1
    <3>3. QED
      BY <3>1, <3>2
  <2>2. QED
    BY <2>1, <1>1, Entries
<1>3. ASSUME NEW y \in ToSet(Append(s, x))
      PROVE  y \in ToSet(s) \union {x}
  <2>0. Append(s, x) \in Seq(S) /\ Len(Append(s, x)) = Len(s) + 1
    BY <1>1
  <2>1. PICK k \in 1..(Len(s) + 1) : y = Append(s, x)[k]
    <3>1. PICK k \in DOMAIN Append(s, x) : y = Append(s, x)[k]
      BY <1>3 DEF ToSet
    <3>2. QED
      BY <3>1, <2>0
  <2>2. k \in 1..Len(s) \/ k = Len(s) + 1
    BY <2>1, Entries
  <2>3. QED
    BY <2>1, <2>2, <1>1, Entries
<1>4. QED
  BY <1>1, <1>2, <1>3

\* One message is taken from the front of a queue.
LEMMA Taking ==
  ASSUME NEW S, NEW s \in Seq(S), s # <<>>
  PROVE  /\ Tail(s) \in Seq(S) /\ Head(s) \in S
         /\ ToSet(s) \ {Head(s)} \subseteq ToSet(Tail(s))
<1>1. /\ Tail(s) \in Seq(S) /\ Head(s) \in S /\ Head(s) = s[1] /\ Len(Tail(s)) = Len(s) - 1
      /\ \A k \in 1..Len(Tail(s)) : Tail(s)[k] = s[k + 1]
  OBVIOUS
<1>2. ASSUME NEW x \in ToSet(s), x # Head(s)
      PROVE  x \in ToSet(Tail(s))
  <2>1. PICK k \in 1..Len(s) : x = s[k]
    BY Entries
  <2>2. k # 1
    BY <2>1, <1>1, <1>2
  <2>3. k - 1 \in 1..Len(Tail(s)) /\ (k - 1) + 1 = k
    BY <2>1, <2>2, <1>1, Entries
  <2>4. Tail(s)[k - 1] = x
    BY <2>3, <2>1, <1>1
  <2>5. QED
    BY <2>3, <2>4, <1>1, Entries
<1>3. QED
  BY <1>1, <1>2
\* The sizes are positive and the bounds are numbers.
LEMMA Sizes ==
  /\ BUFFER_SIZE \in Nat \ {0} /\ QUEUE_LIMIT \in Nat \ {0}
  /\ MAX_REPLAY \in Nat \ {0} /\ DrainLimit \in Nat \ {0}
  /\ MaxId \in Nat /\ Resync \in Nat /\ Ids \subseteq 1..Resync /\ Ids \subseteq Nat
  /\ Resync \in 1..Resync
BY SizesArePos, BoundsAreNat DEF Resync, Ids

\* SELECT ... WHERE event_id > low ORDER BY event_id LIMIT n (broker.py
\* _drain_events and replay): visible edges above low, in order, none left out below
\* the last, and all of those at most n above low.
LEMMA AboveReads ==
  ASSUME log \in Seq(Ids), NEW low \in Nat, NEW limit \in Nat
  PROVE  /\ Above(low, limit) \in Seq(Ids)
         /\ ToSet(Above(low, limit)) \subseteq {i \in Visible : i > low}
         /\ \A m, n \in DOMAIN Above(low, limit) :
              m < n => Above(low, limit)[m] < Above(low, limit)[n]
         /\ Above(low, limit) # <<>> =>
              \A i \in Visible : low < i /\ i <= Last(Above(low, limit)) =>
                                 i \in ToSet(Above(low, limit))
         /\ \A i \in Visible : low < i /\ i - low <= limit => i \in ToSet(Above(low, limit))
<1> DEFINE S == {i \in Visible : i > low}
           a == Ascending(S)
           f == First(a, limit)
<1>1. S \in SUBSET (1..MaxId) /\ S \subseteq Nat
  BY Sizes, Entries DEF Visible, Ids
<1>2. /\ a \in Seq(S) /\ Len(a) = Cardinality(S) /\ ToSet(a) = S
      /\ \A m, n \in 1..Len(a) : m < n => a[m] < a[n]
  BY <1>1, Sizes, AscendingOrders
<1>3. f = Above(low, limit)
  BY DEF Above
<1> HIDE DEF S, a, f
<1>4. /\ f \in Seq(S) /\ Len(f) = (IF Len(a) < limit THEN Len(a) ELSE limit)
      /\ \A k \in 1..Len(f) : k \in 1..Len(a) /\ f[k] = a[k]
  BY <1>2, FirstEntries DEF f
<1>5. Len(a) \in Nat /\ Len(f) \in Nat
  BY <1>2, <1>4
<1>6. /\ DOMAIN f = 1..Len(f) /\ ToSet(f) \subseteq S
      /\ \A k \in 1..Len(f) : f[k] \in ToSet(f) /\ f[k] \in S
  BY <1>4, Entries
<1>7. f \in Seq(Ids)
  <2>1. S \subseteq Ids
    BY <1>1 DEF Ids
  <2>2. QED
    BY <1>4, <2>1
<1>8. \A m, n \in DOMAIN f : m < n => f[m] < f[n]
  BY <1>2, <1>4, <1>6
<1>9. ASSUME f # <<>>, NEW i \in Visible, low < i, i <= Last(f)
      PROVE  i \in ToSet(f)
  <2>1. i \in S /\ i \in Nat
    BY <1>9, <1>1 DEF S
  <2>2. PICK k \in 1..Len(a) : i = a[k]
    BY <2>1, <1>2, Entries
  <2>3. Len(f) \in 1..Len(f) /\ Last(f) = f[Len(f)]
    BY <1>9, <1>7, <1>5, Entries DEF Last
  <2>4. Last(f) = a[Len(f)] /\ Len(f) \in 1..Len(a)
    BY <2>3, <1>4
  <2>5. k <= Len(f)
    <3>1. ASSUME ~ (k <= Len(f))
          PROVE  FALSE
      <4>1. a[Len(f)] < a[k]
        BY <3>1, <2>2, <2>4, <1>2, <1>5
      <4>2. Last(f) \in Nat
        BY <2>3, <1>6, <1>1
      <4>3. QED
        BY <4>1, <4>2, <2>1, <2>2, <2>4, <1>9
    <3>2. QED
      BY <3>1
  <2>6. k \in 1..Len(f)
    BY <2>5, <2>2, <1>5
  <2>7. QED
    BY <2>6, <2>2, <1>4, <1>6
<1>10. ASSUME NEW i \in Visible, low < i, i - low <= limit
       PROVE  i \in ToSet(f)
  <2>1. i \in S /\ i \in Nat
    BY <1>10, <1>1 DEF S
  <2>2. PICK k \in 1..Len(a) : i = a[k]
    BY <2>1, <1>2, Entries
  <2>3. a \in Seq(Nat)
    <3>1. \A n \in 1..Len(a) : a[n] \in Nat
      BY <1>1, <1>2, Entries
    <3>2. a \in [1..Len(a) -> Nat] /\ Len(a) \in Nat
      BY <3>1, <1>2
    <3>3. QED
      BY <3>2
  <2>4. \A n \in 1..Len(a) : a[n] > low
    BY <1>2 DEF S
  <2>5. a[k] >= low + k
    BY <2>3, <2>4, <1>2, AscendingGrows
  <2>6. k <= limit /\ k <= Len(a) /\ k >= 1
    <3>1. i >= low + k /\ k \in Nat /\ k <= Len(a) /\ k >= 1
      BY <2>2, <2>5, <1>5
    <3>2. k <= i - low
      BY <3>1, <2>1
    <3>3. QED
      BY <3>1, <3>2, <2>1, <1>10
  <2>7. k \in 1..Len(f)
    BY <2>6, <2>2, <1>4, <1>5
  <2>8. QED
    BY <2>7, <2>2, <1>4, <1>6
<1>11. ToSet(f) \subseteq {i \in Visible : i > low}
  BY <1>6 DEF S
<1>12. QED
  BY <1>3, <1>7, <1>8, <1>9, <1>10, <1>11

\* [m for m in self._buffer if m.event_id > last] (broker.py replay).
LEMMA BufferAboveReads ==
  ASSUME buffer \in Seq(Ids), NEW low \in Nat
  PROVE  /\ BufferAbove(low) \in Seq(Ids)
         /\ \A i \in ToSet(buffer) : i > low => i \in ToSet(BufferAbove(low))
         /\ ToSet(BufferAbove(low)) \subseteq ToSet(buffer)
<1> DEFINE S == {k \in DOMAIN buffer : buffer[k] > low}
           a == Ascending(S)
           b == [k \in DOMAIN a |-> buffer[a[k]]]
<1>1. Len(buffer) \in Nat /\ DOMAIN buffer = 1..Len(buffer) /\ S \in SUBSET (1..Len(buffer))
  BY Entries
<1>2. a \in Seq(S) /\ ToSet(a) = S
  BY <1>1, AscendingOrders
<1>3. b = BufferAbove(low)
  BY DEF BufferAbove
<1> HIDE DEF a
<1>4. Len(a) \in Nat /\ DOMAIN a = 1..Len(a) /\ \A k \in 1..Len(a) : a[k] \in S
  BY <1>2
<1>5. \A k \in 1..Len(a) : buffer[a[k]] \in Ids
  BY <1>1, <1>4
<1>6. b \in Seq(Ids) /\ Len(b) = Len(a) /\ \A k \in 1..Len(a) : b[k] = buffer[a[k]]
  <2>1. b \in [1..Len(a) -> Ids]
    BY <1>4, <1>5
  <2>2. QED
    BY <2>1, <1>4
<1> HIDE DEF b
<1>7. ASSUME NEW i \in ToSet(buffer), i > low
      PROVE  i \in ToSet(b)
  <2>1. PICK k \in 1..Len(buffer) : i = buffer[k]
    BY Entries
  <2>2. k \in ToSet(a)
    BY <2>1, <1>7, <1>1, <1>2
  <2>3. PICK n \in 1..Len(a) : k = a[n]
    BY <2>2, <1>2, Entries
  <2>4. n \in 1..Len(b) /\ b[n] = i
    BY <2>3, <2>1, <1>6
  <2>5. QED
    BY <2>4, <1>6, Entries
<1>8. ToSet(b) \subseteq ToSet(buffer)
  <2>1. DOMAIN b = 1..Len(a) /\ \A k \in 1..Len(a) : b[k] \in ToSet(buffer)
    BY <1>1, <1>4, <1>6, Entries
  <2>2. QED
    BY <2>1 DEF ToSet
<1>9. QED
  BY <1>3, <1>6, <1>7, <1>8
-----------------------------------------------------------------------------
(* The broker implements the feed: what is left to show when the log grows, and *)
(* when neither the log nor the broker moves.                                   *)

\* An edge that was overtaken stays so when the log grows.
LEMMA OvertakenStays ==
  ASSUME log \in Seq(Ids), NEW x \in Ids, log' = Append(log, x), NEW i, Feed!Overtaken(i)
  PROVE  Feed!Overtaken(i)'
<1>1. PICK m \in DOMAIN log, n \in DOMAIN log : m < n /\ log[n] = i /\ log[m] > i
  BY DEF Feed!Overtaken
<1>2. DOMAIN log = 1..Len(log) /\ Len(log) \in Nat
  OBVIOUS
<1>3. DOMAIN log' = 1..(Len(log) + 1) /\ \A k \in 1..Len(log) : log'[k] = log[k]
  BY Appending
<1>4. m \in DOMAIN log' /\ n \in DOMAIN log' /\ log'[n] = i /\ log'[m] > i
  BY <1>1, <1>2, <1>3
<1>5. QED
  BY <1>1, <1>4 DEF Feed!Overtaken

\* An edge that becomes visible below a visible one is overtaken.
LEMMA NewlyOvertaken ==
  ASSUME log \in Seq(Ids), NEW x \in Ids, log' = Append(log, x),
         NEW j \in Visible, j > x
  PROVE  Feed!Overtaken(x)'
<1>1. PICK m \in 1..Len(log) : j = log[m]
  BY Entries DEF Visible
<1>2. Len(log) \in Nat
  OBVIOUS
<1>3. /\ DOMAIN log' = 1..(Len(log) + 1) /\ \A k \in 1..Len(log) : log'[k] = log[k]
      /\ log'[Len(log) + 1] = x
  BY Appending
<1>4. m \in DOMAIN log' /\ Len(log) + 1 \in DOMAIN log' /\ m < Len(log) + 1 /\ log'[m] = j
  BY <1>1, <1>2, <1>3
<1>5. QED
  BY <1>3, <1>4 DEF Feed!Overtaken

\* An edge is gone when it is visible, passed, unsent and in nobody's hands.
LEMMA GoneMeans ==
  \A i : i \in Gone <=> /\ i \in Visible /\ i <= watermark /\ i \notin pub
                        /\ \A t \in Tasks : i \notin ToSet(rows[t])
BY DEF Gone

\* The invariants about ids hold numbers.
LEMMA IdsAreNumbers ==
  ASSUME FeedInv
  PROVE  /\ Visible \subseteq Ids /\ pub \subseteq Ids /\ Ids \subseteq Nat
         /\ watermark \in Nat /\ watermark <= drawn /\ drawn \in Nat
         /\ \A i \in Visible : i \in Nat /\ i >= 1
<1>1. Visible \subseteq Ids /\ Ids \subseteq Nat /\ \A i \in Ids : i >= 1
  BY Entries, Sizes DEF FeedInv, LogInv, Visible, Ids
<1>2. watermark \in Nat /\ drawn \in Nat
  BY <1>1 DEF FeedInv, SentInv, LogInv
<1>3. watermark <= drawn
  BY <1>1, <1>2 DEF FeedInv, SentInv, LogInv
<1>4. QED
  BY <1>1, <1>2, <1>3 DEF FeedInv, SentInv

\* The last row of a drain is one of its rows.
LEMMA LastRow ==
  ASSUME RowsInv, NEW t \in Tasks, rows[t] # <<>>
  PROVE  Last(rows[t]) \in ToSet(rows[t]) /\ Last(rows[t]) \in Visible
<1>1. rows[t] \in Seq(Ids) /\ Len(rows[t]) \in Nat
  BY DEF RowsInv
<1>2. Len(rows[t]) \in 1..Len(rows[t])
  BY <1>1, Entries
<1>3. QED
  BY <1>1, <1>2, Entries DEF Last, RowsInv

\* An edge becomes visible (commit, or an acknowledgement in autocommit) while the
\* broker does nothing: a step of the feed's Add.
LEMMA GrowingLog ==
  ASSUME FeedInv, NEW x \in Ids \ Visible, log' = Append(log, x), UNCHANGED broker
  PROVE  /\ Visible' = Visible \union {x}
         /\ log' \in Seq(Ids) /\ \A m, n \in DOMAIN log' : log'[m] = log'[n] => m = n
         /\ RowsInv' /\ SentInv' /\ DrainsAreWhole' /\ PassedIsSettled'
         /\ Feed!Add
<1> USE DEF broker
<1>1. log \in Seq(Ids) /\ x \in Ids /\ \A i \in Visible : i \in Nat
  BY IdsAreNumbers DEF FeedInv, LogInv
<1>2. /\ log' \in Seq(Ids) /\ Len(log') = Len(log) + 1 /\ Visible' = Visible \union {x}
      /\ \A k \in 1..Len(log) : log'[k] = log[k]
      /\ log'[Len(log) + 1] = x
  BY <1>1, Appending DEF Visible
<1>3. \A m, n \in DOMAIN log' : log'[m] = log'[n] => m = n
  <2>1. /\ DOMAIN log' = 1..(Len(log) + 1) /\ DOMAIN log = 1..Len(log) /\ Len(log) \in Nat
        /\ \A k \in 1..Len(log) : log[k] # x
    BY <1>1, <1>2, Entries DEF Visible
  <2>2. \A k \in DOMAIN log' : k = Len(log) + 1 \/ k \in 1..Len(log)
    BY <2>1
  <2>3. \A m, n \in DOMAIN log : log[m] = log[n] => m = n
    BY DEF FeedInv, LogInv
  <2>4. QED
    BY <2>1, <2>2, <2>3, <1>2
<1>4. RowsInv'
  <2>1. rows' = rows
    OBVIOUS
  <2>2. QED
    BY <2>1, <1>2 DEF FeedInv, RowsInv
<1>5. SentInv'
  BY <1>2 DEF FeedInv, SentInv
<1>6. DrainsAreWhole'
  <2>1. SUFFICES ASSUME NEW t \in Tasks, NEW i \in Visible',
                        rows[t] # <<>>, i <= Last(rows[t]), i \notin ToSet(rows[t]),
                        ~ (i <= watermark)
                 PROVE  Feed!Overtaken(i)'
    BY DEF DrainsAreWhole
  <2>2. CASE i \in Visible
    <3>1. Feed!Overtaken(i)
      BY <2>1, <2>2 DEF FeedInv, DrainsAreWhole
    <3>2. QED
      BY <3>1, <1>1, OvertakenStays
  <2>3. CASE i \notin Visible
    <3>1. i = x
      BY <2>3, <1>2
    <3>2. Last(rows[t]) \in Visible /\ Last(rows[t]) \in ToSet(rows[t])
      BY <2>1, LastRow DEF FeedInv
    <3>3. Last(rows[t]) > x
      BY <2>1, <2>3, <3>1, <3>2, <1>1, Sizes
    <3>4. QED
      BY <3>1, <3>2, <3>3, <1>1, NewlyOvertaken
  <2>4. QED
    BY <2>2, <2>3
<1>7. \A i \in Visible : i \in Gone' <=> i \in Gone
  <2>1. \A i : i \in Gone' <=> /\ i \in Visible' /\ i <= watermark' /\ i \notin pub'
                               /\ \A t \in Tasks : i \notin ToSet(rows'[t])
    BY DEF Gone, Visible
  <2>2. QED
    BY <2>1, <1>2, GoneMeans
<1>8. x \in Gone' <=> x <= watermark
  <2>1. \A i : i \in Gone' <=> /\ i \in Visible' /\ i <= watermark' /\ i \notin pub'
                               /\ \A t \in Tasks : i \notin ToSet(rows'[t])
    BY DEF Gone, Visible
  <2>2. x \notin pub /\ \A t \in Tasks : x \notin ToSet(rows[t])
    BY DEF FeedInv, SentInv, RowsInv
  <2>3. QED
    BY <2>1, <2>2, <1>2
<1>9. x <= watermark => watermark \in Visible /\ watermark > x
  <2>1. watermark \in {0} \union Visible /\ watermark \in Nat /\ x >= 1 /\ x \in Nat
    BY IdsAreNumbers, Sizes DEF FeedInv, SentInv, Ids
  <2>2. QED
    BY <2>1
<1>10. PassedIsSettled'
  <2>1. SUFFICES ASSUME NEW i \in Visible', i <= watermark, i \notin pub, i \notin Gone'
                 PROVE  Feed!Overtaken(i)'
    BY DEF PassedIsSettled
  <2>2. CASE i \in Visible
    <3>1. Feed!Overtaken(i)
      BY <2>1, <2>2, <1>7 DEF FeedInv, PassedIsSettled
    <3>2. QED
      BY <3>1, <1>1, OvertakenStays
  <2>3. CASE i = x
    BY <2>1, <2>3, <1>1, <1>9, NewlyOvertaken
  <2>4. QED
    BY <2>2, <2>3, <1>2
<1>11. Feed!Add
  <2>1. Gone \subseteq Visible /\ Gone' \subseteq Visible \union {x} /\ x \notin Gone
    BY <1>2, GoneMeans DEF Gone
  <2>2. Gone' = Gone \/ (Gone' = Gone \union {x} /\ \E j \in Visible : j > x)
    <3>1. CASE x <= watermark
      BY <3>1, <2>1, <1>7, <1>8, <1>9
    <3>2. CASE ~ (x <= watermark)
      BY <3>2, <2>1, <1>7, <1>8
    <3>3. QED
      BY <3>1, <3>2
  <2>3. Feed!Visible = Visible
    BY DEF Feed!Visible, Visible, Feed!ToSet, ToSet
  <2>4. QED
    BY <2>2, <2>3 DEF Feed!Add
<1>12. QED
  BY <1>2, <1>3, <1>4, <1>5, <1>6, <1>10, <1>11

\* Steps of the writers and of the browser that neither append to the log nor move
\* the broker are no steps of the feed.
LEMMA FeedStutters ==
  ASSUME FeedInv, UNCHANGED <<log, broker>>
  PROVE  /\ RowsInv' /\ SentInv' /\ DrainsAreWhole' /\ PassedIsSettled'
         /\ UNCHANGED Feed!feed
<1>1. UNCHANGED <<log, watermark, rows, pub>>
  BY DEF broker
<1>2. Visible' = Visible /\ Gone' = Gone
  BY <1>1 DEF Visible, Gone
<1>3. RowsInv' /\ SentInv'
  BY <1>1, <1>2 DEF FeedInv, RowsInv, SentInv
<1>4. \A i : Feed!Overtaken(i)' <=> Feed!Overtaken(i)
  BY <1>1 DEF Feed!Overtaken
<1>5. DrainsAreWhole'
  BY <1>1, <1>2, <1>4 DEF FeedInv, DrainsAreWhole
<1>6. PassedIsSettled'
  BY <1>1, <1>2, <1>4 DEF FeedInv, PassedIsSettled
<1>7. UNCHANGED Feed!feed
  BY <1>1, <1>2 DEF Feed!feed
<1>8. QED
  BY <1>3, <1>5, <1>6, <1>7
-----------------------------------------------------------------------------
(* One lemma per kind of step: the invariant is kept and the feed makes a step *)
(* or none.                                                                    *)

\* A step of the feed, or none.
FeedStep == Feed!FeedNext \/ UNCHANGED Feed!feed

\* Steps that touch neither the log, its sequence, its open transactions nor the
\* broker: acknowledge, a lost edge of it, and all that the browser does.
LEMMA ElsewhereFeeds ==
  ASSUME FeedInv, UNCHANGED <<drawn, flying, log, broker>>
  PROVE  FeedInv' /\ FeedStep
<1>1. RowsInv' /\ SentInv' /\ DrainsAreWhole' /\ PassedIsSettled' /\ UNCHANGED Feed!feed
  BY FeedStutters
<1>2. LogInv'
  BY DEF FeedInv, LogInv, Visible
<1>3. QED
  BY <1>1, <1>2 DEF FeedInv, FeedStep

\* emit draws the next id: it was neither visible nor in another transaction.
LEMMA EmitFeeds ==
  ASSUME FeedInv, NEW kind, NEW n, NEW touch \in SUBSET Notes, Emit(kind, n, touch),
         UNCHANGED <<log, broker>>
  PROVE  FeedInv' /\ FeedStep
<1> DEFINE e == [id |-> drawn + 1, touch |-> touch]
<1>1. RowsInv' /\ SentInv' /\ DrainsAreWhole' /\ PassedIsSettled' /\ UNCHANGED Feed!feed
  BY FeedStutters
<1>2. drawn \in 0..MaxId /\ drawn < MaxId /\ drawn' = drawn + 1 /\ flying' = flying \union {e}
  BY DEF Emit, FeedInv, LogInv
<1>3. drawn + 1 \in Ids /\ drawn + 1 \in 0..MaxId /\ drawn \in Nat
  BY <1>2, Sizes DEF Ids
<1>4. e \in Txn /\ e.id = drawn + 1
  BY <1>3 DEF Txn
<1> HIDE DEF e
<1>5. Visible' = Visible /\ \A i \in Visible : i \in Nat /\ i <= drawn
  BY IdsAreNumbers DEF Visible, FeedInv, LogInv
<1>6. \A t \in flying : t \in Txn /\ t.id \in Nat /\ t.id <= drawn /\ t.id \notin Visible
  BY Sizes DEF FeedInv, LogInv, Txn
<1>7. flying' \subseteq Txn
  BY <1>2, <1>4, <1>6
<1>8. \A t \in flying' : t.id <= drawn' /\ t.id \notin Visible'
  <2>1. drawn + 1 \notin Visible
    BY <1>3, <1>5
  <2>2. \A t \in flying : t.id <= drawn + 1
    BY <1>3, <1>6
  <2>3. QED
    BY <1>2, <1>3, <1>4, <1>5, <1>6, <2>1, <2>2
<1>9. \A t, u \in flying' : t.id = u.id => t = u
  <2>1. \A t \in flying : t.id # e.id
    BY <1>3, <1>4, <1>6
  <2>2. QED
    BY <2>1, <1>2 DEF FeedInv, LogInv
<1>10. LogInv'
  <2>1. \A i \in Visible' : i <= drawn'
    BY <1>2, <1>3, <1>5
  <2>2. drawn' \in 0..MaxId /\ log' = log
    BY <1>2, <1>3
  <2>3. QED
    BY <2>1, <2>2, <1>7, <1>8, <1>9 DEF FeedInv, LogInv
<1>11. QED
  BY <1>1, <1>10 DEF FeedInv, FeedStep

\* A transaction rolls back: its id never becomes visible.
LEMMA RollBackFeeds ==
  ASSUME FeedInv, RollBack
  PROVE  FeedInv' /\ FeedStep
<1>1. UNCHANGED <<log, broker, drawn>> /\ flying' \subseteq flying
  BY DEF RollBack
<1>2. RowsInv' /\ SentInv' /\ DrainsAreWhole' /\ PassedIsSettled' /\ UNCHANGED Feed!feed
  BY <1>1, FeedStutters
<1>3. Visible' = Visible
  BY <1>1 DEF Visible
<1>4. LogInv'
  BY <1>1, <1>3 DEF FeedInv, LogInv
<1>5. QED
  BY <1>2, <1>4 DEF FeedInv, FeedStep

\* A transaction commits: its edge becomes visible, the feed's Add.
LEMMA CommitFeeds ==
  ASSUME FeedInv, Commit
  PROVE  FeedInv' /\ FeedStep
<1>1. PICK t \in flying : flying' = flying \ {t} /\ log' = Append(log, t.id)
  BY DEF Commit
<1>2. UNCHANGED broker /\ UNCHANGED drawn
  BY DEF Commit
<1>3. t.id \in Ids /\ t.id \notin Visible /\ t.id <= drawn
  BY <1>1 DEF FeedInv, LogInv, Txn
<1>4. /\ Visible' = Visible \union {t.id}
      /\ log' \in Seq(Ids) /\ \A m, n \in DOMAIN log' : log'[m] = log'[n] => m = n
      /\ RowsInv' /\ SentInv' /\ DrainsAreWhole' /\ PassedIsSettled'
      /\ Feed!Add
  BY <1>1, <1>2, <1>3, GrowingLog
<1>5. \A u \in flying' : u \in flying /\ u.id # t.id
  BY <1>1 DEF FeedInv, LogInv
<1>6. LogInv'
  <2>1. \A u \in flying' : u.id <= drawn' /\ u.id \notin Visible'
    BY <1>2, <1>4, <1>5 DEF FeedInv, LogInv
  <2>2. \A i \in Visible' : i <= drawn'
    BY <1>2, <1>3, <1>4 DEF FeedInv, LogInv
  <2>3. flying' \subseteq Txn /\ \A u, v \in flying' : u.id = v.id => u = v
    BY <1>5 DEF FeedInv, LogInv
  <2>4. drawn' \in 0..MaxId
    BY <1>2 DEF FeedInv, LogInv
  <2>5. QED
    BY <2>1, <2>2, <2>3, <2>4, <1>4 DEF LogInv
<1>7. QED
  BY <1>4, <1>6 DEF FeedInv, FeedStep, Feed!FeedNext

\* The edge of an acknowledgement is drawn and visible at once.
LEMMA EmitAckFeeds ==
  ASSUME FeedInv, EmitAck
  PROVE  FeedInv' /\ FeedStep
<1>1. /\ drawn < MaxId /\ drawn' = drawn + 1 /\ log' = Append(log, drawn + 1)
      /\ UNCHANGED <<flying, broker>>
  BY DEF EmitAck
<1>2. drawn \in Nat /\ drawn + 1 \in Ids /\ drawn + 1 \in 0..MaxId
  BY <1>1, Sizes DEF FeedInv, LogInv, Ids
<1>3. \A i \in Visible : i \in Nat /\ i <= drawn
  BY IdsAreNumbers DEF FeedInv, LogInv
<1>4. drawn + 1 \notin Visible
  BY <1>2, <1>3
<1>5. /\ Visible' = Visible \union {drawn + 1}
      /\ log' \in Seq(Ids) /\ \A m, n \in DOMAIN log' : log'[m] = log'[n] => m = n
      /\ RowsInv' /\ SentInv' /\ DrainsAreWhole' /\ PassedIsSettled'
      /\ Feed!Add
  BY <1>1, <1>2, <1>4, GrowingLog
<1>6. \A t \in flying : t.id \in Nat /\ t.id <= drawn /\ t.id \notin Visible
  BY Sizes DEF FeedInv, LogInv, Txn
<1>7. LogInv'
  <2>1. \A t \in flying' : t.id <= drawn' /\ t.id \notin Visible'
    BY <1>1, <1>2, <1>5, <1>6
  <2>2. \A i \in Visible' : i <= drawn'
    BY <1>1, <1>2, <1>3, <1>5
  <2>3. flying' \subseteq Txn /\ \A u, v \in flying' : u.id = v.id => u = v
    BY <1>1 DEF FeedInv, LogInv
  <2>4. drawn' \in 0..MaxId
    BY <1>1, <1>2
  <2>5. QED
    BY <2>1, <2>2, <2>3, <2>4, <1>5 DEF LogInv
<1>8. QED
  BY <1>5, <1>7 DEF FeedInv, FeedStep, Feed!FeedNext
\* What the steps of the broker leave alone.
LEMMA TableIsKept ==
  ASSUME FeedInv, UNCHANGED db
  PROVE  /\ LogInv' /\ log' = log /\ Visible' = Visible
         /\ \A i : Feed!Overtaken(i)' <=> Feed!Overtaken(i)
         /\ Feed!Visible = Visible
<1>1. UNCHANGED <<drawn, flying, log>>
  BY DEF db
<1>2. Visible' = Visible
  BY <1>1 DEF Visible
<1>3. LogInv'
  BY <1>1, <1>2 DEF FeedInv, LogInv
<1>4. \A i : Feed!Overtaken(i)' <=> Feed!Overtaken(i)
  BY <1>1 DEF Feed!Overtaken
<1>5. Feed!Visible = Visible
  BY DEF Feed!Visible, Visible, Feed!ToSet, ToSet
<1>6. QED
  BY <1>1, <1>2, <1>3, <1>4, <1>5

\* _drain_events reads above the watermark: what it reads was not passed before, so
\* nothing is less gone, and between the watermark and its last row it is whole.
LEMMA ReadFeeds ==
  ASSUME FeedInv, NEW t \in Tasks, Read(t)
  PROVE  FeedInv' /\ FeedStep
<1> DEFINE got == Above(watermark, DrainLimit)
<1>1. /\ rows[t] = <<>> /\ got # <<>> /\ rows' = [rows EXCEPT ![t] = got]
      /\ UNCHANGED <<db, watermark, pub>>
  BY DEF Read
<1>2. /\ LogInv' /\ log' = log /\ Visible' = Visible
      /\ \A i : Feed!Overtaken(i)' <=> Feed!Overtaken(i)
  BY <1>1, TableIsKept
<1>3. /\ got \in Seq(Ids) /\ ToSet(got) \subseteq {i \in Visible : i > watermark}
      /\ \A m, n \in DOMAIN got : m < n => got[m] < got[n]
      /\ \A i \in Visible : watermark < i /\ i <= Last(got) => i \in ToSet(got)
  BY <1>1, IdsAreNumbers, Sizes, AboveReads DEF FeedInv, LogInv
<1> HIDE DEF got
<1>4. rows'[t] = got /\ \A u \in Tasks : u # t => rows'[u] = rows[u]
  BY <1>1 DEF FeedInv, RowsInv
<1>5. RowsInv'
  <2>1. rows' \in [Tasks -> Seq(Ids)]
    BY <1>1, <1>3 DEF FeedInv, RowsInv
  <2>2. \A u \in Tasks : ToSet(rows'[u]) \subseteq Visible'
    BY <1>2, <1>3, <1>4 DEF FeedInv, RowsInv
  <2>3. ASSUME NEW u \in Tasks
        PROVE  \A m, n \in DOMAIN rows'[u] : m < n => rows'[u][m] < rows'[u][n]
    <3>1. CASE u = t
      BY <3>1, <1>3, <1>4
    <3>2. CASE u # t
      BY <3>2, <1>4 DEF FeedInv, RowsInv
    <3>3. QED
      BY <3>1, <3>2
  <2>4. QED
    BY <2>1, <2>2, <2>3 DEF RowsInv
<1>6. SentInv'
  BY <1>1, <1>2 DEF FeedInv, SentInv
<1>7. DrainsAreWhole'
  <2>1. SUFFICES ASSUME NEW u \in Tasks, NEW i \in Visible, rows'[u] # <<>>,
                        i <= Last(rows'[u]), ~ (i <= watermark)
                 PROVE  i \in ToSet(rows'[u]) \/ Feed!Overtaken(i)
    BY <1>1, <1>2 DEF DrainsAreWhole
  <2>2. CASE u = t
    <3>1. i \in Nat /\ watermark \in Nat
      BY IdsAreNumbers
    <3>2. watermark < i
      BY <3>1, <2>1
    <3>3. QED
      BY <3>2, <2>1, <2>2, <1>3, <1>4
  <2>3. CASE u # t
    <3>1. rows'[u] = rows[u]
      BY <2>3, <1>4
    <3>2. QED
      BY <3>1, <2>1 DEF FeedInv, DrainsAreWhole
  <2>4. QED
    BY <2>2, <2>3
<1>8. Gone' = Gone
  <2>1. \A i : i \in Gone' <=> /\ i \in Visible /\ i <= watermark /\ i \notin pub
                               /\ \A u \in Tasks : i \notin ToSet(rows'[u])
    BY <1>1, <1>2 DEF Gone
  <2>2. \A i \in Visible : i <= watermark => i \notin ToSet(got)
    <3>1. \A i \in Visible : i <= watermark => ~ (i > watermark)
      BY IdsAreNumbers
    <3>2. QED
      BY <3>1, <1>3
  <2>3. ToSet(rows[t]) = {}
    BY <1>1 DEF ToSet
  <2>4. \A i \in Visible : i <= watermark =>
          ((\A u \in Tasks : i \notin ToSet(rows'[u])) <=> (\A u \in Tasks : i \notin ToSet(rows[u])))
    BY <2>2, <2>3, <1>4
  <2>5. \A i : i \in Gone' <=> i \in Gone
    BY <2>1, <2>4, GoneMeans
  <2>6. QED
    BY <2>5
<1>9. PassedIsSettled'
  BY <1>1, <1>2, <1>8 DEF FeedInv, PassedIsSettled
<1>10. UNCHANGED Feed!feed
  BY <1>1, <1>2, <1>8 DEF Feed!feed
<1>11. QED
  BY <1>2, <1>5, <1>6, <1>7, <1>9, <1>10 DEF FeedInv, FeedStep

\* A task that lets go of its rows, having sent them or not, keeps the other tasks'.
LEMMA LettingGo ==
  ASSUME RowsInv, NEW t \in Tasks, rows' = [rows EXCEPT ![t] = <<>>], Visible' = Visible
  PROVE  /\ RowsInv' /\ rows'[t] = <<>> /\ ToSet(rows'[t]) = {}
         /\ \A u \in Tasks : u # t => rows'[u] = rows[u]
<1>1. rows'[t] = <<>> /\ \A u \in Tasks : u # t => rows'[u] = rows[u]
  BY DEF RowsInv
<1>2. ToSet(rows'[t]) = {}
  BY <1>1 DEF ToSet
<1>3. rows' \in [Tasks -> Seq(Ids)]
  BY DEF RowsInv
<1>4. ASSUME NEW u \in Tasks
      PROVE  /\ ToSet(rows'[u]) \subseteq Visible'
             /\ \A m, n \in DOMAIN rows'[u] : m < n => rows'[u][m] < rows'[u][n]
  <2>1. CASE u = t
    BY <2>1, <1>1, <1>2
  <2>2. CASE u # t
    BY <2>2, <1>1 DEF RowsInv
  <2>3. QED
    BY <2>1, <2>2
<1>5. QED
  BY <1>1, <1>2, <1>3, <1>4 DEF RowsInv

\* The connection fails and the rows are lost: what another task's watermark has
\* passed meanwhile was overtaken, the rest will be read again.  A step of the
\* feed's Send that sends nothing.
LEMMA ReadFailsFeeds ==
  ASSUME FeedInv, NEW t \in Tasks, ReadFails(t)
  PROVE  FeedInv' /\ FeedStep
<1>1. rows' = [rows EXCEPT ![t] = <<>>] /\ UNCHANGED <<db, watermark, pub>>
  BY DEF ReadFails
<1>2. /\ LogInv' /\ log' = log /\ Visible' = Visible /\ Feed!Visible = Visible
      /\ \A i : Feed!Overtaken(i)' <=> Feed!Overtaken(i)
  BY <1>1, TableIsKept
<1>3. /\ RowsInv' /\ rows'[t] = <<>> /\ ToSet(rows'[t]) = {}
      /\ \A u \in Tasks : u # t => rows'[u] = rows[u]
  BY <1>1, <1>2, LettingGo DEF FeedInv
<1>4. SentInv'
  BY <1>1, <1>2 DEF FeedInv, SentInv
<1>5. DrainsAreWhole'
  BY <1>1, <1>2, <1>3 DEF FeedInv, DrainsAreWhole
<1>6. \A i : i \in Gone' <=> /\ i \in Visible /\ i <= watermark /\ i \notin pub
                             /\ \A u \in Tasks : i \notin ToSet(rows'[u])
  BY <1>1, <1>2 DEF Gone
<1>7. Gone \subseteq Gone'
  BY <1>3, <1>6, GoneMeans
<1>8. PassedIsSettled'
  BY <1>1, <1>2, <1>7 DEF FeedInv, PassedIsSettled
<1>9. \A i \in Gone' \ Gone : i \in Visible \ pub' /\ Feed!Overtaken(i)
  BY <1>1, <1>6 DEF FeedInv, PassedIsSettled
<1>10. Feed!Send
  BY <1>1, <1>2, <1>7, <1>9 DEF Feed!Send, FeedInv, SentInv
<1>11. QED
  BY <1>2, <1>3, <1>4, <1>5, <1>8, <1>10 DEF FeedInv, FeedStep, Feed!FeedNext

\* The rows are published and the watermark is raised to the last of them: what it
\* passes without sending was overtaken.
LEMMA PublishFeeds ==
  ASSUME FeedInv, NEW t \in Tasks, Publish(t)
  PROVE  FeedInv' /\ FeedStep
<1>1. /\ rows[t] # <<>> /\ rows' = [rows EXCEPT ![t] = <<>>] /\ UNCHANGED db
      /\ watermark' = RaisedTo(t) /\ pub' = pub \union ToSet(rows[t])
  BY DEF Publish
<1>2. /\ LogInv' /\ log' = log /\ Visible' = Visible /\ Feed!Visible = Visible
      /\ \A i : Feed!Overtaken(i)' <=> Feed!Overtaken(i)
  BY <1>1, TableIsKept
<1>3. /\ RowsInv' /\ rows'[t] = <<>> /\ ToSet(rows'[t]) = {}
      /\ \A u \in Tasks : u # t => rows'[u] = rows[u]
  BY <1>1, <1>2, LettingGo DEF FeedInv
<1>4. /\ Last(rows[t]) \in ToSet(rows[t]) /\ Last(rows[t]) \in Visible
      /\ Last(rows[t]) \in Nat /\ watermark \in Nat
  BY <1>1, LastRow, IdsAreNumbers DEF FeedInv
<1>5. /\ watermark' \in Nat /\ watermark' >= watermark /\ watermark' >= Last(rows[t])
      /\ watermark' = watermark \/ watermark' = Last(rows[t])
  BY <1>1, <1>4 DEF RaisedTo
<1>6. \A i \in ToSet(rows[t]) : i \in Visible /\ i \in Nat /\ i <= Last(rows[t])
  <2>1. \A i \in ToSet(rows[t]) : i \in Visible /\ i \in Nat
    BY IdsAreNumbers DEF FeedInv, RowsInv
  <2>2. rows[t] \in Seq(Ids) /\ Len(rows[t]) \in Nat
    BY DEF FeedInv, RowsInv
  <2>3. ASSUME NEW i \in ToSet(rows[t])
        PROVE  i <= Last(rows[t])
    <3>1. PICK k \in 1..Len(rows[t]) : i = rows[t][k]
      BY <2>2, Entries
    <3>2. Len(rows[t]) \in DOMAIN rows[t] /\ k \in DOMAIN rows[t]
      BY <3>1, <2>2, <1>1, Entries
    <3>3. k = Len(rows[t]) \/ rows[t][k] < rows[t][Len(rows[t])]
      BY <3>1, <3>2, <2>2 DEF FeedInv, RowsInv
    <3>4. QED
      BY <3>1, <3>3, <2>1, <1>4 DEF Last
  <2>4. QED
    BY <2>1, <2>3
<1>7. SentInv'
  <2>1. pub' \subseteq Visible'
    BY <1>1, <1>2, <1>6 DEF FeedInv, SentInv
  <2>2. watermark' \in {0} \union Visible'
    BY <1>2, <1>4, <1>5 DEF FeedInv, SentInv
  <2>3. \A i \in pub' : i <= watermark'
    <3>1. \A i \in pub : i \in Nat /\ i <= watermark
      BY IdsAreNumbers DEF FeedInv, SentInv
    <3>2. QED
      BY <3>1, <1>1, <1>4, <1>5, <1>6
  <2>4. QED
    BY <2>1, <2>2, <2>3 DEF SentInv
<1>8. DrainsAreWhole'
  <2>1. SUFFICES ASSUME NEW u \in Tasks, NEW i \in Visible, rows'[u] # <<>>,
                        i <= Last(rows'[u]), i \notin ToSet(rows'[u]), ~ (i <= watermark')
                 PROVE  Feed!Overtaken(i)
    BY <1>2 DEF DrainsAreWhole
  <2>2. u # t /\ rows'[u] = rows[u]
    BY <2>1, <1>3
  <2>3. ~ (i <= watermark)
    BY <2>1, <1>4, <1>5, IdsAreNumbers
  <2>4. QED
    BY <2>1, <2>2, <2>3 DEF FeedInv, DrainsAreWhole
<1>9. \A i : i \in Gone' <=> /\ i \in Visible /\ i <= watermark' /\ i \notin pub'
                             /\ \A u \in Tasks : i \notin ToSet(rows'[u])
  BY <1>2 DEF Gone
<1>10. Gone \subseteq Gone'
  <2>1. ASSUME NEW i \in Gone
        PROVE  i \in Gone'
    <3>1. /\ i \in Visible /\ i <= watermark /\ i \notin pub /\ i \in Nat
          /\ \A u \in Tasks : i \notin ToSet(rows[u])
      BY GoneMeans, IdsAreNumbers
    <3>2. i <= watermark' /\ i \notin pub'
      BY <3>1, <1>1, <1>4, <1>5
    <3>3. QED
      BY <3>1, <3>2, <1>3, <1>9
  <2>2. QED
    BY <2>1
\* Passed by this step, and not sent by it.
<1>11. \A i \in Visible : i <= watermark' /\ i \notin pub' =>
         i <= watermark \/ Feed!Overtaken(i)
  <2>1. SUFFICES ASSUME NEW i \in Visible, i <= watermark', i \notin pub', ~ (i <= watermark)
                 PROVE  Feed!Overtaken(i)
    OBVIOUS
  <2>2. watermark' = Last(rows[t])
    BY <2>1, <1>5
  <2>3. i \notin ToSet(rows[t])
    BY <2>1, <1>1
  <2>4. QED
    BY <2>1, <2>2, <2>3, <1>1 DEF FeedInv, DrainsAreWhole
<1>12. PassedIsSettled'
  <2>1. SUFFICES ASSUME NEW i \in Visible, i <= watermark', i \notin pub', i \notin Gone'
                 PROVE  Feed!Overtaken(i)
    BY <1>2 DEF PassedIsSettled
  <2>2. i \notin pub /\ i \notin Gone
    BY <2>1, <1>1, <1>10
  <2>3. QED
    BY <2>1, <2>2, <1>11 DEF FeedInv, PassedIsSettled
<1>13. \A i \in Gone' \ Gone : i \in Visible \ pub' /\ Feed!Overtaken(i)
  <2>1. SUFFICES ASSUME NEW i \in Gone', i \notin Gone
                 PROVE  i \in Visible \ pub' /\ Feed!Overtaken(i)
    OBVIOUS
  <2>2. i \in Visible /\ i <= watermark' /\ i \notin pub' /\ i \notin pub
    BY <2>1, <1>1, <1>9
  <2>3. QED
    BY <2>1, <2>2, <1>11 DEF FeedInv, PassedIsSettled
<1>14. Feed!Send
  <2>1. pub \subseteq pub' /\ pub' \subseteq Visible
    BY <1>1, <1>2, <1>7 DEF SentInv
  <2>2. QED
    BY <2>1, <1>2, <1>10, <1>13 DEF Feed!Send
<1>15. QED
  BY <1>2, <1>3, <1>7, <1>8, <1>12, <1>14 DEF FeedInv, FeedStep, Feed!FeedNext

\* start reads the highest visible id and the tasks begin with nothing: whatever was
\* not sent is passed, the feed's Restart.
LEMMA RestartFeeds ==
  ASSUME FeedInv, RestartBroker
  PROVE  FeedInv' /\ FeedStep
<1>1. /\ watermark' = IF Visible = {} THEN 0 ELSE CHOOSE i \in Visible : \A j \in Visible : j <= i
      /\ rows' = [t \in Tasks |-> <<>>] /\ UNCHANGED <<db, pub>>
  BY DEF RestartBroker
<1>2. /\ LogInv' /\ log' = log /\ Visible' = Visible /\ Feed!Visible = Visible
  BY <1>1, TableIsKept
<1>3. \A i \in Visible : i \in 1..MaxId
  BY IdsAreNumbers DEF Ids
<1>4. watermark' \in {0} \union Visible /\ \A i \in Visible : i <= watermark'
  <2>1. CASE Visible = {}
    BY <2>1, <1>1
  <2>2. CASE Visible # {}
    <3>1. \E i \in Visible : \A j \in Visible : j <= i
      <4>1. Visible \in SUBSET (0..MaxId)
        BY <1>3
      <4>2. QED
        BY <2>2, <4>1, Sizes, GreatestMember
    <3>2. QED
      BY <3>1, <2>2, <1>1
  <2>3. QED
    BY <2>1, <2>2
<1>5. \A t \in Tasks : rows'[t] = <<>> /\ ToSet(rows'[t]) = {}
  <2>1. ToSet(<<>>) = {}
    BY DEF ToSet
  <2>2. QED
    BY <1>1, <2>1
<1>6. RowsInv'
  <2>1. rows' \in [Tasks -> Seq(Ids)]
    BY <1>1
  <2>2. QED
    BY <2>1, <1>5 DEF RowsInv
<1>7. SentInv'
  BY <1>1, <1>2, <1>4 DEF FeedInv, SentInv
<1>8. DrainsAreWhole'
  BY <1>5 DEF DrainsAreWhole
<1>9. Gone' = Visible \ pub
  <2>1. \A i : i \in Gone' <=> /\ i \in Visible /\ i <= watermark' /\ i \notin pub
                               /\ \A u \in Tasks : i \notin ToSet(rows'[u])
    BY <1>1, <1>2 DEF Gone
  <2>2. \A i : i \in Gone' <=> i \in Visible /\ i \notin pub
    BY <2>1, <1>4, <1>5
  <2>3. QED
    BY <2>2
<1>10. PassedIsSettled'
  BY <1>1, <1>2, <1>9 DEF PassedIsSettled
<1>11. Feed!Restart
  BY <1>1, <1>2, <1>9 DEF Feed!Restart
<1>12. QED
  BY <1>2, <1>6, <1>7, <1>8, <1>10, <1>11 DEF FeedInv, FeedStep, Feed!FeedNext
\* At the start there is nothing: no edge, no row, nothing sent.
LEMMA InitFeeds ==
  ASSUME Init
  PROVE  FeedInv /\ Feed!FeedInit
<1>1. /\ drawn = 0 /\ flying = {} /\ log = <<>> /\ watermark = 0 /\ pub = {}
      /\ rows = [t \in Tasks |-> <<>>]
  BY DEF Init
<1>2. ToSet(<<>>) = {}
  BY DEF ToSet
<1>3. Visible = {} /\ Gone = {}
  BY <1>1, <1>2 DEF Visible, Gone
<1>4. LogInv
  <2>1. drawn \in 0..MaxId /\ log \in Seq(Ids) /\ DOMAIN log = {}
    BY <1>1, Sizes
  <2>2. QED
    BY <2>1, <1>1, <1>3 DEF LogInv
<1>5. RowsInv
  <2>1. rows \in [Tasks -> Seq(Ids)] /\ \A t \in Tasks : rows[t] = <<>>
    BY <1>1
  <2>2. QED
    BY <2>1, <1>2 DEF RowsInv
<1>6. SentInv /\ DrainsAreWhole /\ PassedIsSettled
  BY <1>1, <1>3 DEF SentInv, DrainsAreWhole, PassedIsSettled
<1>7. Feed!FeedInit
  BY <1>1, <1>3 DEF Feed!FeedInit
<1>8. QED
  BY <1>4, <1>5, <1>6, <1>7 DEF FeedInv

\* Every step of the system is a step of the feed or none.
LEMMA NextFeeds ==
  ASSUME FeedInv, [Next]_vars
  PROVE  FeedInv' /\ FeedStep
<1>1. CASE EmitPlain
  <2>1. Emit("plain", 0, {}) /\ UNCHANGED <<log, broker>>
    BY <1>1 DEF EmitPlain
  <2>2. QED
    BY <2>1, EmitFeeds
<1>2. CASE Raise
  <2>1. PICK n \in Notes : Emit("raised", n, {n})
    BY <1>2 DEF Raise
  <2>2. UNCHANGED <<log, broker>>
    BY <1>2 DEF Raise
  <2>3. {n} \in SUBSET Notes
    OBVIOUS
  <2>4. QED
    BY <2>1, <2>2, <2>3, EmitFeeds
<1>3. CASE Resolve
  <2>1. PICK n \in Unresolved : Emit("resolved", n, Unresolved)
    BY <1>3 DEF Resolve
  <2>2. UNCHANGED <<log, broker>>
    BY <1>3 DEF Resolve
  <2>3. PICK touch \in SUBSET Notes : touch = Unresolved
    BY DEF Unresolved
  <2>4. Emit("resolved", n, touch)
    BY <2>1, <2>3
  <2>5. QED
    BY <2>2, <2>4, EmitFeeds
<1>4. CASE Commit
  BY <1>4, CommitFeeds
<1>5. CASE RollBack
  BY <1>5, RollBackFeeds
<1>6. CASE EmitAck
  BY <1>6, EmitAckFeeds
<1>7. CASE Acknowledge \/ LoseAck \/ Browser \/ UNCHANGED vars
  <2>1. UNCHANGED <<drawn, flying, log, broker>>
    BY <1>7 DEF Acknowledge, LoseAck, Browser, Bootstrap, Subscribe, Replay, Deliver, Drop,
                vars, db, broker
  <2>2. QED
    BY <2>1, ElsewhereFeeds
<1>8. CASE RestartBroker
  BY <1>8, RestartFeeds
<1>9. ASSUME NEW t \in Tasks, Read(t) \/ ReadFails(t) \/ Publish(t)
      PROVE  FeedInv' /\ FeedStep
  BY <1>9, ReadFeeds, ReadFailsFeeds, PublishFeeds
<1>10. QED
  BY <1>1, <1>2, <1>3, <1>4, <1>5, <1>6, <1>7, <1>8, <1>9
     DEF Next, Writers, CheckRules, Drains

\* The broker implements the feed (the safety half of FeedPromise): edges become
\* visible in any order, two tasks read above one watermark and may lose what they
\* read, and still an edge is passed without being sent only if it became visible
\* after a higher id or the process restarted (broker.py _drain_events, start:
\* "Everything above it is owed").
THEOREM BrokerImplementsFeed ==
  Spec => Feed!FeedInit /\ [][Feed!FeedNext]_(Feed!feed)
<1>1. Init => FeedInv /\ Feed!FeedInit
  BY InitFeeds
<1>2. FeedInv /\ [Next]_vars => FeedInv' /\ [Feed!FeedNext]_(Feed!feed)
  BY NextFeeds DEF FeedStep
<1>3. QED
  BY <1>1, <1>2, PTL DEF Spec
-----------------------------------------------------------------------------
(* No gap is silent. *)

\* A numbered list is a sequence.
LEMMA ListsAreSequences ==
  ASSUME NEW S, NEW n \in Nat, NEW s \in [1..n -> S]
  PROVE  s \in Seq(S)
OBVIOUS

\* Edges are messages (broker.py publishes what _drain_events read).
LEMMA EdgesAreMessages ==
  ASSUME NEW s \in Seq(Ids)
  PROVE  s \in Seq(1..Resync)
<1>1. \A k \in 1..Len(s) : s[k] \in 1..Resync
  <2>1. \A k \in 1..Len(s) : s[k] \in Ids
    OBVIOUS
  <2>2. \A i \in Ids : i \in 1..Resync
    BY Sizes
  <2>3. QED
    BY <2>1, <2>2, Zenon
<1>2. s \in [1..Len(s) -> 1..Resync] /\ Len(s) \in Nat
  BY <1>1
<1>3. QED
  BY <1>2, ListsAreSequences

\* offer puts messages behind those that are queued, or marks the connection to end.
LEMMA Offering ==
  ASSUME NEW c \in Clients, NEW s \in Seq(1..Resync)
  PROVE  /\ Offered(c, s) \in Clients
         /\ Offered(c, s).phase = c.phase /\ Offered(c, s).last = c.last
         /\ Offered(c, s).replay = c.replay /\ Offered(c, s).owed = c.owed
         /\ ~ Offered(c, s).resync =>
              ~ c.resync /\ ToSet(Offered(c, s).queue) = ToSet(c.queue) \union ToSet(s)
<1> DEFINE q == c.queue \o s
           f == First(q, QUEUE_LIMIT)
           r == c.resync \/ Len(q) > QUEUE_LIMIT
<1>1. c.queue \in Seq(1..Resync) /\ c.resync \in BOOLEAN
  BY DEF Clients
<1>2. q \in Seq(1..Resync) /\ ToSet(q) = ToSet(c.queue) \union ToSet(s)
  BY <1>1, Joining
<1> HIDE DEF q
<1>3. f \in Seq(1..Resync) /\ (~ (Len(q) > QUEUE_LIMIT) => f = q)
  BY <1>2, Sizes, FirstEntries
<1> HIDE DEF f
<1>4. r \in BOOLEAN
  OBVIOUS
<1>5. Offered(c, s) = [c EXCEPT !.queue = f, !.resync = r]
  BY DEF Offered, q, f, Clients
<1>6. r \/ (~ c.resync /\ f = q)
  BY <1>3
<1> HIDE DEF r
<1>7. /\ Offered(c, s) \in Clients
      /\ Offered(c, s).phase = c.phase /\ Offered(c, s).last = c.last
      /\ Offered(c, s).replay = c.replay /\ Offered(c, s).owed = c.owed
      /\ Offered(c, s).queue = f /\ Offered(c, s).resync = r
  BY <1>3, <1>4, <1>5 DEF Clients
<1>8. QED
  BY <1>2, <1>6, <1>7

\* A buffer that is left alone stays a suffix of what was published.
LEMMA BufferStays ==
  ASSUME BufferIsASuffix, UNCHANGED <<buffer, pub>>, slips \subseteq slips'
  PROVE  BufferIsASuffix'
BY DEF BufferIsASuffix

\* What the writers do, and what the tasks read and lose, is not seen by the browser.
LEMMA ElsewhereKeeps ==
  ASSUME GapInv, UNCHANGED <<client, buffer, pub>>, slips \subseteq slips'
  PROVE  GapInv'
<1>1. BufferIsASuffix'
  BY BufferStays DEF GapInv
<1>2. ClientInv' /\ ReplayHasTheRest'
  BY DEF GapInv, ClientInv, ReplayHasTheRest
<1>3. NoSilentGap'
  BY DEF GapInv, NoSilentGap
<1>4. QED
  BY <1>1, <1>2, <1>3 DEF GapInv

\* A connection that is off or has sent its snapshot is one.
LEMMA FreshClient ==
  ASSUME NEW last \in 0..MaxId \union {Null}
  PROVE  /\ Offline \in Clients /\ Offline.phase = "off"
         /\ [Offline EXCEPT !.last = last] \in Clients
         /\ [Offline EXCEPT !.last = last].phase = "off"
         /\ [Offline EXCEPT !.phase = "boot", !.last = last] \in Clients
         /\ [Offline EXCEPT !.phase = "boot", !.last = last].phase = "boot"
<1>1. <<>> \in Seq(1..Resync) /\ <<>> \in Seq(Ids)
  OBVIOUS
<1>2. Offline \in Clients
  <2>1. PICK queue \in Seq(1..Resync) : queue = <<>>
    BY <1>1, Zenon
  <2>2. PICK replay \in Seq(Ids) : replay = <<>>
    BY <1>1, Zenon
  <2>3. [phase |-> "off", last |-> Null, queue |-> queue, resync |-> FALSE,
         replay |-> replay, owed |-> {}] \in Clients
    BY DEF Clients
  <2>4. QED
    BY <2>1, <2>2, <2>3, Zenon DEF Offline
<1>3. Offline.phase = "off"
  BY DEF Offline
<1>4. QED
  BY <1>2, <1>3 DEF Clients

\* The connection ends, or the snapshot is read: nothing is claimed of it yet.
LEMMA StartingOver ==
  ASSUME GapInv, client' \in Clients, client'.phase \in {"off", "boot"},
         buffer' \in Seq(Ids), BufferIsASuffix'
  PROVE  GapInv'
<1>1. client'.phase # "live" /\ client'.phase # "replay"
  OBVIOUS
<1>2. ReplayHasTheRest' /\ NoSilentGap' /\ ClientInv'
  BY <1>1 DEF ReplayHasTheRest, NoSilentGap, ClientInv
<1>3. QED
  BY <1>2 DEF GapInv

\* A browser that connects, and one that is dropped.
LEMMA ConnectionKeeps ==
  ASSUME GapInv, Bootstrap \/ Drop
  PROVE  GapInv'
<1>1. client.last \in 0..MaxId \union {Null}
  BY DEF GapInv, ClientInv, Clients
<1>2. UNCHANGED <<buffer, pub, slips>>
  BY DEF Bootstrap, Drop, broker
<1>3. BufferIsASuffix' /\ buffer' \in Seq(Ids)
  BY <1>2, BufferStays DEF GapInv, ClientInv
<1>4. client' \in Clients /\ client'.phase \in {"off", "boot"}
  BY <1>1, FreshClient DEF Bootstrap, Drop
<1>5. QED
  BY <1>3, <1>4, StartingOver

\* After a restart the buffer is empty.
LEMMA RestartKeeps ==
  ASSUME GapInv, RestartBroker
  PROVE  GapInv'
<1>1. client.last \in 0..MaxId \union {Null}
  BY DEF GapInv, ClientInv, Clients
<1>2. buffer' = <<>> /\ client' = [Offline EXCEPT !.last = client.last]
  BY DEF RestartBroker
<1>3. BufferIsASuffix' /\ buffer' \in Seq(Ids)
  BY <1>2 DEF BufferIsASuffix
<1>4. client' \in Clients /\ client'.phase \in {"off", "boot"}
  BY <1>1, <1>2, FreshClient
<1>5. QED
  BY <1>3, <1>4, StartingOver

\* What is left to show of a connection after a step.
LEMMA Connected ==
  ASSUME client' \in Clients, buffer' \in Seq(Ids), BufferIsASuffix',
         client'.phase = "live" =>
           client'.resync \/ "order" \in slips' \/ client'.owed \subseteq ToSet(client'.queue),
         client'.phase = "replay" =>
           \/ client'.resync \/ "order" \in slips'
           \/ client'.owed \subseteq ToSet(client'.queue) \union ToSet(client'.replay)
  PROVE  GapInv'
<1>1. ClientInv'
  BY DEF ClientInv
<1>2. ReplayHasTheRest'
  BY DEF ReplayHasTheRest
<1>3. NoSilentGap'
  BY DEF NoSilentGap
<1>4. QED
  BY <1>1, <1>2, <1>3 DEF GapInv

\* A message leaves the queue for the browser; it was one of those owed, or none.
LEMMA DeliverKeeps ==
  ASSUME GapInv, Deliver
  PROVE  GapInv'
<1> DEFINE m == Head(client.queue)
           last == IF m = Resync THEN client.last ELSE m
<1>1. /\ client.phase = "live" /\ client.queue # <<>> /\ UNCHANGED <<buffer, pub, slips>>
      /\ client' = IF client.resync THEN [Offline EXCEPT !.last = last]
                   ELSE [client EXCEPT !.last = last, !.queue = Tail(@), !.owed = @ \ {m}]
  BY DEF Deliver, broker
<1>2. /\ client \in Clients /\ client.queue \in Seq(1..Resync) /\ client.owed \in SUBSET (1..Resync)
      /\ client.last \in 0..MaxId \union {Null}
  BY DEF GapInv, ClientInv, Clients
<1>3. /\ Tail(client.queue) \in Seq(1..Resync) /\ m \in 1..Resync
      /\ ToSet(client.queue) \ {m} \subseteq ToSet(Tail(client.queue))
  BY <1>1, <1>2, Taking
<1>4. last \in 0..MaxId \union {Null}
  BY <1>2, <1>3, Sizes DEF Resync
<1> HIDE DEF last, m
<1>5. BufferIsASuffix' /\ buffer' \in Seq(Ids)
  BY <1>1, BufferStays DEF GapInv, ClientInv
<1>6. CASE client.resync
  <2>1. client' \in Clients /\ client'.phase \in {"off", "boot"}
    BY <1>1, <1>4, <1>6, FreshClient
  <2>2. QED
    BY <2>1, <1>5, StartingOver
<1>7. CASE ~ client.resync
  <2>1. client' = [client EXCEPT !.last = last, !.queue = Tail(client.queue),
                                 !.owed = client.owed \ {m}]
    BY <1>1, <1>7
  <2>2. client.owed \ {m} \in SUBSET (1..Resync)
    BY <1>2
  <2>3. /\ client' \in Clients /\ client'.phase = "live" /\ client'.owed = client.owed \ {m}
        /\ client'.queue = Tail(client.queue)
    BY <2>1, <2>2, <1>1, <1>2, <1>3, <1>4 DEF Clients
  <2>4. "order" \in slips \/ client.owed \subseteq ToSet(client.queue)
    BY <1>1, <1>7 DEF GapInv, NoSilentGap
  <2>5. "order" \in slips' \/ client'.owed \subseteq ToSet(client'.queue)
    BY <2>3, <2>4, <1>1, <1>3
  <2>6. QED
    BY <2>3, <2>5, <1>5, Connected
<1>8. QED
  BY <1>6, <1>7

\* The rows of a replay arrive behind what was published meanwhile, or the read
\* failed and the browser is told to start over.
LEMMA ReplayKeeps ==
  ASSUME GapInv, Replay
  PROVE  GapInv'
<1>1. client.phase = "replay" /\ UNCHANGED <<buffer, pub>> /\ slips \subseteq slips'
  BY DEF Replay, broker
<1>2. /\ client \in Clients /\ client.queue \in Seq(1..Resync) /\ client.replay \in Seq(Ids)
      /\ client.owed \in SUBSET (1..Resync)
  BY DEF GapInv, ClientInv, Clients
<1>3. BufferIsASuffix' /\ buffer' \in Seq(Ids)
  BY <1>1, BufferStays DEF GapInv, ClientInv
<1>4. <<>> \in Seq(Ids)
  OBVIOUS
<1>5. CASE client' = [Offered(client, client.replay) EXCEPT !.phase = "live", !.replay = <<>>]
  <2> DEFINE c == Offered(client, client.replay)
  <2>1. client.replay \in Seq(1..Resync)
    BY <1>2, EdgesAreMessages
  <2>2. /\ c \in Clients /\ c.owed = client.owed
        /\ ~ c.resync => /\ ~ client.resync
                         /\ ToSet(c.queue) = ToSet(client.queue) \union ToSet(client.replay)
    BY <1>2, <2>1, Offering
  <2> HIDE DEF c
  <2>3. /\ client' \in Clients /\ client'.phase = "live" /\ client'.owed = c.owed
        /\ client'.queue = c.queue /\ client'.resync = c.resync
    BY <1>4, <1>5, <2>2 DEF Clients, c
  <2>4. client.resync \/ "order" \in slips
        \/ client.owed \subseteq ToSet(client.queue) \union ToSet(client.replay)
    BY <1>1 DEF GapInv, ReplayHasTheRest
  <2>5. client'.resync \/ "order" \in slips' \/ client'.owed \subseteq ToSet(client'.queue)
    BY <2>2, <2>3, <2>4, <1>1
  <2>6. QED
    BY <2>3, <2>5, <1>3, Connected
<1>6. CASE client' = [Offered(client, <<Resync>>) EXCEPT
                        !.phase = "live", !.replay = <<>>, !.owed = ToSet(client.queue)]
  <2> DEFINE c == Offered(client, <<Resync>>)
  <2>1. <<Resync>> \in Seq(1..Resync)
    BY Sizes
  <2>2. /\ c \in Clients
        /\ ~ c.resync => ToSet(client.queue) \subseteq ToSet(c.queue)
    BY <1>2, <2>1, Offering
  <2> HIDE DEF c
  <2>a. ToSet(client.queue) \in SUBSET (1..Resync)
    BY <1>2, Entries
  <2>3. /\ client' \in Clients /\ client'.phase = "live" /\ client'.owed = ToSet(client.queue)
        /\ client'.queue = c.queue /\ client'.resync = c.resync
    BY <1>4, <1>6, <2>2, <2>a DEF Clients, c
  <2>4. QED
    BY <2>2, <2>3, <1>3, Connected
<1>7. QED
  BY <1>5, <1>6 DEF Replay

\* Publishing keeps the buffer a suffix: a row goes behind everything older, and an
\* older row behind a newer one is the slip "order".
LEMMA PublishKeepsSuffix ==
  ASSUME FeedInv, GapInv, NEW t \in Tasks, Publish(t)
  PROVE  BufferIsASuffix' /\ buffer' \in Seq(Ids)
<1> DEFINE r == rows[t]
           all == buffer \o r
<1>1. /\ buffer' = Latest(all, BUFFER_SIZE) /\ pub' = pub \union ToSet(r)
      /\ "order" \notin slips' =>
           "order" \notin slips /\ ~ \E q \in pub \ ToSet(r), x \in ToSet(r) : q > x
  BY DEF Publish
<1>2. /\ r \in Seq(Ids) /\ \A m, n \in DOMAIN r : m < n => r[m] < r[n]
      /\ buffer \in Seq(Ids)
  BY DEF FeedInv, RowsInv, GapInv, ClientInv
<1> HIDE DEF r
<1>3. /\ all \in Seq(Ids) /\ Len(all) = Len(buffer) + Len(r)
      /\ \A k \in 1..Len(buffer) : all[k] = buffer[k]
      /\ \A k \in 1..Len(r) : all[Len(buffer) + k] = r[k]
  BY <1>2, Joining
<1> HIDE DEF all
<1>4. PICK d \in Nat :
        /\ d <= Len(all) /\ Latest(all, BUFFER_SIZE) \in Seq(Ids)
        /\ Len(Latest(all, BUFFER_SIZE)) = Len(all) - d
        /\ \A k \in 1..Len(Latest(all, BUFFER_SIZE)) :
             k + d \in 1..Len(all) /\ Latest(all, BUFFER_SIZE)[k] = all[k + d]
  <2>1. all \in Seq(Ids) /\ BUFFER_SIZE \in Nat \ {0}
    BY <1>3, Sizes
  <2>2. QED
    BY <2>1, LatestEntries, Zenon
<1>5. /\ buffer' \in Seq(Ids) /\ Len(buffer') = Len(all) - d
      /\ \A k \in 1..Len(buffer') : k + d \in 1..Len(all) /\ buffer'[k] = all[k + d]
  BY <1>1, <1>4
<1>6. /\ Len(buffer) \in Nat /\ Len(r) \in Nat /\ Len(all) \in Nat
      /\ DOMAIN buffer = 1..Len(buffer) /\ DOMAIN r = 1..Len(r)
      /\ DOMAIN buffer' = 1..Len(buffer') /\ Len(buffer') \in Nat
  BY <1>2, <1>3, <1>5
<1>7. /\ \A k \in 1..Len(all) : all[k] \in Nat
      /\ \A i \in ToSet(r) : i \in Nat
      /\ \A i \in pub : i \in Nat
      /\ \A k \in 1..Len(r) : r[k] \in ToSet(r)
  <2>1. Ids \subseteq Nat /\ pub \subseteq Ids
    BY IdsAreNumbers
  <2>2. ToSet(r) \subseteq Ids /\ \A k \in 1..Len(r) : r[k] \in ToSet(r)
    BY <1>2, Entries
  <2>3. \A k \in 1..Len(all) : all[k] \in Ids
    BY <1>3
  <2>4. QED
    BY <2>1, <2>2, <2>3
\* Before the front is cut off.
<1>8. ASSUME "order" \notin slips', NEW p \in 1..Len(all), NEW i \in pub', i >= all[p]
      PROVE  \E j \in 1..Len(all) : p <= j /\ all[j] = i
  <2>1. CASE i \in ToSet(r)
    <3>1. PICK k \in 1..Len(r) : i = r[k]
      BY <2>1, <1>2, Entries
    <3>2. Len(buffer) + k \in 1..Len(all) /\ all[Len(buffer) + k] = i
      BY <3>1, <1>3, <1>6
    <3>3. p <= Len(buffer) + k
      <4>1. ASSUME ~ (p <= Len(buffer) + k)
            PROVE  FALSE
        <5>1. p - Len(buffer) \in 1..Len(r) /\ k < p - Len(buffer)
              /\ p = Len(buffer) + (p - Len(buffer))
          BY <4>1, <3>1, <1>3, <1>6
        <5>2. all[p] = r[p - Len(buffer)]
          BY <5>1, <1>3
        <5>3. r[k] < r[p - Len(buffer)]
          BY <5>1, <3>1, <1>2, <1>6
        <5>4. r[k] \in Nat /\ all[p] \in Nat
          BY <3>1, <1>7
        <5>5. QED
          BY <5>2, <5>3, <5>4, <3>1, <1>8
      <4>2. QED
        BY <4>1
    <3>4. QED
      BY <3>2, <3>3
  <2>2. CASE i \notin ToSet(r)
    <3>1. i \in pub /\ i \in Nat
      BY <2>2, <1>1, <1>7
    <3>2. p \in 1..Len(buffer)
      <4>1. ASSUME p \notin 1..Len(buffer)
            PROVE  FALSE
        <5>1. p - Len(buffer) \in 1..Len(r) /\ p = Len(buffer) + (p - Len(buffer))
          BY <4>1, <1>3, <1>6
        <5>2. all[p] = r[p - Len(buffer)] /\ r[p - Len(buffer)] \in ToSet(r)
          BY <5>1, <1>3, <1>7
        <5>3. all[p] \in ToSet(r) /\ all[p] \in Nat /\ i # all[p]
          BY <5>2, <2>2, <1>7
        <5>4. i > all[p]
          BY <5>3, <3>1, <1>8
        <5>5. QED
          BY <5>3, <5>4, <3>1, <2>2, <1>1, <1>8
      <4>2. QED
        BY <4>1
    <3>3. all[p] = buffer[p]
      BY <3>2, <1>3
    <3>4. PICK j \in DOMAIN buffer : p <= j /\ buffer[j] = i
      BY <3>1, <3>2, <3>3, <1>1, <1>6, <1>8 DEF GapInv, BufferIsASuffix
    <3>5. j \in 1..Len(all) /\ all[j] = i
      BY <3>4, <1>3, <1>6
    <3>6. QED
      BY <3>4, <3>5
  <2>3. QED
    BY <2>1, <2>2
<1>9. ASSUME "order" \notin slips', NEW k \in DOMAIN buffer', NEW i \in pub', i >= buffer'[k]
      PROVE  \E j \in DOMAIN buffer' : k <= j /\ buffer'[j] = i
  <2>1. k \in Nat /\ k + d \in 1..Len(all) /\ buffer'[k] = all[k + d]
    BY <1>5, <1>6
  <2>2. PICK j \in 1..Len(all) : k + d <= j /\ all[j] = i
    BY <2>1, <1>8, <1>9
  <2>3. j - d \in 1..Len(buffer') /\ k <= j - d /\ (j - d) + d = j
    BY <2>1, <2>2, <1>5, <1>6
  <2>4. buffer'[j - d] = i
    BY <2>2, <2>3, <1>5
  <2>5. QED
    BY <2>3, <2>4, <1>6
<1>10. QED
  BY <1>5, <1>9 DEF BufferIsASuffix

\* A subscriber is offered everything that is published.
LEMMA PublishKeeps ==
  ASSUME FeedInv, GapInv, NEW t \in Tasks, Publish(t)
  PROVE  GapInv'
<1> DEFINE r == rows[t]
           c == IF Subscribed(client) THEN Offered(client, r) ELSE client
           o == IF client.phase = "off" THEN {} ELSE client.owed \union ToSet(r)
<1>1. slips \subseteq slips'
  BY DEF Publish
<1>2. client \in Clients /\ client.owed \in SUBSET (1..Resync) /\ r \in Seq(1..Resync)
  <2>1. r \in Seq(Ids)
    BY DEF FeedInv, RowsInv
  <2>2. QED
    BY <2>1, EdgesAreMessages DEF GapInv, ClientInv, Clients
<1> HIDE DEF r
<1>3. /\ Offered(client, r) \in Clients
      /\ Offered(client, r).phase = client.phase /\ Offered(client, r).owed = client.owed
      /\ Offered(client, r).replay = client.replay
      /\ ~ Offered(client, r).resync =>
           /\ ~ client.resync
           /\ ToSet(Offered(client, r).queue) = ToSet(client.queue) \union ToSet(r)
  BY <1>2, Offering
<1>4. /\ c \in Clients /\ c.phase = client.phase /\ c.replay = client.replay
      /\ c.owed = client.owed
  BY <1>2, <1>3
<1>5. o \in SUBSET (1..Resync)
  BY <1>2, Entries
<1>6. client' = [c EXCEPT !.owed = o]
  <2>1. client' = [c EXCEPT !.owed = IF client.phase = "off" THEN {} ELSE @ \union ToSet(r)]
    BY DEF Publish, r
  <2> HIDE DEF c
  <2>2. QED
    BY <2>1, <1>4 DEF Clients
<1>7. Subscribed(client) => c = Offered(client, r) /\ o = client.owed \union ToSet(r)
  BY DEF Subscribed
<1> HIDE DEF c, o
<1>8. /\ client' \in Clients /\ client'.phase = client.phase /\ client'.owed = o
      /\ client'.queue = c.queue /\ client'.resync = c.resync
      /\ client'.replay = client.replay
  BY <1>4, <1>5, <1>6 DEF Clients
<1>9. client'.phase = "live" =>
        client'.resync \/ "order" \in slips' \/ client'.owed \subseteq ToSet(client'.queue)
  <2>1. ASSUME client.phase = "live", ~ c.resync, "order" \notin slips'
        PROVE  o \subseteq ToSet(c.queue)
    <3>1. c = Offered(client, r) /\ o = client.owed \union ToSet(r)
      BY <2>1, <1>7 DEF Subscribed
    <3>2. client.owed \subseteq ToSet(client.queue)
      BY <2>1, <3>1, <1>1, <1>3 DEF GapInv, NoSilentGap
    <3>3. QED
      BY <3>1, <3>2, <2>1, <1>3
  <2>2. QED
    BY <2>1, <1>8
<1>10. client'.phase = "replay" =>
         \/ client'.resync \/ "order" \in slips'
         \/ client'.owed \subseteq ToSet(client'.queue) \union ToSet(client'.replay)
  <2>1. ASSUME client.phase = "replay", ~ c.resync, "order" \notin slips'
        PROVE  o \subseteq ToSet(c.queue) \union ToSet(client.replay)
    <3>1. c = Offered(client, r) /\ o = client.owed \union ToSet(r)
      BY <2>1, <1>7 DEF Subscribed
    <3>2. client.owed \subseteq ToSet(client.queue) \union ToSet(client.replay)
      BY <2>1, <3>1, <1>1, <1>3 DEF GapInv, ReplayHasTheRest
    <3>3. QED
      BY <3>1, <3>2, <2>1, <1>3
  <2>2. QED
    BY <2>1, <1>8
<1>11. BufferIsASuffix' /\ buffer' \in Seq(Ids)
  BY PublishKeepsSuffix
<1>12. QED
  BY <1>8, <1>9, <1>10, <1>11, Connected

\* A buffer that reaches back far enough holds everything that was published above
\* the browser's last id (broker.py replay).
LEMMA BufferIsEnough ==
  ASSUME FeedInv, GapInv, NEW last \in Nat, BufferCovers(last), "order" \notin slips
  PROVE  Owed(last) \subseteq ToSet(BufferAbove(last))
<1>1. buffer \in Seq(Ids) /\ buffer # <<>>
  BY DEF GapInv, ClientInv, BufferCovers
<1>2. /\ Len(buffer) \in Nat /\ DOMAIN buffer = 1..Len(buffer) /\ 1 \in DOMAIN buffer
      /\ ToSet(buffer) \subseteq Nat /\ \A k \in 1..Len(buffer) : buffer[k] \in Nat
  <2>1. Len(buffer) \in Nat /\ DOMAIN buffer = 1..Len(buffer) /\ Len(buffer) # 0
    BY <1>1
  <2>2. ToSet(buffer) \subseteq Ids /\ Ids \subseteq Nat /\ \A k \in 1..Len(buffer) : buffer[k] \in Ids
    <3>1. \A k \in 1..Len(buffer) : buffer[k] \in Ids
      BY <1>1
    <3>2. QED
      BY <3>1, <1>1, Entries, Sizes
  <2>3. 1 \in 1..Len(buffer)
    BY <2>1
  <2>4. \A k \in 1..Len(buffer) : buffer[k] \in Nat
    BY <2>2, Zenon
  <2>5. QED
    BY <2>1, <2>2, <2>3, <2>4, Zenon
<1>3. \E i \in ToSet(buffer) : \A j \in ToSet(buffer) : i <= j
  <2>1. ToSet(buffer) # {}
    BY <1>1, <1>2, Entries
  <2>2. QED
    BY <2>1, <1>2, LeastMember
<1>4. Oldest \in ToSet(buffer)
  BY <1>3 DEF Oldest
<1>5. PICK k \in 1..Len(buffer) : Oldest = buffer[k]
  BY <1>1, <1>4, Entries
<1>6. Oldest <= last + 1 /\ Oldest \in Nat
  BY <1>2, <1>5 DEF BufferCovers
<1>7. ASSUME NEW i \in pub, i > last
      PROVE  i \in ToSet(BufferAbove(last))
  <2>1. i \in Nat
    BY IdsAreNumbers
  <2>2. i >= buffer[k]
    BY <2>1, <1>5, <1>6, <1>7
  <2>3. PICK j \in DOMAIN buffer : buffer[j] = i
    BY <2>2, <1>2, <1>5 DEF GapInv, BufferIsASuffix
  <2>4. i \in ToSet(buffer)
    BY <2>3, <1>1, <1>2, Entries
  <2>5. QED
    BY <2>4, <1>1, <1>7, BufferAboveReads
<1>8. QED
  BY <1>7 DEF Owed

\* A browser that is not too far behind gets everything that was published above its
\* last id from the table: there are at most MAX_REPLAY ids in between.
LEMMA TableIsEnough ==
  ASSUME FeedInv, NEW last \in Nat, ~ TooFarBehind(last)
  PROVE  Owed(last) \subseteq ToSet(Above(last, MAX_REPLAY))
<1>1. watermark \in Nat /\ MAX_REPLAY \in Nat /\ watermark - last <= MAX_REPLAY
  BY IdsAreNumbers, Sizes DEF TooFarBehind
<1>2. log \in Seq(Ids)
  BY DEF FeedInv, LogInv
<1>3. ASSUME NEW i \in pub, i > last
      PROVE  i \in ToSet(Above(last, MAX_REPLAY))
  <2>1. i \in Visible /\ i <= watermark /\ i \in Nat
    BY IdsAreNumbers DEF FeedInv, SentInv
  <2>2. last < i /\ i - last <= MAX_REPLAY
    BY <2>1, <1>1, <1>3
  <2>3. QED
    BY <2>1, <2>2, <1>1, <1>2, AboveReads
<1>4. QED
  BY <1>3 DEF Owed

\* subscribe: nothing is owed to a browser without a last id or one that is told to
\* start over; to the others the buffer or the table brings all of it.
LEMMA SubscribeKeeps ==
  ASSUME FeedInv, GapInv, Subscribe
  PROVE  GapInv'
<1>1. client.phase = "boot" /\ UNCHANGED <<buffer, pub>> /\ slips \subseteq slips'
  BY DEF Subscribe, broker
<1>2. client \in Clients /\ client.last \in 0..MaxId \union {Null}
  BY DEF GapInv, ClientInv, Clients
<1>3. BufferIsASuffix' /\ buffer' \in Seq(Ids)
  BY <1>1, BufferStays DEF GapInv, ClientInv
<1>4. Joined \in Clients /\ Joined.phase = "live" /\ Joined.owed = {}
  BY <1>2 DEF Joined, Clients
<1>5. CASE client.last = Null /\ client' = Joined
  BY <1>3, <1>4, <1>5, Connected
<1>6. CASE client' = Offered(Joined, <<Resync>>)
  <2>1. <<Resync>> \in Seq(1..Resync)
    BY Sizes
  <2>2. client' \in Clients /\ client'.phase = "live" /\ client'.owed = {}
    BY <2>1, <1>4, <1>6, Offering
  <2>3. QED
    BY <2>2, <1>3, Connected
<1>7. ASSUME client.last # Null
      PROVE  client.last \in Nat /\ Owed(client.last) \in SUBSET (1..Resync)
  <2>1. client.last \in Nat
    BY <1>2, <1>7, Sizes
  <2>2. pub \subseteq 1..Resync
    BY IdsAreNumbers, Sizes
  <2>3. QED
    BY <2>1, <2>2 DEF Owed
<1>8. CASE /\ client.last # Null /\ BufferCovers(client.last)
           /\ client' = [Offered(Joined, BufferAbove(client.last))
                           EXCEPT !.owed = Owed(client.last)]
  <2> DEFINE s == BufferAbove(client.last)
             c == Offered(Joined, s)
             o == Owed(client.last)
  <2>1. client.last \in Nat /\ o \in SUBSET (1..Resync)
    BY <1>7, <1>8
  <2>2. s \in Seq(1..Resync)
    BY <2>1, BufferAboveReads, EdgesAreMessages DEF GapInv, ClientInv
  <2>3. "order" \notin slips => o \subseteq ToSet(s)
    BY <2>1, <1>8, BufferIsEnough
  <2> HIDE DEF s, o
  <2>4. c \in Clients /\ c.phase = "live" /\ (~ c.resync => ToSet(s) \subseteq ToSet(c.queue))
    BY <1>4, <2>2, Offering
  <2> HIDE DEF c
  <2>5. /\ client' \in Clients /\ client'.phase = "live" /\ client'.owed = o
        /\ client'.queue = c.queue /\ client'.resync = c.resync
    BY <1>8, <2>1, <2>4 DEF Clients, c, s, o
  <2>6. client'.resync \/ "order" \in slips' \/ client'.owed \subseteq ToSet(client'.queue)
    BY <2>3, <2>4, <2>5, <1>1
  <2>7. QED
    BY <2>5, <2>6, <1>3, Connected
<1>9. CASE /\ client.last # Null /\ ~ TooFarBehind(client.last)
           /\ client' = [Joined EXCEPT !.phase = "replay",
                                       !.replay = Above(client.last, MAX_REPLAY),
                                       !.owed = Owed(client.last)]
  <2> DEFINE s == Above(client.last, MAX_REPLAY)
             o == Owed(client.last)
  <2>1. client.last \in Nat /\ o \in SUBSET (1..Resync)
    BY <1>7, <1>9
  <2>2. s \in Seq(Ids)
    BY <2>1, Sizes, AboveReads DEF FeedInv, LogInv
  <2>3. o \subseteq ToSet(s)
    BY <2>1, <1>9, TableIsEnough
  <2> HIDE DEF s, o
  <2>4. /\ client' \in Clients /\ client'.phase = "replay" /\ client'.owed = o
        /\ client'.replay = s
    BY <1>4, <1>9, <2>1, <2>2 DEF Clients, s, o
  <2>5. QED
    BY <2>3, <2>4, <1>3, Connected
<1>10. QED
  BY <1>5, <1>6, <1>8, <1>9 DEF Subscribe

\* At the start no browser is connected.
LEMMA InitHasNoGap ==
  ASSUME Init
  PROVE  GapInv
<1>1. client \in {Offline, [Offline EXCEPT !.last = 0]}
  BY DEF Init
<1>2. buffer = <<>>
  BY DEF Init
<1>3. client \in Clients /\ client.phase = "off"
  <2>1. 0 \in 0..MaxId \union {Null}
    BY Sizes
  <2>2. CASE client = Offline
    BY <2>1, <2>2, FreshClient
  <2>3. CASE client = [Offline EXCEPT !.last = 0]
    BY <2>1, <2>3, FreshClient
  <2>4. QED
    BY <2>2, <2>3, <1>1
<1>4. ClientInv /\ BufferIsASuffix
  BY <1>2, <1>3 DEF ClientInv, BufferIsASuffix
<1>5. ReplayHasTheRest /\ NoSilentGap
  BY <1>3 DEF ReplayHasTheRest, NoSilentGap
<1>6. QED
  BY <1>4, <1>5 DEF GapInv

\* Every step keeps the gaps loud.
LEMMA NextHasNoGap ==
  ASSUME FeedInv, GapInv, [Next]_vars
  PROVE  GapInv'
<1>1. CASE Writers \/ UNCHANGED vars
  <2>1. UNCHANGED <<client, buffer, pub>> /\ slips \subseteq slips'
    BY <1>1 DEF Writers, CheckRules, EmitPlain, Raise, Resolve, Commit, RollBack, Acknowledge,
                EmitAck, LoseAck, broker, vars
  <2>2. QED
    BY <2>1, ElsewhereKeeps
<1>2. ASSUME NEW t \in Tasks, Read(t) \/ ReadFails(t)
      PROVE  GapInv'
  <2>1. UNCHANGED <<client, buffer, pub>> /\ slips \subseteq slips'
    BY <1>2 DEF Read, ReadFails
  <2>2. QED
    BY <2>1, ElsewhereKeeps
<1>3. ASSUME NEW t \in Tasks, Publish(t)
      PROVE  GapInv'
  BY <1>3, PublishKeeps
<1>4. CASE RestartBroker
  BY <1>4, RestartKeeps
<1>5. CASE Browser
  BY <1>5, ConnectionKeeps, SubscribeKeeps, ReplayKeeps, DeliverKeeps DEF Browser
<1>6. QED
  BY <1>1, <1>2, <1>3, <1>4, <1>5 DEF Next, Drains

\* NoSilentGap for every size of the buffer, the queue and a replay, and every
\* number of draining tasks: whatever is published while a browser is connected, or
\* above the Last-Event-ID it came back with, reaches it, is queued for it, or its
\* connection is marked to end (broker.py offer, replay; app.py stream).
THEOREM GapsAreNeverSilent == Spec => []NoSilentGap
<1>1. Init => FeedInv /\ GapInv
  BY InitFeeds, InitHasNoGap
<1>2. FeedInv /\ GapInv /\ [Next]_vars => FeedInv' /\ GapInv'
  BY NextFeeds, NextHasNoGap
<1>3. GapInv => NoSilentGap
  BY DEF GapInv
<1>4. QED
  BY <1>1, <1>2, <1>3, PTL DEF Spec

-----------------------------------------------------------------------------
(* What a browser shows.  Everything here is about states in which none of the *)
(* marked steps happened.                                                      *)

\* An edge that raised a notification, and one that took it off the list.
RaisedOf(n, i)  == i \in Visible /\ edge[i].kind = "raised" /\ edge[i].note = n
RemovalOf(n, i) == i \in Visible /\ edge[i].kind \in {"resolved", "acknowledged"} /\ edge[i].note = n

\* An id above those of every edge that raised the notification.
Later(n, e) == \A i \in Visible : RaisedOf(n, i) => i < e

\* Edges the broker is done with: sent, or gone for good.
Done == pub \union Gone

\* Edges the connection has been given and the browser not.
Waiting ==
  {i \in Visible :
     \/ client.phase = "boot" /\ i \in client.owed
     \/ client.phase = "replay" /\ i \in ToSet(client.replay)
     \/ client.phase \in {"replay", "live"} /\ i \in ToSet(client.queue)}

\* Edges that the browser will still hear of.
Arriving == (Visible \ Done) \union Waiting

\* The two tables have their types; an acknowledged row is one; an edge about a
\* notification names it.
NotesInv ==
  /\ note \in [Notes -> Note] /\ edge \in [Ids -> Edge] /\ acks \subseteq Notes
  /\ \A i \in Ids : edge[i].kind \in {"raised", "resolved", "acknowledged"} => edge[i].note \in Notes
  /\ \A n \in acks : note[n].row /\ note[n].ack

\* What an open transaction is doing: it emits an edge about no notification, inserts
\* a row, or resolves a row under an id drawn after every edge that raised it
\* (events.py emit, notify, resolve).
Begun(t) ==
  \/ edge[t.id].kind = "plain" /\ t.touch = {}
  \/ \E n \in Notes :
       /\ edge[t.id].note = n /\ t.touch = {n}
       /\ \/ edge[t.id].kind = "raised" /\ ~ note[n].row
          \/ edge[t.id].kind = "resolved" /\ note[n].row /\ Later(n, t.id)

\* One transaction at a time is about the condition (the unique index).
FlyingInv ==
  /\ \A t, u \in flying : t.touch # {} /\ u.touch # {} => t = u
  /\ \A t \in flying : Begun(t)

\* The log and the notifications tell the same story: a raised one has its row, one
\* that was taken off the list is closed, and a closed one was taken off the list
\* after it was last put there, or its acknowledgement is about to.
TablesAgree ==
  \A n \in Notes :
    /\ ~ note[n].row => ~ note[n].ack /\ ~ note[n].resolved
    /\ \A i \in Visible : RaisedOf(n, i) => note[n].row
    /\ \A i \in Visible : RemovalOf(n, i) => note[n].ack \/ note[n].resolved
    /\ note[n].ack \/ note[n].resolved =>
         n \in acks \/ \E e \in Visible : RemovalOf(n, e) /\ Later(n, e)

\* What is gone is older than all that the broker has at hand: only a restart gives
\* up edges without a mark, and it begins with an empty buffer at the last of them.
GoneIsOld ==
  \A q \in Gone :
    /\ \A b \in ToSet(buffer) : q < b
    /\ \A t \in Tasks : \A r \in ToSet(rows[t]) : q < r

\* Behind every message of s comes every later edge of D.
TailComplete(s, D) ==
  \A k \in DOMAIN s : \A q \in D : q > s[k] => \E j \in DOMAIN s : j > k /\ s[j] = q

\* A queue does not go back: behind a message comes every later edge that the broker is
\* done with.
QueueInOrder ==
  client.phase \in {"replay", "live"} /\ ~ client.resync => TailComplete(client.queue, Done)

\* While a replay is awaited, it and the queue hold everything above the browser's
\* last id that the broker is done with, and the replay is in the order of ids.
ReplayIsWhole ==
  client.phase = "replay" /\ ~ client.resync =>
    /\ \A q \in Done : q > client.last => q \in ToSet(client.queue) \union ToSet(client.replay)
    /\ \A k \in DOMAIN client.replay : client.replay[k] > client.last
    /\ \A m, n \in DOMAIN client.replay : m < n => client.replay[m] < client.replay[n]

\* What the buffer and the connection hold are edges; before it subscribes it is owed what was
\* published meanwhile.
MessagesAreEdges ==
  /\ shown \subseteq Notes /\ ToSet(buffer) \subseteq Visible
  /\ ToSet(client.queue) \subseteq Visible \union {Resync}
  /\ ToSet(client.replay) \subseteq Visible
  /\ client.phase = "boot" => client.owed \subseteq pub /\ client.queue = <<>> /\ ~ client.resync
  /\ client.phase = "replay" => client.last # Null

\* The list is right but for what is on its way: an open notification is listed or
\* the edge that raised it is coming, and one that is listed and closed has its
\* removal coming.
ViewIsComing ==
  client.phase # "off" /\ ~ client.resync =>
    /\ \A n \in Open : n \in shown \/ \E i \in Arriving : RaisedOf(n, i)
    /\ \A n \in shown \ Open : n \in acks \/ \E e \in Arriving : RemovalOf(n, e)

\* The tables; the broker; the connection.
TablesInv == NotesInv /\ (slips = {} => FlyingInv /\ TablesAgree)
PassedInv == slips = {} => GoneIsOld
QueueInv  == MessagesAreEdges /\ (slips = {} => QueueInOrder /\ ReplayIsWhole)
ListInv   == slips = {} => ViewIsComing

\* With FeedInv and GapInv, the inductive invariant of SettledViewIsRight.
ViewInv == TablesInv /\ PassedInv /\ QueueInv /\ ListInv


-----------------------------------------------------------------------------
(* The tables. *)

\* Steps that leave the tables alone.
LEMMA TablesStay ==
  ASSUME TablesInv, UNCHANGED db, slips \subseteq slips'
  PROVE  TablesInv'
<1>1. UNCHANGED <<note, edge, flying, acks, log>>
  BY DEF db
<1>2. Visible' = Visible /\ \A n, i : (RaisedOf(n, i)' <=> RaisedOf(n, i)) /\ (RemovalOf(n, i)' <=> RemovalOf(n, i))
  BY <1>1 DEF Visible, RaisedOf, RemovalOf
<1>3. \A n, e : Later(n, e)' <=> Later(n, e)
  BY <1>2 DEF Later
<1>4. NotesInv'
  BY <1>1 DEF TablesInv, NotesInv
<1>5. FlyingInv => FlyingInv'
  BY <1>1, <1>3 DEF FlyingInv, Begun
<1>6. TablesAgree => TablesAgree'
  BY <1>1, <1>2, <1>3 DEF TablesAgree
<1>7. slips' = {} => slips = {}
  OBVIOUS
<1>8. QED
  BY <1>4, <1>5, <1>6, <1>7 DEF TablesInv

\* emit writes an edge that is not visible yet: what the visible ones say, and those
\* of open transactions, is untouched.
LEMMA EmitSays ==
  ASSUME FeedInv, NotesInv, NEW kind \in {"plain", "raised", "resolved", "acknowledged"},
         NEW n \in 0..MaxNotes, kind # "plain" => n \in Notes,
         drawn < MaxId, edge' = [edge EXCEPT ![drawn + 1] = [kind |-> kind, note |-> n]]
  PROVE  /\ drawn + 1 \in Ids /\ drawn + 1 \notin Visible
         /\ \A i \in Visible : i < drawn + 1
         /\ \A t \in flying : t.id # drawn + 1 /\ t.id \in Ids
         /\ edge' \in [Ids -> Edge]
         /\ edge'[drawn + 1].kind = kind /\ edge'[drawn + 1].note = n
         /\ \A i \in Ids : i # drawn + 1 => edge'[i] = edge[i]
         /\ \A i \in Ids : edge'[i].kind \in {"raised", "resolved", "acknowledged"} =>
                           edge'[i].note \in Notes
<1>1. drawn \in Nat /\ drawn + 1 \in Ids
  BY Sizes DEF FeedInv, LogInv, Ids
<1>2. \A i \in Visible : i \in Nat /\ i <= drawn
  BY IdsAreNumbers DEF FeedInv, LogInv
<1>3. \A t \in flying : t.id \in Ids /\ t.id <= drawn /\ t.id \in Nat
  BY Sizes DEF FeedInv, LogInv, Txn
<1>4. [kind |-> kind, note |-> n] \in Edge
  BY DEF Edge
<1>5. edge \in [Ids -> Edge] /\ edge' \in [Ids -> Edge]
  BY <1>1, <1>4 DEF NotesInv
<1>6. edge'[drawn + 1] = [kind |-> kind, note |-> n] /\ \A i \in Ids : i # drawn + 1 => edge'[i] = edge[i]
  BY <1>1, <1>5
<1>7. \A i \in Ids : edge'[i].kind \in {"raised", "resolved", "acknowledged"} => edge'[i].note \in Notes
  <2>1. ASSUME NEW i \in Ids, edge'[i].kind \in {"raised", "resolved", "acknowledged"}
        PROVE  edge'[i].note \in Notes
    <3>1. CASE i = drawn + 1
      BY <3>1, <2>1, <1>6
    <3>2. CASE i # drawn + 1
      BY <3>2, <2>1, <1>6 DEF NotesInv
    <3>3. QED
      BY <3>1, <3>2
  <2>2. QED
    BY <2>1
<1>8. drawn + 1 \notin Visible /\ \A i \in Visible : i < drawn + 1
  BY <1>1, <1>2
<1>9. \A t \in flying : t.id # drawn + 1
  BY <1>1, <1>3
<1>10. QED
  BY <1>1, <1>3, <1>5, <1>6, <1>7, <1>8, <1>9

\* What visible edges say stays.
LEMMA StoryStays ==
  ASSUME Visible' = Visible, \A i \in Visible : edge'[i] = edge[i]
  PROVE  /\ \A n, i : (RaisedOf(n, i)' <=> RaisedOf(n, i)) /\ (RemovalOf(n, i)' <=> RemovalOf(n, i))
         /\ \A n, e : Later(n, e)' <=> Later(n, e)
<1>1. \A n, i : (RaisedOf(n, i)' <=> RaisedOf(n, i)) /\ (RemovalOf(n, i)' <=> RemovalOf(n, i))
  BY DEF RaisedOf, RemovalOf
<1>2. \A n, e : Later(n, e)' <=> Later(n, e)
  BY <1>1 DEF Later
<1>3. QED
  BY <1>1, <1>2

\* A transaction begins: a plain edge, a new row, or the end of the only unresolved
\* one (emit, notify, resolve).
LEMMA EmitTables ==
  ASSUME FeedInv, TablesInv, NEW kind \in {"plain", "raised", "resolved"}, NEW n \in 0..MaxNotes,
         NEW touch \in SUBSET Notes, Emit(kind, n, touch), UNCHANGED <<note, acks, log>>,
         slips \subseteq slips',
         kind # "plain" => n \in Notes,
         slips' = {} =>
           \/ kind = "plain" /\ touch = {}
           \/ kind = "raised" /\ touch = {n} /\ ~ note[n].row /\ Locked = {}
           \/ kind = "resolved" /\ touch = {n} /\ note[n].row /\ Locked = {}
  PROVE  TablesInv' /\ Visible' = Visible /\ \A i \in Visible : edge'[i] = edge[i]
<1>0. PICK e : e = [id |-> drawn + 1, touch |-> touch]
  OBVIOUS
<1>1. /\ drawn < MaxId /\ edge' = [edge EXCEPT ![drawn + 1] = [kind |-> kind, note |-> n]]
      /\ flying' = flying \union {e}
  BY <1>0 DEF Emit
<1>2. /\ drawn + 1 \in Ids /\ drawn + 1 \notin Visible
      /\ \A i \in Visible : i < drawn + 1
      /\ \A t \in flying : t.id # drawn + 1 /\ t.id \in Ids
      /\ edge' \in [Ids -> Edge]
      /\ edge'[drawn + 1].kind = kind /\ edge'[drawn + 1].note = n
      /\ \A i \in Ids : i # drawn + 1 => edge'[i] = edge[i]
      /\ \A i \in Ids : edge'[i].kind \in {"raised", "resolved", "acknowledged"} =>
                        edge'[i].note \in Notes
  <2>1. kind \in {"plain", "raised", "resolved", "acknowledged"} /\ NotesInv
    BY DEF TablesInv
  <2>2. QED
    BY <2>1, <1>1, EmitSays
<1>3. e.id = drawn + 1 /\ e.touch = touch
  BY <1>0
<1>4. Visible' = Visible /\ \A i \in Visible : edge'[i] = edge[i]
  <2>1. Visible \subseteq Ids
    BY IdsAreNumbers
  <2>2. QED
    BY <2>1, <1>2 DEF Visible
<1>5. /\ \A m, i : (RaisedOf(m, i)' <=> RaisedOf(m, i)) /\ (RemovalOf(m, i)' <=> RemovalOf(m, i))
      /\ \A m, i : Later(m, i)' <=> Later(m, i)
  BY <1>4, StoryStays
<1>6. NotesInv'
  BY <1>2 DEF TablesInv, NotesInv
<1>7. ASSUME slips' = {}
      PROVE  FlyingInv' /\ TablesAgree'
  <2>1. FlyingInv /\ TablesAgree
    BY <1>7 DEF TablesInv
  <2>2. TablesAgree'
    BY <2>1, <1>4, <1>5 DEF TablesAgree
  <2>3. touch # {} => \A t \in flying : t.touch = {}
    BY <1>7 DEF Locked
  <2>4. \A t, u \in flying' : t.touch # {} /\ u.touch # {} => t = u
    BY <2>1, <2>3, <1>1, <1>3 DEF FlyingInv
  <2>5. ASSUME NEW t \in flying
        PROVE  Begun(t)'
    <3>1. edge'[t.id] = edge[t.id] /\ note' = note
      BY <1>2
    <3>2. \A m : Later(m, t.id)' <=> Later(m, t.id)
      BY <1>5
    <3>3. Begun(t)
      BY <2>1 DEF FlyingInv
    <3>4. QED
      BY <3>1, <3>2, <3>3 DEF Begun
  <2>6. Begun(e)'
    <3>1. Later(n, e.id)'
      <4>1. \A i \in Visible' : RaisedOf(n, i)' => i < e.id
        BY <1>2, <1>3, <1>4
      <4>2. QED
        BY <4>1 DEF Later
    <3>2. e.id = drawn + 1 /\ e.touch = touch /\ note' = note
      BY <1>3
    <3>3. QED
      BY <3>1, <3>2, <1>2, <1>7 DEF Begun
  <2>7. FlyingInv'
    BY <2>4, <2>5, <2>6, <1>1 DEF FlyingInv
  <2>8. QED
    BY <2>2, <2>7
<1>8. QED
  BY <1>4, <1>6, <1>7 DEF TablesInv


\* A set of notifications with at most one member.
LEMMA OnlyOne ==
  ASSUME NEW S \in SUBSET Notes, NEW n \in S, ~ (Cardinality(S) > 1)
  PROVE  S = {n}
<1>1. IsFiniteSet(S)
  <2>1. MaxNotes \in Nat
    BY BoundsAreNat
  <2>2. IsFiniteSet(Notes)
    BY <2>1, FS_Interval DEF Notes
  <2>3. QED
    BY <2>2, FS_Subset
<1>2. Cardinality(S \ {n}) = Cardinality(S) - 1 /\ IsFiniteSet(S \ {n})
  BY <1>1, FS_RemoveElement
<1>3. Cardinality(S) \in Nat /\ Cardinality(S \ {n}) \in Nat
  BY <1>1, <1>2, FS_CardinalityType
<1>4. Cardinality(S \ {n}) = 0
  BY <1>2, <1>3
<1>5. S \ {n} = {}
  BY <1>2, <1>4, FS_EmptySet
<1>6. QED
  BY <1>5

\* What a step of a writer that shows no edge does to the tables: it keeps what was
\* agreed, and what visible edges say.
LEMMA EmitActionTables ==
  ASSUME FeedInv, TablesInv, EmitPlain \/ Raise \/ Resolve
  PROVE  TablesInv' /\ Visible' = Visible /\ \A i \in Visible : edge'[i] = edge[i]
<1>0. 0 \in 0..MaxNotes /\ Notes \subseteq 0..MaxNotes
  BY BoundsAreNat DEF Notes
<1>1. CASE EmitPlain
  <2>1. Emit("plain", 0, {}) /\ UNCHANGED <<note, acks, log>> /\ slips \subseteq slips'
    BY <1>1 DEF EmitPlain
  <2>2. "plain" \in {"plain", "raised", "resolved"} /\ {} \in SUBSET Notes
    OBVIOUS
  <2>3. QED
    BY <2>1, <2>2, <1>0, EmitTables
<1>2. CASE Raise
  <2>1. PICK n \in Notes : MayRaise(n) /\ Locked = {} /\ Emit("raised", n, {n})
    BY <1>2 DEF Raise
  <2>2. UNCHANGED <<note, acks, log>> /\ slips \subseteq slips' /\ ~ note[n].row
    BY <1>2, <2>1 DEF Raise, MayRaise
  <2>3. "raised" \in {"plain", "raised", "resolved"} /\ {n} \in SUBSET Notes /\ n \in 0..MaxNotes
    BY <1>0
  <2>4. QED
    BY <2>1, <2>2, <2>3, EmitTables
<1>3. CASE Resolve
  <2>1. PICK n \in Unresolved : Emit("resolved", n, Unresolved)
    BY <1>3 DEF Resolve
  <2>2. /\ UNCHANGED <<note, acks, log>> /\ Locked = {} /\ slips \subseteq slips'
        /\ slips' = {} => ~ (Cardinality(Unresolved) > 1)
    BY <1>3 DEF Resolve
  <2>3. PICK touch \in SUBSET Notes : touch = Unresolved
    BY DEF Unresolved
  <2>4. n \in Notes /\ n \in 0..MaxNotes /\ note[n].row /\ n \in touch
    BY <2>1, <2>3, <1>0 DEF Unresolved
  <2>5. slips' = {} => touch = {n}
    <3>1. ASSUME slips' = {}
          PROVE  touch = {n}
      <4>1. ~ (Cardinality(touch) > 1)
        BY <3>1, <2>2, <2>3
      <4>2. QED
        BY <4>1, <2>4, OnlyOne
    <3>2. QED
      BY <3>1
  <2>6. "resolved" \in {"plain", "raised", "resolved"} /\ Emit("resolved", n, touch)
    BY <2>1, <2>3
  <2>7. QED
    BY <2>2, <2>4, <2>5, <2>6, EmitTables
<1>4. QED
  BY <1>1, <1>2, <1>3

\* A transaction rolls back.
LEMMA RollBackTables ==
  ASSUME TablesInv, RollBack
  PROVE  TablesInv' /\ Visible' = Visible /\ edge' = edge
<1>1. flying' \subseteq flying /\ UNCHANGED <<note, edge, acks, log, slips>>
  BY DEF RollBack
<1>2. Visible' = Visible /\ \A i \in Visible : edge'[i] = edge[i]
  BY <1>1 DEF Visible
<1>3. /\ \A m, i : (RaisedOf(m, i)' <=> RaisedOf(m, i)) /\ (RemovalOf(m, i)' <=> RemovalOf(m, i))
      /\ \A m, i : Later(m, i)' <=> Later(m, i)
  BY <1>2, StoryStays
<1>4. NotesInv'
  BY <1>1 DEF TablesInv, NotesInv
<1>5. TablesAgree => TablesAgree'
  BY <1>1, <1>2, <1>3 DEF TablesAgree
<1>6. \A t \in flying : Begun(t) => Begun(t)'
  BY <1>1, <1>3 DEF Begun
<1>7. FlyingInv => FlyingInv'
  BY <1>1, <1>6 DEF FlyingInv
<1>8. QED
  BY <1>1, <1>2, <1>4, <1>5, <1>7 DEF TablesInv

\* One more edge is visible.
LEMMA StoryGrows ==
  ASSUME NEW x, x \notin Visible, Visible' = Visible \union {x}, \A i \in Visible : edge'[i] = edge[i]
  PROVE  /\ \A n, i : RaisedOf(n, i)' <=>
              RaisedOf(n, i) \/ (i = x /\ edge'[x].kind = "raised" /\ edge'[x].note = n)
         /\ \A n, i : RemovalOf(n, i)' <=>
              \/ RemovalOf(n, i)
              \/ i = x /\ edge'[x].kind \in {"resolved", "acknowledged"} /\ edge'[x].note = n
         /\ edge'[x].kind # "raised" => \A n, e : Later(n, e)' <=> Later(n, e)
<1>1. \A n, i : RaisedOf(n, i)' <=>
        RaisedOf(n, i) \/ (i = x /\ edge'[x].kind = "raised" /\ edge'[x].note = n)
  BY DEF RaisedOf
<1>2. \A n, i : RemovalOf(n, i)' <=>
        \/ RemovalOf(n, i)
        \/ i = x /\ edge'[x].kind \in {"resolved", "acknowledged"} /\ edge'[x].note = n
  BY DEF RemovalOf
<1>3. ASSUME edge'[x].kind # "raised"
      PROVE  \A n, e : Later(n, e)' <=> Later(n, e)
  <2>1. \A n, i : RaisedOf(n, i)' <=> RaisedOf(n, i)
    BY <1>1, <1>3
  <2>2. ~ \E n : RaisedOf(n, x)
    BY DEF RaisedOf
  <2>3. QED
    BY <2>1, <2>2 DEF Later
<1>4. QED
  BY <1>1, <1>2, <1>3

\* What a transaction does to the rows when it commits.
LEMMA CommitNotes ==
  ASSUME note \in [Notes -> Note], NEW t, note' = [n \in Notes |-> Effect(t, n)]
  PROVE  /\ note' \in [Notes -> Note]
         /\ \A n \in Notes : note'[n].ack = note[n].ack
         /\ \A n \in Notes : note[n].row => note'[n].row
         /\ \A n \in Notes : n \notin t.touch => note'[n] = note[n]
         /\ \A n \in t.touch : n \in Notes /\ edge[t.id].kind = "raised" =>
              note'[n].row /\ note'[n].resolved = note[n].resolved
         /\ \A n \in t.touch : n \in Notes /\ edge[t.id].kind # "raised" =>
              note'[n].resolved /\ note'[n].row = note[n].row
<1>1. ASSUME NEW n \in Notes
      PROVE  /\ Effect(t, n) \in Note /\ Effect(t, n).ack = note[n].ack
             /\ note[n].row => Effect(t, n).row
             /\ n \notin t.touch => Effect(t, n) = note[n]
             /\ n \in t.touch /\ edge[t.id].kind = "raised" =>
                  Effect(t, n).row /\ Effect(t, n).resolved = note[n].resolved
             /\ n \in t.touch /\ edge[t.id].kind # "raised" =>
                  Effect(t, n).resolved /\ Effect(t, n).row = note[n].row
  <2>1. note[n] \in Note
    OBVIOUS
  <2>2. QED
    BY <2>1 DEF Effect, Note
<1>2. \A n \in Notes : note'[n] = Effect(t, n)
  OBVIOUS
<1>3. note' \in [Notes -> Note]
  BY <1>1
<1>4. QED
  BY <1>1, <1>2, <1>3


\* A commit shows an edge and its effect at once: a raised notification was absent,
\* a resolved one was listed by older edges only.
LEMMA CommitTables ==
  ASSUME FeedInv, TablesInv, slips \subseteq slips', NEW t \in flying,
         flying' = flying \ {t}, log' = Append(log, t.id),
         note' = [n \in Notes |-> Effect(t, n)], UNCHANGED <<edge, acks>>
  PROVE  TablesInv'
<1>1. t.id \in Ids /\ t.id \notin Visible /\ log \in Seq(Ids)
  BY DEF FeedInv, LogInv, Txn
<1>2. Visible' = Visible \union {t.id} /\ \A i \in Visible : edge'[i] = edge[i]
  BY <1>1, Appending DEF Visible
<1>3. /\ \A n, i : RaisedOf(n, i)' <=>
           RaisedOf(n, i) \/ (i = t.id /\ edge[t.id].kind = "raised" /\ edge[t.id].note = n)
      /\ \A n, i : RemovalOf(n, i)' <=>
           \/ RemovalOf(n, i)
           \/ i = t.id /\ edge[t.id].kind \in {"resolved", "acknowledged"} /\ edge[t.id].note = n
      /\ edge[t.id].kind # "raised" => \A n, e : Later(n, e)' <=> Later(n, e)
  BY <1>1, <1>2, StoryGrows
<1>4. /\ note' \in [Notes -> Note]
      /\ \A n \in Notes : note'[n].ack = note[n].ack
      /\ \A n \in Notes : note[n].row => note'[n].row
      /\ \A n \in Notes : n \notin t.touch => note'[n] = note[n]
      /\ \A n \in t.touch : n \in Notes /\ edge[t.id].kind = "raised" =>
           note'[n].row /\ note'[n].resolved = note[n].resolved
      /\ \A n \in t.touch : n \in Notes /\ edge[t.id].kind # "raised" =>
           note'[n].resolved /\ note'[n].row = note[n].row
  BY CommitNotes DEF TablesInv, NotesInv
<1>5. NotesInv'
  <2>1. \A n \in acks' : note'[n].row /\ note'[n].ack
    BY <1>4 DEF TablesInv, NotesInv
  <2>2. QED
    BY <2>1, <1>4 DEF TablesInv, NotesInv
<1>6. ASSUME slips' = {}
      PROVE  FlyingInv'
  <2>1. FlyingInv
    BY <1>6 DEF TablesInv
  <2>2. ASSUME NEW u \in flying'
        PROVE  Begun(u)'
    <3>1. u \in flying /\ u # t /\ Begun(u) /\ Begun(t)
      BY <2>1, <2>2 DEF FlyingInv
    <3>2. CASE u.touch = {}
      <4>1. edge[u.id].kind = "plain"
        BY <3>1, <3>2 DEF Begun
      <4>2. QED
        BY <4>1, <3>2 DEF Begun
    <3>3. CASE u.touch # {}
      <4>1. t.touch = {}
        BY <3>1, <3>3, <2>1 DEF FlyingInv
      <4>2. edge[t.id].kind = "plain"
        BY <4>1, <3>1 DEF Begun
      <4>3. \A n \in Notes : note'[n] = note[n]
        BY <4>1, <1>4
      <4>4. \A n, e : Later(n, e)' <=> Later(n, e)
        BY <4>2, <1>3
      <4>5. QED
        BY <4>3, <4>4, <3>1 DEF Begun
    <3>4. QED
      BY <3>2, <3>3
  <2>3. QED
    BY <2>1, <2>2 DEF FlyingInv
<1>7. ASSUME slips' = {}, NEW n \in Notes
      PROVE  /\ ~ note'[n].row => ~ note'[n].ack /\ ~ note'[n].resolved
             /\ \A i \in Visible' : RaisedOf(n, i)' => note'[n].row
             /\ \A i \in Visible' : RemovalOf(n, i)' => note'[n].ack \/ note'[n].resolved
             /\ note'[n].ack \/ note'[n].resolved =>
                  n \in acks' \/ \E e \in Visible' : RemovalOf(n, e)' /\ Later(n, e)'
  <2>1. FlyingInv /\ TablesAgree
    BY <1>7 DEF TablesInv
  <2>2. /\ ~ note[n].row => ~ note[n].ack /\ ~ note[n].resolved
        /\ \A i \in Visible : RaisedOf(n, i) => note[n].row
        /\ \A i \in Visible : RemovalOf(n, i) => note[n].ack \/ note[n].resolved
        /\ note[n].ack \/ note[n].resolved =>
             n \in acks \/ \E e \in Visible : RemovalOf(n, e) /\ Later(n, e)
    BY <2>1 DEF TablesAgree
  <2>3. Begun(t)
    BY <2>1 DEF FlyingInv
  <2>4. \A i : (RaisedOf(n, i) \/ RemovalOf(n, i)) => i \in Visible
    BY DEF RaisedOf, RemovalOf
  \* It is about n ...
  <2>5. CASE t.touch = {n} /\ edge[t.id].note = n /\ edge[t.id].kind = "raised" /\ ~ note[n].row
    <3>1. note'[n].row /\ note'[n].resolved = note[n].resolved /\ note'[n].ack = note[n].ack
      BY <2>5, <1>4
    <3>2. ~ note[n].ack /\ ~ note[n].resolved
      BY <2>2, <2>5
    <3>3. \A i : ~ RemovalOf(n, i)
      BY <3>2, <2>2, <2>4
    <3>4. \A i : ~ RemovalOf(n, i)'
      BY <3>3, <2>5, <1>3
    <3>5. QED
      BY <3>1, <3>2, <3>4
  <2>6. CASE /\ t.touch = {n} /\ edge[t.id].note = n /\ edge[t.id].kind = "resolved" /\ note[n].row
             /\ Later(n, t.id)
    <3>1. note'[n].resolved /\ note'[n].row
      BY <2>6, <1>4
    <3>2. RemovalOf(n, t.id)' /\ t.id \in Visible'
      BY <2>6, <1>2, <1>3
    <3>3. Later(n, t.id)'
      BY <2>6, <1>3
    <3>4. QED
      BY <3>1, <3>2, <3>3
  \* ... or not.
  <2>7. CASE n \notin t.touch
    <3>1. note'[n] = note[n]
      BY <2>7, <1>4
    <3>2. \A i : (RaisedOf(n, i)' <=> RaisedOf(n, i)) /\ (RemovalOf(n, i)' <=> RemovalOf(n, i))
      BY <2>3, <2>7, <1>3 DEF Begun
    <3>3. \A e : Later(n, e)' <=> Later(n, e)
      BY <3>2, <2>4, <1>2 DEF Later
    <3>4. QED
      BY <3>1, <3>2, <3>3, <2>2, <2>4, <1>2
  <2>8. QED
    BY <2>3, <2>5, <2>6, <2>7 DEF Begun
<1>8. slips' = {} => TablesAgree'
  BY <1>7 DEF TablesAgree
<1>9. QED
  BY <1>5, <1>6, <1>8 DEF TablesInv

\* acknowledge changes a row that no open transaction touches, and owes its edge.
LEMMA AcknowledgeTables ==
  ASSUME TablesInv, NEW n \in Notes \ Locked, note[n].row, note' = [note EXCEPT ![n].ack = TRUE],
         acks' = acks \union {n}, UNCHANGED <<edge, flying, log, slips>>
  PROVE  TablesInv' /\ Visible' = Visible
<1>1. Visible' = Visible /\ \A i \in Visible : edge'[i] = edge[i]
  BY DEF Visible
<1>2. /\ \A m, i : (RaisedOf(m, i)' <=> RaisedOf(m, i)) /\ (RemovalOf(m, i)' <=> RemovalOf(m, i))
      /\ \A m, i : Later(m, i)' <=> Later(m, i)
  BY <1>1, StoryStays
<1>3. /\ note' \in [Notes -> Note] /\ \A m \in Notes : m # n => note'[m] = note[m]
      /\ note'[n].ack /\ note'[n].row /\ note'[n].resolved = note[n].resolved
  BY DEF TablesInv, NotesInv, Note
<1>4. NotesInv'
  <2>1. \A m \in acks' : note'[m].row /\ note'[m].ack
    BY <1>3 DEF TablesInv, NotesInv
  <2>2. QED
    BY <2>1, <1>3 DEF TablesInv, NotesInv
<1>5. FlyingInv => FlyingInv'
  <2>1. ASSUME NEW t \in flying, Begun(t)
        PROVE  Begun(t)'
    <3>1. n \notin t.touch
      BY DEF Locked
    <3>2. \A m \in Notes : t.touch = {m} => note'[m] = note[m]
      BY <3>1, <1>3
    <3>3. QED
      BY <2>1, <3>2, <1>2 DEF Begun
  <2>2. QED
    BY <2>1 DEF FlyingInv
<1>6. TablesAgree => TablesAgree'
  <2>1. ASSUME TablesAgree, NEW m \in Notes
        PROVE  /\ ~ note'[m].row => ~ note'[m].ack /\ ~ note'[m].resolved
               /\ \A i \in Visible' : RaisedOf(m, i)' => note'[m].row
               /\ \A i \in Visible' : RemovalOf(m, i)' => note'[m].ack \/ note'[m].resolved
               /\ note'[m].ack \/ note'[m].resolved =>
                    m \in acks' \/ \E e \in Visible' : RemovalOf(m, e)' /\ Later(m, e)'
    <3>1. CASE m = n
      BY <3>1, <1>3
    <3>2. CASE m # n
      BY <3>2, <2>1, <1>1, <1>2, <1>3 DEF TablesAgree
    <3>3. QED
      BY <3>1, <3>2
  <2>2. QED
    BY <2>1 DEF TablesAgree
<1>7. QED
  BY <1>1, <1>4, <1>5, <1>6 DEF TablesInv

\* The edge of an acknowledgement is above every edge that raised the notification.
LEMMA EmitAckTables ==
  ASSUME FeedInv, TablesInv, NEW n \in acks, NEW x, x = drawn + 1, drawn < MaxId,
         acks' = acks \ {n}, edge' = [edge EXCEPT ![drawn + 1] = [kind |-> "acknowledged", note |-> n]],
         log' = Append(log, drawn + 1), UNCHANGED <<note, flying, slips>>
  PROVE  /\ TablesInv' /\ x \in Ids \ Visible /\ Visible' = Visible \union {x}
         /\ \A i \in Visible : edge'[i] = edge[i]
         /\ RemovalOf(n, x)'
<1>0. n \in Notes /\ n \in 0..MaxNotes /\ NotesInv /\ note[n].row /\ note[n].ack
  BY BoundsAreNat DEF TablesInv, NotesInv, Notes
<1>1. /\ drawn + 1 \in Ids /\ drawn + 1 \notin Visible
      /\ \A i \in Visible : i < drawn + 1
      /\ \A t \in flying : t.id # drawn + 1 /\ t.id \in Ids
      /\ edge' \in [Ids -> Edge]
      /\ edge'[drawn + 1].kind = "acknowledged" /\ edge'[drawn + 1].note = n
      /\ \A i \in Ids : i # drawn + 1 => edge'[i] = edge[i]
      /\ \A i \in Ids : edge'[i].kind \in {"raised", "resolved", "acknowledged"} =>
                        edge'[i].note \in Notes
  <2>1. "acknowledged" \in {"plain", "raised", "resolved", "acknowledged"}
    OBVIOUS
  <2>2. QED
    BY <2>1, <1>0, EmitSays
<1>2. x \in Ids \ Visible /\ Visible' = Visible \union {x} /\ \A i \in Visible : edge'[i] = edge[i]
  <2>1. log \in Seq(Ids) /\ Visible \subseteq Ids
    BY IdsAreNumbers DEF FeedInv, LogInv
  <2>2. QED
    BY <2>1, <1>1, Appending DEF Visible
<1>3. /\ \A m, i : RaisedOf(m, i)' <=> RaisedOf(m, i)
      /\ \A m, i : RemovalOf(m, i)' <=> RemovalOf(m, i) \/ (i = x /\ m = n)
      /\ \A m, e : Later(m, e)' <=> Later(m, e)
  <2>1. edge'[x].kind = "acknowledged" /\ edge'[x].note = n
    BY <1>1
  <2>2. QED
    BY <2>1, <1>2, StoryGrows
<1>4. RemovalOf(n, x)' /\ x \in Visible' /\ Later(n, x)'
  <2>1. Later(n, x)
    BY <1>1 DEF Later
  <2>2. QED
    BY <2>1, <1>2, <1>3
<1>5. NotesInv'
  BY <1>0, <1>1 DEF NotesInv
<1>6. FlyingInv => FlyingInv'
  <2>1. ASSUME NEW t \in flying, Begun(t)
        PROVE  Begun(t)'
    <3>1. edge'[t.id] = edge[t.id]
      BY <1>1
    <3>2. QED
      BY <2>1, <3>1, <1>3 DEF Begun
  <2>2. QED
    BY <2>1 DEF FlyingInv
<1>7. TablesAgree => TablesAgree'
  <2>1. ASSUME TablesAgree, NEW m \in Notes
        PROVE  /\ ~ note'[m].row => ~ note'[m].ack /\ ~ note'[m].resolved
               /\ \A i \in Visible' : RaisedOf(m, i)' => note'[m].row
               /\ \A i \in Visible' : RemovalOf(m, i)' => note'[m].ack \/ note'[m].resolved
               /\ note'[m].ack \/ note'[m].resolved =>
                    m \in acks' \/ \E e \in Visible' : RemovalOf(m, e)' /\ Later(m, e)'
    <3>0. \A i : RaisedOf(m, i) \/ RemovalOf(m, i) => i \in Visible
      BY DEF RaisedOf, RemovalOf
    <3>1. CASE m = n
      BY <3>0, <3>1, <2>1, <1>0, <1>2, <1>3, <1>4 DEF TablesAgree
    <3>2. CASE m # n
      BY <3>0, <3>2, <2>1, <1>2, <1>3 DEF TablesAgree
    <3>3. QED
      BY <3>1, <3>2
  <2>2. QED
    BY <2>1 DEF TablesAgree
<1>8. QED
  BY <1>2, <1>4, <1>5, <1>6, <1>7 DEF TablesInv

\* The edge is lost: a marked step.
LEMMA LoseAckTables ==
  ASSUME TablesInv, LoseAck
  PROVE  TablesInv'
<1>1. slips' # {} /\ acks' \subseteq acks /\ UNCHANGED <<note, edge>>
  BY DEF LoseAck
<1>2. NotesInv'
  BY <1>1 DEF TablesInv, NotesInv
<1>3. QED
  BY <1>1, <1>2 DEF TablesInv


-----------------------------------------------------------------------------
(* What the broker gives up. *)

\* GoneMeans, after the step.
LEMMA GoneMeansAfter ==
  \A i : i \in Gone' <=> /\ i \in Visible' /\ i <= watermark' /\ i \notin pub'
                         /\ \A t \in Tasks : i \notin ToSet(rows'[t])
BY DEF Gone, Visible

\* Steps that move neither the log nor the broker.
LEMMA GoneStays ==
  ASSUME UNCHANGED <<log, broker>>
  PROVE  /\ Visible' = Visible /\ Gone' = Gone /\ Done' = Done
         /\ UNCHANGED <<buffer, rows, pub, watermark>>
         /\ GoneIsOld => GoneIsOld'
<1>1. UNCHANGED <<log, watermark, buffer, rows, pub>>
  BY DEF broker
<1>2. Visible' = Visible /\ Gone' = Gone
  BY <1>1 DEF Visible, Gone
<1>3. QED
  BY <1>1, <1>2 DEF GoneIsOld, Done

\* An edge becomes visible and is not left behind: it is above the watermark.
LEMMA GrowingIsNotGone ==
  ASSUME FeedInv, NEW x \in Ids \ Visible, Visible' = Visible \union {x}, UNCHANGED broker,
         Gone' \subseteq Gone \/ x > watermark
  PROVE  /\ Gone' = Gone /\ Done' = Done /\ x \notin Done
         /\ GoneIsOld => GoneIsOld'
<1>1. UNCHANGED <<watermark, buffer, rows, pub>>
  BY DEF broker
<1>2. x \notin Gone /\ x \notin pub /\ x \in Nat /\ watermark \in Nat
  BY GoneMeans, IdsAreNumbers DEF FeedInv, SentInv
<1>3. x \notin Gone'
  BY <1>2, GoneMeansAfter, <1>1
<1>4. Gone' = Gone
  BY <1>1, <1>2, <1>3, GoneMeans, GoneMeansAfter
<1>5. QED
  BY <1>1, <1>2, <1>4 DEF Done, GoneIsOld

\* Rows that are read lie above the watermark, and what is gone does not.
LEMMA ReadIsNotGone ==
  ASSUME FeedInv, NEW t \in Tasks, Read(t)
  PROVE  /\ Visible' = Visible /\ Gone' = Gone /\ Done' = Done
         /\ GoneIsOld => GoneIsOld'
<1> DEFINE a == Above(watermark, DrainLimit)
<1>1. /\ rows[t] = <<>> /\ rows' = [rows EXCEPT ![t] = a]
      /\ UNCHANGED <<log, watermark, buffer, pub>>
  BY DEF Read, db
<1>2. a \in Seq(Ids) /\ ToSet(a) \subseteq {i \in Visible : i > watermark}
  BY AboveReads, IdsAreNumbers, Sizes DEF FeedInv, LogInv
<1> HIDE DEF a
<1>3. rows'[t] = a /\ \A u \in Tasks : u # t => rows'[u] = rows[u]
  BY <1>1 DEF FeedInv, RowsInv
<1>4. ToSet(rows[t]) = {} /\ Visible' = Visible
  BY <1>1 DEF ToSet, Visible
<1>5. watermark \in Nat /\ \A i \in Visible : i \in Nat
  BY IdsAreNumbers
<1>6. Gone' = Gone
  <2>1. ASSUME NEW i \in Visible, i <= watermark
        PROVE  (\A u \in Tasks : i \notin ToSet(rows'[u])) <=> (\A u \in Tasks : i \notin ToSet(rows[u]))
    <3>1. i \notin ToSet(a)
      BY <2>1, <1>2, <1>5
    <3>2. QED
      BY <3>1, <1>3, <1>4
  <2>2. QED
    BY <2>1, <1>1, <1>4, GoneMeans, GoneMeansAfter
<1>7. ASSUME GoneIsOld
      PROVE  GoneIsOld'
  <2>1. ASSUME NEW q \in Gone, NEW u \in Tasks, NEW r \in ToSet(rows'[u])
        PROVE  q < r
    <3>1. CASE u = t
      <4>1. q <= watermark /\ q \in Nat /\ r > watermark /\ r \in Nat
        BY <3>1, <1>2, <1>3, <1>5, <2>1, GoneMeans
      <4>2. QED
        BY <4>1, <1>5
    <3>2. CASE u # t
      BY <3>2, <2>1, <1>3, <1>7 DEF GoneIsOld
    <3>3. QED
      BY <3>1, <3>2
  <2>2. QED
    BY <2>1, <1>1, <1>6, <1>7 DEF GoneIsOld
<1>8. QED
  BY <1>1, <1>4, <1>6, <1>7 DEF Done

\* Rows are given up, or published, and leave nothing behind.
LEMMA LettingGoIsNotGone ==
  ASSUME FeedInv, NEW t \in Tasks, rows' = [rows EXCEPT ![t] = <<>>], Visible' = Visible,
         watermark' \in Nat, watermark' >= watermark, NEW s \in {{}, ToSet(rows[t])},
         pub' = pub \union s, ToSet(buffer') \subseteq ToSet(buffer) \union s, Gone' \subseteq Gone
  PROVE  /\ Gone' = Gone /\ Done' = Done \union s
         /\ GoneIsOld => GoneIsOld'
<1>1. /\ rows'[t] = <<>> /\ ToSet(rows'[t]) = {}
      /\ \A u \in Tasks : u # t => rows'[u] = rows[u]
  BY LettingGo DEF FeedInv
<1>2. \A u \in Tasks : ToSet(rows'[u]) \subseteq ToSet(rows[u])
  BY <1>1
<1>3. Gone \subseteq Gone'
  <2>1. ASSUME NEW i \in Gone
        PROVE  i \in Gone'
    <3>1. /\ i \in Visible /\ i <= watermark /\ i \notin pub
          /\ \A u \in Tasks : i \notin ToSet(rows[u])
      BY GoneMeans
    <3>2. i \in Nat /\ watermark \in Nat
      BY <3>1, IdsAreNumbers
    <3>3. i <= watermark' /\ i \notin pub' /\ \A u \in Tasks : i \notin ToSet(rows'[u])
      BY <3>1, <3>2, <1>2
    <3>4. QED
      BY <3>1, <3>3, GoneMeansAfter
  <2>2. QED
    BY <2>1
<1>4. Gone' = Gone
  BY <1>3
<1>5. ASSUME GoneIsOld
      PROVE  GoneIsOld'
  <2>1. ASSUME NEW q \in Gone, NEW b \in ToSet(buffer')
        PROVE  q < b
    BY <2>1, <1>5 DEF GoneIsOld
  <2>2. ASSUME NEW q \in Gone, NEW u \in Tasks, NEW r \in ToSet(rows'[u])
        PROVE  q < r
    BY <2>2, <1>2, <1>5 DEF GoneIsOld
  <2>3. QED
    BY <2>1, <2>2, <1>4 DEF GoneIsOld
<1>6. QED
  BY <1>4, <1>5 DEF Done

\* The connection of a task fails.
LEMMA ReadFailsIsNotGone ==
  ASSUME FeedInv, NEW t \in Tasks, ReadFails(t), slips' = {}
  PROVE  /\ Visible' = Visible /\ Gone' = Gone /\ Done' = Done
         /\ GoneIsOld => GoneIsOld'
<1>1. /\ rows' = [rows EXCEPT ![t] = <<>>] /\ UNCHANGED <<log, watermark, buffer, pub>>
      /\ LeftBehind = {}
  BY DEF ReadFails, db
<1>2. Gone' \subseteq Gone /\ Visible' = Visible
  BY <1>1 DEF LeftBehind, Visible
<1>3. watermark' \in Nat /\ watermark' >= watermark
  BY <1>1, IdsAreNumbers
<1>4. {} \in {{}, ToSet(rows[t])} /\ pub' = pub \union {} /\ ToSet(buffer') \subseteq ToSet(buffer) \union {}
  BY <1>1
<1>5. Gone' = Gone /\ Done' = Done \union {} /\ (GoneIsOld => GoneIsOld')
  BY <1>1, <1>2, <1>3, <1>4, LettingGoIsNotGone
<1>6. QED
  BY <1>2, <1>5

\* The buffer holds what it held, and what is published.
LEMMA PublishedBuffer ==
  ASSUME FeedInv, GapInv, NEW t \in Tasks, Publish(t)
  PROVE  ToSet(buffer') \subseteq ToSet(buffer) \union ToSet(rows[t])
<1> DEFINE all == buffer \o rows[t]
<1>1. buffer \in Seq(Ids) /\ rows[t] \in Seq(Ids) /\ buffer' = Latest(all, BUFFER_SIZE)
  BY DEF GapInv, ClientInv, FeedInv, RowsInv, Publish
<1>2. all \in Seq(Ids) /\ ToSet(all) = ToSet(buffer) \union ToSet(rows[t])
  BY <1>1, Joining
<1> HIDE DEF all
<1>3. PICK d \in Nat :
        /\ Latest(all, BUFFER_SIZE) \in Seq(Ids)
        /\ \A k \in 1..Len(Latest(all, BUFFER_SIZE)) :
             k + d \in 1..Len(all) /\ Latest(all, BUFFER_SIZE)[k] = all[k + d]
  <2>1. all \in Seq(Ids) /\ BUFFER_SIZE \in Nat \ {0}
    BY <1>2, Sizes
  <2>2. QED
    BY <2>1, LatestEntries, Zenon
<1>4. ASSUME NEW x \in ToSet(buffer')
      PROVE  x \in ToSet(all)
  <2>1. PICK k \in 1..Len(buffer') : x = buffer'[k]
    BY <1>1, <1>3, <1>4, Entries
  <2>2. k + d \in 1..Len(all) /\ x = all[k + d]
    BY <2>1, <1>1, <1>3
  <2>3. QED
    BY <2>2, <1>2, Entries
<1>5. QED
  BY <1>2, <1>4

\* What is published was at hand, and so is newer than what is gone.
LEMMA PublishIsNotGone ==
  ASSUME FeedInv, GapInv, NEW t \in Tasks, Publish(t), slips' = {}
  PROVE  /\ Visible' = Visible /\ Gone' = Gone /\ Done' = Done \union ToSet(rows[t])
         /\ ToSet(rows[t]) \subseteq Visible
         /\ GoneIsOld => GoneIsOld'
         /\ \A q \in pub \ ToSet(rows[t]), r \in ToSet(rows[t]) : ~ (q > r)
<1>1. /\ rows' = [rows EXCEPT ![t] = <<>>] /\ log' = log /\ rows[t] # <<>>
      /\ watermark' = RaisedTo(t) /\ pub' = pub \union ToSet(rows[t])
      /\ LeftBehind = {}
      /\ \A q \in pub \ ToSet(rows[t]), r \in ToSet(rows[t]) : ~ (q > r)
  BY DEF Publish, db
<1>2. Gone' \subseteq Gone /\ Visible' = Visible
  BY <1>1 DEF LeftBehind, Visible
<1>3. watermark' \in Nat /\ watermark' >= watermark
  <2>1. Last(rows[t]) \in Nat /\ watermark \in Nat
    BY <1>1, LastRow, IdsAreNumbers DEF FeedInv
  <2>2. QED
    BY <2>1, <1>1 DEF RaisedTo
<1>4. ToSet(buffer') \subseteq ToSet(buffer) \union ToSet(rows[t])
  BY PublishedBuffer
<1>5. ToSet(rows[t]) \in {{}, ToSet(rows[t])} /\ ToSet(rows[t]) \subseteq Visible
  BY DEF FeedInv, RowsInv
<1>6. Gone' = Gone /\ Done' = Done \union ToSet(rows[t]) /\ (GoneIsOld => GoneIsOld')
  BY <1>1, <1>2, <1>3, <1>4, <1>5, LettingGoIsNotGone
<1>7. QED
  BY <1>1, <1>2, <1>5, <1>6

\* A restart gives up what nobody sent, and has nothing at hand.
LEMMA RestartIsOld ==
  ASSUME RestartBroker
  PROVE  GoneIsOld' /\ Visible' = Visible
<1>1. buffer' = <<>> /\ rows' = [t \in Tasks |-> <<>>] /\ log' = log
  BY DEF RestartBroker, db
<1>2. ToSet(<<>>) = {}
  BY DEF ToSet
<1>3. ToSet(buffer') = {} /\ \A t \in Tasks : ToSet(rows'[t]) = {}
  BY <1>1, <1>2
<1>4. QED
  BY <1>1, <1>3 DEF GoneIsOld, Visible


-----------------------------------------------------------------------------
(* The writers and what the tasks read: the connection does not see them. *)

\* A connection that is left alone, while nothing is sent or given up, is as good as
\* before.
LEMMA QueueStays ==
  ASSUME QueueInv, UNCHANGED <<client, shown, pub, buffer>>, Visible \subseteq Visible', slips \subseteq slips',
         slips' = {} => Done' = Done
  PROVE  QueueInv'
<1>1. MessagesAreEdges'
  BY DEF QueueInv, MessagesAreEdges
<1>2. ASSUME slips' = {}
      PROVE  QueueInOrder' /\ ReplayIsWhole'
  <2>1. slips = {} /\ Done' = Done
    BY <1>2
  <2>2. QueueInOrder /\ ReplayIsWhole
    BY <2>1 DEF QueueInv
  <2>3. QED
    BY <2>1, <2>2 DEF QueueInOrder, ReplayIsWhole, TailComplete
<1>3. QED
  BY <1>1, <1>2 DEF QueueInv

\* What was arriving still is, and so is a new edge.
LEMMA ArrivingStays ==
  ASSUME UNCHANGED client, Visible \subseteq Visible', Done' = Done
  PROVE  Arriving \subseteq Arriving' /\ Visible' \ Done \subseteq Arriving'
<1>1. Waiting \subseteq Waiting'
  BY DEF Waiting
<1>2. QED
  BY <1>1 DEF Arriving

\* The list stays as good as it was when no edge stops arriving, a notification that
\* opens has its edge coming, and one that closes its removal.
LEMMA ListCarries ==
  ASSUME ViewIsComing, shown' = shown, shown \subseteq Notes,
         client'.phase # "off" /\ ~ client'.resync => client.phase # "off" /\ ~ client.resync,
         client'.phase # "off" /\ ~ client'.resync => Arriving \subseteq Arriving',
         \A n, i : RaisedOf(n, i) => RaisedOf(n, i)',
         \A n, i : RemovalOf(n, i) => RemovalOf(n, i)',
         \A n \in Open' \ Open : \E i \in Arriving' : RaisedOf(n, i)',
         \A n \in Open \ Open' : n \in acks' \/ \E e \in Arriving' : RemovalOf(n, e)',
         \A n \in acks \ acks' : \E e \in Arriving' : RemovalOf(n, e)'
  PROVE  ViewIsComing'
<1>1. SUFFICES ASSUME client'.phase # "off", ~ client'.resync
               PROVE  /\ \A n \in Open' : n \in shown' \/ \E i \in Arriving' : RaisedOf(n, i)'
                      /\ \A n \in shown' \ Open' : n \in acks' \/ \E e \in Arriving' : RemovalOf(n, e)'
  BY DEF ViewIsComing
<1>2. /\ \A n \in Open : n \in shown \/ \E i \in Arriving : RaisedOf(n, i)
      /\ \A n \in shown \ Open : n \in acks \/ \E e \in Arriving : RemovalOf(n, e)
      /\ Arriving \subseteq Arriving'
  BY <1>1 DEF ViewIsComing
<1>3. ASSUME NEW n \in Open'
      PROVE  n \in shown' \/ \E i \in Arriving' : RaisedOf(n, i)'
  BY <1>2, <1>3
<1>4. ASSUME NEW n \in shown \ Open'
      PROVE  n \in acks' \/ \E e \in Arriving' : RemovalOf(n, e)'
  BY <1>2, <1>4
<1>5. QED
  BY <1>3, <1>4

\* Open is about the notifications alone.
LEMMA OpenMeans ==
  /\ \A n : n \in Open <=> n \in Notes /\ note[n].row /\ ~ note[n].ack /\ ~ note[n].resolved
  /\ \A n : n \in Open' <=> n \in Notes /\ note'[n].row /\ ~ note'[n].ack /\ ~ note'[n].resolved
BY DEF Open, Untouched

\* A step that changes neither notifications nor visible edges nor what the browser
\* has, and leaves nothing behind.
LEMMA QuietStep ==
  ASSUME ViewInv, TablesInv', UNCHANGED <<note, acks, client, shown, pub, buffer>>, slips \subseteq slips',
         Visible' = Visible, \A i \in Visible : edge'[i] = edge[i],
         slips' = {} => Done' = Done /\ (GoneIsOld => GoneIsOld')
  PROVE  ViewInv'
<1>1. QueueInv'
  BY QueueStays DEF ViewInv
<1>2. PassedInv'
  BY DEF ViewInv, PassedInv
<1>3. ASSUME slips' = {}
      PROVE  ViewIsComing'
  <2>1. ViewIsComing /\ shown \subseteq Notes /\ Done' = Done
    BY <1>3 DEF ViewInv, ListInv, QueueInv, MessagesAreEdges
  <2>2. Arriving \subseteq Arriving'
    BY <2>1, ArrivingStays
  <2>3. \A n, i : (RaisedOf(n, i)' <=> RaisedOf(n, i)) /\ (RemovalOf(n, i)' <=> RemovalOf(n, i))
    BY StoryStays
  <2>4. Open' = Open
    BY OpenMeans
  <2>5. QED
    BY <2>1, <2>2, <2>3, <2>4, ListCarries
<1>4. QED
  BY <1>1, <1>2, <1>3 DEF ViewInv, ListInv

\* A transaction begins or ends without a trace; a task reads, or loses what it read.
LEMMA QuietKeepsView ==
  ASSUME FeedInv, ViewInv,
         \/ EmitPlain \/ Raise \/ Resolve \/ RollBack
         \/ \E t \in Tasks : Read(t) \/ ReadFails(t)
  PROVE  ViewInv'
<1>0. TablesInv
  BY DEF ViewInv
<1>1. CASE EmitPlain \/ Raise \/ Resolve
  <2>1. TablesInv' /\ Visible' = Visible /\ \A i \in Visible : edge'[i] = edge[i]
    BY <1>0, <1>1, EmitActionTables
  <2>2. UNCHANGED <<note, acks, client, shown>> /\ UNCHANGED <<log, broker>> /\ slips \subseteq slips'
    BY <1>1 DEF EmitPlain, Raise, Resolve
  <2>3. Done' = Done /\ (GoneIsOld => GoneIsOld') /\ UNCHANGED <<pub, buffer>>
    BY <2>2, GoneStays
  <2>4. QED
    BY <2>1, <2>2, <2>3, QuietStep
<1>2. CASE RollBack
  <2>1. TablesInv' /\ Visible' = Visible /\ \A i \in Visible : edge'[i] = edge[i]
    BY <1>0, <1>2, RollBackTables
  <2>2. UNCHANGED <<note, acks, client, shown>> /\ UNCHANGED <<log, broker>> /\ slips \subseteq slips'
    BY <1>2 DEF RollBack
  <2>3. Done' = Done /\ (GoneIsOld => GoneIsOld') /\ UNCHANGED <<pub, buffer>>
    BY <2>2, GoneStays
  <2>4. QED
    BY <2>1, <2>2, <2>3, QuietStep
<1>3. ASSUME NEW t \in Tasks, Read(t) \/ ReadFails(t)
      PROVE  ViewInv'
  <2>1. UNCHANGED db /\ UNCHANGED <<client, shown, pub, buffer>> /\ slips \subseteq slips'
    BY <1>3 DEF Read, ReadFails
  <2>2. TablesInv' /\ UNCHANGED <<note, acks>>
    BY <2>1, <1>0, TablesStay DEF db
  <2>3. Visible' = Visible /\ \A i \in Visible : edge'[i] = edge[i]
    BY <2>1 DEF Visible, db
  <2>4. slips' = {} => Done' = Done /\ (GoneIsOld => GoneIsOld')
    BY <1>3, ReadIsNotGone, ReadFailsIsNotGone
  <2>5. QED
    BY <2>1, <2>2, <2>3, <2>4, QuietStep
<1>4. QED
  BY <1>1, <1>2, <1>3

\* acknowledge closes a notification and owes its edge.
LEMMA AcknowledgeKeepsView ==
  ASSUME FeedInv, ViewInv, Acknowledge
  PROVE  ViewInv'
<1>1. PICK n \in Notes \ Locked :
        /\ note[n].row /\ note' = [note EXCEPT ![n].ack = TRUE] /\ acks' = acks \union {n}
  BY DEF Acknowledge
<1>2. UNCHANGED <<edge, flying, log, slips>> /\ UNCHANGED <<client, shown>> /\ UNCHANGED <<log, broker>>
  BY DEF Acknowledge
<1>3. TablesInv' /\ Visible' = Visible
  BY <1>1, <1>2, AcknowledgeTables DEF ViewInv
<1>4. Done' = Done /\ (GoneIsOld => GoneIsOld') /\ UNCHANGED <<pub, buffer>>
  BY <1>2, GoneStays
<1>5. QueueInv'
  BY <1>2, <1>3, <1>4, QueueStays DEF ViewInv
<1>6. PassedInv'
  BY <1>2, <1>4 DEF ViewInv, PassedInv
<1>7. ASSUME slips' = {}
      PROVE  ViewIsComing'
  <2>1. ViewIsComing /\ shown \subseteq Notes
    BY <1>2, <1>7 DEF ViewInv, ListInv, QueueInv, MessagesAreEdges
  <2>2. Arriving \subseteq Arriving'
    BY <1>2, <1>3, <1>4, ArrivingStays
  <2>3. \A m, i : (RaisedOf(m, i)' <=> RaisedOf(m, i)) /\ (RemovalOf(m, i)' <=> RemovalOf(m, i))
    BY <1>2, <1>3, StoryStays
  <2>4. \A m \in Notes : m # n => note'[m] = note[m]
    BY <1>1 DEF ViewInv, TablesInv, NotesInv
  <2>5. note'[n].ack
    BY <1>1 DEF ViewInv, TablesInv, NotesInv, Note
  <2>6. Open' = Open \ {n}
    BY <2>4, <2>5, OpenMeans
  <2>7. QED
    BY <2>1, <2>2, <2>3, <2>6, <1>1, <1>2, ListCarries
<1>8. QED
  BY <1>3, <1>5, <1>6, <1>7 DEF ViewInv, ListInv

\* The edge is lost: marked.
LEMMA LoseAckKeepsView ==
  ASSUME FeedInv, ViewInv, LoseAck
  PROVE  ViewInv'
<1>1. slips' # {} /\ slips \subseteq slips' /\ UNCHANGED <<client, shown>> /\ UNCHANGED <<log, broker>>
  BY DEF LoseAck
<1>2. TablesInv'
  BY LoseAckTables DEF ViewInv
<1>3. Visible' = Visible /\ UNCHANGED <<pub, buffer>>
  BY <1>1, GoneStays
<1>4. QueueInv'
  BY <1>1, <1>3, QueueStays DEF ViewInv
<1>5. QED
  BY <1>1, <1>2, <1>4 DEF ViewInv, PassedInv, ListInv

\* A transaction commits: the notification it opens or closes has its edge coming,
\* unless the edge is left behind, which is marked.
LEMMA CommitKeepsView ==
  ASSUME FeedInv, ViewInv, Commit
  PROVE  ViewInv'
<1>1. PICK t \in flying :
        flying' = flying \ {t} /\ log' = Append(log, t.id) /\ note' = [n \in Notes |-> Effect(t, n)]
  BY DEF Commit
<1>2. /\ UNCHANGED <<edge, acks>> /\ UNCHANGED <<client, shown>> /\ UNCHANGED broker
      /\ slips' = slips \union LeftBehind
  BY DEF Commit
<1>3. TablesInv' /\ slips \subseteq slips'
  BY <1>1, <1>2, CommitTables DEF ViewInv
<1>4. t.id \in Ids /\ t.id \notin Visible /\ Visible' = Visible \union {t.id}
  <2>1. t.id \in Ids /\ t.id \notin Visible /\ log \in Seq(Ids)
    BY <1>1 DEF FeedInv, LogInv, Txn
  <2>2. QED
    BY <2>1, <1>1, Appending DEF Visible
<1>5. slips' = {} => Done' = Done /\ t.id \notin Done /\ (GoneIsOld => GoneIsOld')
  <2>1. ASSUME slips' = {}
        PROVE  Gone' \subseteq Gone
    BY <2>1, <1>2 DEF LeftBehind
  <2>2. QED
    BY <2>1, <1>2, <1>4, GrowingIsNotGone
<1>6. QueueInv'
  BY <1>2, <1>3, <1>4, <1>5, QueueStays DEF ViewInv, broker
<1>7. PassedInv'
  BY <1>3, <1>5 DEF ViewInv, PassedInv
<1>8. ASSUME slips' = {}
      PROVE  ViewIsComing'
  <2>1. /\ ViewIsComing /\ shown \subseteq Notes /\ Begun(t) /\ TablesAgree
        /\ note \in [Notes -> Note]
    BY <1>3, <1>8 DEF ViewInv, ListInv, QueueInv, MessagesAreEdges, TablesInv, FlyingInv, NotesInv
  <2>2. Arriving \subseteq Arriving' /\ t.id \in Arriving'
    BY <1>2, <1>4, <1>5, <1>8, ArrivingStays
  <2>3. /\ \A n, i : RaisedOf(n, i)' <=>
             RaisedOf(n, i) \/ (i = t.id /\ edge[t.id].kind = "raised" /\ edge[t.id].note = n)
        /\ \A n, i : RemovalOf(n, i)' <=>
             \/ RemovalOf(n, i)
             \/ i = t.id /\ edge[t.id].kind \in {"resolved", "acknowledged"} /\ edge[t.id].note = n
    BY <1>2, <1>4, StoryGrows
  <2>4. /\ \A n \in Notes : n \notin t.touch => note'[n] = note[n]
        /\ \A n \in t.touch : n \in Notes /\ edge[t.id].kind # "raised" => note'[n].resolved
    BY <2>1, <1>1, CommitNotes
  <2>5. ASSUME NEW n \in Open' \ Open
        PROVE  RaisedOf(n, t.id)'
    <3>1. n \in Notes /\ n \in t.touch /\ ~ note'[n].resolved
      BY <2>4, <2>5, OpenMeans
    <3>2. edge[t.id].kind = "raised" /\ edge[t.id].note = n
      BY <3>1, <2>1, <2>4 DEF Begun
    <3>3. QED
      BY <3>2, <2>3
  <2>6. ASSUME NEW n \in Open \ Open'
        PROVE  RemovalOf(n, t.id)'
    <3>1. n \in Notes /\ n \in t.touch /\ note[n].row
      BY <2>4, <2>6, OpenMeans
    <3>2. edge[t.id].kind = "resolved" /\ edge[t.id].note = n
      BY <3>1, <2>1 DEF Begun
    <3>3. QED
      BY <3>2, <2>3
  <2>7. QED
    BY <2>1, <2>2, <2>3, <2>5, <2>6, <1>2, ListCarries
<1>9. QED
  BY <1>3, <1>6, <1>7, <1>8 DEF ViewInv, ListInv

\* The edge of an acknowledgement is visible at once, above the watermark.
LEMMA EmitAckKeepsView ==
  ASSUME FeedInv, ViewInv, EmitAck
  PROVE  ViewInv'
<1>1. PICK n \in acks :
        /\ acks' = acks \ {n}
        /\ edge' = [edge EXCEPT ![drawn + 1] = [kind |-> "acknowledged", note |-> n]]
  BY DEF EmitAck
<1>2. /\ drawn < MaxId /\ log' = Append(log, drawn + 1) /\ UNCHANGED <<note, flying, slips>>
      /\ UNCHANGED <<client, shown>> /\ UNCHANGED broker
  BY DEF EmitAck
<1>3. PICK x : x = drawn + 1
  OBVIOUS
<1>4. /\ TablesInv' /\ x \in Ids \ Visible /\ Visible' = Visible \union {x}
      /\ \A i \in Visible : edge'[i] = edge[i]
      /\ RemovalOf(n, x)'
  BY <1>1, <1>2, <1>3, EmitAckTables DEF ViewInv
<1>5. Done' = Done /\ x \notin Done /\ (GoneIsOld => GoneIsOld')
  <2>1. x > watermark
    BY <1>3, IdsAreNumbers
  <2>2. QED
    BY <2>1, <1>2, <1>4, GrowingIsNotGone
<1>6. QueueInv'
  BY <1>2, <1>4, <1>5, QueueStays DEF ViewInv, broker
<1>7. PassedInv'
  BY <1>2, <1>5 DEF ViewInv, PassedInv
<1>8. ASSUME slips' = {}
      PROVE  ViewIsComing'
  <2>1. ViewIsComing /\ shown \subseteq Notes
    BY <1>2, <1>8 DEF ViewInv, ListInv, QueueInv, MessagesAreEdges
  <2>2. Arriving \subseteq Arriving' /\ x \in Arriving'
    BY <1>2, <1>4, <1>5, ArrivingStays
  <2>3. \A m, i : (RaisedOf(m, i) => RaisedOf(m, i)') /\ (RemovalOf(m, i) => RemovalOf(m, i)')
    BY <1>4, StoryGrows
  <2>4. Open' = Open
    BY <1>2, OpenMeans
  <2>5. QED
    BY <2>1, <2>2, <2>3, <2>4, <1>1, <1>2, <1>4, ListCarries
<1>9. QED
  BY <1>4, <1>6, <1>7, <1>8 DEF ViewInv, ListInv


-----------------------------------------------------------------------------
(* The queue of a connection. *)

\* offer, as long as the queue does not overflow, is a concatenation.
LEMMA OfferedQueue ==
  ASSUME NEW c \in Clients, NEW s \in Seq(1..Resync)
  PROVE  /\ ToSet(Offered(c, s).queue) \subseteq ToSet(c.queue) \union ToSet(s)
         /\ ~ Offered(c, s).resync => Offered(c, s).queue = c.queue \o s
<1> DEFINE q == c.queue \o s
           f == First(q, QUEUE_LIMIT)
           r == c.resync \/ Len(q) > QUEUE_LIMIT
<1>1. c.queue \in Seq(1..Resync) /\ c.resync \in BOOLEAN
  BY DEF Clients
<1>2. q \in Seq(1..Resync) /\ ToSet(q) = ToSet(c.queue) \union ToSet(s)
  BY <1>1, Joining
<1> HIDE DEF q
<1>3. /\ f \in Seq(1..Resync) /\ (~ (Len(q) > QUEUE_LIMIT) => f = q)
      /\ \A k \in 1..Len(f) : k \in 1..Len(q) /\ f[k] = q[k]
  BY <1>2, Sizes, FirstEntries
<1>4. Offered(c, s) = [c EXCEPT !.queue = f, !.resync = r]
  BY DEF Offered, q, f, Clients
<1> HIDE DEF f
<1>5. r \/ f = q
  BY <1>3
<1>6. Offered(c, s).queue = f /\ (Offered(c, s).resync <=> r)
  <2>1. r \in BOOLEAN
    OBVIOUS
  <2> HIDE DEF r
  <2>2. QED
    BY <2>1, <1>4 DEF Clients
<1>7. ToSet(f) \subseteq ToSet(q)
  <2>1. ASSUME NEW x \in ToSet(f)
        PROVE  x \in ToSet(q)
    <3>1. PICK k \in 1..Len(f) : x = f[k]
      BY <1>3, Entries
    <3>2. k \in 1..Len(q) /\ x = q[k]
      BY <3>1, <1>3
    <3>3. QED
      BY <3>2, <1>2, Entries
  <2>2. QED
    BY <2>1
<1>8. ~ Offered(c, s).resync => Offered(c, s).queue = q
  BY <1>5, <1>6
<1>9. QED
  BY <1>2, <1>6, <1>7, <1>8 DEF q

\* Rows in the order of ids that reach up to all later edges may go behind a queue.
LEMMA JoiningCompletes ==
  ASSUME NEW s \in Seq(1..Resync), NEW r \in Seq(Ids), NEW D \in SUBSET Nat, NEW E \in SUBSET Nat,
         TailComplete(s, D), \A q \in E : q \in D \/ q \in ToSet(r),
         \A x \in ToSet(r), q \in E : q > x => q \in ToSet(r),
         \A m, n \in DOMAIN r : m < n => r[m] < r[n]
  PROVE  TailComplete(s \o r, E)
<1> DEFINE all == s \o r
<1>1. r \in Seq(1..Resync)
  BY EdgesAreMessages
<1>2. /\ all \in Seq(1..Resync) /\ Len(all) = Len(s) + Len(r)
      /\ \A k \in 1..Len(s) : all[k] = s[k]
      /\ \A k \in 1..Len(r) : all[Len(s) + k] = r[k]
  BY <1>1, Joining
<1>3. /\ Len(s) \in Nat /\ Len(r) \in Nat /\ DOMAIN s = 1..Len(s) /\ DOMAIN r = 1..Len(r)
      /\ DOMAIN all = 1..Len(all)
  BY <1>2
<1>4. /\ \A k \in 1..Len(r) : r[k] \in ToSet(r) /\ r[k] \in Nat
      /\ \A q \in ToSet(r) : \E k \in 1..Len(r) : q = r[k]
  <2>1. \A k \in 1..Len(r) : r[k] \in ToSet(r) /\ r[k] \in Ids
    BY Entries
  <2>2. QED
    BY <2>1, Entries, Sizes
<1> HIDE DEF all
<1>5. ASSUME NEW k \in 1..Len(all), NEW q \in E, q > all[k]
      PROVE  \E j \in 1..Len(all) : j > k /\ all[j] = q
  <2>1. CASE k \in 1..Len(s)
    <3>1. all[k] = s[k]
      BY <2>1, <1>2
    <3>2. CASE q \in ToSet(r)
      <4>1. PICK j \in 1..Len(r) : q = r[j]
        BY <3>2, <1>4
      <4>2. Len(s) + j \in 1..Len(all) /\ Len(s) + j > k /\ all[Len(s) + j] = q
        BY <4>1, <2>1, <1>2, <1>3
      <4>3. QED
        BY <4>2
    <3>3. CASE q \notin ToSet(r)
      <4>1. q \in D
        BY <3>3
      <4>2. PICK j \in 1..Len(s) : j > k /\ s[j] = q
        BY <4>1, <3>1, <2>1, <1>3, <1>5 DEF TailComplete
      <4>3. j \in 1..Len(all) /\ all[j] = q
        BY <4>2, <1>2, <1>3
      <4>4. QED
        BY <4>2, <4>3
    <3>4. QED
      BY <3>2, <3>3
  <2>2. CASE k \notin 1..Len(s)
    <3>0. k - Len(s) \in 1..Len(r) /\ Len(s) + (k - Len(s)) = k
      BY <2>2, <1>2, <1>3
    <3>1. PICK d \in 1..Len(r) : Len(s) + d = k
      BY <3>0
    <3>2. all[k] = r[d]
      BY <3>1, <1>2
    <3>3. q \in ToSet(r)
      BY <3>1, <3>2, <1>4, <1>5
    <3>4. PICK j \in 1..Len(r) : q = r[j]
      BY <3>3, <1>4
    <3>5. j > d
      <4>1. ASSUME ~ (j > d)
            PROVE  FALSE
        <5>1. j \in Nat /\ d \in Nat
          BY <1>3
        <5>2. j = d \/ j < d
          BY <4>1, <5>1
        <5>3. r[j] = r[d] \/ r[j] < r[d]
          BY <5>2, <3>1, <3>4, <1>3
        <5>4. r[j] \in Nat /\ r[d] \in Nat /\ r[j] > r[d]
          BY <3>1, <3>2, <3>4, <1>4, <1>5
        <5>5. QED
          BY <5>3, <5>4
      <4>2. QED
        BY <4>1
    <3>6. Len(s) + j \in 1..Len(all) /\ Len(s) + j > k /\ all[Len(s) + j] = q
      <4>1. Len(s) + j \in 1..Len(all) /\ Len(s) + j > Len(s) + d
        BY <3>5, <1>2, <1>3
      <4>2. QED
        BY <4>1, <3>1, <3>4, <1>2
    <3>7. QED
      BY <3>6
  <2>3. QED
    BY <2>1, <2>2
<1>6. TailComplete(all, E)
  BY <1>3, <1>5 DEF TailComplete
<1>7. QED
  BY <1>6 DEF all

\* What is behind the first message is complete as well, and behind the first comes all
\* that is later.
LEMMA TakingCompletes ==
  ASSUME NEW s \in Seq(1..Resync), s # <<>>, NEW D \in SUBSET Nat, TailComplete(s, D)
  PROVE  /\ TailComplete(Tail(s), D)
         /\ \A q \in D : q > Head(s) => q \in ToSet(Tail(s))
         /\ ToSet(Tail(s)) \subseteq ToSet(s) /\ Head(s) \in ToSet(s)
<1> DEFINE u == Tail(s)
<1>1. /\ Head(s) = s[1] /\ u \in Seq(1..Resync) /\ Len(u) = Len(s) - 1 /\ Len(s) \in Nat \ {0}
      /\ \A k \in 1..Len(u) : u[k] = s[k + 1]
      /\ DOMAIN u = 1..Len(u) /\ DOMAIN s = 1..Len(s)
  OBVIOUS
<1> HIDE DEF u
<1>2. ASSUME NEW k \in 1..Len(u), NEW q \in D, q > u[k]
      PROVE  \E j \in 1..Len(u) : j > k /\ u[j] = q
  <2>1. k + 1 \in 1..Len(s) /\ u[k] = s[k + 1]
    BY <1>1
  <2>2. PICK j \in 1..Len(s) : j > k + 1 /\ s[j] = q
    BY <2>1, <1>1, <1>2 DEF TailComplete
  <2>3. j - 1 \in 1..Len(u) /\ j - 1 > k /\ (j - 1) + 1 = j
    BY <2>1, <2>2, <1>1
  <2>4. u[j - 1] = q
    BY <2>2, <2>3, <1>1
  <2>5. QED
    BY <2>3, <2>4
<1>3. ASSUME NEW q \in D, q > Head(s)
      PROVE  q \in ToSet(u)
  <2>1. 1 \in 1..Len(s)
    BY <1>1
  <2>2. PICK j \in 1..Len(s) : j > 1 /\ s[j] = q
    BY <2>1, <1>1, <1>3 DEF TailComplete
  <2>3. j - 1 \in 1..Len(u) /\ (j - 1) + 1 = j
    BY <2>2, <1>1
  <2>4. u[j - 1] = q
    BY <2>2, <2>3, <1>1
  <2>5. QED
    BY <2>3, <2>4, <1>1, Entries
<1>4. ASSUME NEW x \in ToSet(u)
      PROVE  x \in ToSet(s)
  <2>1. PICK k \in 1..Len(u) : x = u[k]
    BY <1>1, Entries
  <2>2. k + 1 \in 1..Len(s) /\ x = s[k + 1]
    BY <2>1, <1>1
  <2>3. QED
    BY <2>2, Entries
<1>5. Head(s) \in ToSet(s)
  <2>1. 1 \in 1..Len(s)
    BY <1>1
  <2>2. QED
    BY <2>1, <1>1, Entries
<1>6. TailComplete(u, D)
  <2>1. DOMAIN u = 1..Len(u)
    BY <1>1
  <2>2. \A k \in DOMAIN u : \A q \in D : q > u[k] => \E j \in DOMAIN u : j > k /\ u[j] = q
    BY <2>1, <1>2, Zenon
  <2>3. QED
    BY <2>2, Zenon DEF TailComplete
<1>7. QED
  BY <1>3, <1>4, <1>5, <1>6 DEF u

\* The buffer's messages above an id are in the order of the buffer: as long as no older
\* edge was published after a newer one, and the buffer is above what is gone, behind
\* each come all that are later.
LEMMA BufferCompletes ==
  ASSUME FeedInv, GapInv, GoneIsOld, "order" \notin slips, NEW low \in Nat
  PROVE  TailComplete(BufferAbove(low), Done)
<1> DEFINE S == {k \in DOMAIN buffer : buffer[k] > low}
           a == Ascending(S)
           b == [k \in DOMAIN a |-> buffer[a[k]]]
<1>0. buffer \in Seq(Ids)
  BY DEF GapInv, ClientInv
<1>1. Len(buffer) \in Nat /\ DOMAIN buffer = 1..Len(buffer) /\ S \in SUBSET (1..Len(buffer))
  BY <1>0, Entries
<1>2. a \in Seq(S) /\ ToSet(a) = S /\ \A m, n \in 1..Len(a) : m < n => a[m] < a[n]
  BY <1>1, AscendingOrders
<1>3. b = BufferAbove(low)
  BY DEF BufferAbove
<1> HIDE DEF a
<1>4. Len(a) \in Nat /\ DOMAIN a = 1..Len(a) /\ \A k \in 1..Len(a) : a[k] \in S
  BY <1>2
<1>5. /\ DOMAIN b = 1..Len(a) /\ \A k \in 1..Len(a) : b[k] = buffer[a[k]]
      /\ \A k \in 1..Len(a) : a[k] \in Nat /\ a[k] \in 1..Len(buffer) /\ buffer[a[k]] > low
      /\ \A k \in 1..Len(a) : buffer[a[k]] \in ToSet(buffer)
  <2>1. \A k \in 1..Len(a) : a[k] \in 1..Len(buffer) /\ buffer[a[k]] > low
    BY <1>1, <1>4
  <2>2. \A k \in 1..Len(a) : buffer[a[k]] \in ToSet(buffer)
    BY <2>1, <1>0, Entries
  <2>3. QED
    BY <2>1, <2>2, <1>1, <1>4
<1> HIDE DEF b
<1>6. \A k \in 1..Len(buffer) : buffer[k] \in Nat
  <2>1. \A k \in 1..Len(buffer) : buffer[k] \in Ids
    BY <1>0
  <2>2. QED
    BY <2>1, Sizes
<1>7. ASSUME NEW k \in 1..Len(a), NEW q \in Done, q > b[k]
      PROVE  \E j \in 1..Len(a) : j > k /\ b[j] = q
  <2>1. b[k] \in ToSet(buffer) /\ b[k] \in Nat /\ b[k] = buffer[a[k]] /\ a[k] \in 1..Len(buffer)
    BY <1>5, <1>6
  <2>2. q \in Nat
    BY IdsAreNumbers, GoneMeans DEF Done
  <2>3. q \notin Gone
    <3>1. ASSUME q \in Gone
          PROVE  FALSE
      <4>1. q < b[k]
        BY <3>1, <2>1 DEF GoneIsOld
      <4>2. QED
        BY <4>1, <2>1, <2>2, <1>7
    <3>2. QED
      BY <3>1
  <2>4. q \in pub /\ q >= buffer[a[k]]
    BY <2>1, <2>2, <2>3, <1>7 DEF Done
  <2>5. PICK p \in 1..Len(buffer) : a[k] <= p /\ buffer[p] = q
    BY <2>1, <2>4, <1>1 DEF GapInv, BufferIsASuffix
  <2>6. a[k] < p
    BY <2>1, <2>2, <2>5, <1>7
  <2>7. buffer[p] > low
    <3>1. buffer[a[k]] > low
      BY <1>5
    <3>2. QED
      BY <3>1, <2>1, <2>2, <2>5, <1>7
  <2>8. p \in ToSet(a)
    BY <2>7, <2>5, <1>1, <1>2
  <2>9. PICK j \in 1..Len(a) : p = a[j]
    BY <2>8, <1>2, Entries
  <2>10. j > k
    <3>1. ASSUME ~ (j > k)
          PROVE  FALSE
      <4>1. j = k \/ j < k
        BY <3>1, <2>9, <1>4
      <4>2. a[j] = a[k] \/ a[j] < a[k]
        BY <4>1, <1>2, <2>9
      <4>3. a[j] \in Nat /\ a[k] \in Nat
        BY <1>5, <2>9
      <4>4. QED
        BY <4>2, <4>3, <2>6, <2>9
    <3>2. QED
      BY <3>1
  <2>11. b[j] = q
    BY <2>5, <2>9, <1>5
  <2>12. QED
    BY <2>10, <2>11
<1>8. TailComplete(b, Done)
  BY <1>5, <1>7 DEF TailComplete
<1>9. QED
  BY <1>3, <1>8

\* The table has everything above the browser's last id that the broker is done with.
LEMMA TableHasAll ==
  ASSUME FeedInv, NEW last \in Nat, ~ TooFarBehind(last), NEW q \in Done, q > last
  PROVE  q \in ToSet(Above(last, MAX_REPLAY))
<1>1. watermark \in Nat /\ MAX_REPLAY \in Nat /\ watermark - last <= MAX_REPLAY
  BY IdsAreNumbers, Sizes DEF TooFarBehind
<1>2. log \in Seq(Ids)
  BY DEF FeedInv, LogInv
<1>3. q \in Visible /\ q <= watermark /\ q \in Nat
  BY IdsAreNumbers, GoneMeans DEF FeedInv, SentInv, Done
<1>4. last < q /\ q - last <= MAX_REPLAY
  BY <1>1, <1>3
<1>5. QED
  BY <1>1, <1>2, <1>3, <1>4, AboveReads


-----------------------------------------------------------------------------
(* The steps that change what the browser has or gets. *)

\* A connection that has ended is owed nothing.
LEMMA OffKeepsView ==
  ASSUME TablesInv', PassedInv', client'.phase = "off", client'.queue = <<>>, client'.replay = <<>>,
         shown' \subseteq Notes, ToSet(buffer') \subseteq Visible'
  PROVE  ViewInv'
<1>1. ToSet(<<>>) = {}
  BY DEF ToSet
<1>2. client'.phase # "boot" /\ client'.phase # "replay" /\ client'.phase # "live"
  OBVIOUS
<1>3. MessagesAreEdges'
  BY <1>1, <1>2 DEF MessagesAreEdges
<1>4. QueueInOrder' /\ ReplayIsWhole' /\ ViewIsComing'
  BY <1>2 DEF QueueInOrder, ReplayIsWhole, ViewIsComing
<1>5. QED
  BY <1>3, <1>4 DEF ViewInv, QueueInv, ListInv

\* What a fresh connection holds.
LEMMA FreshFields ==
  ASSUME NEW last
  PROVE  /\ [Offline EXCEPT !.last = last].phase = "off"
         /\ [Offline EXCEPT !.last = last].queue = <<>>
         /\ [Offline EXCEPT !.last = last].replay = <<>>
         /\ [Offline EXCEPT !.phase = "boot", !.last = last].phase = "boot"
         /\ [Offline EXCEPT !.phase = "boot", !.last = last].queue = <<>>
         /\ [Offline EXCEPT !.phase = "boot", !.last = last].replay = <<>>
         /\ [Offline EXCEPT !.phase = "boot", !.last = last].owed = {}
         /\ [Offline EXCEPT !.phase = "boot", !.last = last].resync = FALSE
BY DEF Offline

\* The process restarts, or the network ends the connection.
LEMMA EndKeepsView ==
  ASSUME ViewInv, RestartBroker \/ Drop
  PROVE  ViewInv'
<1>1. UNCHANGED db /\ shown' = shown /\ slips' = slips /\ client' = [Offline EXCEPT !.last = client.last]
  BY DEF RestartBroker, Drop
<1>2. TablesInv'
  BY <1>1, TablesStay DEF ViewInv
<1>3. PassedInv'
  <2>1. CASE RestartBroker
    BY <2>1, RestartIsOld DEF PassedInv
  <2>2. CASE Drop
    <3>1. UNCHANGED <<log, broker>>
      BY <2>2 DEF Drop, db
    <3>2. QED
      BY <3>1, <1>1, GoneStays DEF ViewInv, PassedInv
  <2>3. QED
    BY <2>1, <2>2
<1>4. client'.phase = "off" /\ client'.queue = <<>> /\ client'.replay = <<>>
  BY <1>1, FreshFields
<1>5. shown' \subseteq Notes /\ ToSet(buffer') \subseteq Visible'
  <2>1. Visible' = Visible /\ (buffer' = <<>> \/ buffer' = buffer)
    BY <1>1 DEF Visible, db, RestartBroker, Drop, broker
  <2>2. ToSet(<<>>) = {}
    BY DEF ToSet
  <2>3. QED
    BY <2>1, <2>2, <1>1 DEF ViewInv, QueueInv, MessagesAreEdges
<1>6. QED
  BY <1>2, <1>3, <1>4, <1>5, OffKeepsView

\* The snapshot is right when it is read.
LEMMA BootstrapKeepsView ==
  ASSUME ViewInv, Bootstrap
  PROVE  ViewInv'
<1>1. /\ UNCHANGED db /\ UNCHANGED broker /\ slips' = slips /\ shown' = Open
      /\ client' = [Offline EXCEPT !.phase = "boot", !.last = client.last]
  BY DEF Bootstrap
<1>2. TablesInv' /\ PassedInv'
  <2>1. UNCHANGED <<log, broker>>
    BY <1>1 DEF db
  <2>2. QED
    BY <2>1, <1>1, TablesStay, GoneStays DEF ViewInv, PassedInv
<1>3. /\ client'.phase = "boot" /\ client'.queue = <<>> /\ client'.replay = <<>>
      /\ client'.owed = {} /\ client'.resync = FALSE
  BY <1>1, FreshFields
<1>4. ToSet(<<>>) = {}
  BY DEF ToSet
<1>5. Open' = Open /\ Open \subseteq Notes
  <2>1. note' = note
    BY <1>1 DEF db
  <2>2. QED
    BY <2>1, OpenMeans
<1>6. MessagesAreEdges'
  <2>1. Visible' = Visible /\ buffer' = buffer
    BY <1>1 DEF Visible, db, broker
  <2>2. QED
    BY <2>1, <1>1, <1>3, <1>4, <1>5 DEF ViewInv, QueueInv, MessagesAreEdges
<1>7. QueueInOrder' /\ ReplayIsWhole'
  BY <1>3 DEF QueueInOrder, ReplayIsWhole
<1>8. ViewIsComing'
  BY <1>1, <1>5 DEF ViewIsComing
<1>9. QED
  BY <1>2, <1>6, <1>7, <1>8 DEF ViewInv, QueueInv, ListInv

\* What publishing does to the connection.
LEMMA PublishedTo ==
  ASSUME FeedInv, GapInv, NEW t \in Tasks, Publish(t)
  PROVE  /\ client'.phase = client.phase /\ client'.last = client.last
         /\ client'.replay = client.replay
         /\ client.phase # "off" => client'.owed = client.owed \union ToSet(rows[t])
         /\ client.phase \in {"off", "boot"} => client'.queue = client.queue /\ client'.resync = client.resync
         /\ client.phase \in {"replay", "live"} =>
              /\ ToSet(client'.queue) \subseteq ToSet(client.queue) \union ToSet(rows[t])
              /\ ~ client'.resync => ~ client.resync /\ client'.queue = client.queue \o rows[t]
<1> DEFINE r == rows[t]
           c == IF Subscribed(client) THEN Offered(client, r) ELSE client
           o == IF client.phase = "off" THEN {} ELSE client.owed \union ToSet(r)
<1>1. client \in Clients /\ client.owed \in SUBSET (1..Resync) /\ r \in Seq(1..Resync)
  <2>1. r \in Seq(Ids)
    BY DEF FeedInv, RowsInv
  <2>2. QED
    BY <2>1, EdgesAreMessages DEF GapInv, ClientInv, Clients
<1> HIDE DEF r
<1>2. /\ Offered(client, r) \in Clients
      /\ Offered(client, r).phase = client.phase /\ Offered(client, r).owed = client.owed
      /\ Offered(client, r).replay = client.replay /\ Offered(client, r).last = client.last
      /\ ~ Offered(client, r).resync => ~ client.resync
      /\ ToSet(Offered(client, r).queue) \subseteq ToSet(client.queue) \union ToSet(r)
      /\ ~ Offered(client, r).resync => Offered(client, r).queue = client.queue \o r
  BY <1>1, Offering, OfferedQueue
<1>3. /\ c \in Clients /\ c.phase = client.phase /\ c.replay = client.replay
      /\ c.owed = client.owed /\ c.last = client.last
  BY <1>1, <1>2
<1>4. o \in SUBSET (1..Resync)
  BY <1>1, Entries
<1>5. client' = [c EXCEPT !.owed = o]
  <2>1. client' = [c EXCEPT !.owed = IF client.phase = "off" THEN {} ELSE @ \union ToSet(r)]
    BY DEF Publish, r
  <2> HIDE DEF c
  <2>2. QED
    BY <2>1, <1>3 DEF Clients
<1>6. Subscribed(client) => c = Offered(client, r)
  OBVIOUS
<1>7. ~ Subscribed(client) => c = client
  OBVIOUS
<1>8. client.phase # "off" => o = client.owed \union ToSet(r)
  OBVIOUS
<1> HIDE DEF c, o
<1>9. /\ client'.phase = client.phase /\ client'.owed = o /\ client'.last = client.last
      /\ client'.queue = c.queue /\ client'.resync = c.resync
      /\ client'.replay = client.replay
  BY <1>3, <1>4, <1>5 DEF Clients
<1>10. client.phase \in {"off", "boot"} => ~ Subscribed(client)
  BY DEF Subscribed
<1>11. client.phase \in {"replay", "live"} => Subscribed(client)
  BY DEF Subscribed
<1>12. client.phase \in {"replay", "live"} =>
         /\ ToSet(client'.queue) \subseteq ToSet(client.queue) \union ToSet(r)
         /\ ~ client'.resync => ~ client.resync /\ client'.queue = client.queue \o r
  BY <1>2, <1>6, <1>9, <1>11
<1>13. QED
  BY <1>7, <1>8, <1>9, <1>10, <1>12 DEF r

\* What is published is no longer to come from the broker, and now comes from the queue
\* or is owed.
LEMMA PublishKeepsView ==
  ASSUME FeedInv, GapInv, ViewInv, NEW t \in Tasks, Publish(t)
  PROVE  ViewInv'
<1> DEFINE r == ToSet(rows[t])
<1>1. UNCHANGED db /\ shown' = shown /\ slips \subseteq slips' /\ pub' = pub \union r
  BY DEF Publish
<1>2. TablesInv'
  BY <1>1, TablesStay DEF ViewInv
<1>3. /\ client'.phase = client.phase /\ client'.last = client.last
      /\ client'.replay = client.replay
      /\ client.phase # "off" => client'.owed = client.owed \union r
      /\ client.phase \in {"off", "boot"} => client'.queue = client.queue /\ client'.resync = client.resync
      /\ client.phase \in {"replay", "live"} =>
           /\ ToSet(client'.queue) \subseteq ToSet(client.queue) \union r
           /\ ~ client'.resync => ~ client.resync /\ client'.queue = client.queue \o rows[t]
  BY PublishedTo
<1>4. /\ rows[t] \in Seq(Ids) /\ r \subseteq Visible /\ Visible' = Visible
      /\ \A m, n \in DOMAIN rows[t] : m < n => rows[t][m] < rows[t][n]
      /\ client.queue \in Seq(1..Resync)
      /\ client.phase \in {"off", "boot", "replay", "live"}
  BY <1>1 DEF FeedInv, RowsInv, Visible, db, GapInv, ClientInv, Clients
<1>5. ToSet(client.queue \o rows[t]) = ToSet(client.queue) \union r
  BY <1>4, EdgesAreMessages, Joining
<1>6. MessagesAreEdges'
  <2>1. MessagesAreEdges
    BY DEF ViewInv, QueueInv
  <2>2. ToSet(client'.queue) \subseteq ToSet(client.queue) \union r
    BY <1>3, <1>4
  <2>3. ToSet(buffer') \subseteq ToSet(buffer) \union r
    BY PublishedBuffer
  <2> HIDE DEF r
  <2>4. QED
    BY <2>1, <2>2, <2>3, <1>1, <1>3, <1>4 DEF MessagesAreEdges
<1>7. ASSUME slips' = {}
      PROVE  GoneIsOld' /\ QueueInOrder' /\ ReplayIsWhole' /\ ViewIsComing'
  <2>1. /\ GoneIsOld /\ QueueInOrder /\ ReplayIsWhole /\ ViewIsComing /\ MessagesAreEdges
    BY <1>1, <1>7 DEF ViewInv, PassedInv, QueueInv, ListInv
  <2>2. /\ Gone' = Gone /\ Done' = Done \union r /\ GoneIsOld'
        /\ \A q \in pub \ r, x \in r : ~ (q > x)
    BY <1>7, <2>1, PublishIsNotGone
  <2>3. Done \subseteq Nat /\ Done \union r \subseteq Nat
    BY <1>4, IdsAreNumbers, GoneMeans DEF Done
  <2>4. QueueInOrder'
    <3>1. ASSUME client.phase \in {"replay", "live"}, ~ client'.resync
          PROVE  TailComplete(client.queue \o rows[t], Done \union r)
      <4>1. TailComplete(client.queue, Done)
        BY <3>1, <2>1, <1>3 DEF QueueInOrder
      <4>2. ASSUME NEW x \in r, NEW q \in Done \union r, q > x
            PROVE  q \in r
        <5>1. q \in Nat /\ x \in Nat
          BY <2>3, <1>4, IdsAreNumbers
        <5>2. CASE q \in Gone
          <6>1. q < x
            BY <5>2, <2>1 DEF GoneIsOld
          <6>2. QED
            BY <6>1, <5>1, <4>2
        <5>3. CASE q \in pub
          BY <5>3, <4>2, <2>2
        <5>4. QED
          BY <5>2, <5>3, <4>2 DEF Done
      <4>3. Done \in SUBSET Nat /\ Done \union r \in SUBSET Nat
        BY <2>3
      <4>4. \A q \in Done \union r : q \in Done \/ q \in ToSet(rows[t])
        OBVIOUS
      <4>5. QED
        BY <4>1, <4>2, <4>3, <4>4, <1>4, JoiningCompletes
    <3>2. QED
      BY <3>1, <2>2, <1>3 DEF QueueInOrder
  <2> HIDE DEF r
  <2>5. ReplayIsWhole'
    <3>1. ASSUME client.phase = "replay", ~ client'.resync
          PROVE  /\ \A q \in Done \union r : q > client.last =>
                      q \in ToSet(client.queue \o rows[t]) \union ToSet(client.replay)
                 /\ \A k \in DOMAIN client.replay : client.replay[k] > client.last
                 /\ \A m, n \in DOMAIN client.replay : m < n => client.replay[m] < client.replay[n]
      BY <3>1, <2>1, <1>3, <1>5 DEF ReplayIsWhole
    <3>2. QED
      BY <3>1, <2>2, <1>3 DEF ReplayIsWhole
  <2>6. ASSUME client'.phase # "off", ~ client'.resync
        PROVE  /\ client.phase # "off" /\ ~ client.resync
               /\ Arriving \subseteq Arriving'
    <3>1. client.phase \in {"boot", "replay", "live"} /\ ~ client.resync
      BY <2>6, <1>3, <1>4
    <3>2. r \subseteq Waiting'
      BY <3>1, <2>6, <1>3, <1>4, <1>5 DEF Waiting
    <3>3. Waiting \subseteq Waiting'
      BY <3>1, <2>6, <1>3, <1>4, <1>5 DEF Waiting
    <3>4. QED
      BY <3>1, <3>2, <3>3, <2>2, <1>4 DEF Arriving
  <2>7. ViewIsComing'
    <3>1. \A n, i : (RaisedOf(n, i)' <=> RaisedOf(n, i)) /\ (RemovalOf(n, i)' <=> RemovalOf(n, i))
      BY <1>1, <1>4, StoryStays DEF db
    <3>2. Open' = Open /\ acks' = acks
      BY <1>1, OpenMeans DEF db
    <3>3. shown \subseteq Notes
      BY <2>1 DEF MessagesAreEdges
    <3>4. QED
      BY <3>1, <3>2, <3>3, <2>1, <2>6, <1>1, ListCarries
  <2>8. QED
    BY <2>2, <2>4, <2>5, <2>7
<1>8. QED
  BY <1>2, <1>6, <1>7 DEF ViewInv, PassedInv, QueueInv, ListInv


\* The connection moves on: the tables and the broker stand still, and what was arriving
\* still is.
LEMMA ConnectionMoves ==
  ASSUME ViewInv, UNCHANGED <<db, broker, shown>>, slips \subseteq slips', QueueInv',
         client.phase # "off", ~ client.resync \/ client'.resync,
         slips' = {} /\ ~ client'.resync => Waiting \subseteq Waiting'
  PROVE  ViewInv'
<1>1. UNCHANGED db /\ UNCHANGED <<log, broker>> /\ shown' = shown /\ UNCHANGED <<note, edge, acks>>
  BY DEF db
<1>2. TablesInv'
  BY <1>1, TablesStay DEF ViewInv
<1>3. Visible' = Visible /\ Done' = Done /\ (GoneIsOld => GoneIsOld')
  BY <1>1, GoneStays
<1>4. PassedInv'
  BY <1>3 DEF ViewInv, PassedInv
<1>5. ASSUME slips' = {}
      PROVE  ViewIsComing'
  <2>1. ViewIsComing /\ shown \subseteq Notes
    BY <1>5 DEF ViewInv, ListInv, QueueInv, MessagesAreEdges
  <2>2. ~ client'.resync => Arriving \subseteq Arriving'
    BY <1>3, <1>5 DEF Arriving
  <2>3. \A n, i : (RaisedOf(n, i)' <=> RaisedOf(n, i)) /\ (RemovalOf(n, i)' <=> RemovalOf(n, i))
    BY <1>1, <1>3, StoryStays
  <2>4. Open' = Open
    BY <1>1, OpenMeans
  <2>5. QED
    BY <2>1, <2>2, <2>3, <2>4, <1>1, ListCarries
<1>6. QED
  BY <1>2, <1>4, <1>5 DEF ViewInv, ListInv

\* An empty queue, and one with the message to start over, are complete.
LEMMA NothingBehind ==
  ASSUME FeedInv
  PROVE  /\ TailComplete(<<>>, Done) /\ TailComplete(<<Resync>>, Done)
         /\ ToSet(<<>>) = {} /\ ToSet(<<Resync>>) = {Resync}
<1>1. \A q \in Done : q \in Nat /\ q <= MaxId
  <2>1. Done \subseteq Ids
    BY IdsAreNumbers, GoneMeans DEF Done
  <2>2. QED
    BY <2>1, Sizes DEF Ids
<1>2. \A q \in Done : ~ (q > Resync)
  BY <1>1, Sizes DEF Resync
<1>3. TailComplete(<<>>, Done)
  BY DEF TailComplete
<1>4. DOMAIN <<Resync>> = {1} /\ <<Resync>>[1] = Resync
  OBVIOUS
<1>5. TailComplete(<<Resync>>, Done)
  BY <1>2, <1>4 DEF TailComplete
<1>6. ToSet(<<>>) = {} /\ ToSet(<<Resync>>) = {Resync}
  BY DEF ToSet
<1>7. QED
  BY <1>3, <1>5, <1>6

\* A browser subscribes: what was published since its snapshot is in the buffer or in
\* the table, unless it comes from below its last id, which is marked.
LEMMA SubscribeKeepsView ==
  ASSUME FeedInv, GapInv, ViewInv, Subscribe
  PROVE  ViewInv'
<1>1. client.phase = "boot" /\ UNCHANGED <<db, broker, shown>> /\ slips \subseteq slips'
  BY DEF Subscribe
<1>2. /\ client \in Clients /\ client.last \in 0..MaxId \union {Null} /\ buffer \in Seq(Ids)
      /\ log \in Seq(Ids)
  BY DEF GapInv, ClientInv, Clients, FeedInv, LogInv
<1>3. /\ client.owed \subseteq pub /\ client.queue = <<>> /\ client.resync = FALSE
      /\ ToSet(client.replay) \subseteq Visible /\ shown \subseteq Notes
      /\ ToSet(buffer) \subseteq Visible
  <2>1. client.resync \in BOOLEAN
    BY <1>2 DEF Clients
  <2>2. QED
    BY <2>1, <1>1 DEF ViewInv, QueueInv, MessagesAreEdges
<1>4. /\ Joined \in Clients /\ Joined.phase = "live" /\ Joined.owed = {} /\ Joined.queue = <<>>
      /\ Joined.resync = FALSE /\ Joined.last = client.last /\ Joined.replay = client.replay
  BY <1>2, <1>3 DEF Joined, Clients
<1>5. Visible' = Visible /\ Done' = Done /\ UNCHANGED <<pub, buffer>>
  <2>1. UNCHANGED <<log, broker>>
    BY <1>1 DEF db
  <2>2. QED
    BY <2>1, GoneStays
<1>6. /\ TailComplete(<<>>, Done) /\ TailComplete(<<Resync>>, Done)
      /\ ToSet(<<>>) = {} /\ ToSet(<<Resync>>) = {Resync}
  BY NothingBehind
<1>7. Waiting = Visible \intersect client.owed /\ pub \subseteq Visible
  BY <1>1 DEF Waiting, FeedInv, SentInv
<1>8. \A s \in Seq(1..Resync) : <<>> \o s = s
  OBVIOUS
\* Nothing was published since the snapshot.
<1>9. ASSUME slips' = {}, slips' = slips \union WindowSlip(MaxId)
      PROVE  Waiting \subseteq Waiting'
  <2>1. \A i \in client.owed : ~ (i <= MaxId)
    BY <1>9 DEF WindowSlip
  <2>2. \A i \in client.owed : i <= MaxId
    <3>1. client.owed \subseteq Ids
      BY <1>3, IdsAreNumbers
    <3>2. QED
      BY <3>1, Sizes DEF Ids
  <2>3. Waiting = {}
    BY <2>1, <2>2, <1>7
  <2>4. QED
    BY <2>3
<1>10. CASE client' = Joined /\ slips' = slips \union WindowSlip(MaxId)
  <2>1. QueueInv'
    <3>1. client'.queue = <<>> /\ client'.phase = "live" /\ client'.replay = client.replay
      BY <1>4, <1>10
    <3>2. MessagesAreEdges'
      BY <3>1, <1>1, <1>3, <1>5, <1>6 DEF MessagesAreEdges
    <3>3. QueueInOrder' /\ ReplayIsWhole'
      BY <3>1, <1>5, <1>6 DEF QueueInOrder, ReplayIsWhole
    <3>4. QED
      BY <3>2, <3>3 DEF QueueInv
  <2>2. QED
    BY <2>1, <1>1, <1>3, <1>9, <1>10, ConnectionMoves
<1>11. CASE client' = Offered(Joined, <<Resync>>) /\ slips' = slips \union WindowSlip(MaxId)
  <2>0. <<Resync>> \in Seq(1..Resync)
    BY Sizes
  <2>1. /\ client'.phase = "live" /\ client'.replay = client.replay
        /\ ToSet(client'.queue) \subseteq {Resync}
        /\ ~ client'.resync => client'.queue = <<Resync>>
    <3>1. /\ client'.phase = "live" /\ client'.replay = client.replay
          /\ ToSet(client'.queue) \subseteq ToSet(<<>>) \union ToSet(<<Resync>>)
          /\ ~ client'.resync => client'.queue = <<>> \o <<Resync>>
      BY <2>0, <1>4, <1>11, Offering, OfferedQueue
    <3>2. QED
      BY <3>1, <2>0, <1>6, <1>8
  <2>2. QueueInv'
    <3>1. MessagesAreEdges'
      BY <2>1, <1>1, <1>3, <1>5 DEF MessagesAreEdges
    <3>2. QueueInOrder' /\ ReplayIsWhole'
      BY <2>1, <1>5, <1>6 DEF QueueInOrder, ReplayIsWhole
    <3>3. QED
      BY <3>1, <3>2 DEF QueueInv
  <2>3. QED
    BY <2>2, <1>1, <1>3, <1>9, <1>11, ConnectionMoves
\* Or it is above the browser's last id.
<1>12. ASSUME client.last # Null, slips' = slips \union WindowSlip(client.last)
       PROVE  /\ client.last \in Nat /\ Owed(client.last) \in SUBSET (1..Resync)
              /\ slips' = {} => Waiting \subseteq Owed(client.last)
  <2>1. client.last \in Nat
    BY <1>2, <1>12, Sizes
  <2>2. pub \subseteq 1..Resync /\ pub \subseteq Nat
    BY IdsAreNumbers, Sizes
  <2>3. ASSUME slips' = {}
        PROVE  \A i \in client.owed : i > client.last /\ i \in pub
    <3>1. \A i \in client.owed : ~ (i <= client.last) /\ i \in pub
      BY <2>3, <1>3, <1>12 DEF WindowSlip
    <3>2. ASSUME NEW i \in client.owed
          PROVE  i > client.last /\ i \in pub
      <4>1. i \in pub /\ i \in Nat /\ ~ (i <= client.last)
        BY <3>1, <2>2
      <4>2. QED
        BY <4>1, <2>1
    <3>3. QED
      BY <3>2
  <2>4. QED
    BY <2>1, <2>2, <2>3, <1>7 DEF Owed
<1>13. CASE /\ client.last # Null /\ BufferCovers(client.last)
            /\ client' = [Offered(Joined, BufferAbove(client.last)) EXCEPT !.owed = Owed(client.last)]
            /\ slips' = slips \union WindowSlip(client.last)
  <2> DEFINE s == BufferAbove(client.last)
             c == Offered(Joined, s)
             o == Owed(client.last)
  <2>1. client.last \in Nat /\ o \in SUBSET (1..Resync) /\ (slips' = {} => Waiting \subseteq o)
    BY <1>12, <1>13
  <2>2. s \in Seq(1..Resync) /\ s \in Seq(Ids)
    BY <2>1, <1>2, BufferAboveReads, EdgesAreMessages
  <2>3. slips' = {} => o \subseteq ToSet(s) /\ TailComplete(s, Done)
    <3>1. ASSUME slips' = {}
          PROVE  "order" \notin slips /\ GoneIsOld
      BY <3>1, <1>1 DEF ViewInv, PassedInv
    <3>2. QED
      BY <3>1, <2>1, <1>13, BufferIsEnough, BufferCompletes
  <2>4. ToSet(s) \subseteq Visible
    BY <2>1, <1>2, <1>3, BufferAboveReads
  <2> HIDE DEF s, o
  <2>5. /\ c \in Clients /\ c.phase = "live" /\ c.replay = client.replay
        /\ ToSet(c.queue) \subseteq ToSet(s)
        /\ ~ c.resync => c.queue = s
    <3>1. /\ c \in Clients /\ c.phase = "live" /\ c.replay = client.replay
          /\ ToSet(c.queue) \subseteq ToSet(Joined.queue) \union ToSet(s)
          /\ ~ c.resync => c.queue = Joined.queue \o s
      BY <2>2, <1>4, Offering, OfferedQueue
    <3>2. Joined.queue \o s = s /\ ToSet(Joined.queue) = {}
      BY <2>2, <1>4, <1>6, <1>8
    <3>3. QED
      BY <3>1, <3>2
  <2> HIDE DEF c
  <2>6. /\ client'.phase = "live" /\ client'.replay = client.replay
        /\ client'.queue = c.queue /\ client'.resync = c.resync
    BY <2>1, <2>5, <1>13 DEF Clients, c, s, o
  <2>7. QueueInv'
    <3>1. MessagesAreEdges'
      BY <2>4, <2>5, <2>6, <1>1, <1>3, <1>5 DEF MessagesAreEdges
    <3>2. slips' = {} => QueueInOrder' /\ ReplayIsWhole'
      BY <2>3, <2>5, <2>6, <1>5 DEF QueueInOrder, ReplayIsWhole
    <3>3. QED
      BY <3>1, <3>2 DEF QueueInv
  <2>8. slips' = {} /\ ~ client'.resync => Waiting \subseteq Waiting'
    <3>1. ASSUME slips' = {}, ~ client'.resync, NEW i \in Waiting
          PROVE  i \in Waiting'
      <4>1. i \in ToSet(client'.queue) /\ i \in Visible'
        BY <3>1, <2>1, <2>3, <2>4, <2>5, <2>6, <1>5
      <4>2. QED
        BY <4>1, <2>6 DEF Waiting
    <3>2. QED
      BY <3>1
  <2>9. QED
    BY <2>7, <2>8, <1>1, <1>3, ConnectionMoves
<1>14. CASE /\ client.last # Null /\ ~ TooFarBehind(client.last)
            /\ client' = [Joined EXCEPT !.phase = "replay",
                                        !.replay = Above(client.last, MAX_REPLAY),
                                        !.owed = Owed(client.last)]
            /\ slips' = slips \union WindowSlip(client.last)
  <2> DEFINE s == Above(client.last, MAX_REPLAY)
             o == Owed(client.last)
  <2>1. client.last \in Nat /\ o \in SUBSET (1..Resync) /\ (slips' = {} => Waiting \subseteq o)
    BY <1>12, <1>14
  <2>2. /\ s \in Seq(Ids) /\ ToSet(s) \subseteq {i \in Visible : i > client.last}
        /\ \A m, n \in DOMAIN s : m < n => s[m] < s[n]
    BY <2>1, <1>2, Sizes, AboveReads
  <2>3. o \subseteq ToSet(s)
    BY <2>1, <1>14, TableIsEnough
  <2>4. \A q \in Done : q > client.last => q \in ToSet(s)
    BY <2>1, <1>14, TableHasAll
  <2> HIDE DEF s, o
  <2>5. \A k \in DOMAIN s : s[k] > client.last
    <3>1. \A k \in DOMAIN s : s[k] \in ToSet(s)
      BY DEF ToSet
    <3>2. QED
      BY <3>1, <2>2
  <2>6. /\ client'.phase = "replay" /\ client'.replay = s /\ client'.queue = <<>>
        /\ client'.last = client.last
    BY <2>1, <2>2, <1>4, <1>14 DEF Clients, s, o
  <2>7. QueueInv'
    <3>1. MessagesAreEdges'
      BY <2>2, <2>6, <1>1, <1>3, <1>5, <1>6, <1>14 DEF MessagesAreEdges
    <3>2. QueueInOrder' /\ ReplayIsWhole'
      BY <2>2, <2>4, <2>5, <2>6, <1>5, <1>6 DEF QueueInOrder, ReplayIsWhole
    <3>3. QED
      BY <3>1, <3>2 DEF QueueInv
  <2>8. slips' = {} => Waiting \subseteq Waiting'
    <3>1. ASSUME slips' = {}, NEW i \in Waiting
          PROVE  i \in Waiting'
      <4>1. i \in ToSet(client'.replay) /\ i \in Visible'
        BY <3>1, <2>1, <2>2, <2>3, <2>6, <1>5
      <4>2. QED
        BY <4>1, <2>6 DEF Waiting
    <3>2. QED
      BY <3>1
  <2>9. QED
    BY <2>7, <2>8, <1>1, <1>3, ConnectionMoves
<1>15. QED
  BY <1>10, <1>11, <1>13, <1>14 DEF Subscribe


\* The rows of the table go behind what was published meanwhile: nothing of that is
\* newer, unless marked.
LEMMA ReplayKeepsView ==
  ASSUME FeedInv, GapInv, ViewInv, Replay
  PROVE  ViewInv'
<1>1. client.phase = "replay" /\ UNCHANGED <<db, broker, shown>> /\ slips \subseteq slips'
  BY DEF Replay
<1>2. client \in Clients /\ client.queue \in Seq(1..Resync) /\ client.replay \in Seq(Ids)
  BY DEF GapInv, ClientInv, Clients
<1>3. Visible' = Visible /\ Done' = Done /\ UNCHANGED <<pub, buffer>>
  <2>1. UNCHANGED <<log, broker>>
    BY <1>1 DEF db
  <2>2. QED
    BY <2>1, GoneStays
<1>4. MessagesAreEdges
  BY DEF ViewInv, QueueInv
<1>5. <<>> \in Seq(Ids) /\ ToSet(<<>>) = {}
  BY DEF ToSet
<1>6. CASE /\ client' = [Offered(client, client.replay) EXCEPT !.phase = "live", !.replay = <<>>]
           /\ slips' = IF \E q \in ToSet(client.queue) \ ToSet(client.replay),
                             r \in ToSet(client.replay) : q > r
                       THEN slips \union {"view"} ELSE slips
  <2> DEFINE c == Offered(client, client.replay)
  <2>1. client.replay \in Seq(1..Resync)
    BY <1>2, EdgesAreMessages
  <2>2. /\ c \in Clients
        /\ ToSet(c.queue) \subseteq ToSet(client.queue) \union ToSet(client.replay)
        /\ ~ c.resync => ~ client.resync /\ c.queue = client.queue \o client.replay
    BY <1>2, <2>1, Offering, OfferedQueue
  <2> HIDE DEF c
  <2>3. /\ client'.phase = "live" /\ client'.replay = <<>>
        /\ client'.queue = c.queue /\ client'.resync = c.resync
    BY <1>5, <1>6, <2>2 DEF Clients, c
  <2>4. MessagesAreEdges'
    BY <2>2, <2>3, <1>1, <1>3, <1>4, <1>5 DEF MessagesAreEdges
  <2>5. ASSUME slips' = {}, ~ c.resync
        PROVE  TailComplete(client.queue \o client.replay, Done)
    <3>1. ~ client.resync /\ slips = {}
      BY <2>2, <2>5, <1>1
    <3>2. /\ TailComplete(client.queue, Done)
          /\ \A q \in Done : q > client.last => q \in ToSet(client.queue) \union ToSet(client.replay)
          /\ \A k \in DOMAIN client.replay : client.replay[k] > client.last
          /\ \A m, n \in DOMAIN client.replay : m < n => client.replay[m] < client.replay[n]
      BY <3>1, <1>1 DEF ViewInv, QueueInv, QueueInOrder, ReplayIsWhole
    <3>3. Done \in SUBSET Nat /\ client.last \in Nat
      <4>1. client.last # Null
        BY <1>1, <1>4 DEF MessagesAreEdges
      <4>2. client.last \in Nat
        BY <4>1, <1>2, Sizes DEF Clients
      <4>3. QED
        BY <4>2, IdsAreNumbers, GoneMeans DEF Done
    <3>4. \A q \in ToSet(client.queue) \ ToSet(client.replay), r \in ToSet(client.replay) : ~ (q > r)
      BY <2>5, <1>6
    <3>5. ASSUME NEW x \in ToSet(client.replay), NEW q \in Done, q > x
          PROVE  q \in ToSet(client.replay)
      <4>1. x > client.last /\ x \in Nat
        <5>1. PICK k \in 1..Len(client.replay) : x = client.replay[k]
          BY <1>2, <3>5, Entries
        <5>2. k \in DOMAIN client.replay /\ client.replay[k] \in Ids
          BY <5>1, <1>2
        <5>3. QED
          BY <5>1, <5>2, <3>2, Sizes
      <4>2. q > client.last
        BY <4>1, <3>3, <3>5
      <4>3. q \in ToSet(client.queue) \union ToSet(client.replay)
        BY <4>2, <3>2
      <4>4. QED
        BY <4>3, <3>4, <3>5
    <3>6. \A q \in Done : q \in Done \/ q \in ToSet(client.replay)
      OBVIOUS
    <3>7. QED
      BY <3>2, <3>3, <3>5, <3>6, <1>2, JoiningCompletes
  <2>6. QueueInv'
    <3>1. slips' = {} => QueueInOrder' /\ ReplayIsWhole'
      BY <2>2, <2>3, <2>5, <1>3 DEF QueueInOrder, ReplayIsWhole
    <3>2. QED
      BY <3>1, <2>4 DEF QueueInv
  <2>7. ~ client'.resync => Waiting \subseteq Waiting'
    <3>1. ToSet(client.queue \o client.replay) = ToSet(client.queue) \union ToSet(client.replay)
      BY <2>1, <1>2, Joining
    <3>2. ~ client'.resync => ToSet(client'.queue) = ToSet(client.queue) \union ToSet(client.replay)
      BY <3>1, <2>2, <2>3
    <3>3. QED
      BY <3>2, <2>3, <1>1, <1>3 DEF Waiting
  <2>8. client.phase # "off" /\ (~ client.resync \/ client'.resync)
    BY <2>2, <2>3, <1>1
  <2>9. QED
    BY <2>6, <2>7, <2>8, <1>1, ConnectionMoves
<1>7. CASE /\ client' = [Offered(client, <<Resync>>) EXCEPT
                           !.phase = "live", !.replay = <<>>, !.owed = ToSet(client.queue)]
           /\ slips' = slips \union {"view"}
  <2> DEFINE c == Offered(client, <<Resync>>)
  <2>1. <<Resync>> \in Seq(1..Resync) /\ ToSet(<<Resync>>) = {Resync}
    BY Sizes, NothingBehind
  <2>2. c \in Clients /\ ToSet(c.queue) \subseteq ToSet(client.queue) \union {Resync}
        /\ (~ c.resync => ~ client.resync)
    BY <1>2, <2>1, Offering, OfferedQueue
  <2> HIDE DEF c
  <2>3. ToSet(client.queue) \in SUBSET (1..Resync)
    BY <1>2, Entries
  <2>4. /\ client'.phase = "live" /\ client'.replay = <<>>
        /\ client'.queue = c.queue /\ client'.resync = c.resync
    BY <1>5, <1>7, <2>2, <2>3 DEF Clients, c
  <2>5. MessagesAreEdges'
    BY <2>2, <2>4, <1>1, <1>3, <1>4, <1>5 DEF MessagesAreEdges
  <2>6. slips' # {}
    BY <1>7
  <2>7. client.phase # "off" /\ (~ client.resync \/ client'.resync)
    BY <2>2, <2>4, <1>1
  <2>8. QED
    BY <2>5, <2>6, <2>7, <1>1, ConnectionMoves DEF QueueInv
<1>8. QED
  BY <1>6, <1>7 DEF Replay

\* What a message does to the list.
LEMMA ShownAfterMeans ==
  ASSUME FeedInv, NotesInv, shown \subseteq Notes, NEW m \in Visible \union {Resync}
  PROVE  /\ ShownAfter(m) \subseteq Notes
         /\ \A n : n \in ShownAfter(m) => n \in shown \/ RaisedOf(n, m)
         /\ \A n : n \in ShownAfter(m) => ~ RemovalOf(n, m)
         /\ \A n : n \in shown => n \in ShownAfter(m) \/ RemovalOf(n, m)
         /\ \A n : RaisedOf(n, m) => n \in ShownAfter(m)
<1>0. Visible \subseteq Ids /\ Resync \notin Visible
  BY IdsAreNumbers, Sizes DEF Ids, Resync
<1>1. CASE m = Resync
  BY <1>0, <1>1 DEF ShownAfter, RaisedOf, RemovalOf
<1>2. CASE m \in Visible
  <2>1. m # Resync /\ m \in Ids /\ edge[m] \in Edge
    BY <1>0, <1>2 DEF NotesInv
  <2>2. edge[m].kind \in {"raised", "resolved", "acknowledged"} => edge[m].note \in Notes
    BY <2>1 DEF NotesInv
  <2>3. CASE edge[m].kind = "raised"
    <3>1. ShownAfter(m) = shown \union {edge[m].note}
      BY <2>1, <2>3 DEF ShownAfter
    <3>2. QED
      BY <3>1, <2>2, <2>3, <1>2 DEF RaisedOf, RemovalOf
  <2>4. CASE edge[m].kind \in {"resolved", "acknowledged"}
    <3>1. ShownAfter(m) = shown \ {edge[m].note}
      BY <2>1, <2>4 DEF ShownAfter
    <3>2. QED
      BY <3>1, <2>4, <1>2 DEF RaisedOf, RemovalOf
  <2>5. CASE edge[m].kind \notin {"raised", "resolved", "acknowledged"}
    <3>1. ShownAfter(m) = shown
      BY <2>1, <2>5 DEF ShownAfter
    <3>2. QED
      BY <3>1, <2>5, <1>2 DEF RaisedOf, RemovalOf
  <2>6. QED
    BY <2>3, <2>4, <2>5
<1>3. QED
  BY <1>1, <1>2

\* A message reaches the browser.  One that raises a notification which is closed by now
\* has its removal behind it: the queue does not go back, and the removal is later.
LEMMA DeliverKeepsView ==
  ASSUME FeedInv, GapInv, ViewInv, Deliver
  PROVE  ViewInv'
<1>0. PICK m : m = Head(client.queue)
  OBVIOUS
<1> DEFINE last == IF m = Resync THEN client.last ELSE m
<1>1. /\ client.phase = "live" /\ client.queue # <<>> /\ UNCHANGED <<db, broker, faults, slips>>
      /\ shown' = ShownAfter(m)
      /\ client' = IF client.resync THEN [Offline EXCEPT !.last = last]
                   ELSE [client EXCEPT !.last = last, !.queue = Tail(@), !.owed = @ \ {m}]
  BY <1>0 DEF Deliver
<1>2. /\ client \in Clients /\ client.queue \in Seq(1..Resync) /\ client.owed \in SUBSET (1..Resync)
      /\ client.last \in 0..MaxId \union {Null}
  BY DEF GapInv, ClientInv, Clients
<1>3. UNCHANGED db /\ UNCHANGED <<log, broker>> /\ UNCHANGED <<note, edge, acks>>
  BY <1>1 DEF db
<1>4. /\ Visible' = Visible /\ Done' = Done /\ (GoneIsOld => GoneIsOld')
      /\ UNCHANGED <<pub, buffer>>
  BY <1>3, GoneStays
<1>5. TablesInv' /\ PassedInv'
  BY <1>1, <1>3, <1>4, TablesStay DEF ViewInv, PassedInv
<1>6. MessagesAreEdges /\ NotesInv
  BY DEF ViewInv, QueueInv, TablesInv
<1>7. /\ Tail(client.queue) \in Seq(1..Resync) /\ m \in 1..Resync
      /\ ToSet(client.queue) \ {m} \subseteq ToSet(Tail(client.queue))
      /\ ToSet(Tail(client.queue)) \subseteq ToSet(client.queue) /\ m \in ToSet(client.queue)
  <2>1. TailComplete(client.queue, {}) /\ {} \in SUBSET Nat
    BY DEF TailComplete
  <2>2. QED
    BY <2>1, <1>0, <1>1, <1>2, Taking, TakingCompletes
<1>8. m \in Visible \union {Resync}
  BY <1>6, <1>7 DEF MessagesAreEdges
<1>9. /\ shown' \subseteq Notes
      /\ \A n : n \in shown' => n \in shown \/ RaisedOf(n, m)
      /\ \A n : n \in shown' => ~ RemovalOf(n, m)
      /\ \A n : n \in shown => n \in shown' \/ RemovalOf(n, m)
      /\ \A n : RaisedOf(n, m) => n \in shown'
  BY <1>1, <1>6, <1>8, ShownAfterMeans DEF MessagesAreEdges
<1>10. last \in 0..MaxId \union {Null}
  BY <1>2, <1>7, Sizes DEF Resync
<1> HIDE DEF last
<1>11. CASE client.resync
  <2>1. client' = [Offline EXCEPT !.last = last]
    BY <1>1, <1>11
  <2>2. client'.phase = "off" /\ client'.queue = <<>> /\ client'.replay = <<>>
    BY <2>1, FreshFields
  <2>3. ToSet(buffer') \subseteq Visible'
    BY <1>4, <1>6 DEF MessagesAreEdges
  <2>4. QED
    BY <2>2, <2>3, <1>5, <1>9, OffKeepsView
<1>12. CASE ~ client.resync
  <2>1. client' = [client EXCEPT !.last = last, !.queue = Tail(client.queue),
                                 !.owed = client.owed \ {m}]
    BY <1>1, <1>12
  <2>2. client.owed \ {m} \in SUBSET (1..Resync)
    BY <1>2
  <2>3. /\ client'.phase = "live" /\ client'.queue = Tail(client.queue)
        /\ client'.replay = client.replay /\ client'.resync = client.resync
    BY <2>1, <2>2, <1>1, <1>2, <1>7, <1>10 DEF Clients
  <2>4. MessagesAreEdges'
    BY <2>3, <1>4, <1>6, <1>7, <1>9 DEF MessagesAreEdges
  <2>5. ASSUME slips' = {}
        PROVE  /\ TailComplete(Tail(client.queue), Done)
               /\ \A q \in Done : q > m => q \in ToSet(Tail(client.queue))
    <3>1. TailComplete(client.queue, Done)
      BY <2>5, <1>1, <1>12 DEF ViewInv, QueueInv, QueueInOrder
    <3>2. Done \in SUBSET Nat
      BY IdsAreNumbers, GoneMeans DEF Done
    <3>3. QED
      BY <3>1, <3>2, <1>0, <1>1, <1>2, TakingCompletes
  <2>6. QueueInv'
    <3>1. slips' = {} => QueueInOrder' /\ ReplayIsWhole'
      BY <2>3, <2>5, <1>4 DEF QueueInOrder, ReplayIsWhole
    <3>2. QED
      BY <3>1, <2>4 DEF QueueInv
  <2>7. ASSUME slips' = {}
        PROVE  ViewIsComing'
    <3>1. /\ \A n \in Open : n \in shown \/ \E i \in Arriving : RaisedOf(n, i)
          /\ \A n \in shown \ Open : n \in acks \/ \E e \in Arriving : RemovalOf(n, e)
          /\ TablesAgree
      BY <2>7, <1>1, <1>12 DEF ViewInv, ListInv, ViewIsComing, TablesInv
    <3>2. Open' = Open /\ acks' = acks
      BY <1>3, OpenMeans
    <3>3. \A n, i : (RaisedOf(n, i)' <=> RaisedOf(n, i)) /\ (RemovalOf(n, i)' <=> RemovalOf(n, i))
      BY <1>3, <1>4, StoryStays
    <3>4. \A i \in Visible : i \in ToSet(Tail(client.queue)) \/ i \notin Done => i \in Arriving'
      BY <2>3, <1>4 DEF Arriving, Waiting
    <3>5. \A i \in Arriving : i = m \/ i \in Arriving'
      <4>1. ASSUME NEW i \in Arriving, i # m
            PROVE  i \in Arriving'
        <5>1. i \in Visible /\ (i \notin Done \/ i \in ToSet(client.queue))
          BY <1>1 DEF Arriving, Waiting
        <5>2. QED
          BY <5>1, <4>1, <3>4, <1>7
      <4>2. QED
        BY <4>1
    <3>6. ASSUME NEW n \in Open
          PROVE  n \in shown' \/ \E i \in Arriving' : RaisedOf(n, i)'
      <4>1. ~ RemovalOf(n, m)
        <5>1. n \in Notes /\ ~ note[n].ack /\ ~ note[n].resolved
          BY OpenMeans
        <5>2. RemovalOf(n, m) => m \in Visible
          BY DEF RemovalOf
        <5>3. QED
          BY <5>1, <5>2, <3>1 DEF TablesAgree
      <4>2. CASE n \in shown
        BY <4>1, <4>2, <1>9
      <4>3. CASE n \notin shown
        <5>1. PICK i \in Arriving : RaisedOf(n, i)
          BY <4>3, <3>1
        <5>2. CASE i = m
          BY <5>1, <5>2, <1>9
        <5>3. CASE i # m
          BY <5>1, <5>3, <3>3, <3>5
        <5>4. QED
          BY <5>2, <5>3
      <4>4. QED
        BY <4>2, <4>3
    <3>7. ASSUME NEW n \in shown' \ Open
          PROVE  n \in acks \/ \E e \in Arriving' : RemovalOf(n, e)'
      <4>1. CASE RaisedOf(n, m)
        <5>1. m \in Visible /\ n \in Notes /\ note[n].row
          BY <4>1, <1>9, <3>1, <3>7 DEF RaisedOf, TablesAgree
        <5>2. note[n].ack \/ note[n].resolved
          BY <5>1, <3>7, OpenMeans
        <5>3. n \in acks \/ \E e \in Visible : RemovalOf(n, e) /\ Later(n, e)
          BY <5>1, <5>2, <3>1 DEF TablesAgree
        <5>4. ASSUME NEW e \in Visible, RemovalOf(n, e), Later(n, e)
              PROVE  e \in Arriving' /\ RemovalOf(n, e)'
          <6>1. m < e
            BY <4>1, <5>1, <5>4 DEF Later
          <6>2. e > m
            BY <6>1, <5>1, IdsAreNumbers
          <6>3. e \in Done => e \in ToSet(Tail(client.queue))
            BY <6>2, <2>5, <2>7
          <6>4. QED
            BY <6>3, <5>4, <3>3, <3>4
        <5>5. QED
          BY <5>3, <5>4
      <4>2. CASE ~ RaisedOf(n, m)
        <5>1. n \in shown
          BY <4>2, <3>7, <1>9
        <5>2. CASE n \in acks
          BY <5>2
        <5>3. ASSUME NEW e \in Arriving, RemovalOf(n, e)
              PROVE  e \in Arriving' /\ RemovalOf(n, e)'
          <6>1. e # m
            BY <5>3, <3>7, <1>9
          <6>2. QED
            BY <6>1, <5>3, <3>3, <3>5
        <5>4. QED
          BY <5>1, <5>2, <5>3, <3>1, <3>7
      <4>3. QED
        BY <4>1, <4>2
    <3>8. QED
      BY <3>2, <3>6, <3>7 DEF ViewIsComing
  <2>8. QED
    BY <2>6, <2>7, <1>5 DEF ViewInv, ListInv
<1>13. QED
  BY <1>11, <1>12

-----------------------------------------------------------------------------

\* At the start there are no notifications, no edges and no browser.
LEMMA InitIsSeen ==
  ASSUME Init
  PROVE  ViewInv
<1>1. /\ note = [n \in Notes |-> Absent] /\ edge = [i \in Ids |-> [kind |-> "none", note |-> 0]]
      /\ flying = {} /\ acks = {} /\ log = <<>> /\ buffer = <<>> /\ rows = [t \in Tasks |-> <<>>]
      /\ pub = {} /\ shown = {} /\ client \in {Offline, [Offline EXCEPT !.last = 0]}
  BY DEF Init
<1>2. Visible = {} /\ ToSet(<<>>) = {}
  BY <1>1 DEF Visible, ToSet
<1>3. Gone = {}
  BY <1>2, GoneMeans
<1>4. NotesInv
  <2>1. Absent \in Note
    BY DEF Absent, Note
  <2>2. [kind |-> "none", note |-> 0] \in Edge
    BY BoundsAreNat DEF Edge
  <2>3. note \in [Notes -> Note] /\ edge \in [Ids -> Edge]
    BY <2>1, <2>2, <1>1
  <2>4. \A i \in Ids : edge[i].kind = "none"
    BY <1>1
  <2>5. QED
    BY <2>3, <2>4, <1>1 DEF NotesInv
<1>5. FlyingInv
  BY <1>1 DEF FlyingInv
<1>6. TablesAgree
  <2>1. \A n \in Notes : ~ note[n].ack /\ ~ note[n].resolved
    BY <1>1 DEF Absent
  <2>2. QED
    BY <2>1, <1>2 DEF TablesAgree
<1>7. GoneIsOld
  BY <1>3 DEF GoneIsOld
<1>8. client.phase = "off" /\ client.queue = <<>> /\ client.replay = <<>>
  BY <1>1 DEF Offline
<1>9. MessagesAreEdges /\ QueueInOrder /\ ReplayIsWhole /\ ViewIsComing
  BY <1>1, <1>2, <1>8 DEF MessagesAreEdges, QueueInOrder, ReplayIsWhole, ViewIsComing
<1>10. QED
  BY <1>4, <1>5, <1>6, <1>7, <1>9 DEF ViewInv, TablesInv, PassedInv, QueueInv, ListInv

\* Every step keeps the view coming.
LEMMA NextIsSeen ==
  ASSUME FeedInv, GapInv, ViewInv, [Next]_vars
  PROVE  ViewInv'
<1>1. CASE UNCHANGED vars
  <2>1. UNCHANGED <<note, edge, drawn, flying, acks, log, watermark, buffer, rows, pub, client,
                    shown, faults, slips>>
    BY <1>1 DEF vars
  <2>2. UNCHANGED db /\ UNCHANGED <<log, broker>>
    BY <2>1 DEF db, broker
  <2>3. TablesInv'
    BY <2>1, <2>2, TablesStay DEF ViewInv
  <2>4. Visible' = Visible /\ Done' = Done /\ (GoneIsOld => GoneIsOld')
    BY <2>2, GoneStays
  <2>5. QED
    BY <2>1, <2>3, <2>4, QuietStep
<1>2. CASE EmitPlain \/ Raise \/ Resolve \/ RollBack
  BY <1>2, QuietKeepsView
<1>3. CASE Commit
  BY <1>3, CommitKeepsView
<1>4. CASE Acknowledge
  BY <1>4, AcknowledgeKeepsView
<1>5. CASE EmitAck
  BY <1>5, EmitAckKeepsView
<1>6. CASE LoseAck
  BY <1>6, LoseAckKeepsView
<1>7. ASSUME NEW t \in Tasks, Read(t) \/ ReadFails(t)
      PROVE  ViewInv'
  BY <1>7, QuietKeepsView
<1>8. ASSUME NEW t \in Tasks, Publish(t)
      PROVE  ViewInv'
  BY <1>8, PublishKeepsView
<1>9. CASE RestartBroker \/ Drop
  BY <1>9, EndKeepsView
<1>10. CASE Bootstrap
  BY <1>10, BootstrapKeepsView
<1>11. CASE Subscribe
  BY <1>11, SubscribeKeepsView
<1>12. CASE Replay
  BY <1>12, ReplayKeepsView
<1>13. CASE Deliver
  BY <1>13, DeliverKeepsView
<1>14. QED
  BY <1>1, <1>2, <1>3, <1>4, <1>5, <1>6, <1>7, <1>8, <1>9, <1>10, <1>11, <1>12, <1>13
     DEF Next, Writers, CheckRules, Drains, Browser

\* When nothing is on its way, nothing is arriving.
LEMMA SettledIsRight ==
  ASSUME FeedInv, ViewInv
  PROVE  SettledViewIsRight
<1>1. SUFFICES ASSUME Settled, slips = {}
               PROVE  shown = Open
  BY DEF SettledViewIsRight
<1>2. ToSet(<<>>) = {}
  BY DEF ToSet
<1>3. Waiting = {}
  BY <1>1, <1>2 DEF Waiting, Settled
<1>4. \A t \in Tasks : ToSet(rows[t]) = {}
  BY <1>1, <1>2 DEF Settled
<1>5. Visible \subseteq Done
  BY <1>1, <1>4, GoneMeans DEF Settled, Done
<1>6. Arriving = {}
  BY <1>3, <1>5 DEF Arriving
<1>7. /\ \A n \in Open : n \in shown \/ \E i \in Arriving : RaisedOf(n, i)
      /\ \A n \in shown \ Open : n \in acks \/ \E e \in Arriving : RemovalOf(n, e)
      /\ acks = {}
  BY <1>1 DEF ViewInv, ListInv, ViewIsComing, Settled
<1>8. QED
  BY <1>6, <1>7

\* SettledViewIsRight for every number of notifications, edges and draining tasks and
\* every size of the buffer, the queue, a drain and a replay: once everything settled,
\* what a browser lists is what is open, whatever connections, restarts and overflows
\* there were, unless one of the marked steps happened (stream.svelte.ts, app.py stream,
\* events.py, broker.py).
THEOREM OperatorsSeeWhatIsOpen == Spec => []SettledViewIsRight
<1>1. Init => FeedInv /\ GapInv /\ ViewInv
  BY InitFeeds, InitHasNoGap, InitIsSeen
<1>2. FeedInv /\ GapInv /\ ViewInv /\ [Next]_vars => FeedInv' /\ GapInv' /\ ViewInv'
  BY NextFeeds, NextHasNoGap, NextIsSeen
<1>3. FeedInv /\ GapInv /\ ViewInv => SettledViewIsRight
  BY SettledIsRight
<1>4. QED
  BY <1>1, <1>2, <1>3, PTL DEF Spec


-----------------------------------------------------------------------------
(* Types. *)

\* The sizes that TypeOK bounds, and what the buffer was filled with.
SizesInv ==
  /\ Cardinality(Visible) = Len(log)
  /\ buffer \in Seq(pub) /\ Len(buffer) <= BUFFER_SIZE
  /\ Len(client.queue) <= QUEUE_LIMIT

\* A sequence whose entries are in a set is a sequence over it.
LEMMA EntriesIn ==
  ASSUME NEW S, NEW s \in Seq(S), NEW T, ToSet(s) \subseteq T
  PROVE  s \in Seq(T)
<1>1. Len(s) \in Nat /\ s \in [1..Len(s) -> S] /\ \A k \in 1..Len(s) : s[k] \in T
  BY Entries
<1>2. s \in [1..Len(s) -> T]
  BY <1>1
<1>3. QED
  BY <1>1, <1>2, ListsAreSequences

\* An edge becomes visible once.
LEMMA LogGrowsByOne ==
  ASSUME FeedInv, Cardinality(Visible) = Len(log), NEW x \in Ids \ Visible, log' = Append(log, x)
  PROVE  Cardinality(Visible') = Len(log')
<1>1. Visible' = Visible \union {x} /\ Len(log') = Len(log) + 1
  BY Appending DEF Visible, FeedInv, LogInv
<1>2. IsFiniteSet(Visible)
  <2>1. IsFiniteSet(Ids)
    BY Sizes, FS_Interval DEF Ids
  <2>2. QED
    BY <2>1, IdsAreNumbers, FS_Subset
<1>3. Cardinality(Visible \union {x}) = Cardinality(Visible) + 1
  BY <1>2, FS_AddElement
<1>4. QED
  BY <1>1, <1>3

\* offer never exceeds the limit (broker.py Subscriber.offer).
LEMMA OfferedFits ==
  ASSUME NEW c \in Clients, NEW s \in Seq(1..Resync)
  PROVE  Len(Offered(c, s).queue) <= QUEUE_LIMIT
<1> DEFINE q == c.queue \o s
           f == First(q, QUEUE_LIMIT)
<1>1. q \in Seq(1..Resync) /\ Len(q) \in Nat
  BY DEF Clients
<1> HIDE DEF q
<1>2. Len(f) = IF Len(q) < QUEUE_LIMIT THEN Len(q) ELSE QUEUE_LIMIT
  BY <1>1, Sizes, FirstEntries
<1>3. Len(f) <= QUEUE_LIMIT
  BY <1>1, <1>2, Sizes
<1> HIDE DEF f
<1>4. Offered(c, s).queue = f
  BY DEF Offered, q, f, Clients
<1>5. QED
  BY <1>3, <1>4

\* The log and the buffer stand still.
LEMMA SizesStay ==
  ASSUME SizesInv, UNCHANGED <<log, buffer, pub>>, Len(client'.queue) <= QUEUE_LIMIT
  PROVE  SizesInv'
BY DEF SizesInv, Visible

\* What a browser does to its queue.
LEMMA BrowserFits ==
  ASSUME FeedInv, GapInv, ViewInv, SizesInv, Browser
  PROVE  SizesInv'
<1>0. UNCHANGED <<log, buffer, pub>>
  BY DEF Browser, Bootstrap, Subscribe, Replay, Deliver, Drop, db, broker
<1>1. /\ client \in Clients /\ client.queue \in Seq(1..Resync) /\ client.replay \in Seq(1..Resync)
      /\ client.last \in 0..MaxId \union {Null}
  BY EdgesAreMessages DEF GapInv, ClientInv, Clients
<1>2. Len(<<>>) <= QUEUE_LIMIT /\ <<>> \in Seq(Ids) /\ <<Resync>> \in Seq(1..Resync)
  BY Sizes
<1>3. CASE Bootstrap \/ Drop
  <2>1. client'.queue = <<>>
    <3>1. \/ client' = [Offline EXCEPT !.phase = "boot", !.last = client.last]
          \/ client' = [Offline EXCEPT !.last = client.last]
      BY <1>3 DEF Bootstrap, Drop
    <3>2. /\ [Offline EXCEPT !.phase = "boot", !.last = client.last].queue = <<>>
          /\ [Offline EXCEPT !.last = client.last].queue = <<>>
      BY FreshFields
    <3>3. QED
      BY <3>1, <3>2, Zenon
  <2>2. QED
    BY <2>1, <1>0, <1>2, SizesStay
<1>4. CASE Deliver
  <2> DEFINE m == Head(client.queue)
             last == IF m = Resync THEN client.last ELSE m
  <2>1. /\ client.queue # <<>>
        /\ client' = IF client.resync THEN [Offline EXCEPT !.last = last]
                     ELSE [client EXCEPT !.last = last, !.queue = Tail(@), !.owed = @ \ {m}]
    BY <1>4 DEF Deliver
  <2> HIDE DEF last, m
  <2>2. CASE client.resync
    <3>1. client'.queue = <<>>
      BY <2>1, <2>2, FreshFields
    <3>2. QED
      BY <3>1, <1>0, <1>2, SizesStay
  <2>3. CASE ~ client.resync
    <3>1. client'.queue = Tail(client.queue)
      BY <2>1, <2>3, <1>1 DEF Clients
    <3>2. Len(Tail(client.queue)) = Len(client.queue) - 1 /\ Len(client.queue) \in Nat
      BY <2>1, <1>1
    <3>3. Len(client'.queue) <= QUEUE_LIMIT
      BY <3>1, <3>2, Sizes DEF SizesInv
    <3>4. QED
      BY <3>3, <1>0, SizesStay
  <2>4. QED
    BY <2>2, <2>3
<1>5. CASE Replay
  <2>1. CASE client' = [Offered(client, client.replay) EXCEPT !.phase = "live", !.replay = <<>>]
    <3> DEFINE c == Offered(client, client.replay)
    <3>1. c \in Clients /\ Len(c.queue) <= QUEUE_LIMIT
      BY <1>1, Offering, OfferedFits
    <3> HIDE DEF c
    <3>2. client'.queue = c.queue
      BY <3>1, <2>1, <1>2 DEF Clients, c
    <3>3. QED
      BY <3>1, <3>2, <1>0, SizesStay
  <2>2. CASE client' = [Offered(client, <<Resync>>) EXCEPT
                          !.phase = "live", !.replay = <<>>, !.owed = ToSet(client.queue)]
    <3> DEFINE c == Offered(client, <<Resync>>)
    <3>1. c \in Clients /\ Len(c.queue) <= QUEUE_LIMIT
      BY <1>1, <1>2, Offering, OfferedFits
    <3>2. ToSet(client.queue) \in SUBSET (1..Resync)
      BY <1>1, Entries
    <3> HIDE DEF c
    <3>3. client'.queue = c.queue
      BY <3>1, <3>2, <2>2, <1>2 DEF Clients, c
    <3>4. QED
      BY <3>1, <3>3, <1>0, SizesStay
  <2>3. QED
    BY <2>1, <2>2, <1>5 DEF Replay
<1>6. CASE Subscribe
  <2>1. client.phase = "boot"
    BY <1>6 DEF Subscribe
  <2>2. client.queue = <<>>
    BY <2>1 DEF ViewInv, QueueInv, MessagesAreEdges
  <2>3. Joined \in Clients /\ Joined.queue = <<>>
    BY <2>2, <1>1 DEF Joined, Clients
  <2>4. client.last # Null => client.last \in Nat /\ Owed(client.last) \in SUBSET (1..Resync)
    <3>1. client.last # Null => client.last \in Nat
      BY <1>1, Sizes
    <3>2. pub \subseteq 1..Resync
      BY IdsAreNumbers, Sizes
    <3>3. QED
      BY <3>1, <3>2 DEF Owed
  <2>5. CASE client' = Joined
    BY <2>3, <2>5, <1>0, <1>2, SizesStay
  <2>6. CASE client' = Offered(Joined, <<Resync>>)
    <3>1. Len(client'.queue) <= QUEUE_LIMIT
      BY <2>3, <2>6, <1>2, OfferedFits
    <3>2. QED
      BY <3>1, <1>0, SizesStay
  <2>7. CASE /\ client.last # Null
             /\ client' = [Offered(Joined, BufferAbove(client.last))
                             EXCEPT !.owed = Owed(client.last)]
    <3> DEFINE s == BufferAbove(client.last)
               c == Offered(Joined, s)
               o == Owed(client.last)
    <3>1. s \in Seq(1..Resync) /\ o \in SUBSET (1..Resync)
      BY <2>4, <2>7, BufferAboveReads, EdgesAreMessages DEF GapInv, ClientInv
    <3> HIDE DEF s, o
    <3>2. c \in Clients /\ Len(c.queue) <= QUEUE_LIMIT
      BY <3>1, <2>3, Offering, OfferedFits
    <3> HIDE DEF c
    <3>3. client'.queue = c.queue
      BY <3>1, <3>2, <2>7 DEF Clients, c, s, o
    <3>4. QED
      BY <3>2, <3>3, <1>0, SizesStay
  <2>8. CASE /\ client.last # Null
             /\ client' = [Joined EXCEPT !.phase = "replay",
                                         !.replay = Above(client.last, MAX_REPLAY),
                                         !.owed = Owed(client.last)]
    <3> DEFINE s == Above(client.last, MAX_REPLAY)
               o == Owed(client.last)
    <3>1. s \in Seq(Ids) /\ o \in SUBSET (1..Resync)
      BY <2>4, <2>8, Sizes, AboveReads DEF FeedInv, LogInv
    <3> HIDE DEF s, o
    <3>2. client'.queue = <<>>
      BY <3>1, <2>3, <2>8 DEF Clients, s, o
    <3>3. QED
      BY <3>2, <1>0, <1>2, SizesStay
  <2>9. QED
    BY <2>5, <2>6, <2>7, <2>8, <1>6 DEF Subscribe
<1>7. QED
  BY <1>3, <1>4, <1>5, <1>6 DEF Browser

\* deque(maxlen) and offer bound what a publication leaves.
LEMMA PublishFits ==
  ASSUME FeedInv, GapInv, SizesInv, NEW t \in Tasks, Publish(t)
  PROVE  SizesInv'
<1> DEFINE all == buffer \o rows[t]
<1>1. /\ buffer \in Seq(Ids) /\ rows[t] \in Seq(Ids) /\ buffer' = Latest(all, BUFFER_SIZE)
      /\ pub' = pub \union ToSet(rows[t]) /\ log' = log
  BY DEF GapInv, ClientInv, FeedInv, RowsInv, Publish, db
<1>2. all \in Seq(Ids) /\ Len(all) \in Nat
  BY <1>1, Joining
<1> HIDE DEF all
<1>3. buffer' \in Seq(Ids)
  BY PublishKeepsSuffix
<1>4. Len(buffer') <= BUFFER_SIZE
  <2>1. CASE Len(all) > BUFFER_SIZE
    <3>1. buffer' = SubSeq(all, Len(all) - BUFFER_SIZE + 1, Len(all))
      BY <2>1, <1>1 DEF Latest
    <3>2. Len(buffer') = BUFFER_SIZE
      BY <3>1, <2>1, <1>2, Sizes
    <3>3. QED
      BY <3>2, Sizes
  <2>2. CASE ~ (Len(all) > BUFFER_SIZE)
    <3>1. buffer' = all
      BY <2>2, <1>1, <1>2 DEF Latest
    <3>2. QED
      BY <3>1, <2>2, <1>2, Sizes
  <2>3. QED
    BY <2>1, <2>2
<1>5. buffer' \in Seq(pub')
  <2>1. ToSet(buffer') \subseteq ToSet(buffer) \union ToSet(rows[t])
    BY PublishedBuffer
  <2>2. ToSet(buffer) \subseteq pub
    BY Entries DEF SizesInv
  <2>3. ToSet(buffer') \subseteq pub'
    BY <2>1, <2>2, <1>1
  <2>4. PICK T : T = pub'
    OBVIOUS
  <2>5. QED
    BY <2>3, <2>4, <1>3, EntriesIn
<1>6. Len(client'.queue) <= QUEUE_LIMIT
  <2> DEFINE c == IF Subscribed(client) THEN Offered(client, rows[t]) ELSE client
             o == IF client.phase = "off" THEN {} ELSE client.owed \union ToSet(rows[t])
  <2>1. client \in Clients /\ client.owed \in SUBSET (1..Resync) /\ rows[t] \in Seq(1..Resync)
    BY <1>1, EdgesAreMessages DEF GapInv, ClientInv, Clients
  <2>2. c \in Clients /\ Len(c.queue) <= QUEUE_LIMIT /\ c.owed = client.owed
    BY <2>1, Offering, OfferedFits DEF SizesInv
  <2>3. o \in SUBSET (1..Resync)
    BY <2>1, Entries
  <2>4. client' = [c EXCEPT !.owed = o]
    <3>1. client' = [c EXCEPT !.owed = IF client.phase = "off" THEN {} ELSE @ \union ToSet(rows[t])]
      BY DEF Publish
    <3> HIDE DEF c
    <3>2. QED
      BY <3>1, <2>2 DEF Clients
  <2> HIDE DEF c, o
  <2>5. client'.queue = c.queue
    BY <2>2, <2>3, <2>4 DEF Clients
  <2>6. QED
    BY <2>2, <2>5
<1>7. QED
  BY <1>1, <1>4, <1>5, <1>6 DEF SizesInv, Visible

\* Every step keeps the sizes.
LEMMA NextFits ==
  ASSUME FeedInv, GapInv, ViewInv, SizesInv, [Next]_vars
  PROVE  SizesInv'
<1>1. CASE EmitPlain \/ Raise \/ Resolve \/ RollBack \/ Acknowledge \/ LoseAck \/ UNCHANGED vars
  <2>1. UNCHANGED <<log, buffer, pub, client>>
    BY <1>1 DEF EmitPlain, Raise, Resolve, RollBack, Acknowledge, LoseAck, vars, broker
  <2>2. QED
    BY <2>1, SizesStay DEF SizesInv
<1>2. CASE Commit
  <2>1. PICK t \in flying : log' = Append(log, t.id)
    BY <1>2 DEF Commit
  <2>2. t.id \in Ids \ Visible
    BY <2>1 DEF FeedInv, LogInv, Txn
  <2>3. Cardinality(Visible') = Len(log') /\ UNCHANGED <<buffer, pub, client>>
    BY <2>1, <2>2, <1>2, LogGrowsByOne DEF SizesInv, Commit, broker
  <2>4. QED
    BY <2>3 DEF SizesInv
<1>3. CASE EmitAck
  <2>1. PICK x : x = drawn + 1
    OBVIOUS
  <2>2. log' = Append(log, x) /\ x \in Ids \ Visible
    <3>1. drawn < MaxId /\ drawn \in Nat /\ \A i \in Visible : i \in Nat /\ i <= drawn
      BY <1>3, IdsAreNumbers DEF EmitAck, FeedInv, LogInv
    <3>2. QED
      BY <3>1, <2>1, <1>3, Sizes DEF EmitAck, Ids
  <2>3. Cardinality(Visible') = Len(log') /\ UNCHANGED <<buffer, pub, client>>
    BY <2>2, <1>3, LogGrowsByOne DEF SizesInv, EmitAck, broker
  <2>4. QED
    BY <2>3 DEF SizesInv
<1>4. ASSUME NEW t \in Tasks, Read(t) \/ ReadFails(t)
      PROVE  SizesInv'
  <2>1. UNCHANGED <<log, buffer, pub, client>>
    BY <1>4 DEF Read, ReadFails, db
  <2>2. QED
    BY <2>1, SizesStay DEF SizesInv
<1>5. ASSUME NEW t \in Tasks, Publish(t)
      PROVE  SizesInv'
  BY <1>5, PublishFits
<1>6. CASE RestartBroker
  <2>1. /\ log' = log /\ pub' = pub /\ buffer' = <<>>
        /\ client' = [Offline EXCEPT !.last = client.last]
    BY <1>6 DEF RestartBroker, db
  <2>2. client'.queue = <<>>
    BY <2>1, FreshFields
  <2>3. Len(<<>>) = 0 /\ <<>> \in Seq(pub')
    OBVIOUS
  <2>4. QED
    BY <2>1, <2>2, <2>3, Sizes DEF SizesInv, Visible
<1>7. CASE Browser
  BY <1>7, BrowserFits
<1>8. QED
  BY <1>1, <1>2, <1>3, <1>4, <1>5, <1>6, <1>7 DEF Next, Writers, CheckRules, Drains

\* The tables, the broker and the connection have their types, the buffer and the queue
\* their limits, for every size.
THEOREM EventsTypeCorrect == Spec => []TypeOK
<1>1. Init => FeedInv /\ GapInv /\ ViewInv /\ SizesInv
  <2>1. ASSUME Init
        PROVE  SizesInv
    <3>1. log = <<>> /\ buffer = <<>> /\ client \in {Offline, [Offline EXCEPT !.last = 0]}
      BY <2>1 DEF Init
    <3>2. Visible = {} /\ Cardinality(Visible) = 0
      BY <3>1, FS_EmptySet DEF Visible, ToSet
    <3>3. client.queue = <<>>
      BY <3>1 DEF Offline
    <3>4. Len(<<>>) = 0 /\ <<>> \in Seq(pub)
      OBVIOUS
    <3>5. QED
      BY <3>1, <3>2, <3>3, <3>4, Sizes DEF SizesInv
  <2>2. QED
    BY <2>1, InitFeeds, InitHasNoGap, InitIsSeen
<1>2. FeedInv /\ GapInv /\ ViewInv /\ SizesInv /\ [Next]_vars =>
        FeedInv' /\ GapInv' /\ ViewInv' /\ SizesInv'
  BY NextFeeds, NextHasNoGap, NextIsSeen, NextFits
<1>3. FeedInv /\ GapInv /\ ViewInv /\ SizesInv => TypeOK
  <2>1. ASSUME FeedInv, GapInv, ViewInv, SizesInv
        PROVE  TypeOK
    <3>1. rows \in [Tasks -> Seq(Visible)]
      <4>1. \A t \in Tasks : rows[t] \in Seq(Ids) /\ ToSet(rows[t]) \subseteq Visible
        BY <2>1 DEF FeedInv, RowsInv
      <4>2. \A t \in Tasks : rows[t] \in Seq(Visible)
        BY <4>1, EntriesIn
      <4>3. QED
        BY <4>2, <2>1 DEF FeedInv, RowsInv
    <3>2. note \in [Notes -> Note] /\ edge \in [Ids -> Edge] /\ acks \subseteq Notes
      BY <2>1 DEF ViewInv, TablesInv, NotesInv
    <3>3. /\ drawn \in 0..MaxId /\ flying \subseteq Txn /\ log \in Seq(Ids)
          /\ \A i \in Visible : i <= drawn
          /\ watermark \in {0} \union Visible /\ pub \subseteq Visible
      BY <2>1 DEF FeedInv, LogInv, SentInv
    <3>4. /\ client.phase \in {"off", "boot", "replay", "live"}
          /\ client.last \in 0..MaxId \union {Null}
      BY <2>1 DEF GapInv, ClientInv, Clients
    <3>5. shown \subseteq Notes
      BY <2>1 DEF ViewInv, QueueInv, MessagesAreEdges
    <3>6. QED
      BY <3>1, <3>2, <3>3, <3>4, <3>5, <2>1 DEF TypeOK, SizesInv
  <2>2. QED
    BY <2>1
<1>4. QED
  BY <1>1, <1>2, <1>3, PTL DEF Spec

================================================================================
