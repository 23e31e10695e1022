---------------------------- MODULE CrawlProofs ----------------------------
(***************************************************************************)
(* Proofs about what a worker does with one shop: the slots of its host    *)
(* that it holds meanwhile (HostLeases), and the crawl and the load that   *)
(* follow (Crawl, whose specification's names begin with Crawl).           *)
(***************************************************************************)
EXTENDS HostLeases, Crawl, FiniteSetTheorems, TLAPS

-----------------------------------------------------------------------------
(* HostLeases, for every set of politeness keys and executions and every      *)
(* largest limit: an execution whose heartbeat keeps up keeps its slots, no   *)
(* slot is stranded, and a lowered limit drains.                              *)
(*                                                                            *)
(* KeptWhileBeating is inductive with the types and NoStrandedSlot only once  *)
(* it is known that a live lease has an owner (LiveIsOwned): that is what     *)
(* keeps the lapse of a lease from being charged to nobody.                   *)


\* A row whose leased_until is in the future was taken by an execution
\* (leases.py ACQUIRE and RENEW write the token with the time).
LiveIsOwned ==
  \A k \in Keys, n \in Slots : slot[k][n].live => slot[k][n].exec # Nobody

\* Only a job with a shared edge asks for one (worker.py execute).
EdgeIsAskedFor ==
  \A e \in Execs : step[e] = "edge" => EdgeOf[e] # NoKey

\* The inductive invariant of host_leases.
LeaseInv == TypeOK /\ LiveIsOwned /\ EdgeIsAskedFor /\ NoStrandedSlot /\ KeptWhileBeating

-----------------------------------------------------------------------------
(* The helpers of ACQUIRE and reconcile_host_slots. *)

\* A set of naturals that is not empty has a least member: ORDER BY slot LIMIT 1
\* finds a row whenever there is one.  The initial segments below its members
\* are finite, and strict inclusion of finite sets is well-founded.
LEMMA LeastMember ==
  ASSUME NEW T \in SUBSET Nat, T # {}
  PROVE  \E n \in T : \A m \in T : n <= m
<1> DEFINE Below == {0..n : n \in T}
<1>1. Below \subseteq FiniteSubsetsOf(Nat)
  <2>1. \A n \in Nat : IsFiniteSet(0..n)
    BY FS_Interval
  <2>2. QED
    BY <2>1 DEF FiniteSubsetsOf
<1>2. Below # {}
  OBVIOUS
<1>3. PICK b \in Below : \A c \in Below : <<c, b>> \notin StrictSubsetOrdering(Nat)
  BY <1>1, <1>2, FS_StrictSubsetOrderingWellFounded, WFMin
<1>4. PICK n \in T : b = 0..n
  OBVIOUS
<1>5. ASSUME NEW m \in T, ~ (n <= m)
      PROVE  FALSE
  <2>1. 0..m \subseteq 0..n /\ 0..m # 0..n
    BY <1>5
  <2>2. 0..m \in Below /\ 0..m \in SUBSET Nat /\ 0..n \in SUBSET Nat
    OBVIOUS
  <2>3. <<0..m, 0..n>> \in StrictSubsetOrdering(Nat)
    BY <2>1, <2>2 DEF StrictSubsetOrdering
  <2>4. QED
    BY <2>2, <2>3, <1>3, <1>4
<1>6. QED
  BY <1>5

\* The three rows the statements write are rows of the table.
LEMMA RowsOfTheTable ==
  /\ NoRow \in Row /\ Idle \in Row
  /\ \A e \in Execs : Held(e) \in Row /\ Held(e).exec = e /\ Held(e).live /\ Held(e).row
  /\ NoRow.exec = Nobody /\ ~NoRow.live /\ ~NoRow.row
  /\ Idle.exec = Nobody /\ ~Idle.live /\ Idle.row
BY DEF Row, NoRow, Idle, Held

\* reconcile_host_slots keeps every occupied row that exists as it is, invents
\* no owner, and leaves no idle row above the limit.
LEMMA ReconciledRows ==
  ASSUME NEW s \in [Slots -> Row], NEW m \in Slots
  PROVE  /\ Reconciled(s, m) \in [Slots -> Row]
         /\ \A n \in Slots :
              /\ s[n].row /\ s[n].exec # Nobody => Reconciled(s, m)[n] = s[n]
              /\ Reconciled(s, m)[n].exec # Nobody => Reconciled(s, m)[n] = s[n]
              /\ Reconciled(s, m)[n].live => Reconciled(s, m)[n] = s[n]
              /\ n > m /\ Reconciled(s, m)[n].row => Reconciled(s, m)[n].exec # Nobody
<1> USE DEF Reconciled, Slots
<1>1. Reconciled(s, m) \in [Slots -> Row]
  BY RowsOfTheTable
<1>2. ASSUME NEW n \in Slots
      PROVE  /\ s[n].row /\ s[n].exec # Nobody => Reconciled(s, m)[n] = s[n]
             /\ Reconciled(s, m)[n].exec # Nobody => Reconciled(s, m)[n] = s[n]
             /\ Reconciled(s, m)[n].live => Reconciled(s, m)[n] = s[n]
             /\ n > m /\ Reconciled(s, m)[n].row => Reconciled(s, m)[n].exec # Nobody
  <2>1. CASE n <= m /\ ~s[n].row
    <3>1. Reconciled(s, m)[n] = Idle
      BY <2>1
    <3>2. QED
      BY <3>1, <2>1, RowsOfTheTable, MaxSlotIsPos
  <2>2. CASE ~(n <= m /\ ~s[n].row) /\ n > m /\ s[n].exec = Nobody
    <3>1. Reconciled(s, m)[n] = NoRow
      BY <2>2
    <3>2. QED
      BY <3>1, <2>2, RowsOfTheTable
  <2>3. CASE ~(n <= m /\ ~s[n].row) /\ ~(n > m /\ s[n].exec = Nobody)
    BY <2>3
  <2>4. QED
    BY <2>1, <2>2, <2>3
<1>3. QED
  BY <1>1, <1>2

\* No row that ACQUIRE may take is held by a lease that runs.
LEMMA FreeRowsAreNotHeld ==
  ASSUME NEW s \in [Slots -> Row], NEW n \in Free(s), NEW e \in Execs
  PROVE  n \in Slots /\ s[n].row /\ s[n] # Held(e)
BY RowsOfTheTable, NobodyIsNoExec DEF Free

\* ACQUIRE either finds no row and reconciles, or takes one row that was idle or
\* had lapsed and leaves the other rows as reconciled.
LEMMA AcquireTakesOneFreeRow ==
  ASSUME NEW e \in Execs, Acquire(e), TypeOK, EdgeIsAskedFor
  PROVE  \E k \in Keys :
           /\ k = KeyAt(e, step[e])
           /\ step[e] \in {"shop", "edge"}
           /\ UNCHANGED <<max_concurrency, missed>>
           /\ \/ /\ slot' = [slot EXCEPT ![k] = Reconciled(slot[k], max_concurrency[k])]
                 /\ step' = [step EXCEPT ![e] = "refused"]
              \/ \E low \in Free(Reconciled(slot[k], max_concurrency[k])) :
                   /\ slot' = [slot EXCEPT ![k] =
                                [Reconciled(slot[k], max_concurrency[k]) EXCEPT ![low] = Held(e)]]
                   /\ step' = [step EXCEPT ![e] =
                        IF step[e] = "shop" /\ EdgeOf[e] # NoKey THEN "edge" ELSE "starting"]
<1> DEFINE k   == KeyAt(e, step[e])
           tab == Reconciled(slot[k], max_concurrency[k])
<1>1. step[e] \in {"shop", "edge"} /\ UNCHANGED <<max_concurrency, missed>>
  BY DEF Acquire
<1>2. k \in Keys
  BY <1>1, ShopOfType, EdgeOfType DEF KeyAt, EdgeIsAskedFor
<1>3. PICK locked \in SUBSET {n \in Slots : tab[n].exec # Nobody /\ step[tab[n].exec] \in Active} :
        LET free == Free(tab) \ locked
            low  == CHOOSE n \in free : \A m \in free : n <= m
        IN IF free = {}
           THEN /\ slot' = [slot EXCEPT ![k] = tab]
                /\ step' = [step EXCEPT ![e] = "refused"]
           ELSE /\ slot' = [slot EXCEPT ![k] = [tab EXCEPT ![low] = Held(e)]]
                /\ step' = [step EXCEPT ![e] =
                     IF step[e] = "shop" /\ EdgeOf[e] # NoKey THEN "edge" ELSE "starting"]
  BY DEF Acquire
<1> DEFINE free == Free(tab) \ locked
           low  == CHOOSE n \in free : \A m \in free : n <= m
<1>4. CASE free = {}
  BY <1>1, <1>2, <1>3, <1>4
<1>5. CASE free # {}
  <2>1. free \in SUBSET Nat
    BY MaxSlotIsPos DEF Free, Slots
  <2> HIDE DEF tab
  <2>2. \E n \in free : \A m \in free : n <= m
    BY <2>1, <1>5, LeastMember
  <2>3. low \in Free(tab)
    BY <2>2
  <2> HIDE DEF low
  <2>4. /\ slot' = [slot EXCEPT ![k] = [tab EXCEPT ![low] = Held(e)]]
        /\ step' = [step EXCEPT ![e] =
             IF step[e] = "shop" /\ EdgeOf[e] # NoKey THEN "edge" ELSE "starting"]
    BY <1>3, <1>5 DEF low
  <2>5. QED
    BY <1>1, <1>2, <2>3, <2>4 DEF tab
<1>6. QED
  BY <1>4, <1>5

\* The keys due at each step of execute: the shop's from the second acquire on,
\* the edge's, if there is one, from queue.start on.
Due(e, s) ==
  {k \in {ShopOf[e]} : s \in {"edge", "starting", "crawling"}} \union
  {k \in {EdgeOf[e]} : s \in {"starting", "crawling"} /\ k # NoKey}

\* They are the keys of the execution before and after a step.
LEMMA KeysDueAtStep ==
  ASSUME NEW e \in Execs
  PROVE  KeysDue(e) = Due(e, step[e]) /\ KeysDue(e)' = Due(e, step'[e])
<1> ShopOf[e] # NoKey
  BY ShopOfType, NoKeyIsNoKey
<1> QED
  BY DEF KeysDue, Due, KeyAt

-----------------------------------------------------------------------------
(* The inductive invariant. *)

\* Nothing is leased and nobody has begun.
LEMMA LeaseInvInit == Init => LeaseInv
<1> SUFFICES ASSUME Init
             PROVE  LeaseInv
  OBVIOUS
<1>1. TypeOK
  BY RowsOfTheTable, MaxSlotIsPos DEF Init, TypeOK, Slots, Steps
<1>2. \A k \in Keys, n \in Slots : slot[k][n] = NoRow
  BY DEF Init
<1>3. LiveIsOwned /\ NoStrandedSlot
  BY <1>2, RowsOfTheTable DEF LiveIsOwned, NoStrandedSlot
<1>4. EdgeIsAskedFor
  BY DEF Init, EdgeIsAskedFor
<1>5. KeptWhileBeating
  <2>1. \A e \in Execs : KeysDue(e) = {}
    BY KeysDueAtStep DEF Init, Due
  <2>2. QED
    BY <2>1 DEF KeptWhileBeating
<1>6. QED
  BY <1>1, <1>3, <1>4, <1>5 DEF LeaseInv

\* A step that moves one execution and no slot keeps the invariant when the
\* execution has nothing more to hold than before and holds nothing it may not.
LEMMA MoveKeepsLeases ==
  ASSUME LeaseInv, NEW e \in Execs, NEW s \in Steps,
         step' = [step EXCEPT ![e] = s],
         UNCHANGED <<max_concurrency, slot, missed>>,
         s # "edge", s \notin {"waiting", "done"},
         Due(e, s) \subseteq Due(e, step[e])
  PROVE  LeaseInv'
<1> USE DEF LeaseInv
<1>1. TypeOK'
  BY DEF TypeOK
<1>2. LiveIsOwned' /\ EdgeIsAskedFor'
  BY DEF TypeOK, LiveIsOwned, EdgeIsAskedFor
<1>3. NoStrandedSlot'
  BY DEF TypeOK, NoStrandedSlot
<1>4. KeptWhileBeating'
  <2>1. ASSUME NEW f \in Execs
        PROVE  KeysDue(f)' \subseteq KeysDue(f)
    BY KeysDueAtStep DEF TypeOK
  <2>2. QED
    BY <2>1 DEF KeptWhileBeating
<1>5. QED
  BY <1>1, <1>2, <1>3, <1>4

\* RELEASE_ALL of an execution that goes back to waiting or ends: it frees its
\* own rows, all of them, and no one else's.
LEMMA ReleaseKeepsLeases ==
  ASSUME LeaseInv, NEW e \in Execs, NEW s \in {"waiting", "done"},
         step' = [step EXCEPT ![e] = s],
         slot' = Without(e),
         UNCHANGED <<max_concurrency, missed>>
  PROVE  LeaseInv'
<1> USE DEF LeaseInv
<1>1. \A k \in Keys, n \in Slots :
        slot'[k][n] = IF slot[k][n].exec = e THEN Idle ELSE slot[k][n]
  BY DEF Without
<1>2. TypeOK'
  BY RowsOfTheTable DEF TypeOK, Without, Steps
<1>3. LiveIsOwned' /\ EdgeIsAskedFor'
  BY <1>1, RowsOfTheTable DEF TypeOK, LiveIsOwned, EdgeIsAskedFor
<1>4. NoStrandedSlot'
  BY <1>1, RowsOfTheTable DEF TypeOK, NoStrandedSlot
<1>5. KeptWhileBeating'
  <2> SUFFICES ASSUME NEW f \in Execs, f \notin missed, NEW k \in KeysDue(f)'
               PROVE  \E n \in Slots : slot'[k][n] = Held(f)
    BY DEF KeptWhileBeating
  <2>1. f # e
    BY KeysDueAtStep DEF Due, TypeOK
  <2>2. k \in KeysDue(f)
    BY <2>1, KeysDueAtStep DEF TypeOK
  <2>3. k \in Keys
    BY <2>2, KeysDueAtStep, ShopOfType, EdgeOfType DEF Due
  <2>4. PICK n \in Slots : slot[k][n] = Held(f)
    BY <2>2 DEF KeptWhileBeating
  <2>5. slot'[k][n] = Held(f)
    BY <1>1, <2>1, <2>3, <2>4, RowsOfTheTable
  <2>6. QED
    BY <2>5
<1>6. QED
  BY <1>2, <1>3, <1>4, <1>5

\* leases.acquire: the row it takes was free, so no running lease loses it, and
\* the execution moves on with the key it asked for.
LEMMA AcquireKeepsLeases ==
  ASSUME LeaseInv, NEW e \in Execs, Acquire(e)
  PROVE  LeaseInv'
<1> USE DEF LeaseInv
<1>1. PICK k \in Keys :
           /\ k = KeyAt(e, step[e])
           /\ step[e] \in {"shop", "edge"}
           /\ UNCHANGED <<max_concurrency, missed>>
           /\ \/ /\ slot' = [slot EXCEPT ![k] = Reconciled(slot[k], max_concurrency[k])]
                 /\ step' = [step EXCEPT ![e] = "refused"]
              \/ \E low \in Free(Reconciled(slot[k], max_concurrency[k])) :
                   /\ slot' = [slot EXCEPT ![k] =
                                [Reconciled(slot[k], max_concurrency[k]) EXCEPT ![low] = Held(e)]]
                   /\ step' = [step EXCEPT ![e] =
                        IF step[e] = "shop" /\ EdgeOf[e] # NoKey THEN "edge" ELSE "starting"]
  BY AcquireTakesOneFreeRow
<1> DEFINE tab == Reconciled(slot[k], max_concurrency[k])
<1>2. slot[k] \in [Slots -> Row] /\ max_concurrency[k] \in Slots
  BY DEF TypeOK
<1>3. /\ tab \in [Slots -> Row]
      /\ \A n \in Slots : /\ slot[k][n].row /\ slot[k][n].exec # Nobody => tab[n] = slot[k][n]
                          /\ tab[n].exec # Nobody => tab[n] = slot[k][n]
                          /\ tab[n].live => tab[n] = slot[k][n]
  BY <1>2, ReconciledRows
<1> HIDE DEF tab
<1>4. \A f \in Execs, n \in Slots : slot[k][n] = Held(f) => tab[n] = Held(f)
  BY <1>3, RowsOfTheTable, NobodyIsNoExec
<1>5. CASE /\ slot' = [slot EXCEPT ![k] = tab]
           /\ step' = [step EXCEPT ![e] = "refused"]
  <2>1. TypeOK'
    BY <1>1, <1>3, <1>5 DEF TypeOK, Steps
  <2>2. \A kk \in Keys, n \in Slots :
          slot'[kk][n] = IF kk = k THEN tab[n] ELSE slot[kk][n]
    BY <1>5 DEF TypeOK
  <2>3. LiveIsOwned' /\ EdgeIsAskedFor'
    BY <1>3, <1>5, <2>2 DEF LiveIsOwned, EdgeIsAskedFor, TypeOK
  <2>4. NoStrandedSlot'
    BY <1>3, <1>5, <2>2 DEF NoStrandedSlot, TypeOK
  <2>5. KeptWhileBeating'
    <3> SUFFICES ASSUME NEW f \in Execs, f \notin missed, NEW kk \in KeysDue(f)'
                 PROVE  \E n \in Slots : slot'[kk][n] = Held(f)
      BY <1>1 DEF KeptWhileBeating
    <3>1. kk \in KeysDue(f)
      BY <1>5, KeysDueAtStep DEF TypeOK, Due
    <3>2. kk \in Keys
      BY <3>1, KeysDueAtStep, ShopOfType, EdgeOfType DEF Due
    <3>3. PICK n \in Slots : slot[kk][n] = Held(f)
      BY <3>1 DEF KeptWhileBeating
    <3>4. slot'[kk][n] = Held(f)
      BY <1>4, <2>2, <3>2, <3>3
    <3>5. QED
      BY <3>4
  <2>6. QED
    BY <2>1, <2>3, <2>4, <2>5
<1>6. ASSUME NEW low \in Free(tab),
             slot' = [slot EXCEPT ![k] = [tab EXCEPT ![low] = Held(e)]],
             step' = [step EXCEPT ![e] =
                        IF step[e] = "shop" /\ EdgeOf[e] # NoKey THEN "edge" ELSE "starting"]
      PROVE  LeaseInv'
  <2>1. low \in Slots /\ \A f \in Execs : tab[low] # Held(f)
    BY <1>3, <1>6, FreeRowsAreNotHeld
  <2>2. [tab EXCEPT ![low] = Held(e)] \in [Slots -> Row]
    BY <1>3, <2>1, RowsOfTheTable
  <2>3. TypeOK'
    BY <1>1, <1>6, <2>2 DEF TypeOK, Steps
  <2>4. \A kk \in Keys, n \in Slots :
          slot'[kk][n] = IF kk # k THEN slot[kk][n]
                         ELSE IF n = low THEN Held(e) ELSE tab[n]
    BY <1>3, <1>6, <2>1 DEF TypeOK
  <2>5. LiveIsOwned'
    BY <1>3, <2>4, RowsOfTheTable, NobodyIsNoExec DEF LiveIsOwned
  <2>6. EdgeIsAskedFor'
    BY <1>6 DEF EdgeIsAskedFor, TypeOK
  <2>7. NoStrandedSlot'
    <3> SUFFICES ASSUME NEW kk \in Keys, NEW n \in Slots, slot'[kk][n].exec # Nobody
                 PROVE  step'[slot'[kk][n].exec] \notin {"waiting", "done"}
      BY DEF NoStrandedSlot
    <3>1. CASE slot'[kk][n] = Held(e)
      BY <3>1, <1>6, RowsOfTheTable DEF TypeOK
    <3>2. CASE slot'[kk][n] = slot[kk][n]
      BY <3>2, <1>6 DEF TypeOK, NoStrandedSlot
    <3>3. QED
      BY <3>1, <3>2, <2>4, <1>3
  <2>8. KeptWhileBeating'
    <3> SUFFICES ASSUME NEW f \in Execs, f \notin missed, NEW kk \in KeysDue(f)'
                 PROVE  \E n \in Slots : slot'[kk][n] = Held(f)
      BY <1>1 DEF KeptWhileBeating
    <3>1. kk \in Keys
      BY KeysDueAtStep, ShopOfType, EdgeOfType DEF Due
    <3>2. CASE kk \in KeysDue(f)
      <4>1. PICK n \in Slots : slot[kk][n] = Held(f)
        BY <3>2 DEF KeptWhileBeating
      <4>2. slot'[kk][n] = Held(f)
        BY <1>4, <2>1, <2>4, <3>1, <4>1
      <4>3. QED
        BY <4>2
    <3>3. CASE kk \notin KeysDue(f)
      <4>1. f = e /\ kk = k
        BY <1>1, <1>6, <3>3, KeysDueAtStep DEF TypeOK, Due, KeyAt
      <4>2. QED
        BY <4>1, <2>1, <2>4
    <3>4. QED
      BY <3>2, <3>3
  <2>9. QED
    BY <2>3, <2>5, <2>6, <2>7, <2>8
<1>7. QED
  BY <1>1, <1>5, <1>6 DEF tab

\* _beat: a renewal makes the rows of one execution live and touches no other.
LEMMA BeatKeepsLeases ==
  ASSUME LeaseInv, NEW e \in Execs, Beat(e)
  PROVE  LeaseInv'
<1> USE DEF LeaseInv, Beat
<1>1. \A k \in Keys, n \in Slots :
        slot'[k][n] = IF slot[k][n].exec = e THEN Held(e) ELSE slot[k][n]
  OBVIOUS
<1>2. TypeOK'
  BY RowsOfTheTable DEF TypeOK
<1>3. LiveIsOwned' /\ EdgeIsAskedFor'
  BY <1>1, RowsOfTheTable, NobodyIsNoExec DEF LiveIsOwned, EdgeIsAskedFor
<1>4. NoStrandedSlot'
  BY <1>1, RowsOfTheTable DEF NoStrandedSlot
<1>5. KeptWhileBeating'
  <2> SUFFICES ASSUME NEW f \in Execs, f \notin missed, NEW k \in KeysDue(f)'
               PROVE  \E n \in Slots : slot'[k][n] = Held(f)
    BY DEF KeptWhileBeating
  <2>1. k \in KeysDue(f) /\ k \in Keys
    BY KeysDueAtStep, ShopOfType, EdgeOfType DEF Due
  <2>2. PICK n \in Slots : slot[k][n] = Held(f)
    BY <2>1 DEF KeptWhileBeating
  <2>3. slot'[k][n] = Held(f)
    BY <1>1, <2>1, <2>2, RowsOfTheTable
  <2>4. QED
    BY <2>3
<1>6. QED
  BY <1>2, <1>3, <1>4, <1>5

\* SLOT_SECONDS pass: the lease that runs out belongs to a dead worker, to which
\* no key is due, or to one whose heartbeat is now known to have missed it.
LEMMA LapseKeepsLeases ==
  ASSUME LeaseInv, NEW k \in Keys, NEW n \in Slots, Lapse(k, n)
  PROVE  LeaseInv'
<1> USE DEF LeaseInv, Lapse
<1> DEFINE e == slot[k][n].exec
           lapsed == [slot[k][n] EXCEPT !.live = FALSE]
<1>1. slot[k][n] \in Row
  BY DEF TypeOK
<1>2. e \in Execs
  BY <1>1 DEF LiveIsOwned, Row
<1>3. lapsed \in Row /\ lapsed.exec = e /\ ~lapsed.live
  BY <1>1 DEF Row
<1>4. slot' = [slot EXCEPT ![k] = [slot[k] EXCEPT ![n] = lapsed]]
  BY DEF TypeOK
<1> HIDE DEF lapsed, Lapse
<1>5. TypeOK'
  <2>1. missed' \subseteq Execs /\ UNCHANGED <<max_concurrency, step>>
    BY <1>2 DEF TypeOK, Lapse
  <2>2. [slot[k] EXCEPT ![n] = lapsed] \in [Slots -> Row]
    BY <1>3 DEF TypeOK
  <2>3. QED
    BY <1>4, <2>1, <2>2 DEF TypeOK
<1>6. \A kk \in Keys, m \in Slots :
        slot'[kk][m] = IF kk = k /\ m = n THEN lapsed ELSE slot[kk][m]
  BY <1>4 DEF TypeOK
<1>7. LiveIsOwned' /\ EdgeIsAskedFor'
  BY <1>3, <1>6 DEF LiveIsOwned, EdgeIsAskedFor, Lapse
<1>8. NoStrandedSlot'
  BY <1>3, <1>6 DEF NoStrandedSlot, Lapse
<1>9. KeptWhileBeating'
  <2> SUFFICES ASSUME NEW f \in Execs, f \notin missed', NEW kk \in KeysDue(f)'
               PROVE  \E m \in Slots : slot'[kk][m] = Held(f)
    BY DEF KeptWhileBeating
  <2>1. kk \in KeysDue(f) /\ kk \in Keys /\ step[f] # "dead"
    BY KeysDueAtStep, ShopOfType, EdgeOfType DEF Due, Lapse
  <2>2. f # e /\ f \notin missed
    BY <2>1 DEF Lapse
  <2>3. PICK m \in Slots : slot[kk][m] = Held(f)
    BY <2>1, <2>2 DEF KeptWhileBeating
  <2>4. slot'[kk][m] = Held(f)
    BY <1>6, <2>1, <2>2, <2>3, RowsOfTheTable
  <2>5. QED
    BY <2>4
<1>10. QED
  BY <1>5, <1>7, <1>8, <1>9

\* leases.configure: a new limit reconciles the rows and takes none away that is
\* occupied.
LEMMA ConfigureKeepsLeases ==
  ASSUME LeaseInv, NEW k \in Tuned, NEW m \in Slots, Configure(k, m)
  PROVE  LeaseInv'
<1> USE DEF LeaseInv, Configure
<1> DEFINE tab == Reconciled(slot[k], m)
<1>1. k \in Keys /\ slot[k] \in [Slots -> Row]
  BY TunedAreKeys DEF TypeOK
<1>2. /\ tab \in [Slots -> Row]
      /\ \A n \in Slots : /\ slot[k][n].row /\ slot[k][n].exec # Nobody => tab[n] = slot[k][n]
                          /\ tab[n].exec # Nobody => tab[n] = slot[k][n]
                          /\ tab[n].live => tab[n] = slot[k][n]
  BY <1>1, ReconciledRows
<1>3. slot' = [slot EXCEPT ![k] = tab] /\ max_concurrency' = [max_concurrency EXCEPT ![k] = m]
      /\ UNCHANGED <<step, missed>>
  OBVIOUS
<1> HIDE DEF tab, Configure
<1>4. TypeOK'
  BY <1>2, <1>3 DEF TypeOK
<1>5. \A kk \in Keys, n \in Slots :
        slot'[kk][n] = IF kk = k THEN tab[n] ELSE slot[kk][n]
  BY <1>3 DEF TypeOK
<1>6. LiveIsOwned' /\ EdgeIsAskedFor'
  BY <1>2, <1>3, <1>5 DEF LiveIsOwned, EdgeIsAskedFor
<1>7. NoStrandedSlot'
  BY <1>2, <1>3, <1>5 DEF NoStrandedSlot
<1>8. KeptWhileBeating'
  <2> SUFFICES ASSUME NEW f \in Execs, f \notin missed, NEW kk \in KeysDue(f)'
               PROVE  \E n \in Slots : slot'[kk][n] = Held(f)
    BY <1>3 DEF KeptWhileBeating
  <2>1. kk \in KeysDue(f) /\ kk \in Keys
    BY <1>3, KeysDueAtStep, ShopOfType, EdgeOfType DEF Due
  <2>2. PICK n \in Slots : slot[kk][n] = Held(f)
    BY <2>1 DEF KeptWhileBeating
  <2>3. slot'[kk][n] = Held(f)
    BY <1>2, <1>5, <2>1, <2>2, RowsOfTheTable, NobodyIsNoExec
  <2>4. QED
    BY <2>3
<1>9. QED
  BY <1>4, <1>6, <1>7, <1>8

\* Every step of a worker, of time and of an operator keeps the invariant.
LEMMA LeaseInvNext == LeaseInv /\ [Next]_vars => LeaseInv'
<1> SUFFICES ASSUME LeaseInv, [Next]_vars
             PROVE  LeaseInv'
  OBVIOUS
<1>1. ASSUME NEW e \in Execs, Begin(e)
      PROVE  LeaseInv'
  BY <1>1, MoveKeepsLeases DEF Begin, Due, Steps
<1>2. ASSUME NEW e \in Execs, Acquire(e)
      PROVE  LeaseInv'
  BY <1>2, AcquireKeepsLeases
<1>3. ASSUME NEW e \in Execs, GiveBack(e)
      PROVE  LeaseInv'
  BY <1>3, ReleaseKeepsLeases DEF GiveBack
<1>4. ASSUME NEW e \in Execs, Start(e)
      PROVE  LeaseInv'
  BY <1>4, MoveKeepsLeases DEF Start, Due, Steps
<1>5. ASSUME NEW e \in Execs, CrawlEnds(e)
      PROVE  LeaseInv'
  BY <1>5, MoveKeepsLeases DEF CrawlEnds, Due, Steps
<1>6. ASSUME NEW e \in Execs, Release(e) \/ Shutdown(e)
      PROVE  LeaseInv'
  BY <1>6, ReleaseKeepsLeases DEF Release, Shutdown
<1>7. ASSUME NEW e \in Execs, Crash(e)
      PROVE  LeaseInv'
  BY <1>7, MoveKeepsLeases DEF Crash, Due, Steps
<1>8. ASSUME NEW e \in Execs, Beat(e)
      PROVE  LeaseInv'
  BY <1>8, BeatKeepsLeases
<1>9. ASSUME NEW k \in Keys, NEW n \in Slots, Lapse(k, n)
      PROVE  LeaseInv'
  BY <1>9, LapseKeepsLeases
<1>10. ASSUME NEW k \in Tuned, NEW m \in Slots, Configure(k, m)
       PROVE  LeaseInv'
  BY <1>10, ConfigureKeepsLeases
<1>11. CASE UNCHANGED vars
  <2>1. \A e \in Execs : KeysDue(e)' = KeysDue(e)
    BY <1>11 DEF vars, KeysDue
  <2>2. QED
    BY <1>11, <2>1 DEF vars, LeaseInv, TypeOK, LiveIsOwned, EdgeIsAskedFor,
         NoStrandedSlot, KeptWhileBeating
<1>12. QED
  BY <1>1, <1>2, <1>3, <1>4, <1>5, <1>6, <1>7, <1>8, <1>9, <1>10, <1>11 DEF Next, Execute

-----------------------------------------------------------------------------
(* What the runs check, for every instance. *)

\* The inductive invariant holds throughout every behaviour of workers, time and
\* operators, whatever their fairness.
LEMMA LeaseInvHolds == Spec => []LeaseInv
BY LeaseInvInit, LeaseInvNext, PTL DEF Spec

\* The types of the lease tables and of Worker.execute hold throughout.
THEOREM LeaseTypes == Spec => []TypeOK
<1>1. LeaseInv => TypeOK
  BY DEF LeaseInv
<1>2. QED
  BY <1>1, LeaseInvHolds, PTL

\* While its heartbeat keeps up, an execution holds a live slot of every key it
\* is polite under (leases.py ACQUIRE, RELEASE_ALL, reconcile_host_slots).
THEOREM SlotsKeptWhileBeating == Spec => []KeptWhileBeating
<1>1. LeaseInv => KeptWhileBeating
  BY DEF LeaseInv
<1>2. QED
  BY <1>1, LeaseInvHolds, PTL

\* No occupied row belongs to an execution that went back to waiting or ended:
\* what nobody will give back is a dead worker's, and lapses (worker.py execute).
THEOREM NoSlotIsStranded == Spec => []NoStrandedSlot
<1>1. LeaseInv => NoStrandedSlot
  BY DEF LeaseInv
<1>2. QED
  BY <1>1, LeaseInvHolds, PTL

\* One step at one limit occupies no row above that limit that was not occupied.
LEMMA StepDrains ==
  ASSUME LeaseInv, [Next]_vars, NEW k \in Keys, max_concurrency'[k] = max_concurrency[k]
  PROVE  OverLimit(k)' \subseteq OverLimit(k)
<1> USE DEF LeaseInv
<1> SUFFICES ASSUME NEW n \in Slots, n > max_concurrency'[k], slot'[k][n].exec # Nobody
             PROVE  slot[k][n].exec # Nobody
  BY DEF OverLimit
<1>1. ASSUME NEW e \in Execs, Acquire(e)
      PROVE  slot[k][n].exec # Nobody
  <2>1. PICK kk \in Keys :
           /\ UNCHANGED <<max_concurrency, missed>>
           /\ \/ slot' = [slot EXCEPT ![kk] = Reconciled(slot[kk], max_concurrency[kk])]
              \/ \E low \in Free(Reconciled(slot[kk], max_concurrency[kk])) :
                   slot' = [slot EXCEPT ![kk] =
                             [Reconciled(slot[kk], max_concurrency[kk]) EXCEPT ![low] = Held(e)]]
    BY <1>1, AcquireTakesOneFreeRow
  <2>2. CASE k # kk
    BY <2>1, <2>2 DEF TypeOK
  <2>3. CASE k = kk
    <3> DEFINE tab == Reconciled(slot[k], max_concurrency[k])
    <3>1. /\ tab \in [Slots -> Row]
          /\ tab[n].exec # Nobody => tab[n] = slot[k][n]
          /\ n > max_concurrency[k] /\ tab[n].row => tab[n].exec # Nobody
      <4>1. slot[k] \in [Slots -> Row] /\ max_concurrency[k] \in Slots
        BY DEF TypeOK
      <4>2. QED
        BY <4>1, ReconciledRows
    <3>2. \/ slot' = [slot EXCEPT ![k] = tab]
          \/ \E low \in Free(tab) : slot' = [slot EXCEPT ![k] = [tab EXCEPT ![low] = Held(e)]]
      BY <2>1, <2>3
    <3> HIDE DEF tab
    <3>3. CASE slot' = [slot EXCEPT ![k] = tab]
      BY <3>1, <3>3 DEF TypeOK
    <3>4. ASSUME NEW low \in Free(tab), slot' = [slot EXCEPT ![k] = [tab EXCEPT ![low] = Held(e)]]
          PROVE  slot[k][n].exec # Nobody
      <4>1. CASE n = low
        <5>1. tab[n].row
          BY <4>1, <3>4 DEF Free
        <5>2. QED
          BY <5>1, <3>1, <2>1
      <4>2. CASE n # low
        BY <4>2, <3>1, <3>4 DEF TypeOK
      <4>3. QED
        BY <4>1, <4>2
    <3>5. QED
      BY <3>2, <3>3, <3>4
  <2>4. QED
    BY <2>2, <2>3
<1>2. ASSUME NEW e \in Execs, slot' = Without(e)
      PROVE  slot[k][n].exec # Nobody
  <2>1. slot'[k][n] = Idle \/ slot'[k][n] = slot[k][n]
    BY <1>2 DEF Without
  <2>2. QED
    BY <2>1, RowsOfTheTable
<1>3. ASSUME NEW e \in Execs, Beat(e)
      PROVE  slot[k][n].exec # Nobody
  BY <1>3, NobodyIsNoExec DEF Beat
<1>4. ASSUME NEW kk \in Keys, NEW m \in Slots, Lapse(kk, m)
      PROVE  slot[k][n].exec # Nobody
  <2>1. CASE kk = k /\ m = n
    BY <1>4, <2>1 DEF Lapse, LiveIsOwned
  <2>2. CASE kk # k \/ m # n
    BY <1>4, <2>2 DEF Lapse, TypeOK
  <2>3. QED
    BY <2>1, <2>2
<1>5. ASSUME NEW kk \in Tuned, NEW m \in Slots, Configure(kk, m)
      PROVE  slot[k][n].exec # Nobody
  <2>1. kk # k
    BY <1>5, TunedAreKeys DEF Configure, TypeOK
  <2>2. QED
    BY <1>5, <2>1 DEF Configure, TypeOK
<1>6. CASE UNCHANGED slot
  BY <1>6
<1>7. QED
  BY <1>1, <1>2, <1>3, <1>4, <1>5, <1>6
     DEF Next, Execute, Begin, GiveBack, Start, CrawlEnds, Release, Shutdown, Crash, vars

\* After a limit was lowered, slots above it are only given back: whatever the
\* workers do, none becomes occupied that was not (reconcile_host_slots).
THEOREM LoweredLimitsDrain == Spec => LoweredLimitDrains
<1>1. LeaseInv /\ [Next]_vars =>
        [\A k \in Keys : max_concurrency'[k] = max_concurrency[k] => OverLimit(k)' \subseteq OverLimit(k)]_vars
  BY StepDrains
<1>2. QED
  BY <1>1, LeaseInvHolds, PTL DEF Spec, LoweredLimitDrains

-----------------------------------------------------------------------------
(* Crawl: any number of products, any limits, faults and attempts. *)

Places  == {"robots", "list", "listed", "pages", "crawled", "load", "finish", "queued", "over"}
Ways    == (ByListing \union {"axner", "ceramicolours"}) \union {"sitemap", "store", "category"}
Walks   == [way : Ways, next : Nat, listed : SUBSET Products]
Results == [records : SUBSET Products, discovered : BOOLEAN, errors : BOOLEAN,
            truncated : BOOLEAN, priced : BOOLEAN, refused : BOOLEAN]
Tasks   == [Products -> [at : {"new", "load", "shell", "render", "done"}, found : BOOLEAN]]
Circuit == [zero : Nat, stopped : BOOLEAN, held : SUBSET Products]
Jobs    == [state : {"running", "queued", "succeeded", "degraded", "failed", "cancelled"},
            attempt : 1..MaxAttempts, browser : BOOLEAN]
Loads   == [write : {"none", "preserved_existing_nonempty", "replaced"}, rejected : SUBSET Products]

\* The shop, and what the execution keeps; the shop sells an initial segment of
\* the numbered products, and a scraper walks its own ways.
CrawlShape ==
  /\ kind \in Kinds /\ limit \in Samples /\ shop \subseteq Products /\ poor \subseteq Products
  /\ \A p \in shop : \A q \in Products : q < p => q \in shop
  /\ at \in Places /\ walk \in Walks /\ result \in Results /\ task \in Tasks
  /\ enumerating \in BOOLEAN /\ late \in BOOLEAN /\ rows \subseteq Products
  /\ job \in Jobs /\ load \in Loads /\ file \in {"none", "empty", "full"} /\ cat \subseteq Products
  /\ slips \subseteq {"odd", "capped", "exception"} /\ faults \in 0..MaxFaults
  /\ \/ walk.way = FirstWay(kind)
     \/ kind \in {"pagecrawl", "wix"} /\ walk.way \in {"store", "category"}

\* Before the product pages nothing is rendered and no row exists; extracting()
\* has not been entered, so that a failure marks the listing.
Listing == at \in {"robots", "queued", "list", "listed"}
ListingIsFirst ==
  /\ Listing => enumerating /\ circuit.held = {}
  /\ at \in {"robots", "queued"} => result.records = {} /\ walk.next < 2 /\ walk.listed = {}

\* The holder of _fallback_lock is the page that renders, there is at most one,
\* and there is none once rendering was given up.
CircuitBooked ==
  /\ circuit \in Circuit
  /\ \A p \in Products : task[p].at = "render" <=> p \in circuit.held
  /\ \A p, q \in circuit.held : p = q
  /\ circuit.zero <= ZeroGains
  /\ ~circuit.stopped => circuit.zero < ZeroGains
  /\ circuit.stopped => circuit.held = {}

\* A listing that nothing marks, nor slipped, has listed every product before the
\* page that is next, and every product of the shop once it ended, unless it is
\* one of the sitemaps that gave nothing and are followed by another way.
Firm == ~result.truncated /\ slips = {}
ListingKnown ==
  /\ at \in {"robots", "queued", "list"} /\ walk.next = 0 =>
       walk.listed = {} /\ walk.way \notin {"category", "keramik_kraft", "store"}
  /\ at = "list" /\ Firm => \A p \in shop : p < walk.next => p \in walk.listed
  /\ at = "listed" /\ Firm => \/ shop \subseteq walk.listed
                              \/ walk.way \in {"sitemap", "store"} /\ walk.listed = {}
  /\ at = "pages" /\ Firm => shop \subseteq walk.listed
  /\ at \in {"crawled", "load"} /\ Firm => shop \subseteq walk.listed \/ Error

\* The inductive invariant of the crawl.
CrawlInv == CrawlShape /\ ListingIsFirst /\ CircuitBooked /\ ListingKnown

\* The names of the specification's parts.
LEMMA KindWays ==
  ASSUME NEW k \in Kinds
  PROVE  /\ FirstWay(k) \in Ways
         /\ k \in ByPage \union ByListing
         /\ FirstWay(k) = IF k \in {"pagecrawl", "wix"} THEN "sitemap" ELSE k
BY KindsAreKnown DEF FirstWay, Ways, ByPage, ByListing

\* A walk starts with nothing listed, on the page that its way reads first.
LEMMA WalkStarts ==
  ASSUME NEW way \in Ways
  PROVE  /\ StartOf(way) \in Walks /\ StartOf(way).way = way /\ StartOf(way).listed = {}
         /\ StartOf(way).next \in {0, 1}
         /\ StartOf(way).next = 0 <=> way \notin {"category", "keramik_kraft", "store"}
BY DEF StartOf, Walks

\* Scraper.fail keeps the rows and, while enumerating, marks the listing.
LEMMA FailedListing ==
  ASSUME NEW r \in Results, NEW o, enumerating = TRUE
  PROVE  /\ Failed(r, o) \in Results /\ Failed(r, o).records = r.records /\ Failed(r, o).errors = TRUE
         /\ Failed(r, o).truncated = TRUE
<1> DEFINE shy == r.refused \/ o = "refused"
<1>1. Failed(r, o) = [r EXCEPT !.errors = TRUE, !.truncated = TRUE, !.refused = shy]
  BY DEF Failed, Results
<1>2. shy \in BOOLEAN
  BY DEF Results
<1> HIDE DEF shy
<1>3. QED
  BY <1>1, <1>2 DEF Results

\* Within extracting() it leaves the mark as it is.
LEMMA FailedExtracting ==
  ASSUME NEW r \in Results, NEW o, enumerating = FALSE
  PROVE  /\ Failed(r, o) \in Results /\ Failed(r, o).records = r.records /\ Failed(r, o).errors = TRUE
         /\ Failed(r, o).truncated = r.truncated
<1> DEFINE shy == r.refused \/ o = "refused"
<1>1. Failed(r, o) = [r EXCEPT !.errors = TRUE, !.refused = shy]
  BY DEF Failed, Results
<1>2. shy \in BOOLEAN
  BY DEF Results
<1> HIDE DEF shy
<1>3. QED
  BY <1>1, <1>2 DEF Results

\* Scraper.add only adds rows.
LEMMA AddedResult ==
  ASSUME NEW r \in Results, NEW ps \in SUBSET Products
  PROVE  /\ Added(r, ps) \in Results /\ Added(r, ps).errors = r.errors
         /\ Added(r, ps).truncated = r.truncated /\ Added(r, ps).discovered = r.discovered
         /\ r.records \subseteq Added(r, ps).records
BY DEF Added, Results

\* A page number that the shop does not fill is behind all that it sells.
LEMMA BehindTheShop ==
  ASSUME CrawlShape, NEW i \in Nat \ {0}, i \notin shop
  PROVE  \A p \in shop : p < i
<1> DEFINE n == Cardinality(Products)
<1>1. n \in Nat /\ Products = 1..n
  BY ProductsAreNumbered, FS_CardinalityType
<1>2. shop \subseteq Products /\ \A p \in shop : \A q \in Products : q < p => q \in shop
  BY DEF CrawlShape
<1> HIDE DEF n
<1>3. QED
  BY <1>1, <1>2

\* The bound of the faults holds.
LEMMA SpendBound ==
  ASSUME NEW o, Spend(o), faults \in 0..MaxFaults
  PROVE  faults' \in 0..MaxFaults
BY OthersAreNat DEF Spend

\* The state after a step that starts the next attempt.
LEMMA AfreshShape ==
  ASSUME CrawlShape, CircuitBooked, Afresh, UNCHANGED <<kind, limit, shop, poor, file, cat>>,
         at' \in {"queued", "over"}, job' \in Jobs, faults' \in 0..MaxFaults
  PROVE  CrawlInv'
<1>1. kind \in Kinds /\ FirstWay(kind) \in Ways
  BY KindWays DEF CrawlShape
<1>2. /\ walk' \in Walks /\ walk'.way = FirstWay(kind') /\ walk'.listed = {} /\ walk'.next \in {0, 1}
      /\ walk'.next = 0 => walk'.way \notin {"category", "keramik_kraft", "store"}
  BY <1>1, WalkStarts DEF Afresh
<1>3. /\ result' \in Results /\ result'.records = {} /\ enumerating' = TRUE /\ late' = FALSE /\ slips' = {}
      /\ task' \in Tasks /\ rows' = {} /\ load' \in Loads
      /\ \A p \in Products : task'[p].at = "new"
      /\ circuit' = [zero |-> 0, stopped |-> FALSE, held |-> {}]
  BY DEF Afresh, NoResult, NoTasks, NoLoad, NoCircuit, Results, Tasks, Loads
<1>4. CrawlShape'
  BY <1>2, <1>3 DEF CrawlShape, Places
<1>5. CircuitBooked'
  BY <1>3, CapsArePositive DEF CircuitBooked, Circuit
<1>6. ListingIsFirst' /\ ListingKnown'
  BY <1>2, <1>3 DEF ListingIsFirst, ListingKnown, Listing
<1>7. QED
  BY <1>4, <1>5, <1>6 DEF CrawlInv

\* A new job.
LEMMA CrawlInitInv == CrawlInit => CrawlInv
<1> SUFFICES ASSUME CrawlInit PROVE CrawlInv
  OBVIOUS
<1>1. kind \in Kinds /\ FirstWay(kind) \in Ways
  BY KindWays DEF CrawlInit
<1>2. /\ walk \in Walks /\ walk.way = FirstWay(kind) /\ walk.listed = {} /\ walk.next \in {0, 1}
      /\ walk.next = 0 => walk.way \notin {"category", "keramik_kraft", "store"}
  BY <1>1, WalkStarts DEF CrawlInit
<1>3. /\ result \in Results /\ result.records = {} /\ enumerating = TRUE /\ late = FALSE /\ slips = {}
      /\ task \in Tasks /\ rows = {} /\ load \in Loads
      /\ \A p \in Products : task[p].at = "new"
      /\ circuit = [zero |-> 0, stopped |-> FALSE, held |-> {}]
  BY DEF CrawlInit, NoResult, NoTasks, NoLoad, NoCircuit, Results, Tasks, Loads
<1>4. shop \subseteq Products /\ \A p \in shop : \A q \in Products : q < p => q \in shop
  <2>1. PICK n \in 0..Cardinality(Products) : shop = {p \in Products : p <= n}
    BY DEF CrawlInit
  <2> DEFINE m == Cardinality(Products)
  <2>2. m \in Nat /\ Products = 1..m /\ n \in 0..m
    BY <2>1, ProductsAreNumbered, FS_CardinalityType
  <2> HIDE DEF m
  <2>3. QED
    BY <2>1, <2>2
<1>5. job \in Jobs /\ limit \in Samples /\ poor \subseteq Products /\ faults \in 0..MaxFaults
      /\ file = "none" /\ cat = Products /\ at = "robots"
  BY CapsArePositive, OthersAreNat DEF CrawlInit, Jobs
<1>6. CrawlShape
  BY <1>1, <1>2, <1>3, <1>4, <1>5 DEF CrawlShape, Places
<1>7. CircuitBooked
  BY <1>3, CapsArePositive DEF CircuitBooked, Circuit
<1>8. ListingIsFirst /\ ListingKnown
  BY <1>2, <1>3, <1>5 DEF ListingIsFirst, ListingKnown, Listing
<1>9. QED
  BY <1>6, <1>7, <1>8 DEF CrawlInv

-----------------------------------------------------------------------------
(* The listing. *)

\* What a page of the listing says, whatever the way: one that leads on and
\* neither failed nor slipped listed the product of its number; one that ends
\* the walk without a mark leaves no product of the shop behind it.
PageIsTold(page, i, o) ==
  /\ page.lists \subseteq shop /\ page.on \in BOOLEAN /\ page.cut \in BOOLEAN
  /\ page.slip \subseteq {"odd", "capped"}
  /\ ~Unread(o) /\ page.slip = {} /\ page.on => (i \in shop => i \in page.lists)
  /\ ~Unread(o) /\ page.slip = {} /\ ~page.on /\ ~page.cut => \A p \in shop : p < i \/ p \in page.lists

\* So it is with every platform's page.
LEMMA PagesAreTold ==
  ASSUME CrawlShape, NEW i \in Nat \ {0}, NEW o \in Answers
  PROVE  PageIsTold(PageOf(walk.way, i, o), i, o)
<1>1. walk.way \in Ways /\ shop \subseteq Products /\ Products \subseteq Nat
  <2>1. Products \subseteq Nat
    BY ProductsAreNumbered, FS_CardinalityType
  <2>2. QED
    BY <2>1 DEF CrawlShape, Walks
<1>2. i \notin shop => \A p \in shop : p < i
  BY BehindTheShop
<1>3. i + 1 \notin shop => \A p \in shop : p < i \/ p = i
  <2>1. i + 1 \in Nat \ {0}
    OBVIOUS
  <2>2. ASSUME i + 1 \notin shop PROVE \A p \in shop : p < i + 1
    BY <2>1, <2>2, BehindTheShop
  <2>3. QED
    BY <1>1, <2>2
<1>4. /\ ListedOn(i, o) \subseteq shop /\ (o = "ok" /\ i \in shop => i \in ListedOn(i, o))
      /\ (ListedOn(i, o) # {} => o = "ok" /\ i \in shop)
  BY DEF ListedOn
<1>5. ~Unread(o) => o \in {"ok", "odd"}
  BY DEF Answers, Unread
<1>6. (Full(i, o) <=> o = "ok" /\ i \in shop) /\ (Links(i, o) <=> o = "ok" /\ i + 1 \in shop)
  BY DEF Full, Links
<1>7. Odd(o) = IF o = "odd" THEN {"odd"} ELSE {}
  BY DEF Odd
<1>8. ASSUME NEW got, NEW on, NEW cut, NEW slip, got \subseteq shop, on \in BOOLEAN, cut \in BOOLEAN,
             slip \subseteq {"odd", "capped"},
             ~Unread(o) /\ slip = {} /\ on => (i \in shop => i \in got),
             ~Unread(o) /\ slip = {} /\ ~on /\ ~cut => \A p \in shop : p < i \/ p \in got
      PROVE  PageIsTold(Page(got, on, cut, slip), i, o)
  BY <1>8 DEF PageIsTold, Page
<1> DEFINE got == ListedOn(i, o)
<1>9. ASSUME NEW on \in BOOLEAN, on => Full(i, o)
      PROVE  PageIsTold(Page(got, on, Full(i, o) /\ ~on, Odd(o)), i, o)
  <2> DEFINE cut == Full(i, o) /\ ~on
  <2>1. cut \in BOOLEAN /\ Odd(o) \subseteq {"odd", "capped"}
    BY <1>7
  <2>2. ~Unread(o) /\ Odd(o) = {} /\ on => (i \in shop => i \in got)
    BY <1>4, <1>6, <1>9
  <2>3. ~Unread(o) /\ Odd(o) = {} /\ ~on /\ ~cut => \A p \in shop : p < i \/ p \in got
    BY <1>2, <1>5, <1>6, <1>7
  <2>4. got \subseteq shop
    BY <1>4
  <2> HIDE DEF cut, got
  <2>5. PageIsTold(Page(got, on, cut, Odd(o)), i, o)
    BY <1>8, <1>9, <2>1, <2>2, <2>3, <2>4
  <2>6. QED
    BY <2>5 DEF cut
<1>10. ASSUME NEW on \in BOOLEAN, on => Links(i, o)
       PROVE  /\ PageIsTold(Page(got, on, Links(i, o) /\ ~on, Odd(o)), i, o)
              /\ PageIsTold(Page(got, on, FALSE, Odd(o) \union (IF Links(i, o) /\ ~on THEN {"capped"} ELSE {})), i, o)
  <2> DEFINE cut == Links(i, o) /\ ~on
             slip == Odd(o) \union (IF Links(i, o) /\ ~on THEN {"capped"} ELSE {})
  <2>1. cut \in BOOLEAN /\ Odd(o) \subseteq {"odd", "capped"} /\ slip \subseteq {"odd", "capped"}
        /\ (slip = {} => Odd(o) = {} /\ ~cut)
    BY <1>7
  <2>2. ~Unread(o) /\ Odd(o) = {} /\ on => (i \in shop => i \in got)
    BY <1>4, <1>6, <1>10
  <2>3. ~Unread(o) /\ Odd(o) = {} /\ ~on /\ ~cut => \A p \in shop : p < i \/ p \in got
    BY <1>3, <1>4, <1>5, <1>6, <1>7
  <2>4. got \subseteq shop
    BY <1>4
  <2> HIDE DEF cut, got, slip
  <2>5. PageIsTold(Page(got, on, cut, Odd(o)), i, o)
    BY <1>8, <1>10, <2>1, <2>2, <2>3, <2>4
  <2>6. PageIsTold(Page(got, on, FALSE, slip), i, o)
    <3>1. /\ ~Unread(o) /\ slip = {} /\ on => (i \in shop => i \in got)
          /\ ~Unread(o) /\ slip = {} /\ ~on /\ ~FALSE => \A p \in shop : p < i \/ p \in got
      BY <2>1, <2>2, <2>3
    <3>2. FALSE \in BOOLEAN
      OBVIOUS
    <3>3. QED
      BY <1>8, <1>10, <2>1, <2>4, <3>1, <3>2
  <2>7. QED
    BY <2>5, <2>6 DEF cut, slip
<1>11. ASSUME walk.way \in {"shopify", "woocommerce"}
       PROVE  PageIsTold(PageOf(walk.way, i, o), i, o)
  <2> DEFINE on == Full(i, o) /\ i < PageCap /\ ~Sampled(walk.listed \union got)
  <2>1. PageOf(walk.way, i, o) = Page(got, on, Full(i, o) /\ ~on, Odd(o))
    BY <1>11 DEF PageOf, ShopifyPage, WooPage
  <2>2. on \in BOOLEAN /\ (on => Full(i, o))
    OBVIOUS
  <2> HIDE DEF on, got
  <2>3. QED
    BY <1>9, <2>1, <2>2
<1>12. ASSUME walk.way \in {"keramik_kraft"}
       PROVE  PageIsTold(PageOf(walk.way, i, o), i, o)
  <2> DEFINE on == Links(i, o) /\ i < PageCap /\ ~Sampled(result.records \union (got \ poor))
  <2>1. PageOf(walk.way, i, o) = Page(got, on, Links(i, o) /\ ~on, Odd(o))
    BY <1>12 DEF PageOf, KeramikPage
  <2>2. on \in BOOLEAN /\ (on => Links(i, o))
    OBVIOUS
  <2> HIDE DEF on, got
  <2>3. QED
    BY <1>10, <2>1, <2>2
<1>13. ASSUME walk.way \in {"category", "axner"}
       PROVE  PageIsTold(PageOf(walk.way, i, o), i, o)
  <2> DEFINE on == Links(i, o) /\ i < PageCap /\ ~Sampled(walk.listed \union got)
  <2>1. PageOf(walk.way, i, o)
          = Page(got, on, FALSE, Odd(o) \union (IF Links(i, o) /\ ~on THEN {"capped"} ELSE {}))
    BY <1>13 DEF PageOf, CategoryPage, AxnerPage
  <2>2. on \in BOOLEAN /\ (on => Links(i, o))
    OBVIOUS
  <2> HIDE DEF on, got
  <2>3. QED
    BY <1>10, <2>1, <2>2
<1>14. ASSUME walk.way = "ceramicolours"
       PROVE  PageIsTold(PageOf(walk.way, i, o), i, o)
  <2> DEFINE on == Full(i, o) /\ i < PageCap
             slip == Odd(o) \union (IF Full(i, o) /\ ~on THEN {"capped"} ELSE {})
  <2>1. PageOf(walk.way, i, o) = Page(got, on, FALSE, slip)
    BY <1>14 DEF PageOf, CeramicoloursPage
  <2>2. /\ on \in BOOLEAN /\ (on => Full(i, o)) /\ slip \subseteq {"odd", "capped"} /\ FALSE \in BOOLEAN
        /\ (slip = {} => Odd(o) = {} /\ (Full(i, o) => on))
    BY <1>7
  <2> HIDE DEF on, slip
  <2>3. /\ ~Unread(o) /\ slip = {} /\ on => (i \in shop => i \in got)
        /\ ~Unread(o) /\ slip = {} /\ ~on /\ ~FALSE => \A p \in shop : p < i \/ p \in got
    BY <1>2, <1>4, <1>5, <1>6, <1>7, <2>2
  <2>4. got \subseteq shop
    BY <1>4
  <2> HIDE DEF got
  <2>5. QED
    BY <1>8, <2>1, <2>2, <2>3, <2>4
<1>15. ASSUME walk.way = "sitemap"
       PROVE  PageIsTold(PageOf(walk.way, i, o), i, o)
  <2> DEFINE on == i + 1 \in shop
  <2>1. PageOf(walk.way, i, o) = Page(got, on, FALSE, Odd(o))
    BY <1>15 DEF PageOf, SitemapPage
  <2>2. on \in BOOLEAN /\ Odd(o) \subseteq {"odd", "capped"} /\ FALSE \in BOOLEAN
    BY <1>7
  <2>3. /\ ~Unread(o) /\ Odd(o) = {} /\ on => (i \in shop => i \in got)
        /\ ~Unread(o) /\ Odd(o) = {} /\ ~on /\ ~FALSE => \A p \in shop : p < i \/ p \in got
    BY <1>3, <1>4, <1>5, <1>7
  <2>4. got \subseteq shop
    BY <1>4
  <2> HIDE DEF on, got
  <2>5. QED
    BY <1>8, <2>1, <2>2, <2>3, <2>4
<1>16. ASSUME walk.way = "store"
       PROVE  PageIsTold(PageOf(walk.way, i, o), i, o)
  <2> DEFINE all == IF o = "ok" THEN shop ELSE {}
  <2>1. PageOf(walk.way, i, o) = Page(all, FALSE, FALSE, Odd(o))
    BY <1>16 DEF PageOf, StorePage
  <2>2. all \subseteq shop /\ Odd(o) \subseteq {"odd", "capped"} /\ FALSE \in BOOLEAN
    BY <1>7
  <2>3. /\ ~Unread(o) /\ Odd(o) = {} /\ FALSE => (i \in shop => i \in all)
        /\ ~Unread(o) /\ Odd(o) = {} /\ ~FALSE /\ ~FALSE => \A p \in shop : p < i \/ p \in all
    BY <1>5, <1>7
  <2> HIDE DEF all
  <2>4. QED
    BY <1>8, <2>1, <2>2, <2>3
<1>17. ASSUME walk.way = "bigcommerce"
       PROVE  PageIsTold(PageOf(walk.way, i, o), i, o)
  <2> DEFINE full == Sampled(walk.listed \union got)
             on == Links(i, o) /\ i < PageCap /\ ~full
             cut == ~Unread(o) /\ (got = {} \/ full \/ (Links(i, o) /\ ~on))
  <2>1. PageOf(walk.way, i, o) = Page(got, on, cut, {})
    BY <1>17 DEF PageOf, BigcommercePage
  <2>2. on \in BOOLEAN /\ cut \in BOOLEAN /\ {} \subseteq {"odd", "capped"} /\ (on => Links(i, o))
        /\ (~Unread(o) /\ ~cut => got # {} /\ (Links(i, o) => on))
    OBVIOUS
  <2> HIDE DEF full, on, cut
  <2>3. /\ ~Unread(o) /\ {} = {} /\ on => (i \in shop => i \in got)
        /\ ~Unread(o) /\ {} = {} /\ ~on /\ ~cut => \A p \in shop : p < i \/ p \in got
    BY <1>3, <1>4, <1>6, <2>2
  <2>4. got \subseteq shop
    BY <1>4
  <2> HIDE DEF got
  <2>5. QED
    BY <1>8, <2>1, <2>2, <2>3, <2>4
<1>18. QED
  BY <1>1, <1>11, <1>12, <1>13, <1>14, <1>15, <1>16, <1>17 DEF Ways, ByListing

\* Reading what comes before the listing.
LEMMA IndexKeepsCrawl ==
  ASSUME CrawlInv, NEW o \in Answers, ReadIndex(o)
  PROVE  CrawlInv'
<1> DEFINE x == IndexOf(walk.way, o)
<1>1. /\ at = "list" /\ walk.next = 0 /\ Spend(o)
      /\ result' = [(IF x.fails THEN Failed(result, o) ELSE result) EXCEPT !.priced = x.priced]
      /\ at' = IF x.on THEN "list" ELSE "listed"
      /\ slips' = IF x.slip THEN slips \union {"odd"} ELSE slips
      /\ walk' = [walk EXCEPT !.next = 1]
      /\ UNCHANGED <<enumerating, task, rows, circuit, late, kind, limit, shop, poor, job, file, load, cat>>
  BY DEF ReadIndex, fixed, after
<1>2. /\ walk \in Walks /\ result \in Results /\ enumerating = TRUE /\ circuit.held = {}
      /\ walk.listed = {} /\ walk.way \notin {"category", "keramik_kraft", "store"}
  BY <1>1 DEF CrawlInv, CrawlShape, ListingIsFirst, Listing, ListingKnown
<1>3. /\ x.fails \in BOOLEAN /\ x.on \in BOOLEAN /\ x.priced \in BOOLEAN /\ x.slip \in BOOLEAN
      /\ ~x.on => x.fails \/ x.slip \/ walk.way = "sitemap"
  <2>1. walk.way \in {"shopify", "woocommerce", "bigcommerce", "axner", "ceramicolours", "sitemap"}
    BY <1>2 DEF Walks, Ways, ByListing
  <2>2. ASSUME NEW f \in BOOLEAN, NEW on \in BOOLEAN, NEW p \in BOOLEAN, NEW s \in BOOLEAN, x = Index(f, on, p, s),
               ~on => f \/ s \/ walk.way = "sitemap"
        PROVE  /\ x.fails \in BOOLEAN /\ x.on \in BOOLEAN /\ x.priced \in BOOLEAN /\ x.slip \in BOOLEAN
               /\ ~x.on => x.fails \/ x.slip \/ walk.way = "sitemap"
    <3>1. x.fails = f /\ x.on = on /\ x.priced = p /\ x.slip = s
      BY <2>2 DEF Index
    <3>2. QED
      BY <2>2, <3>1, Zenon
  <2> DEFINE u == Unread(o)
             ok == o = "ok"
             odd == o = "odd"
             shy == o # "ok"
             any == o = "ok" /\ 1 \in shop
  <2>3. /\ u \in BOOLEAN /\ ok \in BOOLEAN /\ odd \in BOOLEAN /\ shy \in BOOLEAN /\ any \in BOOLEAN
        /\ ~ok => u \/ odd
        /\ ~ok => shy
    BY DEF Unread, Answers
  <2>4. \/ x = Index(u, TRUE, ok, FALSE) \/ x = Index(u, TRUE, TRUE, FALSE) \/ x = Index(shy, ok, TRUE, FALSE)
        \/ x = Index(u, ok, TRUE, odd) \/ (x = Index(u, any, TRUE, FALSE) /\ walk.way = "sitemap")
    BY <2>1 DEF IndexOf, ResolveCurrency, ResolveCategories, DiscoverToken, DepartmentIndex, CategoryIndex,
                SitemapIndex
  <2> HIDE DEF u, ok, odd, shy, any, x
  <2>5. TRUE \in BOOLEAN /\ FALSE \in BOOLEAN
    OBVIOUS
  <2>6. QED
    BY <2>2, <2>3, <2>4, <2>5
<1> HIDE DEF x
<1>4. result' \in Results /\ (result.truncated \/ x.fails => result'.truncated)
  <2> DEFINE r == IF x.fails THEN Failed(result, o) ELSE result
  <2>1. r \in Results /\ (result.truncated \/ x.fails => r.truncated)
    BY <1>2, <1>3, FailedListing
  <2>2. result' = [r EXCEPT !.priced = x.priced]
    BY <1>1
  <2> HIDE DEF r
  <2>3. QED
    BY <1>3, <2>1, <2>2 DEF Results
<1>5. /\ walk' \in Walks /\ walk'.next = 1 /\ walk'.listed = {} /\ walk'.way = walk.way
  BY <1>1, <1>2 DEF Walks
<1>6. faults' \in 0..MaxFaults
  BY <1>1, SpendBound DEF CrawlInv, CrawlShape
<1>7. at' \in {"list", "listed"} /\ (at' = "listed" => ~x.on)
  BY <1>1
<1>8. CrawlShape'
  BY <1>1, <1>4, <1>5, <1>6, <1>7 DEF CrawlInv, CrawlShape, Places
<1>9. ListingIsFirst' /\ CircuitBooked'
  BY <1>1, <1>2, <1>7 DEF CrawlInv, ListingIsFirst, Listing, CircuitBooked
<1>10. ListingKnown'
  <2>1. \A p \in shop : ~ (p < 1)
    <3>1. Products \subseteq Nat \ {0}
      BY ProductsAreNumbered, FS_CardinalityType
    <3>2. QED
      BY <3>1 DEF CrawlInv, CrawlShape
  <2>2. at' = "listed" /\ Firm' => walk.way = "sitemap"
    BY <1>1, <1>3, <1>4, <1>7 DEF Firm
  <2>3. QED
    BY <1>1, <1>5, <1>7, <2>1, <2>2 DEF ListingKnown
<1>11. QED
  BY <1>8, <1>9, <1>10 DEF CrawlInv

\* Reading a page of the listing.
LEMMA PageKeepsCrawl ==
  ASSUME CrawlInv, NEW o \in Answers, ReadPage(o)
  PROVE  CrawlInv'
<1> DEFINE page == PageOf(walk.way, walk.next, o)
           read == Emitted(walk.way, result, page.lists)
<1>1. /\ at = "list" /\ walk.next > 0 /\ Spend(o)
      /\ walk' = [walk EXCEPT !.next = @ + 1, !.listed = @ \union page.lists]
      /\ result' = [(IF Unread(o) THEN Failed(read, o) ELSE read) EXCEPT !.truncated = @ \/ page.cut]
      /\ at' = IF page.on THEN "list" ELSE "listed"
      /\ slips' = slips \union page.slip
      /\ UNCHANGED <<enumerating, task, rows, circuit, late, kind, limit, shop, poor, job, file, load, cat>>
  BY DEF ReadPage, fixed, after
<1>2. /\ walk \in Walks /\ result \in Results /\ enumerating = TRUE /\ circuit.held = {} /\ shop \subseteq Products
      /\ Firm => \A p \in shop : p < walk.next => p \in walk.listed
  BY <1>1 DEF CrawlInv, CrawlShape, ListingIsFirst, Listing, ListingKnown
<1>3. walk.next \in Nat \ {0}
  BY <1>1, <1>2 DEF Walks
<1>4. PageIsTold(page, walk.next, o)
  BY <1>3, PagesAreTold DEF CrawlInv
<1> HIDE DEF page
<1>5. page.lists \subseteq Products
  BY <1>2, <1>4 DEF PageIsTold
<1>6. read \in Results /\ read.truncated = result.truncated
  <2> DEFINE r == Added(result, page.lists)
  <2>1. r \in Results /\ r.truncated = result.truncated
    BY <1>2, <1>5, AddedResult
  <2> DEFINE d == r.discovered \/ page.lists # {}
  <2>2. d \in BOOLEAN
    OBVIOUS
  <2>3. read = [r EXCEPT !.discovered = d] \/ read = result
    BY DEF Emitted
  <2> HIDE DEF r, d, read
  <2>4. QED
    BY <1>2, <2>1, <2>2, <2>3 DEF Results
<1> HIDE DEF read
<1>7. result' \in Results /\ (Unread(o) \/ result.truncated \/ page.cut => result'.truncated)
  <2> DEFINE r == IF Unread(o) THEN Failed(read, o) ELSE read
             t == r.truncated \/ page.cut
  <2>1. r \in Results /\ (Unread(o) \/ result.truncated => r.truncated)
    BY <1>2, <1>6, FailedListing
  <2>2. t \in BOOLEAN /\ (Unread(o) \/ result.truncated \/ page.cut => t)
    BY <2>1
  <2>3. result' = [r EXCEPT !.truncated = t]
    BY <1>1
  <2> HIDE DEF r, t
  <2>4. QED
    BY <2>1, <2>2, <2>3 DEF Results
<1>8. /\ walk' \in Walks /\ walk'.next = walk.next + 1 /\ walk'.listed = walk.listed \union page.lists
      /\ walk'.way = walk.way
  <2>1. walk.next + 1 \in Nat /\ walk.listed \union page.lists \in SUBSET Products
    BY <1>2, <1>5 DEF Walks
  <2>2. QED
    BY <1>1, <1>2, <2>1 DEF Walks
<1>9. faults' \in 0..MaxFaults
  BY <1>1, SpendBound DEF CrawlInv, CrawlShape
<1>10. at' \in {"list", "listed"} /\ (at' = "listed" <=> ~page.on)
  BY <1>1
<1>11. slips' \subseteq {"odd", "capped", "exception"}
  BY <1>1, <1>4 DEF PageIsTold, CrawlInv, CrawlShape
<1>12. CrawlShape'
  BY <1>1, <1>7, <1>8, <1>9, <1>10, <1>11 DEF CrawlInv, CrawlShape, Places
<1>13. ListingIsFirst' /\ CircuitBooked'
  BY <1>1, <1>2, <1>10 DEF CrawlInv, ListingIsFirst, Listing, CircuitBooked
<1>14. ASSUME Firm'
       PROVE  /\ page.on => \A p \in shop : p < walk.next + 1 => p \in walk.listed \union page.lists
              /\ ~page.on => shop \subseteq walk.listed \union page.lists
  <2>1. Firm /\ page.slip = {} /\ ~Unread(o) /\ ~page.cut
    BY <1>1, <1>7, <1>14 DEF Firm
  <2>2. Products \subseteq Nat
    BY ProductsAreNumbered, FS_CardinalityType
  <2>3. QED
    BY <1>2, <1>3, <1>4, <2>1, <2>2 DEF PageIsTold
<1>15. ListingKnown'
  BY <1>1, <1>3, <1>8, <1>10, <1>14 DEF ListingKnown
<1>16. QED
  BY <1>12, <1>13, <1>15 DEF CrawlInv

\* Another way is tried.
LEMMA NextWayKeepsCrawl ==
  ASSUME CrawlInv, NEW named \in BOOLEAN, NextWay(named)
  PROVE  CrawlInv'
<1>1. /\ at = "listed" /\ walk.way \in {"sitemap", "store"} /\ at' = "list"
      /\ \/ kind = "wix" /\ walk' = StartOf("store") /\ UNCHANGED result
         \/ /\ walk' = StartOf("category")
            /\ result' = IF named THEN [Failed(result, "failed") EXCEPT !.truncated = TRUE] ELSE result
      /\ UNCHANGED <<enumerating, task, rows, circuit, late, slips, kind, limit, shop, poor, job, file, load, cat, faults>>
  BY DEF NextWay, fixed, after
<1>2. /\ walk \in Walks /\ result \in Results /\ enumerating = TRUE /\ circuit.held = {}
      /\ kind \in Kinds /\ shop \subseteq Products
      /\ walk.way = FirstWay(kind) \/ kind \in {"pagecrawl", "wix"}
  BY <1>1 DEF CrawlInv, CrawlShape, ListingIsFirst, Listing
<1>3. kind \in {"pagecrawl", "wix"}
  BY <1>1, <1>2, KindWays DEF ByPage, ByListing
<1>4. "store" \in Ways /\ "category" \in Ways
  BY DEF Ways
<1>5. walk' \in Walks /\ walk'.way \in {"store", "category"} /\ walk'.next = 1
  BY <1>1, <1>4, WalkStarts
<1>6. result' \in Results
  <2>1. Failed(result, "failed") \in Results
    BY <1>2, FailedListing
  <2>2. [Failed(result, "failed") EXCEPT !.truncated = TRUE] \in Results
    BY <2>1 DEF Results
  <2>3. QED
    BY <1>1, <1>2, <2>2
<1>7. CrawlShape'
  BY <1>1, <1>3, <1>5, <1>6 DEF CrawlInv, CrawlShape, Places
<1>8. ListingIsFirst' /\ CircuitBooked'
  BY <1>1, <1>2 DEF CrawlInv, ListingIsFirst, Listing, CircuitBooked
<1>9. \A p \in shop : ~ (p < 1)
  <2>1. Products \subseteq Nat \ {0}
    BY ProductsAreNumbered, FS_CardinalityType
  <2>2. QED
    BY <1>2, <2>1
<1>10. ListingKnown'
  BY <1>1, <1>5, <1>9 DEF ListingKnown
<1>11. QED
  BY <1>7, <1>8, <1>10 DEF CrawlInv

\* The steps that end the listing, and the robots file before it.
LEMMA ListingEnds ==
  ASSUME CrawlInv, Robots \/ EndListing \/ (\E o \in Answers : Variations(o)) \/ Claim
  PROVE  CrawlInv'
<1>1. /\ kind \in Kinds /\ result \in Results /\ walk \in Walks /\ enumerating \in BOOLEAN
      /\ faults \in 0..MaxFaults /\ job \in Jobs
      /\ \/ walk.way = FirstWay(kind)
         \/ kind \in {"pagecrawl", "wix"} /\ walk.way \in {"store", "category"}
  BY DEF CrawlInv, CrawlShape
<1>2. CASE Robots /\ at' = "list"
  <2>1. at = "robots" /\ UNCHANGED <<crawl, fixed, after, faults>>
    BY <1>2 DEF Robots, crawl
  <2>2. UNCHANGED <<walk, result, enumerating, task, rows, circuit, late, slips, kind, limit, shop, poor,
                    job, file, load, cat, faults>>
    BY <2>1 DEF crawl, fixed, after
  <2>3. CrawlShape' /\ CircuitBooked'
    BY <1>2, <2>2 DEF CrawlInv, CrawlShape, CircuitBooked, Places
  <2>4. ListingIsFirst'
    BY <1>2, <2>1, <2>2 DEF CrawlInv, ListingIsFirst, Listing
  <2>5. ListingKnown'
    <3>1. Products \subseteq Nat \ {0}
      BY ProductsAreNumbered, FS_CardinalityType
    <3>2. walk.next < 2 /\ shop \subseteq Products /\ walk.next \in Nat
      BY <2>1 DEF CrawlInv, CrawlShape, ListingIsFirst, Walks
    <3>3. \A p \in shop : ~ (p < walk.next)
      BY <3>1, <3>2
    <3>4. walk.next = 0 => walk.listed = {} /\ walk.way \notin {"category", "keramik_kraft", "store"}
      BY <2>1 DEF CrawlInv, ListingKnown
    <3>5. QED
      BY <1>2, <2>2, <3>3, <3>4 DEF ListingKnown
  <2>6. QED
    BY <2>3, <2>4, <2>5 DEF CrawlInv
<1>3. CASE Robots /\ at' = "crawled" /\ result' = [result EXCEPT !.errors = TRUE] /\ Spend("failed")
  <2>1. at = "robots" /\ UNCHANGED <<walk, enumerating, task, rows, circuit, late, slips, kind, limit, shop, poor,
                                     job, file, load, cat>>
    BY <1>3 DEF Robots, fixed, after
  <2>2. result' \in Results /\ result'.errors = TRUE /\ result'.records = {} /\ faults' \in 0..MaxFaults
    BY <1>1, <1>3, <2>1, SpendBound DEF Results, CrawlInv, ListingIsFirst
  <2>3. CrawlShape' /\ CircuitBooked'
    BY <1>3, <2>1, <2>2 DEF CrawlInv, CrawlShape, CircuitBooked, Places
  <2>4. ListingIsFirst' /\ ListingKnown'
    BY <1>3, <2>1, <2>2 DEF ListingIsFirst, Listing, ListingKnown, Error
  <2>5. QED
    BY <2>3, <2>4 DEF CrawlInv
<1>4. CASE EndListing \/ \E o \in Answers : Variations(o)
  <2>1. /\ at = "listed" /\ at' = "crawled" /\ kind \in ByListing
        /\ UNCHANGED <<walk, enumerating, task, rows, circuit, late, slips, kind, limit, shop, poor,
                       job, file, load, cat>>
    BY <1>4 DEF EndListing, Variations, crawl, fixed, after, ByListing
  <2>2. faults' \in 0..MaxFaults
    BY <1>1, <1>4, SpendBound DEF EndListing, Variations
  <2>3. result' \in Results /\ (result.truncated => result'.truncated)
    <3>1. CASE UNCHANGED result
      BY <1>1, <3>1
    <3>2. ASSUME NEW o \in Answers, Variations(o)
          PROVE  result' \in Results /\ (result.truncated => result'.truncated)
      <4> DEFINE f == IF Unread(o) THEN Failed(result, o) ELSE result
                 r == Added(f, walk.listed)
                 d == walk.listed # {}
      <4>1. f \in Results /\ (result.truncated => f.truncated)
        <5>1. enumerating = TRUE
          BY <2>1 DEF CrawlInv, CrawlShape, ListingIsFirst, Listing
        <5>2. QED
          BY <1>1, <5>1, FailedListing
      <4>2. walk.listed \in SUBSET Products
        BY <1>1 DEF Walks
      <4>3. r \in Results /\ r.truncated = f.truncated
        <5> HIDE DEF f
        <5>1. QED
          BY <4>1, <4>2, AddedResult
      <4>4. result' = [r EXCEPT !.discovered = d]
        BY <3>2 DEF Variations
      <4>5. d \in BOOLEAN
        OBVIOUS
      <4> HIDE DEF r, d
      <4>6. QED
        BY <4>1, <4>3, <4>4, <4>5 DEF Results
    <3>3. QED
      BY <1>4, <3>1, <3>2 DEF EndListing, crawl
  <2>4. walk.way \notin {"sitemap", "store"}
    BY <1>1, <2>1, KindWays DEF ByListing
  <2>5. CrawlShape' /\ CircuitBooked' /\ ListingIsFirst'
    BY <2>1, <2>2, <2>3 DEF CrawlInv, CrawlShape, CircuitBooked, Places, ListingIsFirst, Listing
  <2>6. ListingKnown'
    BY <2>1, <2>3, <2>4 DEF CrawlInv, ListingKnown, Firm
  <2>7. QED
    BY <2>5, <2>6 DEF CrawlInv
<1>5. CASE Claim
  <2>1. /\ at = "queued" /\ at' = "robots" /\ job' = [job EXCEPT !.state = "running"]
        /\ UNCHANGED <<walk, result, enumerating, task, rows, circuit, late, slips, kind, limit, shop, poor,
                       file, load, cat, faults>>
    BY <1>5 DEF Claim, crawl, fixed
  <2>2. job' \in Jobs
    BY <1>1, <2>1 DEF Jobs
  <2>3. CrawlShape' /\ CircuitBooked' /\ ListingIsFirst' /\ ListingKnown'
    BY <2>1, <2>2 DEF CrawlInv, CrawlShape, CircuitBooked, Places, ListingIsFirst, Listing, ListingKnown
  <2>4. QED
    BY <2>3 DEF CrawlInv
<1>6. QED
  BY <1>2, <1>3, <1>4, <1>5 DEF Robots

-----------------------------------------------------------------------------
(* The product pages. *)

\* The pages to read are chosen: nothing is rendered yet.
LEMMA SelectKeepsCrawl ==
  ASSUME CrawlInv, Select
  PROVE  CrawlInv'
<1>1. /\ at = "listed" /\ ~(walk.way \in {"sitemap", "store"} /\ walk.listed = {}) /\ at' = "pages"
      /\ UNCHANGED <<walk, enumerating, rows, circuit, late, slips, kind, limit, shop, poor, job, file, load, cat, faults>>
  BY DEF Select, fixed, after
<1>2. result \in Results /\ circuit.held = {}
  BY <1>1 DEF CrawlInv, CrawlShape, ListingIsFirst, Listing
<1>3. result' \in Results /\ (result.truncated => result'.truncated)
  <2> DEFINE d == walk.listed # {}
             t == result.truncated \/ Selected # walk.listed
  <2>1. result' = [result EXCEPT !.discovered = d, !.truncated = t]
    BY DEF Select
  <2>2. d \in BOOLEAN /\ t \in BOOLEAN /\ (result.truncated => t)
    OBVIOUS
  <2> HIDE DEF d, t
  <2>3. QED
    BY <1>2, <2>1, <2>2 DEF Results
<1>4. task' \in Tasks /\ \A p \in Products : task'[p].at # "render"
  BY DEF Select, Tasks
<1>5. CrawlShape' /\ ListingIsFirst'
  BY <1>1, <1>3, <1>4 DEF CrawlInv, CrawlShape, Places, ListingIsFirst, Listing
<1>6. CircuitBooked'
  BY <1>1, <1>2, <1>4 DEF CrawlInv, CircuitBooked
<1>7. ListingKnown'
  BY <1>1, <1>3 DEF CrawlInv, ListingKnown, Firm
<1>8. QED
  BY <1>5, <1>6, <1>7 DEF CrawlInv

\* A step on one product's page that leaves the circuit in order.
LEMMA PageStepKeeps ==
  ASSUME CrawlInv, at = "pages", result' \in Results, result.truncated => result'.truncated,
         task' \in Tasks, enumerating' \in BOOLEAN, rows' \subseteq Products, CircuitBooked',
         faults' \in 0..MaxFaults,
         UNCHANGED <<at, walk, late, slips, kind, limit, shop, poor, job, file, load, cat>>
  PROVE  CrawlInv'
<1>1. CrawlShape' /\ ListingIsFirst'
  BY DEF CrawlInv, CrawlShape, ListingIsFirst, Listing
<1>2. ListingKnown'
  BY DEF CrawlInv, ListingKnown, Firm
<1>3. QED
  BY <1>1, <1>2 DEF CrawlInv

\* The circuit does not see a page that neither renders nor comes to.
LEMMA CircuitStays ==
  ASSUME CircuitBooked, task \in Tasks, task' \in Tasks, UNCHANGED circuit, NEW p \in Products,
         task[p].at # "render", task'[p].at # "render", \A q \in Products \ {p} : task'[q] = task[q]
  PROVE  CircuitBooked'
BY DEF CircuitBooked

\* Leaving the semaphore and extracting().
LEMMA LeaveKeeps ==
  ASSUME task \in Tasks, rows \subseteq Products, NEW p \in Products, NEW row \in BOOLEAN, Leave(p, row)
  PROVE  /\ task' \in Tasks /\ enumerating' \in BOOLEAN /\ rows' \subseteq Products
         /\ task'[p].at = "done" /\ \A q \in Products \ {p} : task'[q] = task[q]
<1>1. task' = [task EXCEPT ![p].at = "done"] /\ enumerating' = task[p].found
      /\ rows' = IF row THEN rows \union {p} ELSE rows
  BY DEF Leave
<1>2. task[p] \in [at : {"new", "load", "shell", "render", "done"}, found : BOOLEAN]
  BY DEF Tasks
<1>3. task' \in Tasks /\ task'[p].at = "done" /\ \A q \in Products \ {p} : task'[q] = task[q]
  BY <1>1, <1>2 DEF Tasks
<1>4. QED
  BY <1>1, <1>2, <1>3

\* A failure of one page is a result.
LEMMA FailedIsResult ==
  ASSUME CrawlInv, NEW o
  PROVE  Failed(result, o) \in Results /\ (result.truncated => Failed(result, o).truncated)
<1>1. result \in Results /\ (enumerating = TRUE \/ enumerating = FALSE)
  BY DEF CrawlInv, CrawlShape
<1>2. CASE enumerating = TRUE
  BY <1>1, <1>2, FailedListing
<1>3. CASE enumerating = FALSE
  BY <1>1, <1>3, FailedExtracting
<1>4. QED
  BY <1>1, <1>2, <1>3

\* The steps of one product's task.
LEMMA ProductKeepsCrawl ==
  ASSUME CrawlInv, NEW p \in Products,
         \/ Enter(p) \/ TakeFallback(p)
         \/ \E o \in {"ok", "none", "shell", "part", "failed", "refused"} : ReadProduct(p, o)
         \/ \E o \in Answers : Render(p, o)
  PROVE  CrawlInv'
<1>1. /\ result \in Results /\ task \in Tasks /\ enumerating \in BOOLEAN /\ rows \subseteq Products
      /\ faults \in 0..MaxFaults /\ CircuitBooked
      /\ task[p] \in [at : {"new", "load", "shell", "render", "done"}, found : BOOLEAN]
  BY DEF CrawlInv, CrawlShape, Tasks
<1>2. CASE Enter(p)
  <2>1. /\ at = "pages" /\ task[p].at = "new" /\ enumerating' = FALSE
        /\ task' = [task EXCEPT ![p] = [at |-> "load", found |-> enumerating]]
        /\ UNCHANGED <<at, walk, result, rows, circuit, late, slips, kind, limit, shop, poor, job, file, load, cat, faults>>
    BY <1>2 DEF Enter, On, fixed, after
  <2>2. task' \in Tasks /\ task'[p].at = "load" /\ \A q \in Products \ {p} : task'[q] = task[q]
    BY <1>1, <2>1 DEF Tasks
  <2>3. CircuitBooked'
    BY <1>1, <2>1, <2>2, CircuitStays
  <2>4. QED
    BY <1>1, <2>1, <2>2, <2>3, PageStepKeeps
<1>3. ASSUME NEW o \in {"ok", "none", "shell", "part", "failed", "refused"}, ReadProduct(p, o)
      PROVE  CrawlInv'
  <2>1. /\ at = "pages" /\ task[p].at = "load"
        /\ result' = IF o \in {"failed", "refused", "part"} THEN Failed(result, o) ELSE result
        /\ UNCHANGED <<at, walk, circuit, late, slips, kind, limit, shop, poor, job, file, load, cat>>
    BY <1>3 DEF ReadProduct, On, fixed, after
  <2>2. faults' \in 0..MaxFaults
    BY <1>1, <1>3, SpendBound DEF ReadProduct
  <2>3. result' \in Results /\ (result.truncated => result'.truncated)
    BY <1>1, <2>1, FailedIsResult
  <2>4. /\ task' \in Tasks /\ enumerating' \in BOOLEAN /\ rows' \subseteq Products
        /\ task'[p].at \in {"shell", "done"} /\ \A q \in Products \ {p} : task'[q] = task[q]
    <3>1. CASE o = "shell"
      <4>1. task' = [task EXCEPT ![p].at = "shell"] /\ UNCHANGED <<enumerating, rows>>
        BY <1>3, <3>1 DEF ReadProduct
      <4>2. QED
        BY <1>1, <4>1 DEF Tasks
    <3>2. CASE o # "shell"
      <4> DEFINE row == o \in {"ok", "part"}
      <4>1. Leave(p, row) /\ row \in BOOLEAN
        BY <1>3, <3>2 DEF ReadProduct
      <4> HIDE DEF row
      <4>2. QED
        BY <1>1, <4>1, LeaveKeeps
    <3>3. QED
      BY <3>1, <3>2
  <2>5. CircuitBooked'
    BY <1>1, <2>1, <2>4, CircuitStays
  <2>6. QED
    BY <2>1, <2>2, <2>3, <2>4, <2>5, PageStepKeeps
<1>4. CASE TakeFallback(p)
  <2>1. /\ at = "pages" /\ task[p].at = "shell" /\ circuit.held = {}
        /\ UNCHANGED <<at, walk, result, late, slips, kind, limit, shop, poor, job, file, load, cat, faults>>
    BY <1>4 DEF TakeFallback, On, LockFree, fixed, after
  <2>2. CASE circuit.stopped
    <3>1. Leave(p, FALSE) /\ UNCHANGED circuit
      BY <1>4, <2>2 DEF TakeFallback
    <3>2. /\ task' \in Tasks /\ enumerating' \in BOOLEAN /\ rows' \subseteq Products
          /\ task'[p].at = "done" /\ \A q \in Products \ {p} : task'[q] = task[q]
      BY <1>1, <3>1, LeaveKeeps
    <3>3. CircuitBooked'
      BY <1>1, <2>1, <3>1, <3>2, CircuitStays
    <3>4. QED
      BY <1>1, <2>1, <3>2, <3>3, PageStepKeeps
  <2>3. CASE ~circuit.stopped
    <3>1. /\ task' = [task EXCEPT ![p].at = "render"] /\ UNCHANGED <<enumerating, rows>>
          /\ circuit' = [circuit EXCEPT !.held = @ \union {p}]
      BY <1>4, <2>3 DEF TakeFallback
    <3>2. task' \in Tasks /\ task'[p].at = "render" /\ \A q \in Products \ {p} : task'[q] = task[q]
      BY <1>1, <3>1 DEF Tasks
    <3>3. circuit \in Circuit
      BY <1>1 DEF CircuitBooked
    <3>4. /\ circuit' \in Circuit /\ circuit'.held = {p} /\ circuit'.zero = circuit.zero
          /\ circuit'.stopped = circuit.stopped
      BY <2>1, <3>1, <3>3 DEF Circuit
    <3>5. CircuitBooked'
      BY <1>1, <2>1, <2>3, <3>2, <3>4 DEF CircuitBooked
    <3>6. QED
      BY <1>1, <2>1, <3>1, <3>2, <3>5, PageStepKeeps
  <2>4. QED
    BY <2>2, <2>3
<1>5. ASSUME NEW o \in Answers, Render(p, o)
      PROVE  CrawlInv'
  <2> DEFINE zero == CASE o = "ok" -> 0 [] o = "odd" -> circuit.zero + 1 [] OTHER -> circuit.zero
             row == o = "ok"
             full == circuit.stopped \/ zero >= ZeroGains
  <2>1. /\ at = "pages" /\ task[p].at = "render" /\ Leave(p, row)
        /\ result' = IF Unread(o) THEN Failed(result, o) ELSE result
        /\ circuit' = [zero |-> zero, stopped |-> full, held |-> circuit.held \ {p}]
        /\ UNCHANGED <<at, walk, late, slips, kind, limit, shop, poor, job, file, load, cat>>
    BY <1>5 DEF Render, On, fixed, after
  <2>2. faults' \in 0..MaxFaults
    BY <1>1, <1>5, SpendBound DEF Render
  <2>3. result' \in Results /\ (result.truncated => result'.truncated)
    BY <1>1, <2>1, FailedIsResult
  <2>4. row \in BOOLEAN /\ full \in BOOLEAN
    OBVIOUS
  <2>5. circuit \in Circuit /\ circuit.held = {p} /\ ~circuit.stopped /\ circuit.zero < ZeroGains
        /\ ZeroGains \in Nat /\ ZeroGains > 0
    BY <1>1, <2>1, CapsArePositive DEF CircuitBooked, Circuit
  <2>6. circuit.zero \in Nat /\ zero \in Nat /\ zero <= ZeroGains
    <3>1. circuit.zero \in Nat
      BY <2>5 DEF Circuit
    <3>2. zero \in {0, circuit.zero, circuit.zero + 1}
      OBVIOUS
    <3> HIDE DEF zero
    <3>3. QED
      BY <2>5, <3>1, <3>2
  <2>7. ~full => zero < ZeroGains
    BY <2>5, <2>6
  <2> HIDE DEF row, full, zero
  <2>8. /\ task' \in Tasks /\ enumerating' \in BOOLEAN /\ rows' \subseteq Products
        /\ task'[p].at = "done" /\ \A q \in Products \ {p} : task'[q] = task[q]
    BY <1>1, <2>1, <2>4, LeaveKeeps
  <2>9. /\ circuit' \in Circuit /\ circuit'.held = {} /\ circuit'.zero = zero /\ circuit'.stopped = full
    BY <2>1, <2>4, <2>5, <2>6 DEF Circuit
  <2>10. CircuitBooked'
    <3>1. \A q \in Products : task'[q].at # "render"
      BY <1>1, <2>5, <2>8 DEF CircuitBooked
    <3>2. circuit'.zero <= ZeroGains /\ (~circuit'.stopped => circuit'.zero < ZeroGains)
      BY <2>6, <2>7, <2>9
    <3>3. QED
      BY <2>9, <3>1, <3>2 DEF CircuitBooked
  <2>11. QED
    BY <2>1, <2>2, <2>3, <2>8, <2>10, PageStepKeeps
<1>6. QED
  BY <1>2, <1>3, <1>4, <1>5

\* asyncio.gather returns: the rows are added.
LEMMA GatheredKeepsCrawl ==
  ASSUME CrawlInv, Gathered
  PROVE  CrawlInv'
<1>1. /\ at = "pages" /\ at' = "crawled" /\ result' = Added(result, rows)
      /\ UNCHANGED <<walk, enumerating, task, rows, circuit, late, slips, kind, limit, shop, poor, job, file, load, cat, faults>>
  BY DEF Gathered, fixed, after
<1>2. result' \in Results /\ result'.truncated = result.truncated
  BY <1>1, AddedResult DEF CrawlInv, CrawlShape
<1>3. CrawlShape' /\ CircuitBooked' /\ ListingIsFirst'
  BY <1>1, <1>2 DEF CrawlInv, CrawlShape, Places, CircuitBooked, ListingIsFirst, Listing
<1>4. ListingKnown'
  BY <1>1, <1>2 DEF CrawlInv, ListingKnown, Firm
<1>5. QED
  BY <1>3, <1>4 DEF CrawlInv

-----------------------------------------------------------------------------
(* What interrupts a crawl, and what follows it. *)

\* The deadline marks the listing, an exception slips, a cancelled job is over.
LEMMA InterruptKeepsCrawl ==
  ASSUME CrawlInv, Deadline \/ Exception \/ Cancel
  PROVE  CrawlInv'
<1>1. result \in Results /\ job \in Jobs /\ faults \in 0..MaxFaults /\ slips \subseteq {"odd", "capped", "exception"}
  BY DEF CrawlInv, CrawlShape
<1>2. /\ faults' \in 0..MaxFaults
      /\ UNCHANGED <<walk, enumerating, task, rows, circuit, kind, limit, shop, poor, file, load, cat>>
  BY <1>1, SpendBound DEF Deadline, Exception, Cancel, fixed, after, crawl
<1>3. CASE Deadline
  <2>1. /\ at' = "crawled" /\ late' = TRUE /\ UNCHANGED <<slips, job>>
        /\ result' \in Results /\ result'.truncated = TRUE
    BY <1>1, <1>3 DEF Deadline, after, Results
  <2>2. CrawlShape' /\ CircuitBooked' /\ ListingIsFirst' /\ ListingKnown'
    BY <1>2, <2>1 DEF CrawlInv, CrawlShape, Places, CircuitBooked, ListingIsFirst, Listing, ListingKnown, Firm
  <2>3. QED
    BY <2>2 DEF CrawlInv
<1>4. CASE Exception
  <2>1. /\ at' = "crawled" /\ slips' = slips \union {"exception"} /\ UNCHANGED <<late, job>>
        /\ result' \in Results
    BY <1>1, <1>4 DEF Exception, after, Results
  <2>2. slips' # {} /\ slips' \subseteq {"odd", "capped", "exception"}
    BY <1>1, <2>1
  <2>3. CrawlShape' /\ CircuitBooked' /\ ListingIsFirst' /\ ListingKnown'
    BY <1>2, <2>1, <2>2 DEF CrawlInv, CrawlShape, Places, CircuitBooked, ListingIsFirst, Listing, ListingKnown, Firm
  <2>4. QED
    BY <2>3 DEF CrawlInv
<1>5. CASE Cancel
  <2>1. /\ at' = "over" /\ job' \in Jobs /\ UNCHANGED <<result, late, slips>>
    BY <1>1, <1>5 DEF Cancel, crawl, Jobs
  <2>2. CrawlShape' /\ CircuitBooked' /\ ListingIsFirst' /\ ListingKnown'
    BY <1>2, <2>1 DEF CrawlInv, CrawlShape, Places, CircuitBooked, ListingIsFirst, Listing, ListingKnown
  <2>3. QED
    BY <2>2 DEF CrawlInv
<1>6. QED
  BY <1>3, <1>4, <1>5

\* A job that is delivered again, or fails for want of a browser or an attempt.
LEMMA AttemptEndsKeepsCrawl ==
  ASSUME CrawlInv, NoBrowser \/ WorkerDies \/ RetryTransient
  PROVE  CrawlInv'
<1>1. job \in Jobs /\ faults \in 0..MaxFaults /\ MaxAttempts \in Nat
  BY CapsArePositive DEF CrawlInv, CrawlShape
<1>2. faults' \in 0..MaxFaults /\ UNCHANGED <<kind, limit, shop, poor, file, cat>>
  BY <1>1, SpendBound DEF NoBrowser, WorkerDies, RetryTransient, fixed
<1>3. CASE NoBrowser /\ job.browser
  <2>1. /\ at' = "over" /\ job' = [job EXCEPT !.state = "failed"]
        /\ UNCHANGED <<walk, result, enumerating, task, rows, circuit, late, slips, load>>
    BY <1>3 DEF NoBrowser, crawl
  <2>2. job' \in Jobs
    BY <1>1, <2>1 DEF Jobs
  <2>3. CrawlShape' /\ CircuitBooked' /\ ListingIsFirst' /\ ListingKnown'
    BY <1>2, <2>1, <2>2 DEF CrawlInv, CrawlShape, Places, CircuitBooked, ListingIsFirst, Listing, ListingKnown
  <2>4. QED
    BY <2>3 DEF CrawlInv
<1>4. CASE Afresh /\ at' \in {"queued", "over"} /\ job' \in Jobs
  BY <1>2, <1>4, AfreshShape DEF CrawlInv
<1>5. ASSUME NoBrowser, ~job.browser
      PROVE  Afresh /\ at' \in {"queued", "over"} /\ job' \in Jobs
  BY <1>1, <1>5 DEF NoBrowser, Jobs
<1>6. ASSUME job.attempt < MaxAttempts
      PROVE  [job EXCEPT !.state = "queued", !.attempt = @ + 1] \in Jobs
  <2>1. job.attempt + 1 \in 1..MaxAttempts
    BY <1>1, <1>6 DEF Jobs
  <2>2. QED
    BY <1>1, <2>1 DEF Jobs
<1>7. ASSUME WorkerDies
      PROVE  Afresh /\ at' \in {"queued", "over"} /\ job' \in Jobs
  <2>1. [job EXCEPT !.state = "failed"] \in Jobs
    BY <1>1 DEF Jobs
  <2>2. QED
    BY <1>6, <1>7, <2>1 DEF WorkerDies
<1>8. ASSUME RetryTransient
      PROVE  Afresh /\ at' \in {"queued", "over"} /\ job' \in Jobs
  BY <1>6, <1>8 DEF RetryTransient, Retries
<1>9. QED
  BY <1>3, <1>4, <1>5, <1>7, <1>8

\* The artifact is written, loaded, and the job ends.
LEMMA LoadKeepsCrawl ==
  ASSUME CrawlInv, WriteSource \/ Finish \/ \E bad \in SUBSET Products : Load(bad)
  PROVE  CrawlInv'
<1>1. /\ result \in Results /\ load \in Loads /\ job \in Jobs /\ faults \in 0..MaxFaults /\ cat \subseteq Products
  BY DEF CrawlInv, CrawlShape
<1>2. UNCHANGED <<walk, result, enumerating, task, rows, circuit, late, slips, kind, limit, shop, poor>>
  BY DEF WriteSource, Finish, Load, crawl, fixed
<1>3. CASE WriteSource
  <2>1. /\ at = "crawled" /\ at' = "load" /\ UNCHANGED <<job, cat, faults>>
        /\ load' \in Loads /\ file' \in {"none", "empty", "full"}
    <3>1. \A w \in {"preserved_existing_nonempty", "replaced"} : [load EXCEPT !.write = w] \in Loads
      BY <1>1 DEF Loads
    <3>2. QED
      BY <1>3, <3>1 DEF WriteSource, CrawlInv, CrawlShape
  <2>2. CrawlShape' /\ CircuitBooked' /\ ListingIsFirst'
    BY <1>2, <2>1 DEF CrawlInv, CrawlShape, Places, CircuitBooked, ListingIsFirst, Listing
  <2>3. ListingKnown'
    BY <1>2, <2>1 DEF CrawlInv, ListingKnown, Firm, Error
  <2>4. QED
    BY <2>2, <2>3 DEF CrawlInv
<1>4. ASSUME NEW bad \in SUBSET Products, Load(bad)
      PROVE  CrawlInv'
  <2>1. at' = "finish" /\ UNCHANGED <<job, file>> /\ faults' \in 0..MaxFaults
    BY <1>1, <1>4, SpendBound DEF Load
  <2>2. load' \in Loads
    BY <1>1, <1>4 DEF Load, Loads
  <2>3. cat' \subseteq Products
    BY <1>1, <1>4 DEF Load, Results
  <2>4. CrawlShape' /\ CircuitBooked' /\ ListingIsFirst' /\ ListingKnown'
    BY <1>2, <2>1, <2>2, <2>3 DEF CrawlInv, CrawlShape, Places, CircuitBooked, ListingIsFirst, Listing, ListingKnown
  <2>5. QED
    BY <2>4 DEF CrawlInv
<1>5. CASE Finish
  <2>1. at' = "over" /\ UNCHANGED <<file, load, cat, faults>>
    BY <1>5 DEF Finish
  <2>2. job' \in Jobs
    <3>1. \A s \in {"failed", "degraded", "succeeded"} : [job EXCEPT !.state = s] \in Jobs
      BY <1>1 DEF Jobs
    <3>2. QED
      BY <1>5, <3>1 DEF Finish
  <2>3. CrawlShape' /\ CircuitBooked' /\ ListingIsFirst' /\ ListingKnown'
    BY <1>2, <2>1, <2>2 DEF CrawlInv, CrawlShape, Places, CircuitBooked, ListingIsFirst, Listing, ListingKnown
  <2>4. QED
    BY <2>3 DEF CrawlInv
<1>6. QED
  BY <1>3, <1>4, <1>5

\* Every step keeps the invariant of the crawl.
LEMMA CrawlStep == CrawlInv /\ [CrawlNext]_crawlVars => CrawlInv'
<1> SUFFICES ASSUME CrawlInv, [CrawlNext]_crawlVars PROVE CrawlInv'
  OBVIOUS
<1>1. CASE Step
  BY <1>1, IndexKeepsCrawl, PageKeepsCrawl, NextWayKeepsCrawl, ListingEnds, SelectKeepsCrawl, ProductKeepsCrawl,
     GatheredKeepsCrawl, AttemptEndsKeepsCrawl, LoadKeepsCrawl DEF Step
<1>2. CASE Deadline \/ Exception \/ Cancel \/ NoBrowser \/ WorkerDies
  BY <1>2, InterruptKeepsCrawl, AttemptEndsKeepsCrawl
<1>3. CASE UNCHANGED crawlVars
  <2>1. UNCHANGED <<walk, result, enumerating, task, rows, circuit, late, slips, kind, limit, shop, poor,
                    job, file, load, cat, at, faults>>
    BY <1>3 DEF crawlVars, crawl, fixed, after
  <2>2. CrawlShape' /\ CircuitBooked' /\ ListingIsFirst' /\ ListingKnown'
    BY <2>1 DEF CrawlInv, CrawlShape, CircuitBooked, ListingIsFirst, Listing, ListingKnown, Firm, Error
  <2>3. QED
    BY <2>2 DEF CrawlInv
<1>4. QED
  BY <1>1, <1>2, <1>3 DEF CrawlNext

\* The invariant always holds.
LEMMA CrawlAlways == CrawlSpec => []CrawlInv
BY CrawlInitInv, CrawlStep, PTL DEF CrawlSpec

\* The variables of a crawl keep their types.
THEOREM CrawlTypeCorrect == CrawlSpec => []CrawlTypeOK
<1>1. CrawlInv => CrawlTypeOK
  <2> SUFFICES ASSUME CrawlInv PROVE CrawlTypeOK
    OBVIOUS
  <2>1. walk \in [way : Kinds \union {"sitemap", "store", "category"}, next : Nat, listed : SUBSET Products]
    <3>1. walk \in Walks /\ kind \in Kinds /\ (walk.way = FirstWay(kind) \/ walk.way \in {"store", "category"})
      BY DEF CrawlInv, CrawlShape
    <3>2. walk.way \in Kinds \union {"sitemap", "store", "category"}
      BY <3>1, KindWays
    <3>3. QED
      BY <3>1, <3>2 DEF Walks
  <2>2. job.attempt \in 1..MaxAttempts /\ job.browser \in BOOLEAN
        /\ job.state \in {"running", "queued", "succeeded", "degraded", "failed", "cancelled"}
    BY DEF CrawlInv, CrawlShape, Jobs
  <2>3. QED
    BY <2>1, <2>2 DEF CrawlInv, CrawlShape, CircuitBooked, CrawlTypeOK, Places, Results, Tasks, Circuit
<1>2. QED
  BY <1>1, CrawlAlways, PTL

\* However many product pages fall back at once, no page renders after ZeroGains
\* renders in a row gave nothing.
THEOREM RenderCircuitIsExact == CrawlSpec => []CircuitIsExact
<1>1. CrawlInv => CircuitIsExact
  BY DEF CrawlInv, CircuitBooked, CircuitIsExact
<1>2. QED
  BY <1>1, CrawlAlways, PTL

\* A load only withdraws what its own attempt saw listed or what the shop gave
\* up, unless the walk ended in a way that no scraper marks; a crawl that failed
\* withdraws nothing.
THEOREM WithdrawnProductsWereListed == CrawlSpec => WithdrawnWasListed
<1>1. ASSUME CrawlInv, CrawlNext, NEW p \in cat \ cat'
      PROVE  ~Error /\ (p \in shop => p \notin result.records /\ (p \in walk.listed \/ slips # {}))
  <2>1. PICK bad \in SUBSET Products : Load(bad)
    <3>1. cat' # cat
      BY <1>1
    <3>2. QED
      BY <1>1, <3>1 DEF CrawlNext, Step, Robots, EndListing, Select, Gathered, Claim, ReadIndex, ReadPage,
         Variations, NextWay, Enter, TakeFallback, ReadProduct, Render, RetryTransient, WriteSource, Finish,
         Deadline, Exception, Cancel, NoBrowser, WorkerDies, after
  <2>2. at = "load" /\ cat' = (IF Whole THEN cat \ Retired ELSE cat) \union (result.records \ bad)
    BY <2>1 DEF Load
  <2>3. Whole /\ p \notin result.records
    BY <1>1, <2>2 DEF Retired
  <2>4. ~Error /\ ~result.truncated
    BY <2>3 DEF Whole, MayRetire
  <2>5. slips = {} => shop \subseteq walk.listed
    BY <1>1, <2>2, <2>4 DEF CrawlInv, ListingKnown, Firm
  <2>6. QED
    BY <2>3, <2>4, <2>5
<1>2. CrawlInv /\ [CrawlNext]_crawlVars =>
        [\A p \in cat \ cat' :
           /\ ~Error
           /\ p \in shop => p \notin result.records /\ (p \in walk.listed \/ slips # {})]_crawlVars
  BY <1>1
<1>3. QED
  BY <1>2, CrawlAlways, PTL DEF CrawlSpec, WithdrawnWasListed

=============================================================================
