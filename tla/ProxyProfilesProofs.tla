------------------------ MODULE ProxyProfilesProofs ------------------------
(***************************************************************************)
(* What holds of the secrets of a proxy profile for any number of requests *)
(* and reservations, any number of generations and any number of faults.   *)
(*                                                                         *)
(* The two kinds of provider share the row and the file and no handler, so *)
(* the inductive invariant has a part for each.  The import of a Webshare  *)
(* secret is safe because the row is fenced from the moment an intent is   *)
(* prepared until it is resolved, and because the file is then at the      *)
(* generation the row names or one ahead of it, put there by that very     *)
(* intent (ImportFenced).  The retirement of a Decodo sub-user is safe     *)
(* because no request still holds, for its last and unguarded write of the *)
(* row, a generation that the row has or that a retirement has replaced    *)
(* (GenerationsApart); that ends once the profile itself is retired, and   *)
(* then no route leads to it any more.                                     *)
(***************************************************************************)
EXTENDS ProxyProfiles, TLAPS

Users     == Reqs \union {First}
Lives     == {"none", "pending", "enabled", "draining", "disabled", "retired", "local_failed"}
Pendings  == {"none", "rotate", "disable", "retire"}
Ops       == {"none", "rotate", "bluegreen", "disable", "retire", "import"}
ResStates == {"none", "queued", "built", "active", "revocation_requested", "closed"}
RetStates == {"none", "creating", "draining", "finalizing", "completed", "failed"}
IntStates == {"none", "prepared", "installed", "completed", "failed"}

ProfRow   == [life : Lives, on : BOOLEAN, gen : Generations, user : Users,
              pending : Pendings, retired : BOOLEAN, routed : BOOLEAN]
FileRow   == [gen : Generations, user : Users]
ResRow    == [state : ResStates, gen : Generations, user : Users]
ReqRow    == [op : Ops, at : Steps, gen : Generations, user : Users, quiet : BOOLEAN]
RetRow    == [state : RetStates, gen : Generations, user : Users]
IntentRow == [state : IntStates, gen : Generations]
FinRow    == [at : {"idle", "retiring", "rotate", "disable", "retire"}, of : Reqs \union {Nobody}]

\* Every variable has its type, the columns TypeOK leaves open included.
Rows ==
  /\ kind \in Kinds /\ kill \in BOOLEAN /\ faults \in 0..MaxFaults
  /\ prof \in ProfRow /\ file \in FileRow /\ fin \in FinRow
  /\ res \in [Res -> ResRow] /\ req \in [Reqs -> ReqRow]
  /\ ret \in [Reqs -> RetRow] /\ intent \in [Reqs -> IntentRow]

\* The steps a request can be at, by what it is, and how far its retirement is.
ReqShape(q) ==
  /\ req[q].op = "none" => req[q].at = "new"
  /\ req[q].op = "import" => req[q].at \in {"install", "recover", "write", "done", "dead"}
  /\ req[q].op = "import" /\ req[q].at \in {"install", "recover", "write"} => intent[q].state = "prepared"
  /\ ret[q].state # "none" => req[q].op = "bluegreen"
  /\ intent[q].state # "none" => req[q].op = "import"
  /\ req[q].op = "bluegreen" /\ req[q].at = "begun" => ret[q].state = "none"
  /\ req[q].op = "bluegreen" /\ req[q].at \in {"provider", "install", "write"}
       => ret[q].state = "creating"
  /\ kind = "decodo" => req[q].op # "import"
  /\ kind = "webshare" => req[q].op \in {"none", "import"}

\* What the finalizers are at, and that a retirement of the profile leaves no
\* route to it.
FinShape ==
  /\ kind = "webshare" => fin.at = "idle" /\ prof.life # "draining"
  /\ fin.at = "retiring" => fin.of \in Reqs /\ ret[fin.of].state = "finalizing"
  /\ prof.pending = "retire" \/ fin.at = "retire" => ~prof.routed

Shape == FinShape /\ \A q \in Reqs : ReqShape(q)

\* While an import is unresolved it is the only one, the row is fenced and at
\* the generation it found, no reservation is open, and the file is there, too,
\* or one ahead with this import's secret.
Underway(q) ==
  /\ \A p \in Unresolved : p = q
  /\ ~prof.on /\ OpenRes = {}
  /\ prof.gen = intent[q].gen /\ prof.gen < MaxGen
  /\ file.gen = prof.gen \/ (file.gen = prof.gen + 1 /\ file.user = q)
  /\ req[q].at = "install" => file.gen = prof.gen
  /\ req[q].at = "write" => file.gen = prof.gen + 1

ImportFenced ==
  kind = "webshare" =>
    /\ \A q \in Unresolved : Underway(q)
    /\ Unresolved = {} => file.gen = prof.gen
    /\ \A r \in OpenRes : res[r].gen = file.gen
    /\ \A q \in Reqs : intent[q].state = "completed" =>
         /\ intent[q].gen < file.gen
         /\ file.gen = intent[q].gen + 1 => file.user = q

\* A request that has installed a generation and not written it to the row yet.
Pending(p) == req[p].op \in {"rotate", "bluegreen"} /\ req[p].at = "write"

GenerationsApart ==
  kind = "decodo" /\ prof.routed =>
    /\ prof.gen <= file.gen
    /\ \A q \in Reqs : req[q].op # "none" => req[q].gen <= file.gen
    /\ \A q \in Reqs : ret[q].state # "none" => ret[q].gen <= file.gen
    /\ \A p \in Reqs : Pending(p) => req[p].gen # prof.gen
    /\ \A p, q \in Reqs : Pending(p) /\ q # p /\ (Pending(q) \/ At(q, "bluegreen", "begun"))
         => req[q].gen # req[p].gen
    /\ \A p, q \in Reqs : Pending(p) /\ ret[q].state # "none" => ret[q].gen # req[p].gen
    /\ \A q \in Reqs : ret[q].state \in {"draining", "finalizing", "completed"}
         => ret[q].gen # prof.gen

\* A sub-user is being deleted, or is gone, and no lease of its generation is
\* open.
RetiredGone ==
  \A q \in Reqs : ret[q].state \in {"finalizing", "completed"} => LeasesGone(ret[q].gen)

ProfilesInv == Rows /\ Shape /\ ImportFenced /\ GenerationsApart /\ RetiredGone

-----------------------------------------------------------------------------
(* What the invariant says of the properties. *)

\* A profile belongs to a Decodo or to a Webshare provider.
LEMMA TwoKinds == Rows => kind \in {"decodo", "webshare"}
  BY KindsAreKnown DEF Rows

\* Rows in the stronger sense keep the values their columns allow.
LEMMA RowsAreTyped == Rows => TypeOK
  <1>1. SUFFICES ASSUME Rows PROVE TypeOK
    OBVIOUS
  <1>2. \A r \in Res : res[r] \in ResRow
    BY <1>1 DEF Rows
  <1>3. \A q \in Reqs : req[q] \in ReqRow /\ ret[q] \in RetRow /\ intent[q] \in IntentRow
    BY <1>1 DEF Rows
  <1> QED
    BY <1>1, <1>2, <1>3
    DEF Rows, TypeOK, ProfRow, FileRow, ResRow, ReqRow, RetRow, IntentRow, Lives, Pendings,
        Users, ResStates, RetStates, IntStates

\* The three safety properties follow from the inductive invariant.
LEMMA InvariantIsEnough ==
  ProfilesInv => LeasedSecretKept /\ CompletedSecretInstalled /\ RetiredUserUnused
  <1>1. SUFFICES ASSUME ProfilesInv
                 PROVE LeasedSecretKept /\ CompletedSecretInstalled /\ RetiredUserUnused
    OBVIOUS
  <1>2. LeasedSecretKept
    BY <1>1 DEF ProfilesInv, ImportFenced, LeasedSecretKept
  <1>3. CompletedSecretInstalled
    BY <1>1, TwoKinds DEF ProfilesInv, ImportFenced, CompletedSecretInstalled, Shape, ReqShape
  <1>4. RetiredUserUnused
    BY <1>1 DEF ProfilesInv, RetiredGone, RetiredUserUnused, LeasesGone
  <1> QED
    BY <1>2, <1>3, <1>4

\* The program starts in the invariant.
LEMMA StartsRight == Init => ProfilesInv
  <1>1. SUFFICES ASSUME Init PROVE ProfilesInv
    OBVIOUS
  <1>2. kind \in {"decodo", "webshare"}
    BY <1>1, KindsAreKnown DEF Init
  <1>3. prof.gen \in Generations /\ prof.gen = file.gen /\ prof.user = First
    BY <1>1, <1>2, BoundsAreNaturals DEF Init, Generations
  <1>4. Rows
    <2>1. prof \in ProfRow
      <3>1. CASE kind = "decodo"
        <4>1. prof = [life |-> "enabled", on |-> TRUE, gen |-> 1, user |-> First,
                      pending |-> "none", retired |-> FALSE, routed |-> TRUE]
          BY <1>1, <3>1 DEF Init
        <4> QED
          BY <4>1, BoundsAreNaturals DEF ProfRow, Lives, Pendings, Users, Generations
      <3>2. CASE kind # "decodo"
        <4>1. prof = [life |-> "none", on |-> FALSE, gen |-> 0, user |-> First,
                      pending |-> "none", retired |-> FALSE, routed |-> TRUE]
          BY <1>1, <3>2 DEF Init
        <4> QED
          BY <4>1, BoundsAreNaturals DEF ProfRow, Lives, Pendings, Users, Generations
      <3> QED
        BY <3>1, <3>2
    <2>2. file \in FileRow
      BY <1>1, <1>3 DEF Init, FileRow, Users
    <2>3. 0 \in Generations
      BY BoundsAreNaturals DEF Generations
    <2>4. res \in [Res -> ResRow]
      BY <1>1, <2>3 DEF Init, ResRow, ResStates, Users
    <2>5. req \in [Reqs -> ReqRow]
      BY <1>1, <2>3 DEF Init, ReqRow, Ops, Steps, Users
    <2>6. ret \in [Reqs -> RetRow] /\ intent \in [Reqs -> IntentRow]
      BY <1>1, <2>3 DEF Init, RetRow, RetStates, IntentRow, IntStates, Users
    <2>7. kind \in Kinds /\ kill \in BOOLEAN /\ fin \in FinRow /\ faults \in 0..MaxFaults
      <3>1. kind \in Kinds /\ kill = FALSE /\ fin = [at |-> "idle", of |-> Nobody]
            /\ faults = MaxFaults
        BY <1>1 DEF Init
      <3>2. fin \in FinRow
        BY <3>1 DEF FinRow
      <3>3. faults \in 0..MaxFaults
        BY <3>1, BoundsAreNaturals
      <3> QED
        BY <3>1, <3>2, <3>3
    <2> QED
      BY <2>1, <2>2, <2>4, <2>5, <2>6, <2>7 DEF Rows
  <1>5. \A q \in Reqs : req[q].op = "none" /\ req[q].at = "new" /\ ret[q].state = "none"
                        /\ intent[q].state = "none"
    BY <1>1 DEF Init
  <1>6. OpenRes = {} /\ Unresolved = {}
    BY <1>1, <1>5 DEF Init, OpenRes, Unresolved
  <1>7. fin.at = "idle" /\ prof.pending = "none" /\ prof.life # "draining"
    BY <1>1, <1>2 DEF Init
  <1>8. Shape
    BY <1>5, <1>7 DEF Shape, FinShape, ReqShape
  <1>9. prof.gen \in Nat /\ file.gen \in Nat
    BY <1>3, BoundsAreNaturals DEF Generations
  <1> QED
    BY <1>4, <1>5, <1>6, <1>3, <1>8, <1>9
    DEF ProfilesInv, ImportFenced, GenerationsApart, RetiredGone, Pending

-----------------------------------------------------------------------------
(* What a step may leave alone. *)

\* Steps over other rows than a generation's: the row and the file keep their
\* generations, no lease is opened and no request or retirement comes closer to
\* the last write of the row.
LEMMA GenerationsKept ==
  ASSUME Rows, GenerationsApart, RetiredGone,
         kind' = kind, file' = file, prof'.gen = prof.gen, prof'.routed => prof.routed,
         \A q \in Reqs : /\ req'[q].op = req[q].op /\ req'[q].gen = req[q].gen
                         /\ ret'[q].gen = ret[q].gen
                         /\ Pending(q)' => Pending(q)
                         /\ At(q, "bluegreen", "begun")' => At(q, "bluegreen", "begun")
                         /\ ret'[q].state # "none" => ret[q].state # "none"
                         /\ ret'[q].state \in {"draining", "finalizing", "completed"}
                              => ret[q].state \in {"draining", "finalizing", "completed"}
                         /\ ret'[q].state \in {"finalizing", "completed"}
                              => ret[q].state \in {"finalizing", "completed"},
         \A r \in OpenRes' : r \in OpenRes /\ res'[r].gen = res[r].gen
  PROVE  GenerationsApart' /\ RetiredGone'
  <1>1. GenerationsApart'
    <2>1. SUFFICES ASSUME kind = "decodo", prof.routed
                   PROVE  GenerationsApart'
      BY DEF GenerationsApart
    <2> HIDE DEF Pending, At
    <2> QED
      BY <2>1 DEF GenerationsApart
  <1>2. RetiredGone'
    BY DEF RetiredGone, LeasesGone
  <1> QED
    BY <1>1, <1>2

\* Steps beside an import: no lease is opened, the file, the intents and the
\* row's generation are kept and the row is not enabled.
LEMMA ImportsKept ==
  ASSUME Rows, ImportFenced,
         kind' = kind, file' = file, intent' = intent, prof'.gen = prof.gen, prof'.on => prof.on,
         \A q \in Reqs : req'[q].at \in {"install", "write"} => req'[q].at = req[q].at,
         \A r \in OpenRes' : r \in OpenRes /\ res'[r].gen = res[r].gen
  PROVE  ImportFenced'
  <1>1. SUFFICES ASSUME kind = "webshare" PROVE ImportFenced'
    BY DEF ImportFenced
  <1>2. Unresolved' = Unresolved
    BY DEF Unresolved
  <1>3. \A q \in Unresolved : q \in Reqs
    BY DEF Unresolved
  <1>4. \A q \in Unresolved' : Underway(q)'
    BY <1>1, <1>2, <1>3 DEF ImportFenced, Underway
  <1> QED
    BY <1>1, <1>2, <1>4 DEF ImportFenced

\* A step that is not of the other kind keeps what is said of that kind.
LEMMA OtherKindKept ==
  ASSUME kind' = kind
  PROVE  /\ kind # "webshare" => ImportFenced'
         /\ kind # "decodo" => GenerationsApart'
  BY DEF ImportFenced, GenerationsApart

\* Requests are rows, and so on: the types of the rows one by one.
LEMMA RowByRow ==
  ASSUME Rows
  PROVE  /\ \A q \in Reqs : req[q] \in ReqRow /\ ret[q] \in RetRow /\ intent[q] \in IntentRow
         /\ \A r \in Res : res[r] \in ResRow
         /\ prof.gen \in Nat /\ file.gen \in Nat /\ MaxGen \in Nat
         /\ prof.gen <= MaxGen /\ file.gen <= MaxGen
  <1>1. prof.gen \in Generations /\ file.gen \in Generations
    BY DEF Rows, ProfRow, FileRow
  <1> QED
    BY <1>1, BoundsAreNaturals DEF Rows, Generations

\* Go moves one request and leaves what it read alone.
LEMMA GoRow ==
  ASSUME Rows, NEW q \in Reqs, NEW step \in Steps, Go(q, step)
  PROVE  /\ req' \in [Reqs -> ReqRow]
         /\ req'[q].at = step /\ req'[q].op = req[q].op /\ req'[q].gen = req[q].gen
         /\ \A p \in Reqs : p # q => req'[p] = req[p]
         /\ \A p \in Reqs : req'[p].op = req[p].op /\ req'[p].gen = req[p].gen
  <1> DEFINE row == [req[q] EXCEPT !.at = step]
  <1>1. req[q] \in ReqRow /\ req \in [Reqs -> ReqRow]
    BY DEF Rows
  <1>2. req' = [req EXCEPT ![q] = row]
    BY <1>1 DEF Go
  <1>3. row \in ReqRow /\ row.at = step /\ row.op = req[q].op /\ row.gen = req[q].gen
    BY <1>1 DEF ReqRow
  <1> HIDE DEF row
  <1> QED
    BY <1>1, <1>2, <1>3

\* The fence: a row that is switched off keeps its generation and its route.
LEMMA DisabledRow ==
  ASSUME Rows, NEW life \in Lives, NEW pending \in Pendings
  PROVE  LET row == Disabled(life, pending)
         IN  /\ row \in ProfRow
             /\ row.life = life /\ row.pending = pending /\ row.on = FALSE
             /\ row.gen = prof.gen /\ row.routed = prof.routed /\ row.user = prof.user
  BY DEF Rows, ProfRow, Disabled

-----------------------------------------------------------------------------
(* Workers. *)

\* What is left to show of a step that only moves one reservation.
LEMMA ReservationStep ==
  ASSUME ProfilesInv, NEW r \in Res, NEW row \in ResRow,
         res' = [res EXCEPT ![r] = row],
         UNCHANGED <<kind, prof, file, req, ret, intent, fin, kill, faults>>,
         row.state \in {"active", "revocation_requested"} =>
           r \in OpenRes /\ row.gen = res[r].gen
  PROVE  ProfilesInv'
  <1>1. Rows'
    BY DEF ProfilesInv, Rows
  <1>2. Shape'
    BY DEF ProfilesInv, Shape, FinShape, ReqShape
  <1>3. res \in [Res -> ResRow]
    BY DEF ProfilesInv, Rows
  <1>4. \A s \in OpenRes' : s \in OpenRes /\ res'[s].gen = res[s].gen
    BY <1>3 DEF OpenRes
  <1>5. ImportFenced'
    BY <1>4, ImportsKept DEF ProfilesInv
  <1>6. GenerationsApart' /\ RetiredGone'
    BY <1>4, GenerationsKept DEF ProfilesInv, Pending, At
  <1> QED
    BY <1>1, <1>2, <1>5, <1>6 DEF ProfilesInv

\* create_jobs keeps the invariant.
LEMMA SnapshotRouteKeeps ==
  ASSUME ProfilesInv, NEW r \in Res, SnapshotRoute(r)
  PROVE  ProfilesInv'
  <1> DEFINE row == [res[r] EXCEPT !.state = "queued", !.gen = prof.gen]
  <1>1. res[r] \in ResRow /\ res \in [Res -> ResRow] /\ prof.gen \in Generations
    BY DEF ProfilesInv, Rows, ProfRow
  <1>2. res' = [res EXCEPT ![r] = row]
        /\ UNCHANGED <<kind, prof, file, req, ret, intent, fin, kill, faults>>
    BY <1>1 DEF SnapshotRoute
  <1>3. row \in ResRow /\ row.state = "queued"
    BY <1>1 DEF ResRow, ResStates
  <1> HIDE DEF row
  <1> QED
    BY <1>2, <1>3, ReservationStep

\* The pool a worker builds keeps the invariant.
LEMMA BuildPoolKeeps ==
  ASSUME ProfilesInv, NEW r \in Res, BuildPool(r)
  PROVE  ProfilesInv'
  <1> DEFINE row == [res[r] EXCEPT !.state = "built", !.user = file.user]
  <1>1. res[r] \in ResRow /\ res \in [Res -> ResRow] /\ file.user \in Users
    BY DEF ProfilesInv, Rows, FileRow
  <1>2. res' = [res EXCEPT ![r] = row]
        /\ UNCHANGED <<kind, prof, file, req, ret, intent, fin, kill, faults>>
    BY <1>1 DEF BuildPool
  <1>3. row \in ResRow /\ row.state = "built"
    BY <1>1 DEF ResRow, ResStates
  <1> HIDE DEF row
  <1> QED
    BY <1>2, <1>3, ReservationStep

\* The end of a reservation keeps the invariant.
LEMMA CloseReservationKeeps ==
  ASSUME ProfilesInv, NEW r \in Res, CloseReservation(r)
  PROVE  ProfilesInv'
  <1> DEFINE row == [res[r] EXCEPT !.state = "closed"]
  <1>1. res[r] \in ResRow /\ res \in [Res -> ResRow]
    BY DEF ProfilesInv, Rows
  <1>2. res' = [res EXCEPT ![r] = row]
        /\ UNCHANGED <<kind, prof, file, req, ret, intent, fin, kill, faults>>
    BY <1>1 DEF CloseReservation
  <1>3. row \in ResRow /\ row.state = "closed"
    BY <1>1 DEF ResRow, ResStates
  <1> HIDE DEF row
  <1> QED
    BY <1>2, <1>3, ReservationStep

\* reserve() opens a lease under the generation of the row: with Webshare no
\* import is unresolved then, so that the file has it, too; with Decodo the row
\* is not at a generation whose sub-user is being retired.
LEMMA ReserveKeeps ==
  ASSUME ProfilesInv, NEW r \in Res, Reserve(r)
  PROVE  ProfilesInv'
  <1> DEFINE row == [res[r] EXCEPT !.state = "active"]
  <1>1. res[r] \in ResRow /\ res \in [Res -> ResRow]
    BY DEF ProfilesInv, Rows
  <1>2. res' = [res EXCEPT ![r] = row]
        /\ UNCHANGED <<kind, prof, file, req, ret, intent, fin, kill, faults>>
    BY <1>1 DEF Reserve
  <1>3. row \in ResRow /\ row.gen = res[r].gen
    BY <1>1 DEF ResRow, ResStates
  <1>4. prof.on /\ prof.routed /\ prof.gen = res[r].gen
    BY DEF Reserve
  <1> HIDE DEF row
  <1>5. Rows'
    BY <1>2, <1>3 DEF ProfilesInv, Rows
  <1>6. Shape'
    BY <1>2 DEF ProfilesInv, Shape, FinShape, ReqShape
  <1>7. \A s \in OpenRes' : res'[s].gen = res[s].gen /\ (s = r \/ s \in OpenRes)
    BY <1>1, <1>2, <1>3 DEF OpenRes
  <1>8. ImportFenced'
    <2>1. SUFFICES ASSUME kind = "webshare" PROVE ImportFenced'
      BY <1>2 DEF ImportFenced
    <2>2. Unresolved = {}
      BY <2>1, <1>4 DEF ProfilesInv, ImportFenced, Underway
    <2>3. Unresolved' = {}
      BY <2>2, <1>2 DEF Unresolved
    <2>4. file.gen = prof.gen
      BY <2>1, <2>2 DEF ProfilesInv, ImportFenced
    <2>5. \A s \in OpenRes' : res'[s].gen = file'.gen
      BY <2>1, <2>4, <1>2, <1>4, <1>7 DEF ProfilesInv, ImportFenced
    <2> QED
      BY <2>1, <2>3, <2>4, <2>5, <1>2 DEF ProfilesInv, ImportFenced
  <1>9. GenerationsApart'
    BY <1>2 DEF ProfilesInv, GenerationsApart, Pending, At
  <1>10. RetiredGone'
    <2>1. SUFFICES ASSUME NEW q \in Reqs, ret[q].state \in {"finalizing", "completed"},
                          NEW s \in OpenRes'
                   PROVE  res'[s].gen # ret[q].gen
      BY <1>2 DEF RetiredGone, LeasesGone
    <2>2. CASE s \in OpenRes
      BY <2>1, <2>2, <1>7 DEF ProfilesInv, RetiredGone, LeasesGone
    <2>3. CASE s = r
      <3>1. kind = "decodo"
        BY <2>1, TwoKinds DEF ProfilesInv, Shape, ReqShape
      <3>2. ret[q].gen # prof.gen
        BY <3>1, <2>1, <1>4 DEF ProfilesInv, GenerationsApart
      <3> QED
        BY <3>2, <2>3, <1>4, <1>7
    <2> QED
      BY <2>2, <2>3, <1>7
  <1> QED
    BY <1>5, <1>6, <1>8, <1>9, <1>10 DEF ProfilesInv

-----------------------------------------------------------------------------
(* Requests on a Decodo profile. *)

\* A step of one request leaves the shape of the others alone.
LEMMA ShapeOfOthers ==
  ASSUME Shape, NEW q \in Reqs, kind' = kind,
         \A p \in Reqs : p # q => req'[p] = req[p] /\ ret'[p] = ret[p] /\ intent'[p] = intent[p],
         ReqShape(q)', FinShape'
  PROVE  Shape'
  BY DEF Shape, ReqShape

\* What is left to show of a step of a Decodo request that only moves on, and
\* may fence the row, or fail its retirement before that has begun.
LEMMA DecodoRequestStep ==
  ASSUME ProfilesInv, NEW q \in Reqs, NEW step \in Steps, Go(q, step),
         kind = "decodo", UNCHANGED <<kind, file, res, intent, fin>>,
         kill' \in BOOLEAN, faults' \in 0..MaxFaults,
         req[q].op \notin {"none", "import"}, step \notin {"new", "begun"},
         step = "write" => req[q].op = "disable",
         prof' \in ProfRow, prof'.gen = prof.gen, prof'.routed = prof.routed,
         prof'.pending = "retire" => prof.pending = "retire",
         \/ /\ ret' = ret
            /\ req[q].op = "bluegreen" => step \in {"done", "dead"} \/ (step = "install" /\ req[q].at = "provider")
         \/ /\ ret' = [ret EXCEPT ![q].state = "failed"] /\ req[q].op = "bluegreen"
            /\ ret[q].state = "creating" /\ step = "done"
  PROVE  ProfilesInv'
  <1> USE DEF ProfilesInv
  <1>1. /\ req' \in [Reqs -> ReqRow]
        /\ req'[q].at = step /\ req'[q].op = req[q].op /\ req'[q].gen = req[q].gen
        /\ \A p \in Reqs : p # q => req'[p] = req[p]
        /\ \A p \in Reqs : req'[p].op = req[p].op /\ req'[p].gen = req[p].gen
    BY GoRow
  <1>2. /\ ret' \in [Reqs -> RetRow]
        /\ \A p \in Reqs : p # q => ret'[p] = ret[p]
        /\ ret'[q].gen = ret[q].gen
        /\ ret' = ret \/ (ret[q].state = "creating" /\ ret'[q].state = "failed")
    <2>1. ret \in [Reqs -> RetRow]
      BY DEF Rows
    <2>2. CASE ret' = ret
      BY <2>1, <2>2
    <2>3. CASE ret' # ret
      <3> DEFINE row == [ret[q] EXCEPT !.state = "failed"]
      <3>1. ret' = [ret EXCEPT ![q] = row]
        BY <2>1, <2>3
      <3>2. ret[q] \in RetRow
        BY <2>1
      <3>3. row \in RetRow /\ row.state = "failed" /\ row.gen = ret[q].gen
        BY <3>2 DEF RetRow, RetStates
      <3> HIDE DEF row
      <3> QED
        BY <2>1, <2>3, <3>1, <3>3
    <2> QED
      BY <2>2, <2>3
  <1>3. Rows'
    BY <1>1, <1>2 DEF Rows
  <1>4. FinShape'
    <2>1. fin.at = "retiring" => fin.of \in Reqs /\ ret[fin.of].state = "finalizing"
      BY DEF Shape, FinShape
    <2>2. fin'.at = "retiring" => fin'.of \in Reqs /\ ret'[fin'.of].state = "finalizing"
      BY <2>1, <1>2
    <2> QED
      BY <2>2 DEF Shape, FinShape
  <1>5. ReqShape(q)'
    <2>1. ReqShape(q)
      BY DEF Shape
    <2>2. CASE ret' = ret
      BY <2>1, <2>2, <1>1 DEF ReqShape
    <2>3. CASE ret' # ret
      BY <2>1, <2>3, <1>1, <1>2 DEF ReqShape
    <2> QED
      BY <2>2, <2>3
  <1>6. Shape'
    BY <1>1, <1>2, <1>4, <1>5, ShapeOfOthers
  <1>7. ImportFenced'
    BY OtherKindKept
  <1>8. GenerationsApart' /\ RetiredGone'
    <2>1. \A p \in Reqs : Pending(p)' => Pending(p)
      BY <1>1 DEF Pending
    <2>2. \A p \in Reqs : At(p, "bluegreen", "begun")' => At(p, "bluegreen", "begun")
      BY <1>1 DEF At
    <2>3. \A r \in OpenRes' : r \in OpenRes /\ res'[r].gen = res[r].gen
      BY DEF OpenRes
    <2>4. \A p \in Reqs :
            /\ ret'[p].gen = ret[p].gen
            /\ ret'[p].state # "none" => ret[p].state # "none"
            /\ ret'[p].state \in {"draining", "finalizing", "completed"} => ret'[p].state = ret[p].state
      BY <1>2
    <2> QED
      BY <1>1, <2>1, <2>2, <2>3, <2>4, GenerationsKept
  <1> QED
    BY <1>3, <1>6, <1>7, <1>8

\* An operation of the other provider shows which provider it is.
LEMMA DecodoByOp ==
  ASSUME Rows, Shape, NEW q \in Reqs, req[q].op \notin {"none", "import"}
  PROVE  kind = "decodo"
  BY TwoKinds DEF Shape, ReqShape

\* A fault is counted down to zero.
LEMMA FaultCounts ==
  ASSUME Rows, Fault
  PROVE  faults' \in 0..MaxFaults
  BY BoundsAreNaturals DEF Rows, Fault

\* A drain that is left to the scheduler keeps the invariant.
LEMMA LeaveToSchedulerKeeps ==
  ASSUME ProfilesInv, NEW q \in Reqs, LeaveToScheduler(q)
  PROVE  ProfilesInv'
  <1>1. /\ Go(q, "done") /\ prof' = Disabled("draining", "rotate") /\ req[q].op = "rotate"
        /\ UNCHANGED <<kind, file, res, ret, intent, fin, kill, faults>>
    BY DEF LeaveToScheduler, At
  <1>2. kind = "decodo"
    BY <1>1, DecodoByOp DEF ProfilesInv
  <1>3. prof' \in ProfRow /\ prof'.gen = prof.gen /\ prof'.routed = prof.routed /\ prof'.pending = "rotate"
    BY <1>1, DisabledRow DEF ProfilesInv, Lives, Pendings
  <1>4. kill' \in BOOLEAN /\ faults' \in 0..MaxFaults
    BY <1>1 DEF ProfilesInv, Rows
  <1>5. "done" \in Steps
    BY DEF Steps
  <1> QED
    BY <1>1, <1>2, <1>3, <1>4, <1>5, DecodoRequestStep

\* The fence of a disable keeps the invariant.
LEMMA FenceToDisableKeeps ==
  ASSUME ProfilesInv, NEW q \in Reqs, FenceToDisable(q)
  PROVE  ProfilesInv'
  <1> DEFINE step == IF req[q].quiet THEN "provider" ELSE "done"
  <1>1. /\ Go(q, step) /\ prof' = Disabled("draining", "disable") /\ req[q].op = "disable"
        /\ UNCHANGED <<kind, file, res, ret, intent, fin, kill, faults>>
    BY DEF FenceToDisable, At
  <1>2. kind = "decodo"
    BY <1>1, DecodoByOp DEF ProfilesInv
  <1>3. prof' \in ProfRow /\ prof'.gen = prof.gen /\ prof'.routed = prof.routed /\ prof'.pending = "disable"
    BY <1>1, DisabledRow DEF ProfilesInv, Lives, Pendings
  <1>4. kill' \in BOOLEAN /\ faults' \in 0..MaxFaults
    BY <1>1 DEF ProfilesInv, Rows
  <1>5. step \in Steps /\ step \in {"provider", "done"}
    BY DEF Steps
  <1> HIDE DEF step
  <1> QED
    BY <1>1, <1>2, <1>3, <1>4, <1>5, DecodoRequestStep

\* The provider's answer keeps the invariant.
LEMMA ProviderAnswersKeeps ==
  ASSUME ProfilesInv, NEW q \in Reqs, NEW ok \in BOOLEAN, ProviderAnswers(q, ok)
  PROVE  ProfilesInv'
  <1>1. /\ UNCHANGED <<kind, prof, file, res, intent, fin, kill>>
        /\ req[q].at = "provider" \/ (req[q].op = "rotate" /\ req[q].at = "begun")
    BY DEF ProviderAnswers, At
  <1>2. req[q].op \notin {"none", "import"}
    BY <1>1 DEF ProfilesInv, Shape, ReqShape
  <1>3. kind = "decodo"
    BY <1>2, DecodoByOp DEF ProfilesInv
  <1>4. prof' \in ProfRow /\ prof'.gen = prof.gen /\ prof'.routed = prof.routed
        /\ prof'.pending = prof.pending
    BY <1>1 DEF ProfilesInv, Rows
  <1>5. kill' \in BOOLEAN
    BY <1>1 DEF ProfilesInv, Rows
  <1>6. {"done", "write", "install"} \subseteq Steps
    BY DEF Steps
  <1>7. CASE ok
    <2> DEFINE step == IF req[q].op = "disable" THEN "write" ELSE "install"
    <2>1. Go(q, step) /\ ret' = ret /\ faults' = faults
      BY <1>7 DEF ProviderAnswers
    <2>2. faults' \in 0..MaxFaults
      BY <2>1 DEF ProfilesInv, Rows
    <2>3. step \in Steps /\ step \notin {"new", "begun"} /\ (step = "write" => req[q].op = "disable")
          /\ (req[q].op = "bluegreen" => step = "install" /\ req[q].at = "provider")
      BY <1>1, <1>6
    <2> HIDE DEF step
    <2> QED
      BY <1>1, <1>2, <1>3, <1>4, <1>5, <2>1, <2>2, <2>3, DecodoRequestStep
  <1>8. CASE ~ok
    <2>1. Go(q, "done") /\ Fault
          /\ ret' = IF req[q].op = "bluegreen" THEN [ret EXCEPT ![q].state = "failed"] ELSE ret
      BY <1>8 DEF ProviderAnswers
    <2>2. faults' \in 0..MaxFaults
      BY <2>1, FaultCounts DEF ProfilesInv
    <2>3. req[q].op = "bluegreen" => ret[q].state = "creating"
      BY <1>1 DEF ProfilesInv, Shape, ReqShape
    <2> QED
      BY <1>1, <1>2, <1>3, <1>4, <1>5, <1>6, <2>1, <2>2, <2>3, DecodoRequestStep
  <1> QED
    BY <1>7, <1>8

\* A secret that cannot be installed fences the row and keeps the invariant.
LEMMA InstallFailsKeeps ==
  ASSUME ProfilesInv, NEW q \in Reqs, InstallFails(q)
  PROVE  ProfilesInv'
  <1>1. /\ UNCHANGED <<kind, file, res, intent, fin>> /\ Go(q, "done") /\ kill' = TRUE
        /\ req[q].op \in {"rotate", "bluegreen"} /\ req[q].at = "install"
        /\ prof' = Disabled("local_failed", prof.pending)
        /\ ret' = IF req[q].op = "bluegreen" THEN [ret EXCEPT ![q].state = "failed"] ELSE ret
    BY DEF InstallFails
  <1>2. Fault \/ faults' = faults
    BY DEF InstallFails
  <1>3. faults' \in 0..MaxFaults
    <2>1. CASE Fault
      BY <2>1, FaultCounts DEF ProfilesInv
    <2>2. CASE faults' = faults
      BY <2>2 DEF ProfilesInv, Rows
    <2> QED
      BY <1>2, <2>1, <2>2
  <1>4. kind = "decodo"
    BY <1>1, DecodoByOp DEF ProfilesInv
  <1>5. prof.pending \in Pendings
    BY DEF ProfilesInv, Rows, ProfRow
  <1>6. prof' \in ProfRow /\ prof'.gen = prof.gen /\ prof'.routed = prof.routed
        /\ prof'.pending = prof.pending
    BY <1>1, <1>5, DisabledRow DEF ProfilesInv, Lives
  <1>7. "done" \in Steps
    BY DEF Steps
  <1>8. req[q].op = "bluegreen" => ret[q].state = "creating"
    BY <1>1 DEF ProfilesInv, Shape, ReqShape
  <1> QED
    BY <1>1, <1>3, <1>4, <1>6, <1>7, <1>8, DecodoRequestStep

\* profile_action reads a generation that no request is about to write: the row
\* has it.
LEMMA BeginActionKeeps ==
  ASSUME ProfilesInv, NEW q \in Reqs, NEW op \in {"rotate", "bluegreen", "disable"},
         BeginAction(q, op)
  PROVE  ProfilesInv'
  <1> USE DEF ProfilesInv
  <1> DEFINE row == [op |-> op, at |-> "begun", gen |-> prof.gen, user |-> prof.user,
                     quiet |-> OpenRes = {}]
  <1>1. /\ kind = "decodo" /\ req[q].op = "none" /\ req' = [req EXCEPT ![q] = row]
        /\ UNCHANGED <<kind, prof, file, res, ret, intent, fin, kill, faults>>
    BY DEF BeginAction, Fresh
  <1>2. row \in ReqRow /\ row.op = op /\ row.at = "begun" /\ row.gen = prof.gen
    <2>1. prof.gen \in Generations /\ prof.user \in Users
      BY DEF Rows, ProfRow
    <2>2. (OpenRes = {}) \in BOOLEAN
      OBVIOUS
    <2> QED
      BY <2>1, <2>2 DEF ReqRow, Ops, Steps
  <1> HIDE DEF row
  <1>3. req \in [Reqs -> ReqRow]
    BY DEF Rows
  <1>4. req'[q] = row /\ \A p \in Reqs : p # q => req'[p] = req[p]
    BY <1>1, <1>3
  <1>5. Rows'
    BY <1>1, <1>2, <1>3 DEF Rows
  <1>6. Shape'
    <2>1. ReqShape(q)
      BY DEF Shape
    <2>2. ReqShape(q)'
      BY <2>1, <1>1, <1>2, <1>4 DEF ReqShape
    <2>3. FinShape'
      BY <1>1 DEF Shape, FinShape
    <2> QED
      BY <2>2, <2>3, <1>1, <1>4, ShapeOfOthers
  <1>7. ImportFenced'
    BY <1>1, OtherKindKept
  <1>8. GenerationsApart'
    <2>1. SUFFICES ASSUME prof.routed PROVE GenerationsApart'
      BY <1>1 DEF GenerationsApart
    <2>2. \A p \in Reqs : Pending(p)' => Pending(p) /\ req'[p].gen = req[p].gen /\ p # q
      BY <1>2, <1>4 DEF Pending
    <2>3. \A p \in Reqs : p # q => (At(p, "bluegreen", "begun")' <=> At(p, "bluegreen", "begun"))
      BY <1>4 DEF At
    <2>4. \A p \in Reqs : req'[p].op # "none" => req'[p].gen <= file.gen
      BY <1>1, <1>2, <1>4, <2>1 DEF GenerationsApart
    <2> HIDE DEF Pending, At
    <2>5. \A p, s \in Reqs : Pending(p)' /\ s # p /\ (Pending(s)' \/ At(s, "bluegreen", "begun")')
            => req'[s].gen # req'[p].gen
      BY <1>1, <1>2, <1>4, <2>1, <2>2, <2>3 DEF GenerationsApart
    <2> QED
      BY <1>1, <2>1, <2>2, <2>4, <2>5 DEF GenerationsApart
  <1>9. RetiredGone'
    BY <1>1 DEF RetiredGone, LeasesGone, OpenRes
  <1> QED
    BY <1>5, <1>6, <1>7, <1>8, <1>9

\* A blue-green rotation records the generation it read.
LEMMA OpenBlueGreenKeeps ==
  ASSUME ProfilesInv, NEW q \in Reqs, OpenBlueGreen(q)
  PROVE  ProfilesInv'
  <1> USE DEF ProfilesInv
  <1> DEFINE row == [state |-> "creating", gen |-> req[q].gen, user |-> req[q].user]
  <1>1. /\ req[q].op = "bluegreen" /\ req[q].at = "begun"
        /\ ret' = [ret EXCEPT ![q] = row] /\ Go(q, "provider")
        /\ UNCHANGED <<kind, prof, file, res, intent, fin, kill, faults>>
    BY DEF OpenBlueGreen, At
  <1>2. row \in RetRow /\ row.state = "creating" /\ row.gen = req[q].gen
    <2>1. req[q].gen \in Generations /\ req[q].user \in Users
      BY RowByRow DEF ReqRow
    <2> QED
      BY <2>1 DEF RetRow, RetStates
  <1> HIDE DEF row
  <1>3. ret \in [Reqs -> RetRow]
    BY DEF Rows
  <1>4. ret'[q] = row /\ \A p \in Reqs : p # q => ret'[p] = ret[p]
    BY <1>1, <1>3
  <1>5. /\ req' \in [Reqs -> ReqRow]
        /\ req'[q].at = "provider" /\ req'[q].op = "bluegreen" /\ req'[q].gen = req[q].gen
        /\ \A p \in Reqs : p # q => req'[p] = req[p]
        /\ \A p \in Reqs : req'[p].op = req[p].op /\ req'[p].gen = req[p].gen
    BY <1>1, GoRow DEF Steps
  <1>6. Rows'
    BY <1>1, <1>2, <1>3, <1>5 DEF Rows
  <1>7. kind = "decodo"
    BY <1>1, DecodoByOp
  <1>8. ret[q].state = "none"
    BY <1>1 DEF Shape, ReqShape
  <1>9. Shape'
    <2>1. ReqShape(q)
      BY DEF Shape
    <2>2. ReqShape(q)'
      BY <2>1, <1>1, <1>2, <1>4, <1>5 DEF ReqShape
    <2>3. FinShape'
      BY <1>1, <1>4, <1>8 DEF Shape, FinShape
    <2> QED
      BY <2>2, <2>3, <1>1, <1>4, <1>5, ShapeOfOthers
  <1>10. ImportFenced'
    BY <1>1, <1>7, OtherKindKept
  <1>11. GenerationsApart'
    <2>1. SUFFICES ASSUME prof.routed PROVE GenerationsApart'
      BY <1>1 DEF GenerationsApart
    <2>2. \A p \in Reqs : Pending(p)' => Pending(p) /\ p # q
      BY <1>5 DEF Pending
    <2>3. \A p \in Reqs : At(p, "bluegreen", "begun")' => At(p, "bluegreen", "begun")
      BY <1>5 DEF At
    <2>4. At(q, "bluegreen", "begun")
      BY <1>1 DEF At
    <2> HIDE DEF Pending, At
    <2>5. \A p \in Reqs : Pending(p)' => ret'[q].gen # req'[p].gen
      BY <1>2, <1>4, <1>5, <1>7, <2>1, <2>2, <2>4 DEF GenerationsApart
    <2>6. \A p, s \in Reqs : Pending(p)' /\ ret'[s].state # "none" => ret'[s].gen # req'[p].gen
      BY <1>4, <1>5, <1>7, <2>1, <2>2, <2>5 DEF GenerationsApart
    <2>7. \A s \in Reqs : ret'[s].state # "none" => ret'[s].gen <= file.gen
      BY <1>1, <1>2, <1>4, <1>7, <2>1 DEF GenerationsApart
    <2>8. \A s \in Reqs : ret'[s].state \in {"draining", "finalizing", "completed"}
            => ret'[s].gen # prof.gen
      BY <1>2, <1>4, <1>7, <2>1 DEF GenerationsApart
    <2> QED
      BY <1>1, <1>5, <1>7, <2>1, <2>2, <2>3, <2>6, <2>7, <2>8 DEF GenerationsApart
  <1>12. RetiredGone'
    <2>1. OpenRes' = OpenRes /\ res' = res
      BY <1>1 DEF OpenRes
    <2> QED
      BY <2>1, <1>2, <1>4 DEF RetiredGone, LeasesGone
  <1> QED
    BY <1>6, <1>9, <1>10, <1>11, <1>12

\* ProfileSecretStore.install makes a generation that nothing else has.
LEMMA InstallSecretKeeps ==
  ASSUME ProfilesInv, NEW q \in Reqs, InstallSecret(q)
  PROVE  ProfilesInv'
  <1> USE DEF ProfilesInv
  <1> DEFINE row == [req[q] EXCEPT !.at = "write", !.gen = file.gen + 1]
             user == IF req[q].op = "rotate" THEN file.user ELSE q
  <1>1. /\ req[q].op \in {"rotate", "bluegreen"} /\ req[q].at = "install" /\ file.gen < MaxGen
        /\ file' = [gen |-> file.gen + 1, user |-> user]
        /\ UNCHANGED <<kind, prof, res, ret, intent, fin, kill, faults>>
    BY DEF InstallSecret
  <1>2. req \in [Reqs -> ReqRow] /\ req[q] \in ReqRow
    BY DEF Rows
  <1>3. req' = [req EXCEPT ![q] = row]
    BY <1>2 DEF InstallSecret
  <1>4. file.gen \in Nat /\ prof.gen \in Nat /\ file.gen + 1 \in Generations
    BY <1>1, RowByRow DEF Generations
  <1>5. row \in ReqRow /\ row.at = "write" /\ row.op = req[q].op /\ row.gen = file.gen + 1
    BY <1>2, <1>4 DEF ReqRow, Steps
  <1>6. user \in Users
    BY DEF Users, Rows, FileRow
  <1> HIDE DEF row, user
  <1>7. req'[q] = row /\ \A p \in Reqs : p # q => req'[p] = req[p]
    BY <1>2, <1>3
  <1>8. file' \in FileRow /\ file'.gen = file.gen + 1
    BY <1>1, <1>4, <1>6 DEF FileRow
  <1>9. Rows'
    BY <1>1, <1>2, <1>3, <1>5, <1>8 DEF Rows
  <1>10. kind = "decodo"
    BY <1>1, DecodoByOp
  <1>11. Shape'
    <2>1. ReqShape(q)
      BY DEF Shape
    <2>2. ReqShape(q)'
      BY <2>1, <1>1, <1>5, <1>7 DEF ReqShape
    <2>3. FinShape'
      BY <1>1 DEF Shape, FinShape
    <2> QED
      BY <2>2, <2>3, <1>1, <1>7, ShapeOfOthers
  <1>12. ImportFenced'
    BY <1>1, <1>10, OtherKindKept
  <1>13. GenerationsApart'
    <2>1. SUFFICES ASSUME prof.routed PROVE GenerationsApart'
      BY <1>1 DEF GenerationsApart
    <2>2. \A p \in Reqs : p # q => (Pending(p)' => Pending(p))
      BY <1>7 DEF Pending
    <2>3. \A p \in Reqs : At(p, "bluegreen", "begun")' => At(p, "bluegreen", "begun")
      BY <1>1, <1>5, <1>7 DEF At
    <2>4. \A p \in Reqs : At(p, "bluegreen", "begun") \/ Pending(p) => req[p].op # "none"
      BY DEF At, Pending
    <2>5. \A p \in Reqs : req[p].gen \in Nat /\ ret[p].gen \in Nat
      BY RowByRow DEF ReqRow, RetRow, Generations
    <2> HIDE DEF Pending, At
    <2>6. \A p \in Reqs : (req[p].op # "none" => req[p].gen < file.gen + 1)
                          /\ (ret[p].state # "none" => ret[p].gen < file.gen + 1)
      BY <1>4, <1>10, <2>1, <2>5 DEF GenerationsApart
    <2>7. prof.gen < file.gen + 1
      BY <1>4, <1>10, <2>1 DEF GenerationsApart
    <2>8. \A p \in Reqs : (req'[p].op # "none" => req'[p].gen <= file'.gen)
                          /\ (ret'[p].state # "none" => ret'[p].gen <= file'.gen)
      BY <1>1, <1>4, <1>5, <1>7, <1>8, <2>5, <2>6
    <2>9. \A p \in Reqs : Pending(p)' => req'[p].gen # prof'.gen
      BY <1>1, <1>4, <1>5, <1>7, <1>10, <2>1, <2>2, <2>7 DEF GenerationsApart
    <2>10. \A p, s \in Reqs : Pending(p)' /\ s # p /\ (Pending(s)' \/ At(s, "bluegreen", "begun")')
             => req'[s].gen # req'[p].gen
      <3>1. SUFFICES ASSUME NEW p \in Reqs, NEW s \in Reqs, Pending(p)', s # p,
                            Pending(s)' \/ At(s, "bluegreen", "begun")'
                     PROVE  req'[s].gen # req'[p].gen
        OBVIOUS
      <3>2. CASE p = q
        BY <3>1, <3>2, <1>4, <1>5, <1>7, <2>2, <2>3, <2>4, <2>5, <2>6
      <3>3. CASE s = q
        BY <3>1, <3>3, <1>4, <1>5, <1>7, <2>2, <2>4, <2>5, <2>6
      <3>4. CASE p # q /\ s # q
        BY <3>1, <3>4, <1>7, <1>10, <2>1, <2>2, <2>3 DEF GenerationsApart
      <3> QED
        BY <3>2, <3>3, <3>4
    <2>11. \A p, s \in Reqs : Pending(p)' /\ ret'[s].state # "none" => ret'[s].gen # req'[p].gen
      <3>1. SUFFICES ASSUME NEW p \in Reqs, NEW s \in Reqs, Pending(p)', ret[s].state # "none"
                     PROVE  ret[s].gen # req'[p].gen
        BY <1>1
      <3>2. CASE p = q
        BY <3>1, <3>2, <1>4, <1>5, <1>7, <2>5, <2>6
      <3>3. CASE p # q
        BY <3>1, <3>3, <1>7, <1>10, <2>1, <2>2 DEF GenerationsApart
      <3> QED
        BY <3>2, <3>3
    <2>12. prof'.gen <= file'.gen
      BY <1>1, <1>4, <1>8, <2>7
    <2>13. \A s \in Reqs : ret'[s].state \in {"draining", "finalizing", "completed"}
             => ret'[s].gen # prof'.gen
      BY <1>1, <1>10, <2>1 DEF GenerationsApart
    <2> QED
      BY <2>8, <2>9, <2>10, <2>11, <2>12, <2>13 DEF GenerationsApart
  <1>14. RetiredGone'
    BY <1>1 DEF RetiredGone, LeasesGone, OpenRes
  <1> QED
    BY <1>9, <1>11, <1>12, <1>13, <1>14

\* The last write of a rotation brings a generation into the row that no
\* retirement names and no other request is about to write.
LEMMA WriteGeneration ==
  ASSUME ProfilesInv, NEW q \in Reqs, Pending(q), Go(q, "done"),
         UNCHANGED <<kind, file, res, intent, fin, kill, faults>>,
         prof' \in ProfRow, prof'.gen = req[q].gen, prof'.routed = prof.routed,
         prof'.pending = prof.pending,
         ret' = IF req[q].op = "bluegreen" THEN [ret EXCEPT ![q].state = "draining"] ELSE ret
  PROVE  ProfilesInv'
  <1> USE DEF ProfilesInv
  <1>1. req[q].op \in {"rotate", "bluegreen"} /\ req[q].at = "write"
    BY DEF Pending
  <1>2. kind = "decodo"
    BY <1>1, DecodoByOp
  <1>3. /\ req' \in [Reqs -> ReqRow]
        /\ req'[q].at = "done" /\ req'[q].op = req[q].op
        /\ \A p \in Reqs : p # q => req'[p] = req[p]
        /\ \A p \in Reqs : req'[p].op = req[p].op /\ req'[p].gen = req[p].gen
    BY GoRow DEF Steps
  <1>4. /\ ret' \in [Reqs -> RetRow]
        /\ \A p \in Reqs : p # q => ret'[p] = ret[p]
        /\ ret'[q].gen = ret[q].gen
        /\ req[q].op # "bluegreen" => ret'[q].state = ret[q].state
        /\ req[q].op = "bluegreen" => ret[q].state = "creating" /\ ret'[q].state = "draining"
    <2>1. ret \in [Reqs -> RetRow]
      BY DEF Rows
    <2>2. CASE req[q].op # "bluegreen"
      BY <2>1, <2>2
    <2>3. CASE req[q].op = "bluegreen"
      <3> DEFINE row == [ret[q] EXCEPT !.state = "draining"]
      <3>1. ret' = [ret EXCEPT ![q] = row]
        BY <2>1, <2>3
      <3>2. ret[q] \in RetRow
        BY <2>1
      <3>3. row \in RetRow /\ row.state = "draining" /\ row.gen = ret[q].gen
        BY <3>2 DEF RetRow, RetStates
      <3>4. ret[q].state = "creating"
        BY <1>1, <2>3 DEF Shape, ReqShape
      <3> HIDE DEF row
      <3> QED
        BY <2>1, <2>3, <3>1, <3>3, <3>4
    <2> QED
      BY <2>2, <2>3
  <1>5. Rows'
    BY <1>3, <1>4 DEF Rows
  <1>6. ReqShape(q)
    BY DEF Shape
  <1>7. ReqShape(q)'
    BY <1>1, <1>2, <1>3, <1>4, <1>6 DEF ReqShape
  <1>8. FinShape'
    <2>1. fin.at = "retiring" => fin.of \in Reqs /\ ret[fin.of].state = "finalizing"
      BY DEF Shape, FinShape
    <2>2. ret[q].state # "finalizing"
      BY <1>1, <1>4, <1>6 DEF ReqShape
    <2>3. fin'.at = "retiring" => fin'.of \in Reqs /\ ret'[fin'.of].state = "finalizing"
      BY <2>1, <2>2, <1>4
    <2> QED
      BY <2>3, <1>2 DEF Shape, FinShape
  <1>9. Shape'
    BY <1>3, <1>4, <1>7, <1>8, ShapeOfOthers
  <1>10. ImportFenced'
    BY <1>2, OtherKindKept
  <1>11. GenerationsApart'
    <2>1. SUFFICES ASSUME prof.routed PROVE GenerationsApart'
      BY DEF GenerationsApart
    <2>2. \A p \in Reqs : Pending(p)' => Pending(p) /\ p # q
      BY <1>3 DEF Pending
    <2>3. \A p \in Reqs : At(p, "bluegreen", "begun")' => At(p, "bluegreen", "begun")
      BY <1>3 DEF At
    <2>4. \A p \in Reqs : (ret'[p].state # "none" => ret[p].state # "none") /\ ret'[p].gen = ret[p].gen
      BY <1>4
    <2> HIDE DEF Pending, At
    <2>5. prof'.gen <= file'.gen
      BY <1>1, <1>2, <2>1 DEF GenerationsApart
    <2>6. \A p \in Reqs : Pending(p)' => req'[p].gen # prof'.gen
      BY <1>2, <1>3, <2>1, <2>2 DEF GenerationsApart
    <2>7. \A p \in Reqs : ret[p].state # "none" => ret[p].gen # req[q].gen
      BY <1>2, <2>1 DEF GenerationsApart
    <2>8. \A p \in Reqs : ret'[p].state \in {"draining", "finalizing", "completed"}
            => ret'[p].gen # prof'.gen
      BY <2>4, <2>7
    <2> QED
      BY <1>2, <1>3, <2>1, <2>2, <2>3, <2>4, <2>5, <2>6, <2>8 DEF GenerationsApart
  <1>12. RetiredGone'
    <2>1. OpenRes' = OpenRes
      BY DEF OpenRes
    <2>2. \A p \in Reqs : ret'[p].state \in {"finalizing", "completed"}
            => ret[p].state \in {"finalizing", "completed"} /\ ret'[p].gen = ret[p].gen
      BY <1>4
    <2> QED
      BY <2>1, <2>2 DEF RetiredGone, LeasesGone
  <1> QED
    BY <1>5, <1>9, <1>10, <1>11, <1>12

\* The last write of a request keeps the invariant, although it looks at
\* nothing.
LEMMA WriteProfileKeeps ==
  ASSUME ProfilesInv, NEW q \in Reqs, WriteProfile(q)
  PROVE  ProfilesInv'
  <1>1. /\ req[q].op \in {"rotate", "bluegreen", "disable"} /\ req[q].at = "write" /\ Go(q, "done")
        /\ ret' = IF req[q].op = "bluegreen" THEN [ret EXCEPT ![q].state = "draining"] ELSE ret
        /\ UNCHANGED <<kind, file, res, intent, fin, kill, faults>>
    BY DEF WriteProfile
  <1>2. prof \in ProfRow /\ req[q].gen \in Generations /\ q \in Users
    BY RowByRow DEF ProfilesInv, Rows, ReqRow, Users
  <1>3. kind = "decodo"
    BY <1>1, DecodoByOp DEF ProfilesInv
  <1>4. CASE req[q].op = "disable"
    <2>1. prof' = [prof EXCEPT !.life = "disabled", !.pending = "none"]
      BY <1>4 DEF WriteProfile
    <2>2. prof' \in ProfRow /\ prof'.gen = prof.gen /\ prof'.routed = prof.routed
          /\ prof'.pending = "none"
      BY <2>1, <1>2 DEF ProfRow, Lives, Pendings
    <2>3. kill' \in BOOLEAN /\ faults' \in 0..MaxFaults /\ "done" \in Steps
      BY <1>1 DEF ProfilesInv, Rows, Steps
    <2> QED
      BY <1>1, <1>3, <1>4, <2>2, <2>3, DecodoRequestStep
  <1>5. CASE req[q].op = "rotate"
    <2>1. prof' = [prof EXCEPT !.life = "enabled", !.on = TRUE, !.gen = req[q].gen]
      BY <1>5 DEF WriteProfile
    <2>2. prof' \in ProfRow /\ prof'.gen = req[q].gen /\ prof'.routed = prof.routed
          /\ prof'.pending = prof.pending
      BY <2>1, <1>2 DEF ProfRow, Lives
    <2>3. Pending(q)
      BY <1>1, <1>5 DEF Pending
    <2> QED
      BY <1>1, <2>2, <2>3, WriteGeneration
  <1>6. CASE req[q].op = "bluegreen"
    <2>1. prof' = [prof EXCEPT !.life = "enabled", !.on = TRUE, !.gen = req[q].gen, !.user = q]
      BY <1>6 DEF WriteProfile
    <2>2. prof' \in ProfRow /\ prof'.gen = req[q].gen /\ prof'.routed = prof.routed
          /\ prof'.pending = prof.pending
      BY <2>1, <1>2 DEF ProfRow, Lives
    <2>3. Pending(q)
      BY <1>1, <1>6 DEF Pending
    <2> QED
      BY <1>1, <2>2, <2>3, WriteGeneration
  <1> QED
    BY <1>1, <1>4, <1>5, <1>6

\* retire_profile leaves no route, so that generations no longer matter.
LEMMA RetireProfileKeeps ==
  ASSUME ProfilesInv, NEW q \in Reqs, RetireProfile(q)
  PROVE  ProfilesInv'
  <1> USE DEF ProfilesInv
  <1> DEFINE row == [req[q] EXCEPT !.op = "retire", !.at = "done"]
             fence == Disabled("draining", "retire")
  <1>1. /\ kind = "decodo" /\ req[q].op = "none" /\ prof' = [fence EXCEPT !.routed = FALSE]
        /\ UNCHANGED <<kind, file, res, ret, intent, fin, kill, faults>>
    BY DEF RetireProfile, Fresh
  <1>2. req \in [Reqs -> ReqRow] /\ req[q] \in ReqRow
    BY DEF Rows
  <1>3. req' = [req EXCEPT ![q] = row]
    BY <1>2 DEF RetireProfile
  <1>4. row \in ReqRow /\ row.op = "retire" /\ row.at = "done"
    BY <1>2 DEF ReqRow, Ops, Steps
  <1>5. fence \in ProfRow
    BY DisabledRow DEF Lives, Pendings
  <1> HIDE DEF row, fence
  <1>6. prof' \in ProfRow /\ prof'.routed = FALSE
    BY <1>1, <1>5 DEF ProfRow
  <1>7. req'[q] = row /\ \A p \in Reqs : p # q => req'[p] = req[p]
    BY <1>2, <1>3
  <1>8. Rows'
    BY <1>1, <1>2, <1>3, <1>4, <1>6 DEF Rows
  <1>9. Shape'
    <2>1. ReqShape(q)
      BY DEF Shape
    <2>2. ReqShape(q)'
      BY <2>1, <1>1, <1>4, <1>7 DEF ReqShape
    <2>3. FinShape'
      BY <1>1, <1>6 DEF Shape, FinShape
    <2> QED
      BY <2>2, <2>3, <1>1, <1>7, ShapeOfOthers
  <1>10. ImportFenced'
    BY <1>1, OtherKindKept
  <1>11. GenerationsApart'
    BY <1>6 DEF GenerationsApart
  <1>12. RetiredGone'
    BY <1>1 DEF RetiredGone, LeasesGone, OpenRes
  <1> QED
    BY <1>8, <1>9, <1>10, <1>11, <1>12

-----------------------------------------------------------------------------
(* The scheduler's finalizers. *)

\* finalize_retirements takes a retirement up only when its leases are gone.
LEMMA StartRetirementKeeps ==
  ASSUME ProfilesInv, NEW q \in Reqs, StartRetirement(q)
  PROVE  ProfilesInv'
  <1> USE DEF ProfilesInv
  <1> DEFINE row == [ret[q] EXCEPT !.state = "finalizing"]
  <1>1. /\ fin.at = "idle" /\ ret[q].state = "draining" /\ LeasesGone(ret[q].gen)
        /\ fin' = [at |-> "retiring", of |-> q]
        /\ UNCHANGED <<kind, prof, file, res, req, intent, kill, faults>>
    BY DEF StartRetirement
  <1>2. ret \in [Reqs -> RetRow] /\ ret[q] \in RetRow
    BY DEF Rows
  <1>3. ret' = [ret EXCEPT ![q] = row]
    BY <1>2 DEF StartRetirement
  <1>4. row \in RetRow /\ row.state = "finalizing" /\ row.gen = ret[q].gen
    BY <1>2 DEF RetRow, RetStates
  <1> HIDE DEF row
  <1>5. ret'[q] = row /\ \A p \in Reqs : p # q => ret'[p] = ret[p]
    BY <1>2, <1>3
  <1>6. fin' \in FinRow /\ fin'.at = "retiring" /\ fin'.of = q
    BY <1>1 DEF FinRow
  <1>7. Rows'
    BY <1>1, <1>2, <1>3, <1>4, <1>6 DEF Rows
  <1>8. ReqShape(q)
    BY DEF Shape
  <1>9. kind = "decodo"
    BY <1>1, <1>8, TwoKinds DEF ReqShape
  <1>10. Shape'
    <2>1. ReqShape(q)'
      BY <1>1, <1>4, <1>5, <1>8 DEF ReqShape
    <2>2. FinShape'
      BY <1>1, <1>4, <1>5, <1>6, <1>9 DEF Shape, FinShape
    <2> QED
      BY <2>1, <2>2, <1>1, <1>5, ShapeOfOthers
  <1>11. ImportFenced'
    BY <1>1, <1>9, OtherKindKept
  <1>12. GenerationsApart'
    BY <1>1, <1>4, <1>5 DEF GenerationsApart, Pending, At
  <1>13. RetiredGone'
    <2>1. OpenRes' = OpenRes
      BY <1>1 DEF OpenRes
    <2> QED
      BY <2>1, <1>1, <1>4, <1>5 DEF RetiredGone, LeasesGone
  <1> QED
    BY <1>7, <1>10, <1>11, <1>12, <1>13

\* The end of a retirement keeps the invariant, whether the provider deleted
\* the sub-user or not.
LEMMA EndRetirementKeeps ==
  ASSUME ProfilesInv, NEW ok \in BOOLEAN, EndRetirement(ok)
  PROVE  ProfilesInv'
  <1> USE DEF ProfilesInv
  <1> DEFINE end == IF ok THEN "completed" ELSE "failed"
  <1>1. /\ fin.at = "retiring" /\ fin' = [at |-> "idle", of |-> Nobody]
        /\ UNCHANGED <<kind, prof, file, res, req, intent>>
    BY DEF EndRetirement
  <1>2. PICK q \in Reqs : q = fin.of /\ ret[q].state = "finalizing"
    BY <1>1 DEF Shape, FinShape
  <1> DEFINE row == [ret[q] EXCEPT !.state = end]
  <1>3. ret \in [Reqs -> RetRow] /\ ret[q] \in RetRow
    BY <1>2 DEF Rows
  <1>4. ret' = [ret EXCEPT ![q] = row]
    BY <1>2, <1>3 DEF EndRetirement
  <1>5. end \in {"completed", "failed"}
    OBVIOUS
  <1> HIDE DEF end
  <1>6. row \in RetRow /\ row.state = end /\ row.gen = ret[q].gen
    BY <1>3, <1>5 DEF RetRow, RetStates
  <1>7. kill' \in BOOLEAN
    BY DEF EndRetirement, Rows
  <1>8. faults' \in 0..MaxFaults
    <2>1. Fault \/ faults' = faults
      BY DEF EndRetirement
    <2>2. CASE Fault
      BY <2>2, FaultCounts
    <2>3. CASE faults' = faults
      BY <2>3 DEF Rows
    <2> QED
      BY <2>1, <2>2, <2>3
  <1> HIDE DEF row
  <1>9. ret'[q] = row /\ \A p \in Reqs : p # q => ret'[p] = ret[p]
    BY <1>2, <1>3, <1>4
  <1>10. fin' \in FinRow /\ fin'.at = "idle"
    BY <1>1 DEF FinRow
  <1>11. Rows'
    BY <1>1, <1>2, <1>3, <1>4, <1>6, <1>7, <1>8, <1>10 DEF Rows
  <1>12. ReqShape(q)
    BY <1>2 DEF Shape
  <1>13. kind = "decodo"
    BY <1>2, <1>12, TwoKinds DEF ReqShape
  <1>14. Shape'
    <2>1. ReqShape(q)'
      BY <1>1, <1>2, <1>5, <1>6, <1>9, <1>12 DEF ReqShape
    <2>2. FinShape'
      BY <1>1, <1>10, <1>13 DEF Shape, FinShape
    <2> QED
      BY <2>1, <2>2, <1>1, <1>2, <1>9, ShapeOfOthers
  <1>15. ImportFenced'
    BY <1>1, <1>13, OtherKindKept
  <1>16. GenerationsApart' /\ RetiredGone'
    <2>1. \A p \in Reqs : Pending(p)' => Pending(p)
      BY <1>1 DEF Pending
    <2>2. \A p \in Reqs : At(p, "bluegreen", "begun")' => At(p, "bluegreen", "begun")
      BY <1>1 DEF At
    <2>3. \A r \in OpenRes' : r \in OpenRes /\ res'[r].gen = res[r].gen
      BY <1>1 DEF OpenRes
    <2>4. \A p \in Reqs :
            /\ ret'[p].gen = ret[p].gen
            /\ ret'[p].state # "none" => ret[p].state # "none"
            /\ ret'[p].state \in {"draining", "finalizing", "completed"}
                 => ret[p].state \in {"draining", "finalizing", "completed"}
            /\ ret'[p].state \in {"finalizing", "completed"}
                 => ret[p].state \in {"finalizing", "completed"}
      BY <1>2, <1>6, <1>9
    <2> QED
      BY <1>1, <2>1, <2>2, <2>3, <2>4, GenerationsKept
  <1> QED
    BY <1>11, <1>14, <1>15, <1>16

\* What is left to show of a step that touches no row of a request, of a
\* reservation or of a retirement, and neither the file nor the row's
\* generation.
LEMMA QuietStep ==
  ASSUME ProfilesInv, UNCHANGED <<kind, file, res, req, ret, intent>>,
         fin' \in FinRow, kill' \in BOOLEAN, faults' \in 0..MaxFaults,
         prof' \in ProfRow, prof'.gen = prof.gen, prof'.routed = prof.routed, prof'.on => prof.on,
         FinShape'
  PROVE  ProfilesInv'
  <1> USE DEF ProfilesInv
  <1>1. Rows'
    BY DEF Rows
  <1>2. Shape'
    BY DEF Shape, ReqShape
  <1>3. \A r \in OpenRes' : r \in OpenRes /\ res'[r].gen = res[r].gen
    BY DEF OpenRes
  <1>4. ImportFenced'
    BY <1>3, ImportsKept
  <1>5. \A p \in Reqs : (Pending(p)' => Pending(p))
                        /\ (At(p, "bluegreen", "begun")' => At(p, "bluegreen", "begun"))
    BY DEF Pending, At
  <1>6. GenerationsApart' /\ RetiredGone'
    BY <1>3, <1>5, GenerationsKept
  <1> QED
    BY <1>1, <1>2, <1>4, <1>6

\* A drain that is taken up keeps the invariant.
LEMMA StartDrainKeeps ==
  ASSUME ProfilesInv, StartDrain
  PROVE  ProfilesInv'
  <1>1. /\ prof.life = "draining" /\ prof.pending # "none"
        /\ fin' = [at |-> prof.pending, of |-> Nobody]
        /\ UNCHANGED <<kind, prof, file, res, req, ret, intent, kill, faults>>
    BY DEF StartDrain
  <1>2. prof \in ProfRow /\ prof.pending \in {"rotate", "disable", "retire"}
    BY <1>1 DEF ProfilesInv, Rows, ProfRow, Pendings
  <1>3. fin' \in FinRow /\ fin'.at = prof.pending
    BY <1>1, <1>2 DEF FinRow
  <1>4. FinShape'
    BY <1>1, <1>2, <1>3 DEF ProfilesInv, Shape, FinShape
  <1>5. prof'.on => prof.on
    BY <1>1
  <1>6. kill' \in BOOLEAN /\ faults' \in 0..MaxFaults
    BY <1>1 DEF ProfilesInv, Rows
  <1> QED
    BY <1>1, <1>2, <1>3, <1>4, <1>5, <1>6, QuietStep

\* A drain that fails fences the row and keeps the invariant.
LEMMA DrainFailsKeeps ==
  ASSUME ProfilesInv, DrainFails
  PROVE  ProfilesInv'
  <1>1. /\ fin.at \in {"rotate", "disable", "retire"} /\ fin' = [at |-> "idle", of |-> Nobody]
        /\ kill' = TRUE /\ prof' = Disabled("local_failed", prof.pending)
        /\ UNCHANGED <<kind, file, res, req, ret, intent>>
    BY DEF DrainFails
  <1>2. prof.pending \in Pendings
    BY DEF ProfilesInv, Rows, ProfRow
  <1>3. /\ prof' \in ProfRow /\ prof'.gen = prof.gen /\ prof'.routed = prof.routed
        /\ prof'.pending = prof.pending /\ prof'.life = "local_failed" /\ prof'.on = FALSE
    BY <1>1, <1>2, DisabledRow DEF ProfilesInv, Lives
  <1>4. fin' \in FinRow /\ fin'.at = "idle"
    BY <1>1 DEF FinRow
  <1>5. FinShape'
    BY <1>1, <1>3, <1>4 DEF ProfilesInv, Shape, FinShape
  <1>6. faults' \in 0..MaxFaults
    <2>1. Fault \/ faults' = faults
      BY DEF DrainFails
    <2>2. CASE Fault
      BY <2>2, FaultCounts DEF ProfilesInv
    <2>3. CASE faults' = faults
      BY <2>3 DEF ProfilesInv, Rows
    <2> QED
      BY <2>1, <2>2, <2>3
  <1> QED
    BY <1>1, <1>3, <1>4, <1>5, <1>6, QuietStep

\* The restart of the control plane leaves the row and the file as they are.
LEMMA SchedulerDiesKeeps ==
  ASSUME ProfilesInv, SchedulerDies
  PROVE  ProfilesInv'
  <1>1. /\ Fault /\ fin' = [at |-> "idle", of |-> Nobody]
        /\ UNCHANGED <<kind, prof, file, res, req, ret, intent, kill>>
    BY DEF SchedulerDies
  <1>2. fin' \in FinRow /\ fin'.at = "idle"
    BY <1>1 DEF FinRow
  <1>3. FinShape'
    BY <1>1, <1>2 DEF ProfilesInv, Shape, FinShape
  <1>4. kill' \in BOOLEAN /\ prof' \in ProfRow /\ (prof'.on => prof.on)
    BY <1>1 DEF ProfilesInv, Rows
  <1>5. faults' \in 0..MaxFaults
    BY <1>1, FaultCounts DEF ProfilesInv
  <1> QED
    BY <1>1, <1>2, <1>3, <1>4, <1>5, QuietStep

\* The kill switch leaves the row and the file as they are.
LEMMA KillSwitchKeeps ==
  ASSUME ProfilesInv, NEW on \in BOOLEAN, KillSwitch(on)
  PROVE  ProfilesInv'
  <1>1. kill' = on /\ UNCHANGED <<kind, prof, file, res, req, ret, intent, fin>>
    BY DEF KillSwitch
  <1>2. fin' \in FinRow /\ kill' \in BOOLEAN /\ prof' \in ProfRow /\ (prof'.on => prof.on)
    BY <1>1 DEF ProfilesInv, Rows
  <1>3. FinShape'
    BY <1>1 DEF ProfilesInv, Shape, FinShape
  <1>4. faults' \in 0..MaxFaults
    <2>1. Fault \/ faults' = faults
      BY DEF KillSwitch
    <2>2. CASE Fault
      BY <2>2, FaultCounts DEF ProfilesInv
    <2>3. CASE faults' = faults
      BY <2>3 DEF ProfilesInv, Rows
    <2> QED
      BY <2>1, <2>2, <2>3
  <1> QED
    BY <1>1, <1>2, <1>3, <1>4, QuietStep

\* The rotation a drain was for brings the next generation into the file and
\* into the row at once; a retirement empties the file's entry, and no route is
\* left then.
LEMMA EndDrainKeeps ==
  ASSUME ProfilesInv, EndDrain
  PROVE  ProfilesInv'
  <1> USE DEF ProfilesInv
  <1>1. /\ fin' = [at |-> "idle", of |-> Nobody]
        /\ UNCHANGED <<kind, res, req, ret, intent, kill, faults>>
        /\ fin.at \in {"rotate", "disable", "retire"}
    BY DEF EndDrain
  <1>2. fin' \in FinRow /\ fin'.at = "idle" /\ kind = "decodo"
    BY <1>1, TwoKinds DEF FinRow, Shape, FinShape
  <1>3. kill' \in BOOLEAN /\ faults' \in 0..MaxFaults
    BY <1>1 DEF Rows
  <1>4. CASE fin.at = "disable"
    <2>1. prof' = Disabled("disabled", "none") /\ file' = file
      BY <1>4 DEF EndDrain
    <2>2. /\ prof' \in ProfRow /\ prof'.gen = prof.gen /\ prof'.routed = prof.routed
          /\ prof'.pending = "none" /\ prof'.on = FALSE
      BY <2>1, DisabledRow DEF Lives, Pendings
    <2>3. FinShape'
      BY <2>2, <1>1, <1>2 DEF FinShape
    <2> QED
      BY <1>1, <1>2, <1>3, <2>1, <2>2, <2>3, QuietStep
  <1>5. CASE fin.at = "retire"
    <2> DEFINE fence == Disabled("retired", "none")
    <2>1. prof' = [fence EXCEPT !.retired = TRUE] /\ file' = [file EXCEPT !.gen = 0]
      BY <1>5 DEF EndDrain
    <2>2. fence \in ProfRow /\ fence.routed = prof.routed
      BY DisabledRow DEF Lives, Pendings
    <2> HIDE DEF fence
    <2>3. prof' \in ProfRow /\ prof'.routed = prof.routed
      BY <2>1, <2>2 DEF ProfRow
    <2>4. ~prof.routed
      BY <1>5 DEF Shape, FinShape
    <2>5. file' \in FileRow
      BY <2>1, BoundsAreNaturals DEF Rows, FileRow, Generations
    <2>6. Rows'
      BY <1>1, <1>2, <1>3, <2>3, <2>5 DEF Rows
    <2>7. Shape'
      BY <1>1, <1>2, <2>3, <2>4 DEF Shape, FinShape, ReqShape
    <2>8. ImportFenced'
      BY <1>1, <1>2, OtherKindKept
    <2>9. GenerationsApart'
      BY <2>3, <2>4 DEF GenerationsApart
    <2>10. RetiredGone'
      BY <1>1 DEF RetiredGone, LeasesGone, OpenRes
    <2> QED
      BY <2>6, <2>7, <2>8, <2>9, <2>10
  <1>6. CASE fin.at = "rotate"
    <2>1. /\ file.gen \in 1..MaxGen - 1 /\ file' = [file EXCEPT !.gen = file.gen + 1]
          /\ prof' = [prof EXCEPT !.life = "enabled", !.on = TRUE, !.gen = file.gen + 1,
                                  !.pending = "none"]
      BY <1>6 DEF EndDrain
    <2>2. prof \in ProfRow /\ file \in FileRow /\ file.gen \in Nat /\ prof.gen \in Nat
      BY RowByRow DEF Rows
    <2>3. file.gen + 1 \in Generations
      BY <2>1, <2>2, BoundsAreNaturals DEF Generations
    <2>4. prof' \in ProfRow /\ prof'.gen = file.gen + 1 /\ prof'.routed = prof.routed
          /\ prof'.pending = "none"
      BY <2>1, <2>2, <2>3 DEF ProfRow, Lives, Pendings
    <2>5. file' \in FileRow /\ file'.gen = file.gen + 1
      BY <2>1, <2>2, <2>3 DEF FileRow
    <2>6. Rows'
      BY <1>1, <1>2, <1>3, <2>4, <2>5 DEF Rows
    <2>7. Shape'
      BY <1>1, <1>2, <2>4 DEF Shape, FinShape, ReqShape
    <2>8. ImportFenced'
      BY <1>1, <1>2, OtherKindKept
    <2>9. GenerationsApart'
      <3>1. SUFFICES ASSUME prof.routed PROVE GenerationsApart'
        BY <2>4 DEF GenerationsApart
      <3>2. \A p \in Reqs : req[p].gen \in Nat /\ ret[p].gen \in Nat
        BY RowByRow DEF ReqRow, RetRow, Generations
      <3>3. \A p \in Reqs : (Pending(p)' <=> Pending(p)) /\ (Pending(p) => req[p].op # "none")
                /\ (At(p, "bluegreen", "begun")' <=> At(p, "bluegreen", "begun"))
        BY <1>1 DEF Pending, At
      <3> HIDE DEF Pending, At
      <3>4. \A p \in Reqs : (req[p].op # "none" => req[p].gen < file.gen + 1)
                            /\ (ret[p].state # "none" => ret[p].gen < file.gen + 1)
        BY <1>2, <2>2, <3>1, <3>2 DEF GenerationsApart
      <3>5. \A p \in Reqs : (req'[p].op # "none" => req'[p].gen <= file'.gen)
                            /\ (ret'[p].state # "none" => ret'[p].gen <= file'.gen)
        BY <1>1, <2>2, <2>5, <3>2, <3>4
      <3>6. prof'.gen <= file'.gen
        BY <2>2, <2>4, <2>5
      <3>7. \A p \in Reqs : Pending(p)' => req'[p].gen # prof'.gen
        BY <1>1, <2>2, <2>4, <3>2, <3>3, <3>4
      <3>8. \A p \in Reqs : ret'[p].state \in {"draining", "finalizing", "completed"}
              => ret'[p].gen # prof'.gen
        BY <1>1, <2>2, <2>4, <3>2, <3>4
      <3> QED
        BY <1>1, <1>2, <3>1, <3>3, <3>5, <3>6, <3>7, <3>8 DEF GenerationsApart
    <2>10. RetiredGone'
      BY <1>1 DEF RetiredGone, LeasesGone, OpenRes
    <2> QED
      BY <2>6, <2>7, <2>8, <2>9, <2>10
  <1> QED
    BY <1>1, <1>4, <1>5, <1>6

-----------------------------------------------------------------------------
(* The import of a Webshare secret. *)

\* The fenced row keeps its generation.
LEMMA QuarantinedRow ==
  ASSUME Rows, prof' = Quarantined
  PROVE  /\ prof' \in ProfRow
         /\ prof'.life = "pending" /\ prof'.pending = "none" /\ prof'.on = FALSE
         /\ prof'.gen = prof.gen /\ prof'.routed = prof.routed
  <1>1. "pending" \in Lives /\ "none" \in Pendings
    BY DEF Lives, Pendings
  <1> DEFINE row == Disabled("pending", "none")
  <1>2. prof' = row
    BY DEF Quarantined
  <1>3. /\ row \in ProfRow /\ row.life = "pending" /\ row.pending = "none" /\ row.on = FALSE
        /\ row.gen = prof.gen /\ row.routed = prof.routed
    BY <1>1, DisabledRow
  <1> HIDE DEF row
  <1> QED
    BY <1>2, <1>3

\* What is left to show of a step of an import: only one request and its intent
\* move, and the row does not start to drain.
LEMMA ImportStep ==
  ASSUME ProfilesInv, NEW q \in Reqs, kind = "webshare",
         UNCHANGED <<kind, ret, fin, kill>>,
         faults' \in 0..MaxFaults,
         prof' \in ProfRow, prof'.life # "draining",
         prof'.pending \in {"none", prof.pending}, prof'.routed = prof.routed,
         file' \in FileRow, res' \in [Res -> ResRow],
         req' \in [Reqs -> ReqRow], intent' \in [Reqs -> IntentRow],
         \A p \in Reqs : p # q => req'[p] = req[p] /\ intent'[p] = intent[p],
         req'[q].op = "import", req'[q].at \in {"install", "recover", "write", "done", "dead"},
         req'[q].at \in {"install", "recover", "write"} => intent'[q].state = "prepared",
         ImportFenced'
  PROVE  ProfilesInv'
  <1> USE DEF ProfilesInv
  <1>1. Rows'
    BY DEF Rows
  <1>2. ReqShape(q)
    BY DEF Shape
  <1>3. ret[q].state = "none" /\ fin.at = "idle"
    BY <1>2 DEF ReqShape, Shape, FinShape
  <1>4. ReqShape(q)'
    BY <1>3 DEF ReqShape
  <1>5. FinShape'
    BY <1>3 DEF Shape, FinShape
  <1>6. Shape'
    BY <1>4, <1>5, ShapeOfOthers
  <1>7. GenerationsApart'
    BY OtherKindKept
  <1>8. \A p \in Reqs : ret'[p].state = "none"
    BY DEF Shape, ReqShape
  <1>9. RetiredGone'
    BY <1>8 DEF RetiredGone
  <1> QED
    BY <1>1, <1>6, <1>7, <1>9

\* _prepare fences the row when no other import is unresolved and no
\* reservation is open.
LEMMA PrepareKeeps ==
  ASSUME ProfilesInv, NEW q \in Reqs, Prepare(q)
  PROVE  ProfilesInv'
  <1> USE DEF ProfilesInv
  <1> DEFINE row == [req[q] EXCEPT !.op = "import", !.at = "install"]
             made == [state |-> "prepared", gen |-> prof.gen]
  <1>1. /\ kind = "webshare" /\ req[q].op = "none" /\ Unresolved = {} /\ OpenRes = {}
        /\ prof.gen < MaxGen /\ prof' = Quarantined /\ intent' = [intent EXCEPT ![q] = made]
        /\ UNCHANGED <<kind, file, res, ret, fin, kill, faults>>
    BY DEF Prepare, Fresh, NoOtherIntent, Quiet
  <1>2. req \in [Reqs -> ReqRow] /\ req[q] \in ReqRow /\ intent \in [Reqs -> IntentRow]
    BY DEF Rows
  <1>3. req' = [req EXCEPT ![q] = row]
    BY <1>2 DEF Prepare
  <1>4. row \in ReqRow /\ row.op = "import" /\ row.at = "install"
    BY <1>2 DEF ReqRow, Ops, Steps
  <1>5. made \in IntentRow /\ made.state = "prepared" /\ made.gen = prof.gen
    BY DEF IntentRow, IntStates, Rows, ProfRow
  <1> HIDE DEF row, made
  <1>6. req'[q] = row /\ intent'[q] = made
        /\ \A p \in Reqs : p # q => req'[p] = req[p] /\ intent'[p] = intent[p]
    BY <1>1, <1>2, <1>3
  <1>7. prof' \in ProfRow /\ prof'.life = "pending" /\ prof'.pending = "none" /\ prof'.on = FALSE
        /\ prof'.gen = prof.gen /\ prof'.routed = prof.routed
    BY <1>1, QuarantinedRow
  <1>8. ImportFenced'
    <2>1. Unresolved' = {q}
      BY <1>1, <1>5, <1>6 DEF Unresolved
    <2>2. OpenRes' = {}
      BY <1>1 DEF OpenRes
    <2>3. file.gen = prof.gen
      BY <1>1 DEF ImportFenced
    <2>4. Underway(q)'
      BY <1>1, <1>4, <1>5, <1>6, <1>7, <2>1, <2>2, <2>3 DEF Underway
    <2>5. \A p \in Reqs : intent'[p].state = "completed" =>
            p # q /\ intent'[p] = intent[p]
      BY <1>5, <1>6
    <2>6. \A p \in Reqs : intent'[p].state = "completed" =>
            intent'[p].gen < file'.gen /\ (file'.gen = intent'[p].gen + 1 => file'.user = p)
      BY <1>1, <2>5 DEF ImportFenced
    <2> QED
      BY <2>1, <2>2, <2>4, <2>6 DEF ImportFenced
  <1>9. file' \in FileRow /\ res' \in [Res -> ResRow] /\ faults' \in 0..MaxFaults
    BY <1>1 DEF Rows
  <1>10. req' \in [Reqs -> ReqRow] /\ intent' \in [Reqs -> IntentRow]
    BY <1>1, <1>2, <1>3, <1>4, <1>5
  <1> QED
    BY <1>1, <1>4, <1>5, <1>6, <1>7, <1>8, <1>9, <1>10, ImportStep

\* A rotation that finds reservations open fences the row and asks for them to
\* be closed.
LEMMA PrepareDrainsKeeps ==
  ASSUME ProfilesInv, NEW q \in Reqs, PrepareDrains(q)
  PROVE  ProfilesInv'
  <1> USE DEF ProfilesInv
  <1> DEFINE row == [req[q] EXCEPT !.op = "import", !.at = "done"]
             revoked(r) == IF res[r].state = "active"
                           THEN [res[r] EXCEPT !.state = "revocation_requested"] ELSE res[r]
  <1>1. /\ kind = "webshare" /\ req[q].op = "none" /\ prof' = Quarantined
        /\ res' = [r \in Res |-> revoked(r)]
        /\ UNCHANGED <<kind, file, ret, intent, fin, kill, faults>>
    BY DEF PrepareDrains, Fresh
  <1>2. req \in [Reqs -> ReqRow] /\ req[q] \in ReqRow /\ intent \in [Reqs -> IntentRow]
        /\ \A r \in Res : res[r] \in ResRow
    BY DEF Rows
  <1>3. req' = [req EXCEPT ![q] = row]
    BY <1>2 DEF PrepareDrains
  <1>4. row \in ReqRow /\ row.op = "import" /\ row.at = "done"
    BY <1>2 DEF ReqRow, Ops, Steps
  <1>5. \A r \in Res : /\ revoked(r) \in ResRow /\ revoked(r).gen = res[r].gen
                       /\ revoked(r).state \in {"active", "revocation_requested"}
                            => res[r].state \in {"active", "revocation_requested"}
    BY <1>2 DEF ResRow, ResStates
  <1> HIDE DEF row, revoked
  <1>6. req'[q] = row /\ \A p \in Reqs : p # q => req'[p] = req[p]
    BY <1>2, <1>3
  <1>7. prof' \in ProfRow /\ prof'.life = "pending" /\ prof'.pending = "none" /\ prof'.on = FALSE
        /\ prof'.gen = prof.gen /\ prof'.routed = prof.routed
    BY <1>1, QuarantinedRow
  <1>8. \A r \in OpenRes' : r \in OpenRes /\ res'[r].gen = res[r].gen
    BY <1>1, <1>5 DEF OpenRes
  <1>9. \A p \in Reqs : req'[p].at \in {"install", "write"} => req'[p].at = req[p].at
    BY <1>4, <1>6
  <1>10. ImportFenced'
    BY <1>1, <1>7, <1>8, <1>9, ImportsKept
  <1>11. file' \in FileRow /\ faults' \in 0..MaxFaults
    BY <1>1 DEF Rows
  <1>12. res' \in [Res -> ResRow]
    BY <1>1, <1>5
  <1>13. req' \in [Reqs -> ReqRow] /\ intent' \in [Reqs -> IntentRow]
    BY <1>1, <1>2, <1>3, <1>4
  <1> QED
    BY <1>1, <1>4, <1>6, <1>7, <1>10, <1>11, <1>12, <1>13, ImportStep

\* An import that is at a step belongs to Webshare and is unresolved.
LEMMA ImportUnderway ==
  ASSUME ProfilesInv, NEW q \in Reqs, req[q].op = "import",
         req[q].at \in {"install", "recover", "write"} \/ q \in Unresolved
  PROVE  kind = "webshare" /\ q \in Unresolved /\ Underway(q)
  <1>1. kind = "webshare"
    BY TwoKinds DEF ProfilesInv, Shape, ReqShape
  <1>2. q \in Unresolved
    BY DEF ProfilesInv, Shape, ReqShape, Unresolved
  <1> QED
    BY <1>1, <1>2 DEF ProfilesInv, ImportFenced

\* The file's compare-and-set happens while no reservation is open and brings
\* the file one generation ahead of the row.
LEMMA InstallImportKeeps ==
  ASSUME ProfilesInv, NEW q \in Reqs, NEW ok \in BOOLEAN, InstallImport(q, ok)
  PROVE  ProfilesInv'
  <1> USE DEF ProfilesInv
  <1>1. /\ req[q].op = "import" /\ req[q].at = "install"
        /\ UNCHANGED <<kind, prof, res, ret, intent, fin, kill>>
    BY DEF InstallImport, At
  <1>2. kind = "webshare" /\ q \in Unresolved /\ Underway(q)
    BY <1>1, ImportUnderway
  <1>3. intent[q].state = "prepared"
    BY <1>1 DEF Shape, ReqShape
  <1>4. prof' \in ProfRow /\ res' \in [Res -> ResRow] /\ intent' \in [Reqs -> IntentRow]
    BY <1>1 DEF Rows
  <1>5. prof'.life # "draining" /\ prof'.pending = prof.pending /\ prof'.routed = prof.routed
    BY <1>1, <1>2 DEF Shape, FinShape
  <1>6. CASE ok /\ file.gen = intent[q].gen
    <2>1. file' = [gen |-> file.gen + 1, user |-> q] /\ Go(q, "write") /\ faults' = faults
      BY <1>6 DEF InstallImport
    <2>2. /\ req' \in [Reqs -> ReqRow] /\ req'[q].at = "write" /\ req'[q].op = "import"
          /\ \A p \in Reqs : p # q => req'[p] = req[p]
      BY <1>1, <2>1, GoRow DEF Steps
    <2>3. file.gen \in Nat /\ prof.gen = file.gen /\ file.gen + 1 \in Generations
      BY <1>1, <1>2, RowByRow DEF Underway, Generations
    <2>4. file' \in FileRow /\ file'.gen = file.gen + 1 /\ file'.user = q
      BY <2>1, <2>3 DEF FileRow, Users
    <2>5. ImportFenced'
      <3>1. Unresolved' = Unresolved /\ OpenRes' = OpenRes
        BY <1>1 DEF Unresolved, OpenRes
      <3>2. Underway(q)'
        BY <1>1, <1>2, <2>2, <2>3, <2>4, <3>1 DEF Underway
      <3>3. OpenRes' = {} /\ \A p \in Unresolved' : p = q
        BY <1>2, <3>1 DEF Underway
      <3>4. \A p \in Reqs : intent[p].gen \in Nat
        BY RowByRow DEF IntentRow, Generations
      <3>5. \A p \in Reqs : intent'[p].state = "completed" =>
              intent'[p].gen < file'.gen /\ (file'.gen = intent'[p].gen + 1 => file'.user = p)
        BY <1>1, <1>2, <2>3, <2>4, <3>4 DEF ImportFenced
      <3> QED
        BY <1>2, <3>1, <3>2, <3>3, <3>5 DEF ImportFenced
    <2>6. faults' \in 0..MaxFaults
      BY <2>1 DEF Rows
    <2> QED
      BY <1>1, <1>2, <1>3, <1>4, <1>5, <2>2, <2>4, <2>5, <2>6, ImportStep
  <1>7. CASE ~(ok /\ file.gen = intent[q].gen)
    <2>1. file' = file /\ Go(q, "recover") /\ (faults' = faults \/ Fault)
      BY <1>7 DEF InstallImport
    <2>2. /\ req' \in [Reqs -> ReqRow] /\ req'[q].at = "recover" /\ req'[q].op = "import"
          /\ \A p \in Reqs : p # q => req'[p] = req[p]
      BY <1>1, <2>1, GoRow DEF Steps
    <2>3. \A r \in OpenRes' : r \in OpenRes /\ res'[r].gen = res[r].gen
      BY <1>1 DEF OpenRes
    <2>4. \A p \in Reqs : req'[p].at \in {"install", "write"} => req'[p].at = req[p].at
      BY <2>2
    <2>5. ImportFenced'
      BY <1>1, <2>1, <2>3, <2>4, ImportsKept
    <2>6. faults' \in 0..MaxFaults
      <3>1. CASE Fault
        BY <3>1, FaultCounts
      <3>2. CASE faults' = faults
        BY <3>2 DEF Rows
      <3> QED
        BY <2>1, <3>1, <3>2
    <2>7. file' \in FileRow
      BY <2>1 DEF Rows
    <2> QED
      BY <1>1, <1>2, <1>3, <1>4, <1>5, <2>2, <2>5, <2>6, <2>7, ImportStep
  <1> QED
    BY <1>6, <1>7

\* How an unresolved import can end: the row is fenced and the import failed
\* or, with the cycle shut, still unresolved; or the installed generation is
\* enabled and the import complete.
LEMMA ImportEnds ==
  ASSUME ProfilesInv, NEW q \in Reqs, q \in Unresolved, req[q].op = "import",
         UNCHANGED <<kind, file, res, ret, fin, kill, faults>>,
         req' \in [Reqs -> ReqRow],
         \A p \in Reqs : p # q => req'[p] = req[p],
         req'[q].op = "import", req'[q].at \in {"done", "dead"},
         \/ Resolve(q)
         \/ file.gen = prof.gen + 1 /\ Finalize(q)
  PROVE  ProfilesInv'
  <1> USE DEF ProfilesInv
  <1>1. kind = "webshare" /\ Underway(q)
    BY ImportUnderway
  <1>2. prof \in ProfRow /\ intent \in [Reqs -> IntentRow] /\ intent[q] \in IntentRow
    BY DEF Rows
  <1>3. prof.gen \in Nat /\ file.gen \in Nat /\ prof.gen = intent[q].gen
    BY <1>1, RowByRow DEF Underway
  <1>4. \/ /\ file.gen # prof.gen + 1
           /\ prof' = Quarantined /\ intent' = [intent EXCEPT ![q].state = "failed"]
        \/ /\ prof' = Quarantined /\ intent' = [intent EXCEPT ![q].state = "installed"]
        \/ /\ file.gen = prof.gen + 1
           /\ prof' = [prof EXCEPT !.life = "enabled", !.on = TRUE, !.gen = intent[q].gen + 1,
                                   !.pending = "none"]
           /\ intent' = [intent EXCEPT ![q].state = "completed"]
    <2>1. CASE file.gen = prof.gen + 1
      <3>1. Finalize(q)
        BY <2>1, <1>3 DEF Resolve
      <3>2. prof.gen \in {intent[q].gen, intent[q].gen + 1}
        BY <1>3
      <3> QED
        BY <2>1, <3>1, <3>2 DEF Finalize
    <2>2. CASE file.gen # prof.gen + 1
      BY <2>2, <1>3 DEF Resolve
    <2> QED
      BY <2>1, <2>2
  <1>5. PICK end \in {"failed", "installed", "completed"} :
          intent' = [intent EXCEPT ![q].state = end]
    BY <1>4
  <1> DEFINE row == [intent[q] EXCEPT !.state = end]
  <1>6. row \in IntentRow /\ row.state = end /\ row.gen = intent[q].gen
    BY <1>2 DEF IntentRow, IntStates
  <1>7. intent' = [intent EXCEPT ![q] = row]
    BY <1>2, <1>5
  <1> HIDE DEF row
  <1>8. /\ intent' \in [Reqs -> IntentRow]
        /\ intent'[q].state = end /\ intent'[q].gen = prof.gen
        /\ \A p \in Reqs : p # q => intent'[p] = intent[p]
    BY <1>2, <1>3, <1>6, <1>7
  <1>9. \/ end = "failed" /\ prof' = Quarantined /\ file.gen # prof.gen + 1
        \/ end = "installed" /\ prof' = Quarantined
        \/ /\ end = "completed" /\ file.gen = prof.gen + 1
           /\ prof' = [prof EXCEPT !.life = "enabled", !.on = TRUE, !.gen = intent[q].gen + 1,
                                   !.pending = "none"]
    <2>1. \A s : intent' = [intent EXCEPT ![q].state = s] => intent'[q].state = s
      BY <1>2 DEF IntentRow
    <2> QED
      BY <1>4, <1>8, <2>1
  <1>10. OpenRes' = {} /\ OpenRes = {}
    BY <1>1 DEF Underway, OpenRes
  <1>11. \A p \in Unresolved' : p = q
    BY <1>1, <1>8 DEF Underway, Unresolved
  <1>12. \A p \in Reqs : p # q /\ intent'[p].state = "completed" =>
            intent'[p].gen < file'.gen /\ (file'.gen = intent'[p].gen + 1 => file'.user = p)
    BY <1>1, <1>8 DEF ImportFenced
  <1>13. /\ prof' \in ProfRow /\ prof'.life # "draining" /\ prof'.pending = "none"
         /\ prof'.routed = prof.routed /\ ImportFenced'
    <2>1. CASE end # "completed"
      <3>1. prof' = Quarantined
        BY <1>9, <2>1
      <3>2. prof' \in ProfRow /\ prof'.life = "pending" /\ prof'.pending = "none"
            /\ prof'.on = FALSE /\ prof'.gen = prof.gen /\ prof'.routed = prof.routed
        BY <3>1, QuarantinedRow
      <3>3. CASE end = "installed"
        <4>1. Underway(q)'
          BY <1>1, <1>8, <1>10, <1>11, <3>2 DEF Underway
        <4>2. q \in Unresolved'
          BY <1>8, <3>3 DEF Unresolved
        <4>3. ImportFenced'
          BY <1>8, <1>10, <1>11, <1>12, <3>3, <4>1, <4>2 DEF ImportFenced
        <4> QED
          BY <3>2, <4>3
      <3>4. CASE end = "failed"
        <4>1. file.gen = prof.gen
          BY <1>1, <1>9, <3>4 DEF Underway
        <4>2. Unresolved' = {}
          BY <1>8, <1>11, <3>4 DEF Unresolved
        <4>3. ImportFenced'
          BY <1>8, <1>10, <1>12, <3>2, <3>4, <4>1, <4>2 DEF ImportFenced
        <4> QED
          BY <3>2, <4>3
      <3> QED
        BY <2>1, <3>3, <3>4
    <2>2. CASE end = "completed"
      <3>1. /\ file.gen = prof.gen + 1
            /\ prof' = [prof EXCEPT !.life = "enabled", !.on = TRUE, !.gen = intent[q].gen + 1,
                                    !.pending = "none"]
        BY <1>9, <2>2
      <3>2. intent[q].gen + 1 \in Generations
        BY <1>1, <1>3, RowByRow DEF Underway, Generations
      <3>3. prof' \in ProfRow /\ prof'.life = "enabled" /\ prof'.pending = "none"
            /\ prof'.gen = intent[q].gen + 1 /\ prof'.routed = prof.routed
        BY <1>2, <3>1, <3>2 DEF ProfRow, Lives, Pendings
      <3>4. file.user = q
        BY <1>1, <1>3, <3>1 DEF Underway
      <3>5. Unresolved' = {}
        BY <1>8, <1>11, <2>2 DEF Unresolved
      <3>6. intent'[q].gen < file'.gen /\ file'.user = q /\ file'.gen = prof'.gen
        BY <1>3, <1>8, <3>1, <3>3, <3>4
      <3>7. ImportFenced'
        BY <1>10, <1>12, <3>5, <3>6 DEF ImportFenced
      <3> QED
        BY <3>3, <3>7
    <2> QED
      BY <2>1, <2>2
  <1>14. file' \in FileRow /\ res' \in [Res -> ResRow] /\ faults' \in 0..MaxFaults
    BY DEF Rows
  <1> QED
    BY <1>1, <1>8, <1>13, <1>14, ImportStep

\* _finalize and the look at the file after a refusal keep the invariant.
LEMMA EndImportKeeps ==
  ASSUME ProfilesInv, NEW q \in Reqs, EndImport(q)
  PROVE  ProfilesInv'
  <1>1. /\ q \in Unresolved /\ req[q].op = "import" /\ Go(q, "done")
        /\ (req[q].at = "write" /\ Finalize(q)) \/ Resolve(q)
        /\ UNCHANGED <<kind, file, res, ret, fin, kill, faults>>
    BY DEF EndImport, At
  <1>2. /\ req' \in [Reqs -> ReqRow] /\ req'[q].at = "done" /\ req'[q].op = "import"
        /\ \A p \in Reqs : p # q => req'[p] = req[p]
    BY <1>1, GoRow DEF Steps, ProfilesInv
  <1>3. req[q].at = "write" => file.gen = prof.gen + 1
    BY <1>1, ImportUnderway DEF Underway
  <1> QED
    BY <1>1, <1>2, <1>3, ImportEnds

\* The recovery of an operation keeps the invariant.
LEMMA RecoverKeeps ==
  ASSUME ProfilesInv, NEW q \in Reqs, Recover(q)
  PROVE  ProfilesInv'
  <1>1. /\ q \in Unresolved /\ req[q].op = "import" /\ req[q].at \in {"done", "dead"} /\ Resolve(q)
        /\ UNCHANGED <<kind, file, res, req, ret, fin, kill, faults>>
    BY DEF Recover
  <1>2. req' \in [Reqs -> ReqRow]
    BY <1>1 DEF ProfilesInv, Rows
  <1> QED
    BY <1>1, <1>2, ImportEnds

\* The death of the control plane in the middle of a request keeps the
\* invariant.
LEMMA RequestDiesKeeps ==
  ASSUME ProfilesInv, NEW q \in Reqs, RequestDies(q)
  PROVE  ProfilesInv'
  <1> USE DEF ProfilesInv
  <1>1. /\ Fault /\ req[q].at # "new" /\ Go(q, "dead")
        /\ UNCHANGED <<kind, prof, file, res, ret, intent, fin, kill>>
    BY DEF RequestDies
  <1>2. faults' \in 0..MaxFaults
    BY <1>1, FaultCounts
  <1>3. req[q].op # "none"
    BY <1>1 DEF Shape, ReqShape
  <1>4. prof' \in ProfRow /\ prof'.gen = prof.gen /\ prof'.routed = prof.routed
        /\ prof'.pending = prof.pending /\ kill' \in BOOLEAN
    BY <1>1 DEF Rows
  <1>5. "dead" \in Steps
    BY DEF Steps
  <1>6. CASE req[q].op # "import"
    <2>1. kind = "decodo"
      BY <1>3, <1>6, DecodoByOp
    <2> QED
      BY <1>1, <1>2, <1>3, <1>4, <1>5, <1>6, <2>1, DecodoRequestStep
  <1>7. CASE req[q].op = "import"
    <2>1. kind = "webshare" /\ prof'.life # "draining"
      BY <1>1, <1>7, TwoKinds DEF Shape, ReqShape, FinShape
    <2>2. /\ req' \in [Reqs -> ReqRow] /\ req'[q].at = "dead" /\ req'[q].op = "import"
          /\ \A p \in Reqs : p # q => req'[p] = req[p]
      BY <1>1, <1>5, <1>7, GoRow
    <2>3. \A r \in OpenRes' : r \in OpenRes /\ res'[r].gen = res[r].gen
      BY <1>1 DEF OpenRes
    <2>4. \A p \in Reqs : req'[p].at \in {"install", "write"} => req'[p].at = req[p].at
      BY <2>2
    <2>5. ImportFenced'
      BY <1>1, <2>3, <2>4, ImportsKept
    <2>6. file' \in FileRow /\ res' \in [Res -> ResRow] /\ intent' \in [Reqs -> IntentRow]
      BY <1>1 DEF Rows
    <2> QED
      BY <1>1, <1>2, <1>4, <2>1, <2>2, <2>5, <2>6, ImportStep
  <1> QED
    BY <1>6, <1>7

-----------------------------------------------------------------------------
(* The theorems. *)

\* Every step keeps the inductive invariant.
LEMMA StepsKeep == ProfilesInv /\ [Next]_vars => ProfilesInv'
  <1>1. SUFFICES ASSUME ProfilesInv, [Next]_vars PROVE ProfilesInv'
    OBVIOUS
  <1>2. CASE UNCHANGED vars
    BY <1>1, <1>2
    DEF vars, ProfilesInv, Rows, Shape, FinShape, ReqShape, ImportFenced, Underway, Unresolved,
        OpenRes, GenerationsApart, Pending, At, RetiredGone, LeasesGone
  <1>3. CASE \E r \in Res : SnapshotRoute(r) \/ BuildPool(r) \/ Reserve(r) \/ CloseReservation(r)
    BY <1>1, <1>3, SnapshotRouteKeeps, BuildPoolKeeps, ReserveKeeps, CloseReservationKeeps
  <1>4. CASE \E q \in Reqs : \E op \in {"rotate", "bluegreen", "disable"} : BeginAction(q, op)
    BY <1>1, <1>4, BeginActionKeeps
  <1>5. CASE \E q \in Reqs : LeaveToScheduler(q) \/ FenceToDisable(q) \/ OpenBlueGreen(q) \/ RetireProfile(q)
    BY <1>1, <1>5, LeaveToSchedulerKeeps, FenceToDisableKeeps, OpenBlueGreenKeeps, RetireProfileKeeps
  <1>6. CASE \E q \in Reqs : \E ok \in BOOLEAN : ProviderAnswers(q, ok) \/ InstallImport(q, ok)
    BY <1>1, <1>6, ProviderAnswersKeeps, InstallImportKeeps
  <1>7. CASE \E q \in Reqs : InstallSecret(q) \/ InstallFails(q) \/ WriteProfile(q) \/ StartRetirement(q)
    BY <1>1, <1>7, InstallSecretKeeps, InstallFailsKeeps, WriteProfileKeeps, StartRetirementKeeps
  <1>8. CASE \E q \in Reqs : Prepare(q) \/ PrepareDrains(q) \/ EndImport(q) \/ Recover(q) \/ RequestDies(q)
    BY <1>1, <1>8, PrepareKeeps, PrepareDrainsKeeps, EndImportKeeps, RecoverKeeps, RequestDiesKeeps
  <1>9. CASE \E ok \in BOOLEAN : EndRetirement(ok)
    BY <1>1, <1>9, EndRetirementKeeps
  <1>10. CASE StartDrain \/ EndDrain \/ DrainFails \/ SchedulerDies
    BY <1>1, <1>10, StartDrainKeeps, EndDrainKeeps, DrainFailsKeeps, SchedulerDiesKeeps
  <1>11. CASE \E on \in BOOLEAN : KillSwitch(on)
    BY <1>1, <1>11, KillSwitchKeeps
  <1> QED
    BY <1>1, <1>2, <1>3, <1>4, <1>5, <1>6, <1>7, <1>8, <1>9, <1>10, <1>11 DEF Next

\* The inductive invariant holds throughout.
LEMMA ProfilesInvariant == Spec => []ProfilesInv
  BY StartsRight, StepsKeep, PTL DEF Spec

\* The rows of the profile, its reservations, requests, retirements and intents
\* keep the values their columns allow.
THEOREM ProfileTypes == Spec => []TypeOK
  <1>1. ProfilesInv => TypeOK
    BY RowsAreTyped DEF ProfilesInv
  <1> QED
    BY <1>1, ProfilesInvariant, PTL

\* An import never takes the secret away from under a paid lease: whatever
\* imports, crashes, recoveries and kill switches happen, the file holds the
\* generation of every open reservation of a Webshare profile.
THEOREM ImportsSpareLeases == Spec => []LeasedSecretKept
  <1>1. ProfilesInv => LeasedSecretKept
    BY InvariantIsEnough
  <1> QED
    BY <1>1, ProfilesInvariant, PTL

\* An import that reports completion has installed its own operator's secret,
\* also when a recovery found it in the file after a crash.
THEOREM CompletedImportsAreOwn == Spec => []CompletedSecretInstalled
  <1>1. ProfilesInv => CompletedSecretInstalled
    BY InvariantIsEnough
  <1> QED
    BY <1>1, ProfilesInvariant, PTL

\* finalize_retirements deletes a replaced sub-user only when no lease under it
\* is open, and reserve() opens none afterwards, though requests that overlapped
\* write the generation of the row back without looking at it.
THEOREM RetiredUsersStayUnused == Spec => []RetiredUserUnused
  <1>1. ProfilesInv => RetiredUserUnused
    BY InvariantIsEnough
  <1> QED
    BY <1>1, ProfilesInvariant, PTL
=============================================================================
