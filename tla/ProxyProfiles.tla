--------------------------- MODULE ProxyProfiles ---------------------------
(***************************************************************************)
(* The credentials of a proxy profile: its row in catalogue.proxy_profiles,*)
(* the entry of the secret file the workers read, and the reservations     *)
(* that are open under one generation of the secret.                       *)
(*                                                                         *)
(* A provider of kind "decodo" lets the control plane rotate and retire    *)
(* its sub-users (catalogue_control/proxy_api.py); what cannot happen      *)
(* while reservations are open is left to the scheduler                    *)
(* (proxy_control.py).  A provider of kind "webshare" gets its secrets     *)
(* imported by a saga of two transactions around one compare-and-set of    *)
(* the file (webshare_profile_import.py), recovered by operation id after  *)
(* a crash.                                                                *)
(*                                                                         *)
(* A request is one HTTP request; every await between two statements or    *)
(* around a provider call is a step of its own.  The provider is           *)
(* represented by the outcome of its calls.                                *)
(***************************************************************************)
EXTENDS Naturals, FiniteSets

CONSTANTS
  Reqs,     \* operator requests that may ever be made
  Res,      \* reservations that may ever be made
  Kinds,    \* the kinds of provider to look at
  MaxGen,   \* bound: generations of the secret
  MaxFaults \* bound: provider and file failures, crashes and kill switches

ASSUME KindsAreKnown == Kinds \subseteq {"decodo", "webshare"}
ASSUME BoundsAreNaturals == MaxGen \in Nat \ {0} /\ MaxFaults \in Nat

VARIABLES
  kind,    \* which provider the profile belongs to
  prof,    \* the row of proxy_profiles
  file,    \* its entry in the secret file: generation (0: none) and user
  res,     \* reservations of the profile, with the generation their pool read
  req,     \* requests being handled, and what they read at their start
  ret,     \* proxy_profile_retirements, one per blue-green rotation
  intent,  \* proxy_profile_secret_intents, one per import
  fin,     \* where the scheduler's finalizers are
  kill,    \* the kill switch of the active cycle
  faults   \* bound: what is left of MaxFaults

vars == <<kind, prof, file, res, req, ret, intent, fin, kill, faults>>

Nobody   == "nobody"
First    == "first"  \* the sub-user the profile was created with; others carry their request's name
OpenRes  == {r \in Res : res[r].state \in {"active", "revocation_requested"}}
Steps    == {"new", "begun", "provider", "install", "recover", "write", "done", "dead"}
Generations == 0..MaxGen

Init ==
  /\ kind \in Kinds
  /\ prof = [life |-> IF kind = "decodo" THEN "enabled" ELSE "none", on |-> kind = "decodo",
             gen |-> IF kind = "decodo" THEN 1 ELSE 0, user |-> First, pending |-> "none",
             retired |-> FALSE, routed |-> TRUE]
  /\ file = [gen |-> prof.gen, user |-> First]
  /\ res = [r \in Res |-> [state |-> "none", gen |-> 0, user |-> First]]
  /\ req = [q \in Reqs |-> [op |-> "none", at |-> "new", gen |-> 0, user |-> First, quiet |-> FALSE]]
  /\ ret = [q \in Reqs |-> [state |-> "none", gen |-> 0, user |-> First]]
  /\ intent = [q \in Reqs |-> [state |-> "none", gen |-> 0]]
  /\ fin = [at |-> "idle", of |-> Nobody]
  /\ kill = FALSE
  /\ faults = MaxFaults

Fault == faults > 0 /\ faults' = faults - 1
\* Requests are alike: the next one made is any that was not made yet.
Fresh(q) == req[q].op = "none" /\ q = CHOOSE p \in Reqs : req[p].op = "none"
At(q, op, step) == req[q].op = op /\ req[q].at = step
Go(q, step) == req' = [req EXCEPT ![q].at = step]
Disabled(life, pending) == [prof EXCEPT !.life = life, !.on = FALSE, !.pending = pending]

-----------------------------------------------------------------------------
(* Workers. *)

\* create_jobs writes the route and its generation into the job's snapshot.
SnapshotRoute(r) ==
  /\ res[r].state = "none" /\ prof.on /\ prof.life = "enabled" /\ prof.routed
  /\ res' = [res EXCEPT ![r].state = "queued", ![r].gen = prof.gen]
  /\ UNCHANGED <<kind, prof, file, req, ret, intent, fin, kill, faults>>

\* The job's worker builds a pool from the file, if it holds that generation.
BuildPool(r) ==
  /\ res[r].state = "queued" /\ file.gen = res[r].gen
  /\ res' = [res EXCEPT ![r].state = "built", ![r].user = file.user]
  /\ UNCHANGED <<kind, prof, file, req, ret, intent, fin, kill, faults>>

\* reserve() compares the generation again, in its transaction, and looks at the
\* route.
Reserve(r) ==
  /\ res[r].state = "built" /\ ~kill
  /\ prof.on /\ prof.life = "enabled" /\ prof.routed /\ prof.gen = res[r].gen
  /\ res' = [res EXCEPT ![r].state = "active"]
  /\ UNCHANGED <<kind, prof, file, req, ret, intent, fin, kill, faults>>

\* The job closes its reservation, or close_stale_reservations does.
CloseReservation(r) ==
  /\ r \in OpenRes
  /\ res' = [res EXCEPT ![r].state = "closed"]
  /\ UNCHANGED <<kind, prof, file, req, ret, intent, fin, kill, faults>>

-----------------------------------------------------------------------------
(* Requests on a Decodo profile. *)

\* profile_action reads the row and counts the open reservations; nothing is
\* locked afterwards, and a retired profile is not refused.
BeginAction(q, op) ==
  /\ kind = "decodo" /\ Fresh(q)
  /\ req' = [req EXCEPT ![q] = [op |-> op, at |-> "begun", gen |-> prof.gen,
                                user |-> prof.user, quiet |-> OpenRes = {}]]
  /\ UNCHANGED <<kind, prof, file, res, ret, intent, fin, kill, faults>>

\* A drain that found reservations open leaves the rotation to the scheduler.
LeaveToScheduler(q) ==
  /\ At(q, "rotate", "begun") /\ ~req[q].quiet
  /\ prof' = Disabled("draining", "rotate")
  /\ Go(q, "done")
  /\ UNCHANGED <<kind, file, res, ret, intent, fin, kill, faults>>

\* A disable fences the profile first, and ends there if reservations were open.
FenceToDisable(q) ==
  /\ At(q, "disable", "begun")
  /\ prof' = Disabled("draining", "disable")
  /\ Go(q, IF req[q].quiet THEN "provider" ELSE "done")
  /\ UNCHANGED <<kind, file, res, ret, intent, fin, kill, faults>>

\* A blue-green rotation records what it will retire before it creates anything.
OpenBlueGreen(q) ==
  /\ At(q, "bluegreen", "begun")
  /\ ret' = [ret EXCEPT ![q] = [state |-> "creating", gen |-> req[q].gen, user |-> req[q].user]]
  /\ Go(q, "provider")
  /\ UNCHANGED <<kind, prof, file, res, intent, fin, kill, faults>>

\* The provider changed the password, created the replacement or disabled the
\* sub-user; or it refused, and only a blue-green rotation is marked failed.
ProviderAnswers(q, ok) ==
  /\ req[q].at = "provider" \/ (At(q, "rotate", "begun") /\ req[q].quiet)
  /\ IF ok THEN UNCHANGED <<faults, ret>> /\ Go(q, IF req[q].op = "disable" THEN "write" ELSE "install")
     ELSE /\ Fault /\ Go(q, "done")
          /\ ret' = IF req[q].op = "bluegreen" THEN [ret EXCEPT ![q].state = "failed"] ELSE ret
  /\ UNCHANGED <<kind, prof, file, res, intent, fin, kill>>

\* ProfileSecretStore.install: the next generation, under the file's lock.  A
\* rotation keeps the user name it finds there.
InstallSecret(q) ==
  /\ req[q].op \in {"rotate", "bluegreen"} /\ req[q].at = "install" /\ file.gen < MaxGen
  /\ req[q].op = "rotate" => file.gen > 0
  /\ file' = [gen |-> file.gen + 1, user |-> IF req[q].op = "rotate" THEN file.user ELSE q]
  /\ req' = [req EXCEPT ![q].at = "write", ![q].gen = file.gen + 1]
  /\ UNCHANGED <<kind, prof, res, ret, intent, fin, kill, faults>>

\* The file cannot be written, or its entry is gone: the profile is fenced and
\* the cycle shut.
InstallFails(q) ==
  /\ req[q].op \in {"rotate", "bluegreen"} /\ req[q].at = "install"
  /\ IF req[q].op = "rotate" /\ file.gen = 0 THEN UNCHANGED faults ELSE Fault
  /\ Go(q, "done")
  /\ prof' = Disabled("local_failed", prof.pending) /\ kill' = TRUE
  /\ ret' = IF req[q].op = "bluegreen" THEN [ret EXCEPT ![q].state = "failed"] ELSE ret
  /\ UNCHANGED <<kind, file, res, intent, fin>>

\* The last write of the request: the row as it is by now is not looked at.
WriteProfile(q) ==
  /\ req[q].op \in {"rotate", "bluegreen", "disable"} /\ req[q].at = "write"
  /\ prof' = CASE req[q].op = "disable" -> [prof EXCEPT !.life = "disabled", !.pending = "none"]
               [] req[q].op = "rotate" ->
                    [prof EXCEPT !.life = "enabled", !.on = TRUE, !.gen = req[q].gen]
               [] req[q].op = "bluegreen" ->
                    [prof EXCEPT !.life = "enabled", !.on = TRUE, !.gen = req[q].gen, !.user = q]
  /\ ret' = IF req[q].op = "bluegreen" THEN [ret EXCEPT ![q].state = "draining"] ELSE ret
  /\ Go(q, "done")
  /\ UNCHANGED <<kind, file, res, intent, fin, kill, faults>>

\* retire_profile fences the profile and retires its routes in one transaction;
\* the scheduler does the rest.
RetireProfile(q) ==
  /\ kind = "decodo" /\ Fresh(q) /\ ~prof.retired
  /\ req' = [req EXCEPT ![q].op = "retire", ![q].at = "done"]
  /\ prof' = [Disabled("draining", "retire") EXCEPT !.routed = FALSE]
  /\ UNCHANGED <<kind, file, res, ret, intent, fin, kill, faults>>

-----------------------------------------------------------------------------
(* The scheduler's finalizers. *)

\* Fault: the old sub-user is deleted as soon as the new one is in use.
LeasesGoneAlways(g) == TRUE

\* No reservation of the old generation is open.
LeasesGone(g) == \A r \in OpenRes : res[r].gen # g

\* finalize_retirements picks a draining retirement and marks it.
StartRetirement(q) ==
  /\ fin.at = "idle" /\ ret[q].state = "draining" /\ LeasesGone(ret[q].gen)
  /\ ret' = [ret EXCEPT ![q].state = "finalizing"]
  /\ fin' = [at |-> "retiring", of |-> q]
  /\ UNCHANGED <<kind, prof, file, res, req, intent, kill, faults>>

\* The provider disabled and deleted the old sub-user, or refused.
EndRetirement(ok) ==
  /\ fin.at = "retiring"
  /\ ret' = [ret EXCEPT ![fin.of].state = IF ok THEN "completed" ELSE "failed"]
  /\ fin' = [at |-> "idle", of |-> Nobody]
  /\ IF ok THEN UNCHANGED <<kill, faults>> ELSE Fault /\ kill' = TRUE
  /\ UNCHANGED <<kind, prof, file, res, req, intent>>

\* Fault: a retirement that failed still counts as running.
RunningWithFailed == {"draining", "finalizing", "failed"}

\* The states of a retirement that hold a drain up.
Running == {"draining", "finalizing"}

\* finalize_draining_profiles picks a drain that has become quiet.
StartDrain ==
  /\ fin.at = "idle" /\ prof.life = "draining" /\ prof.pending # "none"
  /\ OpenRes = {} /\ \A q \in Reqs : ret[q].state \notin Running
  /\ fin' = [at |-> prof.pending, of |-> Nobody]
  /\ UNCHANGED <<kind, prof, file, res, req, ret, intent, kill, faults>>

\* The pending action is carried out at the provider and, for a rotation or a
\* retirement, in the file.
EndDrain ==
  /\ fin' = [at |-> "idle", of |-> Nobody]
  /\ \/ /\ fin.at = "rotate" /\ file.gen \in 1..MaxGen - 1
        /\ file' = [file EXCEPT !.gen = file.gen + 1]
        /\ prof' = [prof EXCEPT !.life = "enabled", !.on = TRUE, !.gen = file.gen + 1,
                                !.pending = "none"]
     \/ fin.at = "disable" /\ prof' = Disabled("disabled", "none") /\ UNCHANGED file
     \/ /\ fin.at = "retire" /\ file' = [file EXCEPT !.gen = 0]
        /\ prof' = [Disabled("retired", "none") EXCEPT !.retired = TRUE]
  /\ UNCHANGED <<kind, res, req, ret, intent, kill, faults>>

\* The provider or the file fails it: the profile is fenced and the cycle shut.
DrainFails ==
  /\ fin.at \in {"rotate", "disable", "retire"}
  /\ IF fin.at = "rotate" /\ file.gen = 0 THEN UNCHANGED faults ELSE Fault
  /\ fin' = [at |-> "idle", of |-> Nobody] /\ kill' = TRUE
  /\ prof' = Disabled("local_failed", prof.pending)
  /\ UNCHANGED <<kind, file, res, req, ret, intent>>

-----------------------------------------------------------------------------
(* The import of a Webshare secret. *)

CycleIsSafe == ~kill
Unresolved  == {q \in Reqs : intent[q].state \in {"prepared", "installed"}}

\* _quarantine_profile.
Quarantined == Disabled("pending", "none")

\* Fault: another import of the profile may be under way.
NoOtherIntentUnchecked == TRUE

NoOtherIntent == Unresolved = {}

\* Fault: the profile is fenced, but open reservations do not stop the import.
QuietUnchecked == TRUE

\* A rotation waits until every reservation of the profile is closed.
Quiet == OpenRes = {}

\* _prepare: a new profile, one whose creation failed, or the next generation of
\* an existing one.
Prepare(q) ==
  /\ kind = "webshare" /\ Fresh(q) /\ CycleIsSafe /\ NoOtherIntent
  /\ prof.gen < MaxGen /\ Quiet
  /\ prof.gen = 0 => prof.life = "none" \/ \E p \in Reqs : intent[p] = [state |-> "failed", gen |-> 0]
  /\ req' = [req EXCEPT ![q].op = "import", ![q].at = "install"]
  /\ prof' = Quarantined
  /\ intent' = [intent EXCEPT ![q] = [state |-> "prepared", gen |-> prof.gen]]
  /\ UNCHANGED <<kind, file, res, ret, fin, kill, faults>>

\* A rotation that finds reservations open fences the profile, revokes them and
\* ends; the operator asks again.
PrepareDrains(q) ==
  /\ kind = "webshare" /\ Fresh(q) /\ CycleIsSafe
  /\ prof.gen > 0 /\ ~Quiet
  /\ req' = [req EXCEPT ![q].op = "import", ![q].at = "done"]
  /\ prof' = Quarantined
  /\ res' = [r \in Res |-> IF res[r].state = "active"
                           THEN [res[r] EXCEPT !.state = "revocation_requested"] ELSE res[r]]
  /\ UNCHANGED <<kind, file, ret, intent, fin, kill, faults>>

\* The file's compare-and-set: refused if the file moved on or cannot be written.
InstallImport(q, ok) ==
  /\ At(q, "import", "install")
  /\ IF ok /\ file.gen = intent[q].gen
     THEN file' = [gen |-> file.gen + 1, user |-> q] /\ Go(q, "write") /\ UNCHANGED faults
     ELSE /\ UNCHANGED file /\ Go(q, "recover")
          /\ IF ok THEN UNCHANGED faults ELSE Fault
  /\ UNCHANGED <<kind, prof, res, ret, intent, fin, kill>>

\* _finalize: enable the installed generation, or stay fenced when the cycle is
\* not safe or the row has moved on.
Finalize(q) ==
  CASE prof.gen \notin {intent[q].gen, intent[q].gen + 1} ->
         prof' = Quarantined /\ intent' = [intent EXCEPT ![q].state = "failed"]
    [] ~CycleIsSafe ->
         prof' = Quarantined /\ intent' = [intent EXCEPT ![q].state = "installed"]
    [] OTHER ->
         /\ prof' = [prof EXCEPT !.life = "enabled", !.on = TRUE, !.gen = intent[q].gen + 1,
                                 !.pending = "none"]
         /\ intent' = [intent EXCEPT ![q].state = "completed"]

\* _recover_unlocked: what the file says decides how the intent ends.
Resolve(q) ==
  IF file.gen = intent[q].gen + 1 THEN Finalize(q)
  ELSE prof' = Quarantined /\ intent' = [intent EXCEPT ![q].state = "failed"]

\* The request that installed the secret enables it; one that was refused looks
\* at the file.
EndImport(q) ==
  /\ q \in Unresolved
  /\ \/ At(q, "import", "write") /\ Finalize(q)
     \/ At(q, "import", "recover") /\ Resolve(q)
  /\ Go(q, "done")
  /\ UNCHANGED <<kind, file, res, ret, fin, kill, faults>>

\* recover_webshare_profile_import: the operation's lock is free because its
\* request is over or its process is gone.
Recover(q) ==
  /\ req[q].op = "import" /\ req[q].at \in {"done", "dead"} /\ q \in Unresolved
  /\ Resolve(q)
  /\ UNCHANGED <<kind, file, res, req, ret, fin, kill, faults>>

-----------------------------------------------------------------------------
(* Crashes and the kill switch. *)

\* The control plane dies with a request under way.  Its idempotency key stays
\* 'started' and is refused from then on.
RequestDies(q) ==
  /\ Fault /\ req[q].at \notin {"new", "done", "dead"}
  /\ Go(q, "dead")
  /\ UNCHANGED <<kind, prof, file, res, ret, intent, fin, kill>>

\* The control plane restarts with a finalizer under way.
SchedulerDies ==
  /\ Fault /\ fin.at # "idle"
  /\ fin' = [at |-> "idle", of |-> Nobody]
  /\ UNCHANGED <<kind, prof, file, res, req, ret, intent, kill>>

KillSwitch(on) ==
  /\ kill # on /\ kill' = on
  /\ IF on THEN Fault ELSE UNCHANGED faults
  /\ UNCHANGED <<kind, prof, file, res, req, ret, intent, fin>>

Next ==
  \/ \E r \in Res : SnapshotRoute(r) \/ BuildPool(r) \/ Reserve(r) \/ CloseReservation(r)
  \/ \E q \in Reqs :
       \/ \E op \in {"rotate", "bluegreen", "disable"} : BeginAction(q, op)
       \/ LeaveToScheduler(q) \/ FenceToDisable(q) \/ OpenBlueGreen(q) \/ RetireProfile(q)
       \/ \E ok \in BOOLEAN : ProviderAnswers(q, ok) \/ InstallImport(q, ok)
       \/ InstallSecret(q) \/ InstallFails(q) \/ WriteProfile(q)
       \/ StartRetirement(q)
       \/ Prepare(q) \/ PrepareDrains(q) \/ EndImport(q) \/ Recover(q)
       \/ RequestDies(q)
  \/ \E ok \in BOOLEAN : EndRetirement(ok)
  \/ StartDrain \/ EndDrain \/ DrainFails \/ SchedulerDies
  \/ \E on \in BOOLEAN : KillSwitch(on)

\* The scheduler's loop calls both finalizers every five seconds and their
\* provider calls time out; a reservation is closed by its job or as stale.
Fairness ==
  /\ \A q \in Reqs : WF_vars(StartRetirement(q))
  /\ WF_vars(\E ok \in BOOLEAN : EndRetirement(ok))
  /\ WF_vars(StartDrain) /\ WF_vars(EndDrain \/ DrainFails)
  /\ \A r \in Res : WF_vars(CloseReservation(r))

Spec == Init /\ [][Next]_vars /\ Fairness

-----------------------------------------------------------------------------
(* Properties. *)

\* Rows keep the values their columns allow.
TypeOK ==
  /\ kind \in Kinds /\ kill \in BOOLEAN /\ faults \in 0..MaxFaults
  /\ prof \in [life : {"none", "pending", "enabled", "draining", "disabled", "retired", "local_failed"},
               on : BOOLEAN, gen : Generations, user : Reqs \union {First},
               pending : {"none", "rotate", "disable", "retire"}, retired : BOOLEAN, routed : BOOLEAN]
  /\ file \in [gen : Generations, user : Reqs \union {First}]
  /\ \A r \in Res : res[r].state \in {"none", "queued", "built", "active", "revocation_requested", "closed"}
  /\ \A q \in Reqs :
       /\ req[q].at \in Steps
       /\ ret[q].state \in {"none", "creating", "draining", "finalizing", "completed", "failed"}
       /\ intent[q].state \in {"none", "prepared", "installed", "completed", "failed"}

\* An import never takes the secret away from under a paid lease: as long as a
\* reservation of a Webshare profile is open, the file holds the generation it
\* was made under, across every crash and recovery.
LeasedSecretKept ==
  kind = "webshare" => \A r \in OpenRes : res[r].gen = file.gen

\* An import that reports completion installed the secret its operator sent,
\* and not one that another import left in the file.
CompletedSecretInstalled ==
  \A q \in Reqs : intent[q].state = "completed" /\ file.gen = intent[q].gen + 1 => file.user = q

\* A blue-green rotation deletes the sub-user it replaced only when no lease
\* that was made under it, at the generation it replaced, is open; and none can
\* be opened afterwards, although a retirement removes the file's entry and a
\* rotation under way then installs generation 1 a second time.
RetiredUserUnused ==
  \A q \in Reqs : ret[q].state \in {"finalizing", "completed"} =>
    \A r \in OpenRes : ~(res[r].user = ret[q].user /\ res[r].gen = ret[q].gen)

\* A drain ends: the profile leaves 'draining', unless a restart left one of its
\* retirements in 'finalizing', a state nothing takes up again.
DrainEnds ==
  prof.life = "draining" ~>
    \/ prof.life # "draining"
    \/ fin.at = "idle" /\ \E q \in Reqs : ret[q].state = "finalizing"
    \/ file.gen = MaxGen
=============================================================================
