--------------------------- MODULE UpdateTransaction ---------------------------
(***************************************************************************)
(* The update of one disposable laboratory, runtime.py's                   *)
(* activate_reviewed_update, and its recovery after an interruption:       *)
(* _recover_update for commands that may start containers and              *)
(* _recover_update_for_cleanup for those that may not.                     *)
(*                                                                         *)
(* A candidate run is created beside the previous one behind a temporary   *)
(* gateway, takes over the reviewed port, and the previous run is removed. *)
(* The update journal (jr) says how far this came; the run-state file      *)
(* (disk) names the run in charge.  Every Docker call and every write is a *)
(* step; commands are killed, calls raise and containers exit in between.  *)
(*                                                                         *)
(* An object is a pair of a run and a name.  "base" stands for a run's     *)
(* networks and volumes, "temporary" for the candidate's gateway on the    *)
(* temporary port; "gateway" and "again" are two identities a gateway on   *)
(* the reviewed port may have, since a rollback gives it a new one.        *)
(* Whether seed data is in place is RunLifecycle's concern.                *)
(***************************************************************************)
EXTENDS Integers, FiniteSets

CONSTANTS
    Runs,      \* run identities; each has its own manifest identity
    Recovery,  \* which commands recover: {"run"}, {"clean"} or both
    NoJournal  \* no update journal, and no command in memory

Reviewed == {"gateway", "again"}
Gateways == Reviewed \cup {"temporary"}
Names    == {"base", "seeder", "app"} \cup Gateways
Startable == Gateways \cup {"app"}
Deployed == {"base", "app"}
Roles    == {"app", "gateway"}
Journal  == [phase : {"staged", "cutover", "ready"},
             prev : Runs, prevRes : SUBSET Names,
             cand : Runs, candRes : SUBSET Names, roles : SUBSET Roles]
RunState == [run : Runs, res : SUBSET Names]

ASSUME ConstantsAssumption ==
    /\ Recovery \subseteq {"run", "clean"}
    /\ NoJournal \notin Journal

VARIABLES
    objs,    \* managed objects that exist
    running, \* gateways and applications that run
    disk,    \* the run-state file
    jr,      \* the update journal
    pc,      \* the next step, "idle" between commands
    cmd,     \* the command, the last one when idle
    mem,     \* the journal in the command's memory
    calm     \* TRUE once nothing fails any more

vars == <<objs, running, disk, jr, pc, cmd, mem, calm>>

-----------------------------------------------------------------------------
(* What the command reads.                                                 *)

Of(r)      == {n \in Names : <<r, n>> \in objs}
Up(r)      == {n \in Names : <<r, n>> \in running}
RoleOf(n)  == IF n \in Gateways THEN "gateway" ELSE n
UpRoles(r) == {RoleOf(n) : n \in Up(r)}

\* _complete_layout: one application, one gateway, all storage, no seeder.
Complete(res) ==
    /\ Deployed \subseteq res
    /\ "seeder" \notin res
    /\ Cardinality(res \cap Reviewed) = 1

Recorded(m) == ({m.prev} \X m.prevRes) \cup ({m.cand} \X m.candRes)

\* _assert_no_orphans for both runs: what exists is in the two records.
NoOrphans(m) == objs \subseteq Recorded(m)

\* _adopt_journaled_candidate: deterministic names replace the record.
WithCandidate(m) == [m EXCEPT !.candRes = Of(m.cand)]

\* Mutant: a gateway that a rollback created is only known from the checkpoint.
WithPreviousSeederOnly(m) ==
    [m EXCEPT !.prevRes = (@ \ {"seeder"}) \cup (Of(m.prev) \cap {"seeder"})]

\* _adopt_rollback_gateway and _adopt_rollback_seeder: a gateway created after
\* the last checkpoint replaces the recorded one, a seeder is found or forgotten.
WithPrevious(m) ==
    LET here == Of(m.prev) \cap (Reviewed \cup {"seeder"})
        kept == m.prevRes \ (IF here \cap Reviewed = {} THEN {"seeder"}
                             ELSE Reviewed \cup {"seeder"})
    IN  [m EXCEPT !.prevRes = kept \cup here]

\* The test of a ready candidate, before the previous run is given up.
Matches(m) ==
    /\ NoOrphans(m)
    /\ Complete(m.candRes)
    /\ UpRoles(m.cand) = m.roles

-----------------------------------------------------------------------------
(* Steps.                                                                  *)

Step(p, m) == pc' = p /\ mem' = m /\ UNCHANGED <<cmd, calm>>

Create(r, n) == objs' = objs \cup {<<r, n>>} /\ UNCHANGED running
Remove(r, n) == objs' = objs \ {<<r, n>>} /\ running' = running \ {<<r, n>>}
Start(r, n)  == <<r, n>> \in objs /\ running' = running \cup {<<r, n>>}
                    /\ UNCHANGED objs
Stop(r, n)   == running' = running \ {<<r, n>>} /\ UNCHANGED objs

dockerVars == <<objs, running>>

\* The removal order of _cleanup: containers, then storage and networks.
Leaving(S) == IF S \ {"base"} = {} THEN S ELSE S \ {"base"}

\* save_update, and where the command goes on after it.
AfterSave ==
    [created |-> "create", unseeded |-> "openTemporary", closed |-> "closeOld",
     opened |-> "startFinal", adopted |-> "oldSeeder", dropped |-> "oldSeeder",
     reopened |-> "roles", reseeded |-> "restart", settled |-> "startSeeded",
     started |-> "final", halted |-> "idle", abandoned |-> "abandoning"]

SaveJournal ==
    /\ pc \in DOMAIN AfterSave
    /\ jr' = mem
    /\ Step(AfterSave[pc], IF pc = "halted" THEN NoJournal ELSE mem)
    /\ UNCHANGED <<dockerVars, disk>>

\* store.save of the previous run, before the same in the journal.
AfterStore ==
    [seederGone |-> "dropped", seeding |-> "reseeded", seeded |-> "settled",
     starting |-> "started", halting |-> "halted"]

SavePrevious ==
    /\ pc \in DOMAIN AfterStore
    /\ disk' = [run |-> mem.prev, res |-> mem.prevRes]
    /\ Step(AfterStore[pc], mem)
    /\ UNCHANGED <<dockerVars, jr>>

-----------------------------------------------------------------------------
(* activate_reviewed_update.                                               *)

\* A complete run without orphans is the rollback base; the journal comes
\* before anything of the candidate.
Stage(c) ==
    /\ pc = "idle"
    /\ jr = NoJournal
    /\ Of(c) = {}
    /\ Complete(disk.res)
    /\ objs = {disk.run} \X disk.res
    /\ jr' = [phase |-> "staged", prev |-> disk.run, prevRes |-> disk.res,
              cand |-> c, candRes |-> {}, roles |-> UpRoles(disk.run)]
    /\ pc' = "create"
    /\ cmd' = "update"
    /\ mem' = jr'
    /\ UNCHANGED <<dockerVars, disk, calm>>

\* _create_run with a checkpoint after each creation.
Order == <<"base", "seeder", "app", "temporary">>

CreateCandidate ==
    /\ pc = "create"
    /\ \E i \in DOMAIN Order :
          /\ \A j \in DOMAIN Order : j < i <=> Order[j] \in mem.candRes
          /\ Create(mem.cand, Order[i])
          /\ Step("created", [mem EXCEPT !.candRes = @ \cup {Order[i]}])
    /\ UNCHANGED <<disk, jr>>

StartCandidate ==
    /\ pc = "create"
    /\ \A i \in DOMAIN Order : Order[i] \in mem.candRes
    /\ Start(mem.cand, "app")
    /\ Step("unseed", mem)
    /\ UNCHANGED <<disk, jr>>

RemoveSeeder ==
    /\ pc = "unseed"
    /\ "app" \in Up(mem.cand)
    /\ Remove(mem.cand, "seeder")
    /\ Step("unseeded", [mem EXCEPT !.candRes = @ \ {"seeder"}])
    /\ UNCHANGED <<disk, jr>>

OpenTemporary ==
    /\ pc = "openTemporary"
    /\ Start(mem.cand, "temporary")
    /\ Step("smoke", mem)
    /\ UNCHANGED <<disk, jr>>

\* Health and identity on the temporary port, then the cutover is journaled.
Smoke ==
    /\ pc = "smoke"
    /\ Up(mem.cand) = {"app", "temporary"}
    /\ jr' = [mem EXCEPT !.phase = "cutover"]
    /\ Step("closeTemporary", jr')
    /\ UNCHANGED <<dockerVars, disk>>

CloseTemporary ==
    /\ pc = "closeTemporary"
    /\ Remove(mem.cand, "temporary")
    /\ Step("closed", [mem EXCEPT !.candRes = @ \ {"temporary"}])
    /\ UNCHANGED <<disk, jr>>

\* Mutant: the previous gateway is left for the cleanup.
CloseOldLater ==
    /\ pc = "closeOld"
    /\ Step("openFinal", mem)
    /\ UNCHANGED <<dockerVars, disk, jr>>

CloseOld ==
    /\ pc = "closeOld"
    /\ \E g \in mem.prevRes \cap Reviewed : Remove(mem.prev, g)
    /\ Step("openFinal", mem)
    /\ UNCHANGED <<disk, jr>>

OpenFinal ==
    /\ pc = "openFinal"
    /\ Create(mem.cand, "gateway")
    /\ Step("opened", [mem EXCEPT !.candRes = @ \cup {"gateway"}])
    /\ UNCHANGED <<disk, jr>>

StartFinal ==
    /\ pc = "startFinal"
    /\ Start(mem.cand, "gateway")
    /\ Step("verify", mem)
    /\ UNCHANGED <<disk, jr>>

\* Health and identity on the reviewed port.
Verify ==
    /\ pc = "verify"
    /\ Up(mem.cand) = {"app", "gateway"}
    /\ Step("settle", mem)
    /\ UNCHANGED <<dockerVars, disk, jr>>

\* A run that was stopped stays stopped.
Settle ==
    /\ pc = "settle"
    /\ \E n \in Up(mem.cand) : RoleOf(n) \notin mem.roles /\ Stop(mem.cand, n)
    /\ Step("settle", mem)
    /\ UNCHANGED <<disk, jr>>

\* Mutant: the candidate stays up although the previous run was stopped.
ReadyUnsettled ==
    /\ pc = "settle"
    /\ jr' = [mem EXCEPT !.phase = "ready"]
    /\ Step("publish", jr')
    /\ UNCHANGED <<dockerVars, disk>>

\* Mutant: the ready phase is never written.
ReadyInMemory ==
    /\ pc = "settle"
    /\ UpRoles(mem.cand) \subseteq mem.roles
    /\ Step("publish", [mem EXCEPT !.phase = "ready"])
    /\ UNCHANGED <<dockerVars, disk, jr>>

Ready ==
    /\ pc = "settle"
    /\ UpRoles(mem.cand) \subseteq mem.roles
    /\ jr' = [mem EXCEPT !.phase = "ready"]
    /\ Step("publish", jr')
    /\ UNCHANGED <<dockerVars, disk>>

\* The candidate's state replaces the previous one.
Publish ==
    /\ pc = "publish"
    /\ disk' = [run |-> mem.cand, res |-> mem.candRes]
    /\ Step("retire", mem)
    /\ UNCHANGED <<dockerVars, jr>>

\* _cleanup of the previous run.
Retire ==
    /\ pc = "retire"
    /\ NoOrphans(mem)
    /\ \/ /\ \E n \in Leaving(Of(mem.prev)) : Remove(mem.prev, n)
          /\ Step("retire", mem)
       \/ /\ Of(mem.prev) = {}
          /\ Step("forget", mem)
          /\ UNCHANGED dockerVars
    /\ UNCHANGED <<disk, jr>>

\* delete_update.
Forget ==
    /\ pc = "forget"
    /\ jr' = NoJournal
    /\ Step("idle", NoJournal)
    /\ UNCHANGED <<dockerVars, disk>>

\* The handler of _create_run: adopt, checkpoint, clean up, raise.
Abandon ==
    /\ pc = "abandon"
    /\ Step(IF Of(mem.cand) = {} THEN "abandoning" ELSE "abandoned",
            WithCandidate(mem))
    /\ UNCHANGED <<dockerVars, disk, jr>>

-----------------------------------------------------------------------------
(* Recovery.                                                               *)

\* A later command finds a journal; the installed manifest may meanwhile be
\* another one than the candidate's.
Recover(c, installed) ==
    /\ pc = "idle"
    /\ jr # NoJournal
    /\ cmd' = c
    /\ mem' = jr
    /\ pc' = IF jr.phase = "ready" /\ installed THEN "judge" ELSE "restore"
    /\ UNCHANGED <<dockerVars, disk, jr, calm>>

\* Mutant: what the journal calls ready is completed as it is.
JudgeUnchecked ==
    /\ pc = "judge"
    /\ Step("publish", WithCandidate(mem))
    /\ UNCHANGED <<dockerVars, disk, jr>>

\* The candidate is validated again; only a matching one is completed.  Any
\* error on the way counts as a mismatch.
JudgeMatch ==
    /\ pc = "judge"
    /\ Matches(WithCandidate(mem))
    /\ Step("publish", WithCandidate(mem))
    /\ UNCHANGED <<dockerVars, disk, jr>>

JudgeMismatch ==
    /\ pc = "judge"
    /\ ~calm \/ ~Matches(WithCandidate(mem))
    /\ Step("restore", mem)
    /\ UNCHANGED <<dockerVars, disk, jr>>

\* Both runs are adopted and checkpointed before anything is touched.
Restore ==
    /\ pc = "restore"
    /\ Step("adopted", WithPrevious(WithCandidate(mem)))
    /\ UNCHANGED <<dockerVars, disk, jr>>

\* _discard_rollback_seeder; only the executing path then saves the run.
DropSeeder ==
    /\ pc = "oldSeeder"
    /\ "seeder" \in mem.prevRes
    /\ IF "app" \in Up(mem.prev)
       THEN Stop(mem.prev, "app") /\ Step("oldSeeder", mem)
       ELSE /\ Remove(mem.prev, "seeder")
            /\ Step(IF cmd = "clean" THEN "dropped" ELSE "seederGone",
                    [mem EXCEPT !.prevRes = @ \ {"seeder"}])
    /\ UNCHANGED <<disk, jr>>

\* Mutant: a rollback does not look for what it will need.
PreviousAssumed ==
    /\ pc = "oldSeeder"
    /\ "seeder" \notin mem.prevRes
    /\ Step("discard", mem)
    /\ UNCHANGED <<dockerVars, disk, jr>>

\* Mutant: the cleanup path, too, insists on a restorable previous run.
PreviousRequired ==
    /\ pc = "oldSeeder"
    /\ "seeder" \notin mem.prevRes
    /\ mem.prevRes \ Reviewed \subseteq Of(mem.prev)
    /\ Step("discard", mem)
    /\ UNCHANGED <<dockerVars, disk, jr>>

\* Everything but the gateway must still be there for a rollback; the cleanup
\* path keeps whatever is.
PreviousHolds ==
    /\ pc = "oldSeeder"
    /\ "seeder" \notin mem.prevRes
    /\ cmd # "clean" => mem.prevRes \ Reviewed \subseteq Of(mem.prev)
    /\ Step("discard", mem)
    /\ UNCHANGED <<dockerVars, disk, jr>>

\* Mutant: the cleanup path goes on like the executing one.
DiscardAndReopen ==
    /\ pc \in {"discard", "abandoning"}
    /\ NoOrphans(mem)
    /\ \/ /\ \E n \in Leaving(Of(mem.cand)) : Remove(mem.cand, n)
          /\ Step(pc, mem)
       \/ /\ Of(mem.cand) = {}
          /\ IF pc = "abandoning" THEN Step("restore", jr)
                                  ELSE Step("oldGateway", mem)
          /\ UNCHANGED dockerVars
    /\ UNCHANGED <<disk, jr>>

\* _cleanup of the candidate.
Discard ==
    /\ pc \in {"discard", "abandoning"}
    /\ NoOrphans(mem)
    /\ \/ /\ \E n \in Leaving(Of(mem.cand)) : Remove(mem.cand, n)
          /\ Step(pc, mem)
       \/ /\ Of(mem.cand) = {}
          /\ IF pc = "abandoning" THEN Step("restore", jr)
             ELSE Step(IF cmd = "clean" THEN "survive" ELSE "oldGateway", mem)
          /\ UNCHANGED dockerVars
    /\ UNCHANGED <<disk, jr>>

\* A gateway that the cutover had removed is recreated.
ReopenOld ==
    /\ pc = "oldGateway"
    /\ \/ /\ mem.prevRes \cap Reviewed \subseteq Of(mem.prev)
          /\ Step("roles", mem)
          /\ UNCHANGED dockerVars
       \/ \E g \in Reviewed \ mem.prevRes :
             /\ ~(mem.prevRes \cap Reviewed \subseteq Of(mem.prev))
             /\ Create(mem.prev, g)
             /\ Step("reopened", [mem EXCEPT !.prevRes = (@ \ Reviewed) \cup {g}])
    /\ UNCHANGED <<disk, jr>>

\* Containers whose role did not run before are stopped, and a gateway whose
\* application has to be restarted.
StopExtra ==
    /\ pc = "roles"
    /\ mem.prevRes \subseteq Of(mem.prev)
    /\ \E n \in Up(mem.prev) :
          /\ \/ RoleOf(n) \notin mem.roles
             \/ n \in Gateways /\ "app" \in mem.roles \ Up(mem.prev)
          /\ Stop(mem.prev, n)
    /\ Step("roles", mem)
    /\ UNCHANGED <<disk, jr>>

\* An application is never restarted without a new seeder.
RolesRestored ==
    /\ pc = "roles"
    /\ mem.prevRes \subseteq Of(mem.prev)
    /\ UpRoles(mem.prev) \subseteq mem.roles
    /\ IF "app" \in mem.roles \ Up(mem.prev)
       THEN UpRoles(mem.prev) = {} /\ Step("reseed", mem)
       ELSE Step("startOld", mem)
    /\ UNCHANGED <<dockerVars, disk, jr>>

\* _reseed_and_start with a checkpoint in both files.
Reseed ==
    /\ pc = "reseed"
    /\ Create(mem.prev, "seeder")
    /\ Step("seeding", [mem EXCEPT !.prevRes = @ \cup {"seeder"}])
    /\ UNCHANGED <<disk, jr>>

Restart ==
    /\ pc = "restart"
    /\ Start(mem.prev, "app")
    /\ Step("restarted", mem)
    /\ UNCHANGED <<disk, jr>>

Unseed ==
    /\ pc = "restarted"
    /\ "app" \in Up(mem.prev)
    /\ Remove(mem.prev, "seeder")
    /\ Step("seeded", [mem EXCEPT !.prevRes = @ \ {"seeder"}])
    /\ UNCHANGED <<disk, jr>>

\* The handler of _reseed_and_start: suppressed stops and removal, then a
\* checkpoint without the seeder.
Halt ==
    /\ pc = "halt"
    /\ \E stopped \in SUBSET ({mem.prev} \X Up(mem.prev)) :
          /\ calm => stopped = {mem.prev} \X Up(mem.prev)
          /\ running' = running \ stopped
    /\ \/ objs' = objs \ {<<mem.prev, "seeder">>}
       \/ ~calm /\ UNCHANGED objs
    /\ Step("halting", [mem EXCEPT !.prevRes = @ \ {"seeder"}])
    /\ UNCHANGED <<disk, jr>>

\* The gateway, at the end of _reseed_and_start or alone.
StartOld ==
    /\ pc \in {"startSeeded", "startOld"}
    /\ IF "gateway" \in mem.roles \ UpRoles(mem.prev)
       THEN \E g \in mem.prevRes \cap Reviewed : Start(mem.prev, g)
       ELSE UNCHANGED dockerVars
    /\ Step(IF pc = "startSeeded" THEN "starting" ELSE "final", mem)
    /\ UNCHANGED <<disk, jr>>

\* The previous run is complete, and healthy if it served before.
Restored ==
    /\ pc = "final"
    /\ mem.prevRes \subseteq Of(mem.prev)
    /\ Complete(mem.prevRes)
    /\ mem.roles = Roles => UpRoles(mem.prev) = Roles
    /\ disk' = [run |-> mem.prev, res |-> mem.prevRes]
    /\ Step("forget", mem)
    /\ UNCHANGED <<dockerVars, jr>>

\* The cleanup path keeps what is left of the previous run and starts nothing.
Survive ==
    /\ pc = "survive"
    /\ disk' = [run |-> mem.prev, res |-> mem.prevRes \cap Of(mem.prev)]
    /\ Step("forget", mem)
    /\ UNCHANGED <<dockerVars, jr>>

-----------------------------------------------------------------------------
(* Failure.                                                                *)

\* What the code itself refuses to go on without.
Refused ==
    CASE pc = "unseed"    -> "app" \notin Up(mem.cand)
      [] pc = "smoke"     -> Up(mem.cand) # {"app", "temporary"}
      [] pc = "verify"    -> Up(mem.cand) # {"app", "gateway"}
      [] pc = "restarted" -> "app" \notin Up(mem.prev)
      [] pc = "oldSeeder" ->
            /\ "seeder" \notin mem.prevRes
            /\ cmd # "clean"
            /\ ~(mem.prevRes \ Reviewed \subseteq Of(mem.prev))
      [] pc \in {"discard", "abandoning", "retire"} -> ~NoOrphans(mem)
      [] pc = "roles"     -> ~(mem.prevRes \subseteq Of(mem.prev))
      [] pc = "final"     -> \/ ~(mem.prevRes \subseteq Of(mem.prev))
                             \/ ~Complete(mem.prevRes)
                             \/ mem.roles = Roles /\ UpRoles(mem.prev) # Roles
      [] OTHER            -> FALSE

Creating  == {"create", "created", "unseed", "unseeded", "openTemporary",
              "smoke"}
Replacing == {"smoke", "closeTemporary", "closed", "closeOld", "openFinal",
              "opened", "startFinal", "verify", "settle", "publish", "abandon",
              "abandoned", "abandoning"}
Reseeding == {"reseed", "seeding", "reseeded", "restart", "restarted",
              "seeded", "settled", "startSeeded", "starting", "started"}

\* An exception: into the handler of _create_run, of the update (which reads
\* the journal again), of _reseed_and_start, or out of the command.  "smoke" is
\* the end of _create_run and the check after it.
Raise ==
    /\ pc \notin {"idle", "halt", "judge"}
    /\ ~calm \/ Refused
    /\ \/ cmd = "update" /\ pc \in Creating  /\ Step("abandon", mem)
       \/ cmd = "update" /\ pc \in Replacing /\ Step("restore", jr)
       \/ pc \in Reseeding /\ Step("halt", mem)
       \/ /\ ~(cmd = "update" /\ pc \in Creating \cup Replacing)
          /\ pc \notin Reseeding
          /\ Step("idle", NoJournal)
    /\ UNCHANGED <<dockerVars, disk, jr>>

Crash ==
    /\ ~calm
    /\ pc # "idle"
    /\ Step("idle", NoJournal)
    /\ UNCHANGED <<dockerVars, disk, jr>>

ContainerExits ==
    /\ ~calm
    /\ \E c \in running : running' = running \ {c}
    /\ UNCHANGED <<objs, disk, jr, pc, cmd, mem, calm>>

CalmDown ==
    /\ ~calm
    /\ calm' = TRUE
    /\ UNCHANGED <<dockerVars, disk, jr, pc, cmd, mem>>

\* What up, stop and remove followed by up do between updates, seen from here:
\* the run in charge is complete again, with any of its containers running.
OtherCommand ==
    /\ pc = "idle"
    /\ jr = NoJournal
    /\ LET res == IF Complete(disk.res) THEN disk.res ELSE Deployed \cup {"gateway"}
       IN  /\ disk' = [disk EXCEPT !.res = res]
           /\ objs' = {disk.run} \X res
           /\ running' \in SUBSET ({disk.run} \X (res \cap Startable))
    /\ UNCHANGED <<jr, pc, cmd, mem, calm>>

-----------------------------------------------------------------------------

Init ==
    \E r \in Runs :
       LET res == Deployed \cup {"gateway"} IN
       /\ objs = {r} \X res
       /\ running \in SUBSET ({r} \X (res \cap Startable))
       /\ disk = [run |-> r, res |-> res]
       /\ jr = NoJournal
       /\ pc = "idle"
       /\ cmd = "none"
       /\ mem = NoJournal
       /\ calm = FALSE

Activation ==
    \/ CreateCandidate \/ StartCandidate \/ RemoveSeeder \/ OpenTemporary
    \/ Smoke \/ CloseTemporary \/ CloseOld \/ OpenFinal \/ StartFinal
    \/ Verify \/ Settle \/ Ready \/ Publish \/ Retire \/ Forget \/ Abandon

Rollback ==
    \/ JudgeMatch \/ JudgeMismatch \/ Restore \/ DropSeeder \/ PreviousHolds
    \/ Discard \/ ReopenOld \/ StopExtra \/ RolesRestored \/ Reseed \/ Restart
    \/ Unseed \/ Halt \/ StartOld \/ Restored \/ Survive

Program == SaveJournal \/ SavePrevious \/ Activation \/ Rollback \/ Raise

Environment == Crash \/ ContainerExits \/ CalmDown

Next ==
    \/ Program
    \/ Environment
    \/ OtherCommand
    \/ \E c \in Runs : Stage(c)
    \/ \E c \in Recovery, installed \in BOOLEAN : Recover(c, installed)

Spec == Init /\ [][Next]_vars

\* A started command goes on.
FairSpec == Spec /\ WF_vars(Program)

\* The user repeats c, which recovers, with the candidate's manifest installed.
Insists(c) == SF_vars(Recover(c, TRUE))

-----------------------------------------------------------------------------
(* Properties.                                                             *)

Idle   == {"idle"}
Labels == Idle \cup Creating \cup Replacing \cup Reseeding \cup
          DOMAIN AfterSave \cup DOMAIN AfterStore \cup
          {"retire", "forget", "judge", "restore", "oldSeeder", "discard",
           "oldGateway", "roles", "halt", "startOld", "final", "survive"}

\* Types; the closed parser refuses a journal of one run replacing itself.
TypeOK ==
    /\ objs \subseteq Runs \X Names
    /\ running \subseteq objs
    /\ disk \in RunState
    /\ jr \in Journal \cup {NoJournal}
    /\ jr # NoJournal => jr.prev # jr.cand /\ disk.run \in {jr.prev, jr.cand}
    /\ pc \in Labels
    /\ cmd \in {"none", "update"} \cup Recovery
    /\ mem \in Journal \cup {NoJournal}
    /\ calm \in BOOLEAN

\* Nothing is ever orphaned: without a journal exactly the recorded objects
\* exist, with one every object is of one of its two runs, and what adoption
\* finds leaves no object unaccounted for.
Accounted ==
    IF jr = NoJournal THEN objs = {disk.run} \X disk.res
    ELSE NoOrphans(WithPrevious(WithCandidate(jr)))

\* Two gateways never claim the reviewed port at once.
OnePortOwner ==
    \A a, b \in objs \cap (Runs \X Reviewed) : a = b

\* Until the candidate is ready the previous run can be restored: everything
\* of it but its gateway exists.
RollbackBase ==
    jr # NoJournal /\ jr.phase # "ready" =>
        {jr.prev} \X (jr.prevRes \ (Reviewed \cup {"seeder"})) \subseteq objs

Concluded == jr # NoJournal /\ jr' = NoJournal

\* A transaction ends, whichever way and after whatever interruptions, with
\* no container running whose role did not run before it.
OnlyRolesRestarted ==
    [][Concluded => {RoleOf(c[2]) : c \in running'} \subseteq jr.roles]_vars

\* The recovery of stop, remove and purge creates and starts nothing.
CleanupStartsNothing ==
    [][(cmd = "clean" /\ pc # "idle")
          => objs' \subseteq objs /\ running' \subseteq running]_vars

\* An executed update or recovery ends with one complete run.
EndsComplete ==
    [][(Concluded /\ cmd # "clean")
          => Complete(disk.res) /\ objs = {disk.run} \X disk.res]_vars

\* What the two deployments are to the abstract replacement.
Contract == INSTANCE Replacement WITH
    current   <- IF jr = NoJournal THEN disk.run ELSE jr.prev,
    candidate <- IF jr = NoJournal THEN {} ELSE {jr.cand},
    verified  <- jr # NoJournal /\ jr.phase = "ready",
    intact    <- {r \in Runs : {r} \X Deployed \subseteq objs}

\* The executing commands implement the abstract replacement; cleanup, which
\* keeps what is left of the previous run and repairs nothing, may give up a
\* candidate without it.
ImplementsReplacement ==
    Contract!Init /\ [][cmd' = "clean" \/ Contract!Next]_(Contract!vars)

\* A ready candidate that no longer matches, after its previous run began to
\* go, can be neither completed nor rolled back.
Wrecked ==
    /\ jr # NoJournal
    /\ jr.phase = "ready"
    /\ ~Matches(WithCandidate(jr))
    /\ ~({jr.prev} \X Deployed \subseteq objs)

\* Once nothing fails any more, repeating stop, remove or purge ends whatever
\* transaction was interrupted.
CleanupResolves == Insists("clean") => (calm ~> jr = NoJournal)

\* So does repeating an executing command, except when Wrecked.
ExecutionResolves ==
    Insists("run") => ((calm /\ ~Wrecked) ~> jr = NoJournal)

\* Without the exception, as the documentation of updates says it.
ExecutionAlwaysResolves == Insists("run") => (calm ~> jr = NoJournal)
=============================================================================
