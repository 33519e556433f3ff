------------------------------ MODULE RunLifecycle ------------------------------
(***************************************************************************)
(* The life of one laboratory as src/vulndockyard/runtime.py drives it:    *)
(* up, stop, restart, rebuild, remove (also purge) and reset, over three   *)
(* stores that no single step changes together:                            *)
(*                                                                         *)
(*   - the Docker daemon: which managed objects exist (objs), which        *)
(*     containers run (running), which runs have initialised storage       *)
(*     (seeded);                                                           *)
(*   - the run-state file (disk), replaced atomically by state.py;         *)
(*   - the memory of the command being executed (pc, st, todo, ret), lost  *)
(*     when its process dies.                                              *)
(*                                                                         *)
(* Every Docker mutation and every state-file write is a step of its own,  *)
(* and between any two steps the process may be killed (Crash), a call may *)
(* raise (Raise) and a container may exit (ContainerExits).  An object is  *)
(* a pair <<run, name>>: within one ownership epoch the deterministic name *)
(* identifies it, because the code never creates a name it still records.  *)
(*                                                                         *)
(* Commands run one at a time, which is the lifecycle lock's promise.  A   *)
(* pending update journal, a second laboratory, a changed manifest and an  *)
(* untrusted image are not part of this module.                            *)
(***************************************************************************)
EXTENDS Integers

CONSTANTS
    Runs,             \* run identities (uuid4)
    Volumes,          \* the manifest's named storage
    Persistent,       \* manifest.persistence_required
    NoState           \* no run-state file

Networks   == {"net", "ingress"}
Containers == {"gateway", "app", "seeder"}
Names      == Networks \cup Volumes \cup Containers
Layout     == Names \ {"seeder"}
Phases     == {"provisioning", "steady", "rebuild"}
RunState   == [run : Runs, phase : Phases, res : SUBSET Names]
Objects    == Runs \X Names

Commands    == {"up", "stop", "restart", "rebuild", "remove", "reset"}
Destructive == {"remove", "reset"}
Outcomes    == {"none", "pending", "ok", "error", "killed"}

\* Where a command can be: the labels of runtime.py's methods.
Labels == {"idle", "recover", "discard", "discarding", "save",
           "cleanup", "removing", "delete", "stop", "stopping", "remove",
           "rebuild", "up", "layout", "revive", "reopen", "resume", "clear",
           "cleared", "create", "build", "record", "seed", "seeding",
           "unseed", "unseeded", "assemble", "holdSeeder", "startApp",
           "appStarted", "startGateway", "health", "publish", "undo", "halt",
           "haltSeeder", "haltSave", "status"}

ASSUME ConstantsAssumption ==
    /\ Volumes \cap (Networks \cup Containers) = {}
    /\ Persistent \in BOOLEAN
    /\ Persistent => Volumes # {}
    /\ NoState \notin RunState

VARIABLES
    objs,     \* managed Docker objects that exist
    running,  \* containers Docker reports as running
    seeded,   \* runs whose storage holds the reviewed seed data
    missed,   \* runs whose application outlived a suppressed stop
    disk,     \* the run-state file
    pc,       \* the next step of the command, "idle" between commands
    cmd,      \* the command, the last one when idle
    outcome,  \* how it ended
    st,       \* the RunState the command holds in memory
    todo,     \* what the loop in progress still has to visit
    ret,      \* where the shared step in progress continues
    calm      \* TRUE once nothing fails any more

dockerVars == <<objs, running, seeded, missed>>
vars == <<objs, running, seeded, missed, disk, pc, cmd, outcome, st, todo, ret, calm>>

-----------------------------------------------------------------------------
(* Names, in the order the code removes them; it creates in reverse.       *)

Rank(n) == CASE n = "gateway" -> 1 [] n = "app" -> 2 [] n = "seeder" -> 3
             [] n = "ingress" -> 5 [] n = "net" -> 6 [] OTHER -> 4

First(S) == {n \in S : \A m \in S : Rank(n) <= Rank(m)}
Last(S)  == {n \in S : \A m \in S : Rank(m) <= Rank(n)}

-----------------------------------------------------------------------------
(* What the command reads.                                                 *)

Of(r)     == {n \in Names : <<r, n>> \in objs}
Up(n)     == <<st.run, n>> \in running

\* Mutant: the create-to-checkpoint window is not adopted.
AdoptedRecordedOnly(s) == [s EXCEPT !.res = @ \cap Of(s.run)]

\* Deterministic names with complete ownership labels replace the record.
Adopted(s) == [s EXCEPT !.res = Of(s.run)]

\* _assert_no_orphans: every managed object of the laboratory is recorded.
NoOrphans(s) ==
    IF s = NoState THEN objs = {} ELSE objs \subseteq {s.run} \X s.res

AllExist(s) == {s.run} \X s.res \subseteq objs

\* _validate_state with the reviewed policy: exactly the named storage.
PolicyHolds(s) == Volumes \subseteq s.res

\* The closed parser every save passes through.
Saveable(s) == s.phase = "rebuild" => Volumes \subseteq s.res

NeedsSeeder == Volumes # {}

\* What "build" has to create before the containers that serve: everything in
\* _create_run, the networks in _resume_persistent_rebuild (2250-2253), only a
\* new seeder in _reseed_and_start (683-690).
Storage(s) ==
    CASE s.phase = "provisioning" ->
            Networks \cup Volumes \cup (IF NeedsSeeder THEN {"seeder"} ELSE {})
      [] s.phase = "rebuild" -> Networks
      [] OTHER -> IF NeedsSeeder /\ ~Persistent THEN {"seeder"} ELSE {}

\* Mutant: the seeder is not checked around the application's start.
SeederUnchecked == TRUE

\* Only a running seeder keeps disposable seed data until the application runs.
SeederHolds == "seeder" \in st.res => Up("seeder")

-----------------------------------------------------------------------------
(* What Docker does.                                                       *)

\* A tmpfs-backed volume keeps its data while a running container mounts it,
\* an ordinary volume while it exists.
Holds(r, o, u) ==
    IF Persistent THEN {r} \X Volumes \subseteq o
                  ELSE {<<r, "seeder">>, <<r, "app">>} \cap u # {}

Docker(o, u) ==
    /\ objs' = o
    /\ running' = u
    /\ seeded' = {r \in seeded : Holds(r, o, u)}
    /\ missed' = {r \in missed : <<r, "app">> \in u}

CreateObject(n)   == Docker(objs \cup {<<st.run, n>>}, running)
StartContainer(n) == Docker(objs, running \cup {<<st.run, n>>})
StopContainer(n)  == Docker(objs, running \ {<<st.run, n>>})
RemoveObject(n)   == Docker(objs \ {<<st.run, n>>}, running \ {<<st.run, n>>})

-----------------------------------------------------------------------------
(* How a command moves.                                                    *)

Step(label, state, work, next) ==
    /\ pc' = label
    /\ st' = state
    /\ todo' = work
    /\ ret' = next
    /\ UNCHANGED <<cmd, outcome, calm>>

Finish(o) ==
    /\ pc' = "idle"
    /\ outcome' = o
    /\ st' = NoState
    /\ todo' = {}
    /\ ret' = "idle"
    /\ UNCHANGED <<cmd, calm>>

\* Mutant: reset and rebuild end with the removal.
AfterRemoveEnds == "status"

AfterRecover ==
    CASE cmd \in {"stop", "restart"} -> "stop"
      [] cmd = "rebuild" -> "rebuild"
      [] OTHER -> "remove"
AfterStop   == IF cmd = "restart" THEN "up" ELSE "status"
AfterRemove == IF cmd = "remove" THEN "status" ELSE "up"

Entry(c) ==
    LET provisioning == disk # NoState /\ disk.phase = "provisioning"
    IN  CASE c = "up" -> "up"
          [] c = "restart" -> IF provisioning THEN "recover" ELSE "stop"
          [] c = "rebuild" -> IF provisioning THEN "recover" ELSE "rebuild"
          [] OTHER -> "recover"

\* The code's own refusals: a step whose check fails raises.
Check ==
    /\ pc = "save"    => st = disk \/ Saveable(st)
    /\ pc = "cleanup" => NoOrphans(st)
    /\ pc = "layout"  => NoOrphans(st) /\ AllExist(st) /\ PolicyHolds(st)
    /\ pc \in {"stop", "status"} =>
          NoOrphans(disk) /\ (disk # NoState => AllExist(disk))
    /\ pc = "status"  => (disk # NoState => PolicyHolds(disk))
    /\ pc \in {"remove", "up"} => (disk = NoState => objs = {})
    /\ pc = "rebuild" =>
          ((Persistent /\ disk # NoState /\ disk.phase = "steady") =>
              NoOrphans(disk) /\ AllExist(disk) /\ disk.res = Layout)
    /\ pc = "resume"  =>
          Volumes \subseteq st.res \cap Of(st.run) /\ NoOrphans(Adopted(st))
    /\ pc = "seeding" => Up("seeder")
    /\ pc = "holdSeeder" => SeederHolds
    /\ pc = "appStarted" => Up("app") /\ SeederHolds
    /\ pc = "health"  => Up("app") /\ Up("gateway")
    /\ pc = "publish" => st.res = Layout /\ AllExist(st)

-----------------------------------------------------------------------------
(* The user.                                                               *)

\* One command at a time: the lifecycle lock.
StartCommand(c) ==
    /\ pc = "idle"
    /\ pc' = Entry(c)
    /\ cmd' = c
    /\ outcome' = "pending"
    /\ UNCHANGED <<dockerVars, disk, st, todo, ret, calm>>

-----------------------------------------------------------------------------
(* Recovery of what an interrupted command left, and cleanup.              *)

\* _recover_runtime_transients_for_cleanup.
RecoverTransients ==
    /\ pc = "recover"
    /\ \/ /\ disk = NoState
          /\ Step(AfterRecover, NoState, {}, "idle")
          /\ UNCHANGED disk
       \/ /\ disk # NoState
          /\ disk.phase = "provisioning"
          /\ disk' = Adopted(disk)
          /\ Step("cleanup", Adopted(disk), {}, AfterRecover)
       \/ /\ disk # NoState
          /\ disk.phase # "provisioning"
          /\ Step(IF "seeder" \in Of(disk.run) THEN "discard" ELSE "save",
                  Adopted(disk), {}, AfterRecover)
          /\ UNCHANGED disk
    /\ UNCHANGED dockerVars

\* _discard_rollback_seeder: an application that may have started on storage
\* only the leftover seeder holds is stopped before the seeder goes.
DiscardStopApp ==
    /\ pc = "discard"
    /\ IF Up("app") THEN StopContainer("app") ELSE UNCHANGED dockerVars
    /\ Step("discarding", st, {}, ret)
    /\ UNCHANGED disk

DiscardSeeder ==
    /\ pc = "discarding"
    /\ RemoveObject("seeder")
    /\ Step("save", [st EXCEPT !.res = @ \ {"seeder"}], {}, ret)
    /\ UNCHANGED disk

SaveState ==
    /\ pc = "save"
    /\ Check
    /\ disk' = st
    /\ Step(ret, st, {}, "idle")
    /\ UNCHANGED dockerVars

\* _cleanup: every check first, then containers, volumes, networks.
CleanupValidate ==
    /\ pc = "cleanup"
    /\ Check
    /\ Step("removing", st, st.res \cap Of(st.run), ret)
    /\ UNCHANGED <<dockerVars, disk>>

CleanupRemove ==
    /\ pc = "removing"
    /\ \E n \in First(todo) :
          /\ RemoveObject(n)
          /\ Step("removing", st, todo \ {n}, ret)
    /\ UNCHANGED disk

CleanupDone ==
    /\ pc = "removing"
    /\ todo = {}
    /\ Step("delete", st, {}, ret)
    /\ UNCHANGED <<dockerVars, disk>>

\* store.delete, which every caller of _cleanup reaches only if it returned.
DeleteState ==
    /\ pc = "delete"
    /\ disk' = NoState
    /\ IF ret = "idle" THEN Finish("error") ELSE Step(ret, NoState, {}, "idle")
    /\ UNCHANGED dockerVars

-----------------------------------------------------------------------------
(* stop, remove, rebuild.                                                  *)

\* _stop does not adopt: it refuses an unrecorded or a missing object.
Stop ==
    /\ pc = "stop"
    /\ Check
    /\ IF disk = NoState
       THEN Step(AfterStop, NoState, {}, "idle")
       ELSE Step("stopping", disk,
                 {n \in Containers \cap disk.res : <<disk.run, n>> \in running},
                 AfterStop)
    /\ UNCHANGED <<dockerVars, disk>>

StopNext ==
    /\ pc = "stopping"
    /\ \E n \in First(todo) :
          /\ StopContainer(n)
          /\ Step("stopping", st, todo \ {n}, ret)
    /\ UNCHANGED disk

StopDone ==
    /\ pc = "stopping"
    /\ todo = {}
    /\ Step(ret, NoState, {}, "idle")
    /\ UNCHANGED <<dockerVars, disk>>

Remove ==
    /\ pc = "remove"
    /\ Check
    /\ IF disk = NoState THEN Step(AfterRemove, NoState, {}, "idle")
                         ELSE Step("cleanup", disk, {}, AfterRemove)
    /\ UNCHANGED <<dockerVars, disk>>

\* Mutant: rebuild of a persistent laboratory as of a disposable one.
RebuildByRemoval ==
    /\ pc = "rebuild"
    /\ Check
    /\ Step("remove", NoState, {}, "idle")
    /\ UNCHANGED <<dockerVars, disk>>

\* rebuild keeps the volumes of a persistent laboratory, and is remove and up
\* for a disposable one.
Rebuild ==
    /\ pc = "rebuild"
    /\ Check
    /\ \/ /\ disk = NoState \/ ~Persistent
          /\ Step("remove", NoState, {}, "idle")
          /\ UNCHANGED disk
       \/ /\ disk # NoState
          /\ Persistent
          /\ disk' = [disk EXCEPT !.phase = "rebuild"]
          /\ Step("resume", disk', {}, "idle")
    /\ UNCHANGED dockerVars

-----------------------------------------------------------------------------
(* up.                                                                     *)

\* _up on the state it loads: start afresh, clean up an interrupted start,
\* resume a rebuild, or adopt what an interrupted command did not record.
UpLoad ==
    /\ pc = "up"
    /\ Check
    /\ \/ /\ disk = NoState
          /\ Step("create", NoState, {}, "idle")
          /\ UNCHANGED disk
       \/ /\ disk # NoState
          /\ disk.phase = "provisioning"
          /\ disk' = Adopted(disk)
          /\ Step("cleanup", disk', {}, "up")
       \/ /\ disk # NoState
          /\ disk.phase = "rebuild"
          /\ Step("resume", disk, {}, "idle")
          /\ UNCHANGED disk
       \/ /\ disk # NoState
          /\ disk.phase = "steady"
          /\ disk' = Adopted(disk)
          /\ Step(IF "seeder" \in disk'.res THEN "discard" ELSE "layout",
                  disk', {}, "layout")
    /\ UNCHANGED dockerVars

\* The recorded layout is complete, or it is rebuilt around its persistent
\* volumes, or it is discarded and created afresh.
UpLayout ==
    /\ pc = "layout"
    /\ Check
    /\ \/ /\ st.res = Layout
          /\ Step(CASE ~Up("app") -> "revive"
                    [] Up("app") /\ Up("gateway") -> "status"
                    [] OTHER -> "reopen",
                  st, {}, "idle")
          /\ UNCHANGED disk
       \/ /\ st.res # Layout
          /\ Persistent
          /\ disk' = [st EXCEPT !.phase = "rebuild"]
          /\ Step("resume", disk', {}, "idle")
       \/ /\ st.res # Layout
          /\ ~Persistent
          /\ Step("cleanup", st, {}, "up")
          /\ UNCHANGED disk
    /\ UNCHANGED dockerVars

\* A stopped application is never behind a running gateway while it restarts.
Revive ==
    /\ pc = "revive"
    /\ IF Up("gateway") THEN StopContainer("gateway") ELSE UNCHANGED dockerVars
    /\ Step("build", st, {}, "build")
    /\ UNCHANGED disk

Reopen ==
    /\ pc = "reopen"
    /\ StartContainer("gateway")
    /\ Step("health", st, {}, ret)
    /\ UNCHANGED disk

\* Mutant: the first checkpoint waits for the first object.
CreateRunUnjournaled ==
    /\ pc = "create"
    /\ \E r \in Runs :
          /\ Of(r) = {}
          /\ Step("build", [run |-> r, phase |-> "provisioning", res |-> {}],
                  {}, "build")
    /\ UNCHANGED <<dockerVars, disk>>

\* A fresh run is journaled before anything of it exists.
CreateRun ==
    /\ pc = "create"
    /\ \E r \in Runs :
          /\ Of(r) = {}
          /\ disk' = [run |-> r, phase |-> "provisioning", res |-> {}]
    /\ Step("build", disk', {}, "build")
    /\ UNCHANGED dockerVars

-----------------------------------------------------------------------------
(* Creating, seeding and starting: _create_run, _reseed_and_start and the  *)
(* second half of _resume_persistent_rebuild, told apart by st.phase.      *)

Create ==
    /\ pc \in {"build", "assemble"}
    /\ LET missing == (IF pc = "build" THEN Storage(st) ELSE {"app", "gateway"})
                      \ st.res
       IN  \/ \E n \in Last(missing) :
                 /\ CreateObject(n)
                 /\ Step("record", st, {n}, pc)
           \/ /\ missing = {}
              /\ Step(CASE pc = "assemble" -> "holdSeeder"
                        [] pc = "build" /\ "seeder" \in st.res -> "seed"
                        [] OTHER -> "assemble",
                      st, {}, ret)
              /\ UNCHANGED dockerVars
    /\ UNCHANGED disk

\* Mutant: the new object is recorded in memory only.
RecordInMemory ==
    /\ pc = "record"
    /\ Step(ret, [st EXCEPT !.res = @ \cup todo], {}, ret)
    /\ UNCHANGED <<dockerVars, disk>>

\* The checkpoint after each creation, in all three procedures.
Record ==
    /\ pc = "record"
    /\ disk' = [st EXCEPT !.res = @ \cup todo]
    /\ Step(ret, disk', {}, ret)
    /\ UNCHANGED dockerVars

Seed ==
    /\ pc = "seed"
    /\ StartContainer("seeder")
    /\ Step("seeding", st, {}, ret)
    /\ UNCHANGED disk

\* Mutant: a running seeder is taken for a ready one.
SeedStarted ==
    /\ pc = "seeding"
    /\ Check
    /\ Step(IF Persistent THEN "unseed" ELSE "assemble", st, {}, "assemble")
    /\ UNCHANGED <<dockerVars, disk>>

\* _wait_for_seeder: ready and still running.  Disposable storage keeps its
\* seeder until the application runs; a persistent initializer goes now.
SeedReady ==
    /\ pc = "seeding"
    /\ Check
    /\ st.run \in seeded
    /\ Step(IF Persistent THEN "unseed" ELSE "assemble", st, {}, "assemble")
    /\ UNCHANGED <<dockerVars, disk>>

RemoveSeeder ==
    /\ pc = "unseed"
    /\ RemoveObject("seeder")
    /\ Step("unseeded", [st EXCEPT !.res = @ \ {"seeder"}], {}, ret)
    /\ UNCHANGED disk

RecordNoSeeder ==
    /\ pc = "unseeded"
    /\ disk' = st
    /\ Step(ret, st, {}, ret)
    /\ UNCHANGED dockerVars

\* The seeder is checked before the application starts, and once more after.
HoldSeeder ==
    /\ pc = "holdSeeder"
    /\ Check
    /\ Step("startApp", st, {}, ret)
    /\ UNCHANGED <<dockerVars, disk>>

StartApp ==
    /\ pc = "startApp"
    /\ StartContainer("app")
    /\ Step("appStarted", st, {}, ret)
    /\ UNCHANGED disk

AppStarted ==
    /\ pc = "appStarted"
    /\ Check
    /\ Step(IF "seeder" \in st.res THEN "unseed" ELSE "startGateway",
            st, {}, "startGateway")
    /\ UNCHANGED <<dockerVars, disk>>

StartGateway ==
    /\ pc = "startGateway"
    /\ StartContainer("gateway")
    /\ Step("health", st, {}, ret)
    /\ UNCHANGED disk

Health ==
    /\ pc = "health"
    /\ Check
    /\ Step(IF st.phase = "steady" THEN "status" ELSE "publish", st, {}, ret)
    /\ UNCHANGED <<dockerVars, disk>>

Publish ==
    /\ pc = "publish"
    /\ Check
    /\ disk' = [st EXCEPT !.phase = "steady"]
    /\ Step("status", disk', {}, ret)
    /\ UNCHANGED dockerVars

Status ==
    /\ pc = "status"
    /\ Check
    /\ Finish("ok")
    /\ UNCHANGED <<dockerVars, disk>>

-----------------------------------------------------------------------------
(* _resume_persistent_rebuild: clear the transient objects one by one.     *)

Resume ==
    /\ pc = "resume"
    /\ Check
    /\ disk' = Adopted(st)
    /\ Step("clear", disk', {}, ret)
    /\ UNCHANGED dockerVars

Clear ==
    /\ pc = "clear"
    /\ \/ \E n \in First(st.res \ Volumes) :
             /\ IF Up(n)
                THEN StopContainer(n) /\ Step("clear", st, {}, ret)
                ELSE RemoveObject(n) /\ Step("cleared", st, {n}, ret)
       \/ /\ st.res \subseteq Volumes
          /\ Step("build", st, {}, "build")
          /\ UNCHANGED dockerVars
    /\ UNCHANGED disk

RecordCleared ==
    /\ pc = "cleared"
    /\ disk' = [st EXCEPT !.res = @ \ todo]
    /\ Step("clear", disk', {}, ret)
    /\ UNCHANGED dockerVars

-----------------------------------------------------------------------------
(* Failure.                                                                *)

\* Inside the try blocks of the three procedures and of _up.
Guarded == {"build", "record", "seed", "seeding", "unseed", "unseeded",
            "assemble", "holdSeeder", "startApp", "appStarted",
            "startGateway", "health", "publish", "revive", "reopen"}

\* Any call may fail, with or without its effect, unless nothing fails any
\* more; a failed check always raises.
Raises == pc # "idle" /\ (~calm \/ ~Check)

\* Suppressed or caught again by _up: the handlers of a steady run.
Suppressed ==
    pc \in {"haltSeeder", "haltSave"} \/ (pc = "halt" /\ st.phase = "steady")

\* No handler: the command reports the error.
RaiseOut ==
    /\ Raises
    /\ pc \notin Guarded
    /\ ~Suppressed
    /\ Finish("error")
    /\ UNCHANGED <<dockerVars, disk>>

\* A creation that returned is in memory even if its checkpoint fails.
RaiseInto ==
    /\ Raises
    /\ pc \in Guarded
    /\ \E s \in {st, [st EXCEPT !.res = @ \cup todo]} :
          CASE st.phase = "provisioning" -> Step("undo", s, {}, "idle")
            [] st.phase = "rebuild" ->
                  Step("halt", s, Containers \cap s.res, "idle")
            [] OTHER ->
                  Step("halt", s, {"app", "gateway"},
                       IF pc \in {"revive", "reopen", "health"}
                       THEN "idle" ELSE "haltSeeder")
    /\ UNCHANGED <<dockerVars, disk>>

\* _create_run's handler adopts before it cleans up.
Undo ==
    /\ pc = "undo"
    /\ LET adopted == Adopted(st)
       IN  \/ /\ adopted.res = {}
              /\ Finish("error")
              /\ UNCHANGED disk
           \/ /\ adopted.res # {}
              /\ disk' = adopted
              /\ Step("cleanup", adopted, {}, "idle")
    /\ UNCHANGED dockerVars

\* The handlers that keep the run stop its containers; _up and
\* _reseed_and_start go on when a stop fails.
Halt ==
    /\ pc = "halt"
    /\ \E n \in First(todo) :
          /\ \/ StopContainer(n)
             \/ /\ ~calm
                /\ st.phase = "steady"
                /\ missed' = IF Up("app") THEN missed \cup {st.run} ELSE missed
                /\ UNCHANGED <<objs, running, seeded>>
          /\ Step("halt", st, todo \ {n}, ret)
    /\ UNCHANGED disk

HaltDone ==
    /\ pc = "halt"
    /\ todo = {}
    /\ IF ret = "idle" THEN Finish("error") ELSE Step(ret, st, {}, ret)
    /\ disk' = IF st.phase = "rebuild" /\ Containers \cap st.res # {}
               THEN st ELSE disk
    /\ UNCHANGED dockerVars

HaltSeeder ==
    /\ pc = "haltSeeder"
    /\ \/ "seeder" \in st.res /\ RemoveObject("seeder")
       \/ /\ "seeder" \in st.res => ~calm
          /\ UNCHANGED dockerVars
    /\ Step("haltSave", [st EXCEPT !.res = @ \ {"seeder"}], {}, ret)
    /\ UNCHANGED disk

\* _reseed_and_start re-raises into _up, which stops both containers again.
HaltSave ==
    /\ pc = "haltSave"
    /\ \/ disk' = st
       \/ ~calm /\ UNCHANGED disk
    /\ Step("halt", st, {"app", "gateway"}, "idle")
    /\ UNCHANGED dockerVars

\* The process is killed; the kernel releases its lock.
Crash ==
    /\ pc # "idle"
    /\ ~calm
    /\ Finish("killed")
    /\ UNCHANGED <<dockerVars, disk>>

-----------------------------------------------------------------------------
(* Everything else.                                                        *)

SeederWrites ==
    /\ \E r \in Runs : <<r, "seeder">> \in running /\ seeded' = seeded \cup {r}
    /\ UNCHANGED <<objs, running, missed, disk, pc, cmd, outcome, st, todo, ret, calm>>

\* Every container is created with --restart no.
ContainerExits ==
    /\ ~calm
    /\ \E c \in running : Docker(objs, running \ {c})
    /\ UNCHANGED <<disk, pc, cmd, outcome, st, todo, ret, calm>>

CalmDown ==
    /\ ~calm
    /\ calm' = TRUE
    /\ UNCHANGED <<dockerVars, disk, pc, cmd, outcome, st, todo, ret>>

Program ==
    \/ RecoverTransients \/ DiscardStopApp \/ DiscardSeeder \/ SaveState
    \/ CleanupValidate \/ CleanupRemove \/ CleanupDone \/ DeleteState
    \/ Stop \/ StopNext \/ StopDone \/ Remove \/ Rebuild
    \/ UpLoad \/ UpLayout \/ Revive \/ Reopen \/ CreateRun
    \/ Create \/ Record \/ Seed \/ SeedReady \/ RemoveSeeder \/ RecordNoSeeder
    \/ HoldSeeder \/ StartApp \/ AppStarted \/ StartGateway \/ Health \/ Publish \/ Status
    \/ Resume \/ Clear \/ RecordCleared
    \/ RaiseOut \/ RaiseInto \/ Undo \/ Halt \/ HaltDone \/ HaltSeeder
    \/ HaltSave

Next ==
    \/ \E c \in Commands : StartCommand(c)
    \/ Program
    \/ Crash \/ SeederWrites \/ ContainerExits \/ CalmDown

Init ==
    /\ objs = {}
    /\ running = {}
    /\ seeded = {}
    /\ missed = {}
    /\ disk = NoState
    /\ pc = "idle"
    /\ cmd = "stop"
    /\ outcome = "none"
    /\ st = NoState
    /\ todo = {}
    /\ ret = "idle"
    /\ calm = FALSE

Spec == Init /\ [][Next]_vars

\* A command that was started runs to its end unless its process is killed, and
\* a seeder that runs writes its data.
Fairness == WF_vars(Program) /\ WF_vars(SeederWrites)
FairSpec == Spec /\ Fairness

\* The user asks for c again whenever the last command failed.
Insists(c) == SF_vars(StartCommand(c))

-----------------------------------------------------------------------------
(* Properties.                                                             *)

\* Types, including what the closed parser of state.py accepts as a state:
\* a rebuild is persistent and records every persistent volume.
TypeOK ==
    /\ objs \subseteq Objects
    /\ running \subseteq Runs \X Containers
    /\ seeded \subseteq Runs
    /\ missed \subseteq Runs
    /\ disk \in RunState \cup {NoState}
    /\ disk # NoState /\ disk.phase = "rebuild" =>
          Persistent /\ Volumes \subseteq disk.res
    /\ pc \in Labels
    /\ cmd \in Commands
    /\ outcome \in Outcomes
    /\ st \in RunState \cup {NoState}
    /\ todo \subseteq Names
    /\ ret \in Labels
    /\ calm \in BOOLEAN

\* Whatever was interrupted, every managed object belongs to the run the state
\* file names: the next command can recover it, nothing is an orphan.
NoLostOwnership ==
    \A o \in objs : disk # NoState /\ disk.run = o[1]

\* The create-to-checkpoint window is one object wide: never do two objects
\* exist that the state file does not record.
JournalLag ==
    disk # NoState =>
        \A a, b \in Of(disk.run) \ disk.res : a = b

\* The volumes of a steady persistent run stay, and its seeder does not start.
DataKept ==
    Persistent /\ disk # NoState /\ disk.phase # "provisioning" =>
        /\ \A v \in Volumes :
              <<disk.run, v>> \in objs \ objs' => cmd \in Destructive
        /\ <<disk.run, "seeder">> \notin running' \ running

\* Persistent data outlives everything but remove, purge and reset: no start,
\* stop, restart or rebuild, failed or killed anywhere, deletes a volume of a
\* run that was ever steady, and nothing seeds it again.
PersistentDataSafe == [][DataKept]_vars

\* A gateway in front of an application that runs on storage without the
\* reviewed seed data.
ServesBlank(r) ==
    /\ Volumes # {}
    /\ {<<r, "app">>, <<r, "gateway">>} \subseteq running
    /\ r \notin seeded

\* An application serves the reviewed seed data, except one that outlived a
\* stop whose failure was suppressed.
SeededWhileServing == \A r \in Runs : ServesBlank(r) => r \in missed

\* Without the exception, as the code and its documents promise it.
NeverServesBlank == \A r \in Runs : ~ServesBlank(r)

\* What a command that reports success has done.
CommandPromise ==
    pc = "idle" /\ outcome = "ok" =>
        /\ cmd = "stop" => running = {}
        /\ cmd = "remove" => disk = NoState /\ objs = {}
        /\ cmd \in {"up", "restart", "rebuild", "reset"} =>
              /\ disk # NoState
              /\ disk.phase = "steady"
              /\ disk.res = Layout
              /\ objs = {disk.run} \X Layout

-----------------------------------------------------------------------------
(* The inductive invariant behind TypeOK, NoLostOwnership and              *)
(* PersistentDataSafe.                                                     *)

\* Steps of a command that has its state in memory.
Holding == Labels \ {"idle", "recover", "stop", "remove", "rebuild", "up",
                     "create", "status"}

\* Steps between an adoption and its save, and of _cleanup.
Adopting == {"discard", "discarding", "save"}
Deleting == {"cleanup", "removing", "delete"}

\* Steps on the way to creating, starting or giving up a run.
Building == Guarded \cup
    {"clear", "cleared", "halt", "haltSeeder", "haltSave"}

\* The state in memory is of the run on disk, and as good as saved.
MemoryInv ==
    /\ pc \in Holding =>
          st \in RunState /\ disk \in RunState /\ st.run = disk.run
    /\ pc \in Adopting \cup {"layout"} \cup Building => st.phase = disk.phase
    /\ pc \in Adopting => st.phase # "provisioning"
    /\ pc \in Adopting /\ ret = "layout" => st.phase = "steady"
    /\ pc = "layout" => st.phase = "steady"
    /\ pc \in Building =>
          (st.phase = "rebuild" => Persistent /\ Volumes \subseteq st.res)
    /\ pc = "resume" => st = disk /\ st.phase = "rebuild"
    /\ pc = "cleared" => todo \cap Volumes = {}

\* Where a shared step may continue.
ReturnInv ==
    /\ pc = "idle" => ret = "idle"
    /\ pc \in Adopting => ret \in {"layout", "stop", "remove", "rebuild"}
    /\ pc \in Deleting =>
          ret \in {"idle", "up", "stop", "remove", "rebuild", "status"}
    /\ pc = "stopping" => ret \in {"up", "status"}
    /\ pc = "record" => ret \in {"build", "assemble"}
    /\ pc \in {"unseed", "unseeded"} => ret \in {"assemble", "startGateway"}
    /\ pc = "halt" => ret \in {"idle", "haltSeeder"}

\* What a removal that is under way still has to find, and what a state file
\* may be deleted over or created over.
RemovalInv ==
    /\ pc = "removing" => Of(st.run) \subseteq todo
    /\ pc \in {"delete", "create"} => objs = {}

\* Only remove, purge, reset and the undoing of a first start reach _cleanup
\* over persistent volumes.
DestructionInv ==
    /\ pc = "recover" => cmd # "up"
    /\ pc = "undo" => disk.phase = "provisioning" /\ st.phase = "provisioning"
    /\ pc = "rebuild" => disk = NoState \/ disk.phase # "provisioning"
    /\ ret = "remove" => cmd \in Destructive
    /\ pc \in Deleting =>
          ~Persistent \/ disk.phase = "provisioning" \/ cmd \in Destructive
    /\ pc = "remove" =>
          ~Persistent \/ disk = NoState \/ cmd \in Destructive

\* A persistent run gets a seeder only while it is first created.
SeederInv ==
    (Persistent /\ pc \in Guarded /\ st.phase # "provisioning") =>
        "seeder" \notin st.res \cup todo /\ pc # "seed"

IInv ==
    /\ TypeOK
    /\ NoLostOwnership
    /\ MemoryInv
    /\ ReturnInv
    /\ RemovalInv
    /\ DestructionInv
    /\ SeederInv

-----------------------------------------------------------------------------
(* Recovery.                                                               *)

Absent == disk = NoState /\ objs = {}
Serving ==
    /\ disk # NoState
    /\ disk.phase = "steady"
    /\ {<<disk.run, "app">>, <<disk.run, "gateway">>} \subseteq running

\* An interrupted removal took a persistent volume from a pending rebuild.
Stuck ==
    /\ disk # NoState
    /\ disk.phase = "rebuild"
    /\ ~(Volumes \subseteq Of(disk.run))

\* An interrupted removal took a volume from a steady laboratory.
Damaged ==
    /\ disk # NoState
    /\ disk.phase = "steady"
    /\ ~(Volumes \subseteq Of(disk.run))

\* Once nothing fails any more, remove gets rid of whatever is left of the
\* laboratory, except of a rebuild that lost a volume.
RemoveRecovers == Insists("remove") => ((calm /\ ~Stuck) ~> Absent)

\* Without the exception, as the refusal message of runtime.py says it.
RemoveAlwaysRecovers == Insists("remove") => (calm ~> Absent)

\* Once nothing fails any more, up brings the laboratory up from whatever an
\* interrupted command left, except after a half-done removal of volumes.
UpRecovers == Insists("up") => ((calm /\ ~Stuck /\ ~Damaged) ~> Serving)

\* restart, too, resumes an interrupted rebuild, as the same message says.
RestartResumesRebuild ==
    (calm /\ pc = "stop" /\ cmd = "restart" /\ disk # NoState
        /\ disk.phase = "rebuild" /\ ~Stuck) ~> (disk # NoState /\ disk.phase = "steady")
=============================================================================
