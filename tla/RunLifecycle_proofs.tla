-------------------------- MODULE RunLifecycle_proofs --------------------------
(***************************************************************************)
(* Proofs about RunLifecycle, for any set of runs and volumes, persistent  *)
(* or not: its type invariant, that no managed object loses its owner, and *)
(* that no command but the destructive ones deletes persistent data.  All  *)
(* rest on the inductive invariant IInv, shown here to hold initially and  *)
(* to be preserved by every action, procedure by procedure.                *)
(***************************************************************************)
EXTENDS RunLifecycle, TLAPS

USE DEF Networks, Containers, Names, Phases, RunState, Objects, Labels,
        Commands, Outcomes, Destructive

\* Adoption changes the recorded objects of a state and nothing else of it.
LEMMA AdoptedState ==
  ASSUME NEW s \in RunState
  PROVE  /\ Adopted(s) \in RunState
         /\ Adopted(s).run = s.run
         /\ Adopted(s).phase = s.phase
         /\ Adopted(s).res = Of(s.run)
BY DEF Adopted, Of

\* What Docker loses of seed data and of survivors leaves sets of runs.
LEMMA DockerStep ==
  ASSUME TypeOK, NEW o, NEW u, Docker(o, u)
  PROVE  objs' = o /\ running' = u /\ seeded' \subseteq Runs /\ missed' \subseteq Runs
BY DEF TypeOK, Docker

\* Initially there is nothing to own and nothing in memory.
LEMMA InitIInv == Init => IInv
BY ConstantsAssumption DEF Init, IInv, TypeOK, NoLostOwnership, MemoryInv,
   ReturnInv, RemovalInv, DestructionInv, SeederInv, Of, Holding, Adopting,
   Deleting, Building, Guarded

-----------------------------------------------------------------------------
(* The steps that need more than one leaf.                                 *)

\* _stop keeps no state in memory but the one it loaded.
LEMMA StopStep == IInv /\ Stop => IInv'
<1> SUFFICES ASSUME IInv, Stop PROVE IInv'
  OBVIOUS
<1>1. /\ pc = "stop"
      /\ UNCHANGED <<dockerVars, disk, cmd, outcome, calm>>
  BY DEF Stop, Step
<1>2. AfterStop \in {"up", "status"}
  BY DEF AfterStop
<1>3. disk = NoState =>
        pc' = AfterStop /\ st' = NoState /\ todo' = {} /\ ret' = "idle"
  BY DEF Stop, Step
<1>4. disk # NoState =>
        /\ pc' = "stopping" /\ st' = disk /\ ret' = AfterStop
        /\ todo' \subseteq disk.res
  BY DEF Stop, Step
<1> USE ConstantsAssumption DEF IInv, TypeOK, NoLostOwnership, MemoryInv,
   ReturnInv, RemovalInv, DestructionInv, SeederInv, Of, Holding, Adopting,
   Deleting, Building, Guarded, dockerVars
<1>5. CASE disk = NoState
  <2>1. TypeOK'
    BY <1>1, <1>2, <1>3, <1>5
  <2>2. NoLostOwnership' /\ MemoryInv'
    BY <1>1, <1>2, <1>3, <1>5
  <2>3. ReturnInv' /\ RemovalInv'
    BY <1>1, <1>2, <1>3, <1>5
  <2>4. DestructionInv' /\ SeederInv'
    BY <1>1, <1>2, <1>3, <1>5
  <2> HIDE DEF TypeOK, NoLostOwnership, MemoryInv, ReturnInv, RemovalInv,
        DestructionInv, SeederInv
  <2> QED
    BY <2>1, <2>2, <2>3, <2>4
<1>6. CASE disk # NoState
  <2>1. TypeOK'
    BY <1>1, <1>2, <1>4, <1>6 DEF RunState
  <2>2. NoLostOwnership' /\ MemoryInv'
    BY <1>1, <1>2, <1>4, <1>6
  <2>3. ReturnInv' /\ RemovalInv'
    BY <1>1, <1>2, <1>4, <1>6
  <2>4. DestructionInv' /\ SeederInv'
    BY <1>1, <1>2, <1>4, <1>6
  <2> HIDE DEF TypeOK, NoLostOwnership, MemoryInv, ReturnInv, RemovalInv,
        DestructionInv, SeederInv
  <2> QED
    BY <2>1, <2>2, <2>3, <2>4
<1> QED
  BY <1>5, <1>6

\* A rebuild that adopts keeps every persistent volume recorded.
LEMMA ResumeStep == IInv /\ Resume => IInv'
<1> SUFFICES ASSUME IInv, Resume PROVE IInv'
  OBVIOUS
<1> USE ConstantsAssumption DEF IInv, TypeOK, NoLostOwnership, MemoryInv,
   ReturnInv, RemovalInv, DestructionInv, SeederInv, Of, Holding, Adopting,
   Deleting, Building, Guarded
<1>1. /\ pc = "resume"
      /\ disk' = Adopted(st)
      /\ pc' = "clear" /\ st' = Adopted(st) /\ todo' = {} /\ ret' = ret
      /\ UNCHANGED <<dockerVars, cmd, outcome, calm>>
  BY DEF Resume, Step
<1>2. st = disk /\ st \in RunState /\ st.phase = "rebuild" /\ Persistent
  BY <1>1
<1>3. Volumes \subseteq Of(st.run)
  BY <1>1 DEF Resume, Check
<1>4. /\ Adopted(st) \in RunState
      /\ Adopted(st).run = st.run /\ Adopted(st).phase = st.phase
      /\ Adopted(st).res = Of(st.run)
  BY <1>2, AdoptedState
<1> QED
  BY <1>1, <1>2, <1>3, <1>4, SMTT(20) DEF dockerVars

\* Clearing a rebuild touches no volume.
LEMMA ClearStep == IInv /\ Clear => IInv'
<1> SUFFICES ASSUME IInv, Clear PROVE IInv'
  OBVIOUS
<1> USE ConstantsAssumption DEF IInv, TypeOK, NoLostOwnership, MemoryInv,
   ReturnInv, RemovalInv, DestructionInv, SeederInv, Of, Holding, Adopting,
   Deleting, Building, Guarded
<1>1. pc = "clear" /\ UNCHANGED <<disk, cmd, outcome, calm>>
  BY DEF Clear, Step, Docker, StopContainer, RemoveObject
<1>2. ASSUME NEW n \in st.res \ Volumes, StopContainer(n), Step("clear", st, {}, ret)
      PROVE  IInv'
  BY <1>1, <1>2, SMTT(20) DEF StopContainer, Docker, Holds, Step
<1>3. ASSUME NEW n \in st.res \ Volumes, RemoveObject(n), Step("cleared", st, {n}, ret)
      PROVE  IInv'
  BY <1>1, <1>3, SMTT(20) DEF RemoveObject, Docker, Holds, Step
<1>4. CASE st.res \subseteq Volumes /\ Step("build", st, {}, "build") /\ UNCHANGED dockerVars
  BY <1>1, <1>4, SMTT(20) DEF Step, dockerVars
<1> QED
  BY <1>1, <1>2, <1>3, <1>4 DEF Clear, First

\* What is created is not recorded yet; only a disposable or a new run has a
\* seeder to create.
LEMMA CreateStep == IInv /\ Create => IInv'
<1> SUFFICES ASSUME IInv, Create PROVE IInv'
  OBVIOUS
<1> USE ConstantsAssumption DEF IInv, TypeOK, NoLostOwnership, MemoryInv,
   ReturnInv, RemovalInv, DestructionInv, SeederInv, Of, Holding, Adopting,
   Deleting, Building, Guarded
<1> DEFINE missing == (IF pc = "build" THEN Storage(st) ELSE {"app", "gateway"})
                         \ st.res
<1>1. pc \in {"build", "assemble"} /\ UNCHANGED <<disk, cmd, outcome, calm>>
  BY DEF Create, Step
<1>2. /\ missing \subseteq Names
      /\ "seeder" \in missing => ~Persistent \/ st.phase = "provisioning"
  BY DEF Storage, NeedsSeeder
<1>3. ASSUME NEW n \in missing, CreateObject(n), Step("record", st, {n}, pc)
      PROVE  IInv'
  <2>1. /\ objs' = objs \cup {<<st.run, n>>} /\ running' = running
        /\ seeded' \subseteq Runs /\ missed' \subseteq Runs
    BY <1>3, DockerStep DEF CreateObject
  <2> QED
    BY <1>1, <1>2, <1>3, <2>1, SMTT(20) DEF Step
<1>4. ASSUME NEW label \in {"holdSeeder", "seed", "assemble"},
             label = "seed" => "seeder" \in st.res,
             Step(label, st, {}, ret), UNCHANGED dockerVars
      PROVE  IInv'
  BY <1>1, <1>4, SMTT(20) DEF Step, dockerVars
<1> QED
  <2>1. CASE \E n \in Last(missing) : CreateObject(n) /\ Step("record", st, {n}, pc)
    BY <1>3, <2>1 DEF Last
  <2>2. CASE pc = "assemble" /\ Step("holdSeeder", st, {}, ret) /\ UNCHANGED dockerVars
    BY <1>4, <2>2
  <2>3. CASE "seeder" \in st.res /\ Step("seed", st, {}, ret) /\ UNCHANGED dockerVars
    BY <1>4, <2>3
  <2>4. CASE Step("assemble", st, {}, ret) /\ UNCHANGED dockerVars
    BY <1>4, <2>4
  <2> QED
    BY <1>1, <2>1, <2>2, <2>3, <2>4, Zenon DEF Create

-----------------------------------------------------------------------------
(* One lemma per procedure, one case per action.                           *)

\* Recovery, saving and _cleanup.
LEMMA RecoveryStep ==
  ASSUME IInv,
         \/ RecoverTransients
         \/ DiscardStopApp
         \/ DiscardSeeder
         \/ SaveState
         \/ CleanupValidate
         \/ CleanupRemove
         \/ CleanupDone
         \/ DeleteState
  PROVE  IInv'
<1> USE ConstantsAssumption DEF IInv, TypeOK, NoLostOwnership, MemoryInv,
   ReturnInv, RemovalInv, DestructionInv, SeederInv, Of, Holding, Adopting,
   Deleting, Building, Guarded
<1>1. CASE RecoverTransients
  BY <1>1, AdoptedState, SMTT(20) DEF RecoverTransients, dockerVars, Step,
     AfterRecover
<1>2. CASE DiscardStopApp
  BY <1>2, DockerStep, SMTT(20) DEF DiscardStopApp, StopContainer, Step,
     dockerVars
<1>3. CASE DiscardSeeder
  BY <1>3, SMTT(20) DEF DiscardSeeder, Docker, RemoveObject, Step
<1>4. CASE SaveState
  BY <1>4, SMTT(20) DEF SaveState, dockerVars, Step, Check, Saveable
<1>5. CASE CleanupValidate
  BY <1>5, SMTT(20) DEF CleanupValidate, dockerVars, Step, Check, NoOrphans
<1>6. CASE CleanupRemove
  BY <1>6, SMTT(20) DEF CleanupRemove, Docker, RemoveObject, Step, First
<1>7. CASE CleanupDone
  BY <1>7, SMTT(20) DEF CleanupDone, dockerVars, Step
<1>8. CASE DeleteState
  BY <1>8, SMTT(20) DEF DeleteState, dockerVars, Step, Finish
<1> QED
  BY <1>1, <1>2, <1>3, <1>4, <1>5, <1>6, <1>7, <1>8

\* _stop.
LEMMA StoppingStep ==
  ASSUME IInv,
         \/ Stop
         \/ StopNext
         \/ StopDone
  PROVE  IInv'
<1> USE ConstantsAssumption DEF IInv, TypeOK, NoLostOwnership, MemoryInv,
   ReturnInv, RemovalInv, DestructionInv, SeederInv, Of, Holding, Adopting,
   Deleting, Building, Guarded
<1>1. CASE Stop
  BY <1>1, StopStep
<1>2. CASE StopNext
  BY <1>2, SMTT(20) DEF StopNext, Docker, StopContainer, Step, First
<1>3. CASE StopDone
  BY <1>3, SMTT(20) DEF StopDone, dockerVars, Step
<1> QED
  BY <1>1, <1>2, <1>3

\* _remove, rebuild and the clearing of a rebuild.
LEMMA RebuildStep ==
  ASSUME IInv,
         \/ Remove
         \/ Rebuild
         \/ Resume
         \/ Clear
         \/ RecordCleared
  PROVE  IInv'
<1> USE ConstantsAssumption DEF IInv, TypeOK, NoLostOwnership, MemoryInv,
   ReturnInv, RemovalInv, DestructionInv, SeederInv, Of, Holding, Adopting,
   Deleting, Building, Guarded
<1>1. CASE Remove
  BY <1>1, SMTT(20) DEF Remove, dockerVars, Step, AfterRemove
<1>2. CASE Rebuild
  BY <1>2, SMTT(20) DEF Rebuild, dockerVars, Step, Check, NoOrphans, AllExist,
     Layout
<1>3. CASE Resume
  BY <1>3, ResumeStep
<1>4. CASE Clear
  BY <1>4, ClearStep
<1>5. CASE RecordCleared
  BY <1>5, SMTT(20) DEF RecordCleared, dockerVars, Step
<1> QED
  BY <1>1, <1>2, <1>3, <1>4, <1>5

\* _up up to the point where it creates or starts something.
LEMMA UpStep ==
  ASSUME IInv,
         \/ UpLoad
         \/ UpLayout
         \/ Revive
         \/ Reopen
         \/ CreateRun
  PROVE  IInv'
<1> USE ConstantsAssumption DEF IInv, TypeOK, NoLostOwnership, MemoryInv,
   ReturnInv, RemovalInv, DestructionInv, SeederInv, Of, Holding, Adopting,
   Deleting, Building, Guarded
<1>1. CASE UpLoad
  BY <1>1, AdoptedState, SMTT(20) DEF UpLoad, dockerVars, Step
<1>2. CASE UpLayout
  BY <1>2, SMTT(20) DEF UpLayout, dockerVars, Step, Check, NoOrphans,
     AllExist, PolicyHolds, Layout
<1>3. CASE Revive
  BY <1>3, DockerStep, SMTT(20) DEF Revive, StopContainer, Step, dockerVars
<1>4. CASE Reopen
  BY <1>4, SMTT(20) DEF Reopen, Docker, StartContainer, Step
<1>5. CASE CreateRun
  BY <1>5, SMTT(20) DEF CreateRun, dockerVars, Step
<1> QED
  BY <1>1, <1>2, <1>3, <1>4, <1>5

\* Creating, seeding, starting and publishing a run.
LEMMA BuildStep ==
  ASSUME IInv,
         \/ Create
         \/ Record
         \/ Seed
         \/ SeedReady
         \/ RemoveSeeder
         \/ RecordNoSeeder
         \/ HoldSeeder
         \/ StartApp
         \/ AppStarted
         \/ StartGateway
         \/ Health
         \/ Publish
         \/ Status
  PROVE  IInv'
<1> USE ConstantsAssumption DEF IInv, TypeOK, NoLostOwnership, MemoryInv,
   ReturnInv, RemovalInv, DestructionInv, SeederInv, Of, Holding, Adopting,
   Deleting, Building, Guarded
<1>1. CASE Create
  BY <1>1, CreateStep
<1>2. CASE Record
  BY <1>2, SMTT(20) DEF Record, dockerVars, Step
<1>3. CASE Seed
  BY <1>3, SMTT(20) DEF Seed, Docker, StartContainer, Step
<1>4. CASE SeedReady
  BY <1>4, SMTT(20) DEF SeedReady, dockerVars, Step
<1>5. CASE RemoveSeeder
  BY <1>5, SMTT(20) DEF RemoveSeeder, Docker, RemoveObject, Step
<1>6. CASE RecordNoSeeder
  BY <1>6, SMTT(20) DEF RecordNoSeeder, dockerVars, Step
<1>7. CASE HoldSeeder
  BY <1>7, SMTT(20) DEF HoldSeeder, dockerVars, Step
<1>8. CASE StartApp
  BY <1>8, SMTT(20) DEF StartApp, Docker, StartContainer, Step
<1>9. CASE AppStarted
  BY <1>9, SMTT(20) DEF AppStarted, dockerVars, Step
<1>10. CASE StartGateway
  BY <1>10, SMTT(20) DEF StartGateway, Docker, StartContainer, Step
<1>11. CASE Health
  BY <1>11, SMTT(20) DEF Health, dockerVars, Step
<1>12. CASE Publish
  BY <1>12, SMTT(20) DEF Publish, dockerVars, Step
<1>13. CASE Status
  BY <1>13, SMTT(20) DEF Status, dockerVars, Finish
<1> QED
  BY <1>1, <1>2, <1>3, <1>4, <1>5, <1>6, <1>7, <1>8, <1>9, <1>10, <1>11,
     <1>12, <1>13

\* Exceptions and their handlers.
LEMMA FailureStep ==
  ASSUME IInv,
         \/ RaiseOut
         \/ RaiseInto
         \/ Undo
         \/ Halt
         \/ HaltDone
         \/ HaltSeeder
         \/ HaltSave
  PROVE  IInv'
<1> USE ConstantsAssumption DEF IInv, TypeOK, NoLostOwnership, MemoryInv,
   ReturnInv, RemovalInv, DestructionInv, SeederInv, Of, Holding, Adopting,
   Deleting, Building, Guarded
<1>1. CASE RaiseOut
  BY <1>1, SMTT(20) DEF RaiseOut, dockerVars, Finish
<1>2. CASE RaiseInto
  BY <1>2, SMTT(20) DEF RaiseInto, dockerVars, Step
<1>3. CASE Undo
  BY <1>3, AdoptedState, SMTT(20) DEF Undo, dockerVars, Step, Finish
<1>4. CASE Halt
  BY <1>4, DockerStep, SMTT(20) DEF Halt, StopContainer, Step, First, dockerVars
<1>5. CASE HaltDone
  BY <1>5, SMTT(20) DEF HaltDone, dockerVars, Step, Finish
<1>6. CASE HaltSeeder
  BY <1>6, DockerStep, SMTT(20) DEF HaltSeeder, RemoveObject, Step, dockerVars
<1>7. CASE HaltSave
  BY <1>7, SMTT(20) DEF HaltSave, dockerVars, Step
<1> QED
  BY <1>1, <1>2, <1>3, <1>4, <1>5, <1>6, <1>7

\* Every step of the program preserves the invariant.
LEMMA ProgramStep == IInv /\ Program => IInv'
BY RecoveryStep, StoppingStep, RebuildStep, UpStep, BuildStep, FailureStep DEF Program

\* So does the environment: the user, a crash, a seeder, a container, and the
\* end of all failures.
LEMMA EnvironmentStep ==
  ASSUME IInv,
         \/ \E c \in Commands : StartCommand(c)
         \/ Crash
         \/ SeederWrites
         \/ ContainerExits
         \/ CalmDown
         \/ UNCHANGED vars
  PROVE  IInv'
<1> USE ConstantsAssumption DEF IInv, TypeOK, NoLostOwnership, MemoryInv,
   ReturnInv, RemovalInv, DestructionInv, SeederInv, Of, Holding, Adopting,
   Deleting, Building, Guarded
<1>1. ASSUME NEW c \in Commands, StartCommand(c) PROVE IInv'
  BY <1>1, SMTT(20) DEF StartCommand, Entry, dockerVars
<1>2. CASE Crash
  BY <1>2, SMTT(20) DEF Crash, Finish, dockerVars
<1>3. CASE SeederWrites
  BY <1>3, SMTT(20) DEF SeederWrites
<1>4. CASE ContainerExits
  BY <1>4, SMTT(20) DEF ContainerExits, Docker
<1>5. CASE CalmDown
  BY <1>5, SMTT(20) DEF CalmDown, dockerVars
<1>6. CASE UNCHANGED vars
  BY <1>6, SMTT(20) DEF vars
<1> QED
  BY <1>1, <1>2, <1>3, <1>4, <1>5, <1>6

-----------------------------------------------------------------------------
(* The theorems.                                                           *)

\* IInv holds in every reachable state.
THEOREM Invariance == Spec => []IInv
<1>1. IInv /\ [Next]_vars => IInv'
  BY ProgramStep, EnvironmentStep DEF Next
<1> QED
  BY InitIInv, <1>1, PTL DEF Spec

\* Every variable keeps its type, and the state file what its parser accepts:
\* a rebuild is persistent and records every volume.
THEOREM TypeCorrect == Spec => []TypeOK
<1>1. IInv => TypeOK
  BY DEF IInv
<1> QED
  BY Invariance, <1>1, PTL

\* Whatever fails or dies, every managed object belongs to the run that the
\* state file names.
THEOREM Ownership == Spec => []NoLostOwnership
<1>1. IInv => NoLostOwnership
  BY DEF IInv
<1> QED
  BY Invariance, <1>1, PTL

\* The steps of the program that leave Docker alone.
LEMMA QuietStep ==
  ASSUME \/ RecoverTransients \/ SaveState \/ CleanupValidate \/ CleanupDone
         \/ DeleteState \/ Stop \/ StopDone \/ Remove
         \/ Rebuild \/ UpLoad \/ UpLayout \/ CreateRun
         \/ Record \/ SeedReady \/ RecordNoSeeder \/ HoldSeeder
         \/ AppStarted \/ Health \/ Publish \/ Status
         \/ Resume \/ RecordCleared \/ RaiseOut \/ RaiseInto
         \/ Undo \/ HaltDone \/ HaltSave
  PROVE  UNCHANGED <<objs, running>>
BY SMTT(20) DEF dockerVars, RecoverTransients, SaveState, CleanupValidate,
   CleanupDone, DeleteState, Stop, StopDone, Remove, Rebuild, UpLoad,
   UpLayout, CreateRun, Record, SeedReady, RecordNoSeeder, HoldSeeder,
   AppStarted, Health, Publish, Status, Resume, RecordCleared, RaiseOut,
   RaiseInto, Undo, HaltDone, HaltSave

\* A step that removes an object of a steady persistent run, or starts its
\* seeder, is a destructive command's or spares the volumes.
LEMMA DataStep == IInv /\ [Next]_vars => DataKept \/ UNCHANGED vars
<1> SUFFICES ASSUME IInv, Next, Persistent, disk # NoState,
                    disk.phase # "provisioning"
             PROVE  /\ \A v \in Volumes :
                          <<disk.run, v>> \in objs \ objs' => cmd \in Destructive
                    /\ <<disk.run, "seeder">> \notin running' \ running
  BY DEF DataKept
<1> USE ConstantsAssumption
<1>1. CASE UNCHANGED <<objs, running>>
  BY <1>1
<1>2. CASE CleanupRemove
  <2>1. cmd \in Destructive /\ running' \subseteq running
    BY <1>2 DEF CleanupRemove, RemoveObject, Docker, IInv, DestructionInv, Deleting
  <2> QED
    BY <2>1
<1>3. CASE DiscardSeeder \/ RemoveSeeder \/ HaltSeeder
  BY <1>3 DEF DiscardSeeder, RemoveSeeder, HaltSeeder, RemoveObject, Docker,
     dockerVars
<1>4. CASE DiscardStopApp \/ StopNext \/ Revive \/ Halt \/ ContainerExits
  BY <1>4 DEF DiscardStopApp, StopNext, Revive, Halt, ContainerExits,
     StopContainer, Docker, dockerVars
<1>5. CASE Reopen \/ StartApp \/ StartGateway
  BY <1>5 DEF Reopen, StartApp, StartGateway, StartContainer, Docker
<1>6. CASE Seed
  BY <1>6 DEF Seed, IInv, SeederInv, MemoryInv, Building, Guarded
<1>7. CASE Create
  BY <1>7 DEF Create, CreateObject, Docker, dockerVars
<1>8. CASE Clear
  <2>1. ASSUME NEW n \in st.res \ Volumes, RemoveObject(n)
        PROVE  /\ \A v \in Volumes : <<disk.run, v>> \notin objs \ objs'
               /\ running' \subseteq running
    BY <2>1 DEF RemoveObject, Docker
  <2>2. ASSUME NEW n \in st.res \ Volumes, StopContainer(n)
        PROVE  objs' = objs /\ running' \subseteq running
    BY <2>2 DEF StopContainer, Docker
  <2> QED
    BY <1>8, <1>1, <2>1, <2>2 DEF Clear, First, dockerVars
<1>9. CASE \/ \E c \in Commands : StartCommand(c)
           \/ Crash \/ SeederWrites \/ CalmDown
  BY <1>9, <1>1 DEF StartCommand, Crash, SeederWrites, CalmDown, dockerVars
<1> QED
  BY <1>1, <1>2, <1>3, <1>4, <1>5, <1>6, <1>7, <1>8, <1>9, QuietStep
     DEF Next, Program

\* No start, stop, restart or rebuild deletes or re-seeds a persistent volume
\* of a run that was ever steady.
THEOREM DataSafe == Spec => PersistentDataSafe
BY Invariance, DataStep, PTL DEF Spec, PersistentDataSafe
================================================================================
