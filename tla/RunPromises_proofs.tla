-------------------------- MODULE RunPromises_proofs --------------------------
(***************************************************************************)
(* More proofs about RunLifecycle: that the state file lags the daemon by  *)
(* one object at most, that a command that reports success has done what   *)
(* it is for, and that what is served is seeded.  The first two need to    *)
(* know what every step of a command knows of the objects, which PInv adds *)
(* to IInv; the third what it knows of the seed data, which SeedInv adds.  *)
(***************************************************************************)
EXTENDS RunLifecycle_proofs

USE DEF Networks, Containers, Names, Phases, RunState, Objects, Labels,
        Commands, Outcomes, Destructive

Single(S)     == \A a, b \in S : a = b
Unrecorded(s) == Of(s.run) \ s.res

\* What the objects of the run are at each step that knows, and what of them
\* is on disk.
RecordInv ==
    /\ pc \in Adopting \cup {"clear"} \cup (Guarded \ {"record"}) =>
          Of(st.run) = st.res
    /\ pc = "cleared" => Of(st.run) = st.res \ todo
    /\ pc = "record" =>
          /\ Of(st.run) = st.res \cup todo
          /\ \E n \in Names : todo = {n}
    /\ pc \in {"layout", "clear"} \cup (Guarded \ {"unseeded"}) => st = disk
    /\ pc = "unseeded" => "seeder" \notin st.res

\* A container is started when it has been created.
ReadyInv ==
    /\ pc = "seed" => "seeder" \in st.res
    /\ pc \in {"holdSeeder", "startApp", "appStarted", "startGateway", "health"} =>
          {"app", "gateway"} \subseteq st.res
    /\ pc \in {"unseed", "unseeded"} /\ ret = "startGateway" =>
          {"app", "gateway"} \subseteq st.res

\* A steady run has everything, and a seeder only in between.
SteadyInv ==
    /\ pc \in Guarded \cup {"halt", "haltSeeder", "haltSave"} /\ st.phase = "steady" =>
          /\ Layout \subseteq st.res
          /\ pc \in {"startGateway", "health", "unseeded"} => "seeder" \notin st.res
    /\ pc = "reopen" => st.res = Layout
    /\ pc \in {"clear", "cleared"} => st.phase = "rebuild"
    /\ pc \in {"haltSeeder", "haltSave"} \/ (pc = "halt" /\ ret = "haltSeeder") =>
          st.phase = "steady"

\* A handler that saves what it has lags by no more than what it handles.
LagInv ==
    /\ JournalLag
    /\ pc = "halt" => Single(Unrecorded(st))

\* The way of stop and remove, which is nobody else's; what runs exists.
CommandInv ==
    /\ running \subseteq objs
    /\ pc # "idle" => outcome = "pending"
    /\ cmd = "stop" =>
          /\ pc \in {"idle", "recover", "stop", "stopping", "status"}
                       \cup Adopting \cup Deleting
          /\ pc \in Adopting \cup Deleting => ret = "stop"
          /\ pc = "stopping" => ret = "status"
    /\ cmd = "remove" =>
          /\ pc \in {"idle", "recover", "remove", "status"} \cup Adopting \cup Deleting
          /\ pc \in Adopting => ret = "remove"
          /\ pc \in Deleting => ret \in {"remove", "status"}
    /\ pc = "stop" \/ (pc \in Adopting \cup Deleting /\ ret = "stop") =>
          cmd \in {"stop", "restart"}
    /\ pc \in Deleting /\ ret = "status" => cmd = "remove"
    /\ pc = "stopping" /\ ret = "status" => cmd = "stop"
    /\ pc = "stopping" => running \subseteq {st.run} \X todo

\* What a command has done when only its report is left.
StatusInv ==
    pc = "status" =>
        /\ cmd = "stop" => running = {}
        /\ cmd = "remove" => disk = NoState /\ objs = {}
        /\ cmd \notin {"stop", "remove"} =>
              disk # NoState /\ disk.phase = "steady" /\ disk.res = Layout

PInv ==
    /\ RecordInv
    /\ ReadyInv
    /\ SteadyInv
    /\ LagInv
    /\ CommandInv
    /\ StatusInv
    /\ CommandPromise

\* All of it holds initially.
LEMMA InitPInv == Init => PInv
BY DEF Init, PInv, RecordInv, ReadyInv, SteadyInv, LagInv, JournalLag,
   CommandInv, StatusInv, CommandPromise, Adopting, Deleting, Guarded

\* A failure in a guarded step, and what its handler finds.
LEMMA RaiseMeans ==
  ASSUME IInv, RaiseInto
  PROVE  /\ pc \in Guarded /\ st \in RunState /\ st' \in RunState
         /\ st'.run = st.run /\ st'.phase = st.phase
         /\ st.res \subseteq st'.res
         /\ \/ pc' = "undo"
            \/ pc' = "halt" /\ ret' = "haltSeeder" =>
                  st.phase = "steady" /\ "app" \in todo'
         /\ pc' \in {"undo", "halt"}
         /\ UNCHANGED <<objs, running, disk, cmd, outcome>>
<1>1. pc \in Guarded /\ st \in RunState /\ todo \subseteq Names
  BY DEF RaiseInto, IInv, TypeOK, MemoryInv, Holding, Guarded
<1>2. PICK s \in {st, [st EXCEPT !.res = @ \cup todo]} :
        CASE st.phase = "provisioning" -> Step("undo", s, {}, "idle")
          [] st.phase = "rebuild" ->
                Step("halt", s, Containers \cap s.res, "idle")
          [] OTHER ->
                Step("halt", s, {"app", "gateway"},
                     IF pc \in {"revive", "reopen", "health"}
                     THEN "idle" ELSE "haltSeeder")
  BY DEF RaiseInto
<1>3. /\ s \in RunState /\ s.run = st.run /\ s.phase = st.phase
      /\ st.res \subseteq s.res
  <2>1. CASE s = st
    BY <1>1, <2>1
  <2>2. CASE s = [st EXCEPT !.res = @ \cup todo]
    BY <1>1, <2>2
  <2> QED
    BY <1>2, <2>1, <2>2
<1>4. UNCHANGED <<objs, running, disk>>
  BY DEF RaiseInto, dockerVars
<1>5. CASE st.phase \notin {"provisioning", "rebuild"}
  <2>1. Step("halt", s, {"app", "gateway"},
             IF pc \in {"revive", "reopen", "health"} THEN "idle" ELSE "haltSeeder")
    BY <1>2, <1>5
  <2>2. st.phase = "steady"
    BY <1>1, <1>5
  <2> QED
    BY <1>1, <1>3, <1>4, <2>1, <2>2 DEF Step
<1>6. CASE st.phase = "rebuild"
  <2>1. Step("halt", s, Containers \cap s.res, "idle")
    BY <1>2, <1>6
  <2> QED
    BY <1>1, <1>3, <1>4, <2>1 DEF Step
<1>7. CASE st.phase = "provisioning"
  <2>1. Step("undo", s, {}, "idle")
    BY <1>2, <1>7
  <2> QED
    BY <1>1, <1>3, <1>4, <2>1 DEF Step
<1> QED
  BY <1>5, <1>6, <1>7

\* What creating does: an object more, or the next step.
LEMMA CreateMeans ==
  ASSUME IInv, Create
  PROVE  /\ pc \in {"build", "assemble"}
         /\ UNCHANGED <<running, disk, st, cmd, outcome>>
         /\ \/ \E n \in Names \ st.res :
                  /\ objs' = objs \cup {<<st.run, n>>}
                  /\ pc' = "record" /\ todo' = {n} /\ ret' = pc
                  /\ n \in Volumes => pc = "build" /\ st.phase = "provisioning"
            \/ /\ objs' = objs
               /\ \/ /\ pc = "assemble" /\ pc' = "holdSeeder"
                     /\ {"app", "gateway"} \subseteq st.res
                  \/ /\ pc = "build" /\ Storage(st) \subseteq st.res
                     /\ pc' = IF "seeder" \in st.res THEN "seed" ELSE "assemble"
<1> DEFINE missing == (IF pc = "build" THEN Storage(st) ELSE {"app", "gateway"})
                         \ st.res
<1>1. pc \in {"build", "assemble"} /\ UNCHANGED <<disk, st, cmd, outcome>>
  BY DEF Create, Step
<1>2. /\ missing \subseteq Names \ st.res
      /\ \A n \in missing \cap Volumes : pc = "build" /\ st.phase = "provisioning"
  BY <1>1, ConstantsAssumption DEF Storage, NeedsSeeder
<1>3. ASSUME NEW n \in missing, CreateObject(n), Step("record", st, {n}, pc)
      PROVE  /\ objs' = objs \cup {<<st.run, n>>} /\ running' = running
             /\ pc' = "record" /\ todo' = {n} /\ ret' = pc
  BY <1>3 DEF CreateObject, Docker, Step
<1>4. CASE /\ missing = {}
           /\ Step(CASE pc = "assemble" -> "holdSeeder"
                     [] pc = "build" /\ "seeder" \in st.res -> "seed"
                     [] OTHER -> "assemble",
                   st, {}, ret)
           /\ UNCHANGED dockerVars
  <2>1. /\ pc = "assemble" => {"app", "gateway"} \subseteq st.res
        /\ pc = "build" => Storage(st) \subseteq st.res
    BY <1>4
  <2> HIDE DEF missing
  <2>2. CASE pc = "assemble"
    BY <1>1, <1>4, <2>1, <2>2 DEF Step, dockerVars
  <2>3. CASE pc = "build"
    BY <1>1, <1>4, <2>1, <2>3 DEF Step, dockerVars
  <2> QED
    BY <1>1, <2>2, <2>3
<1> HIDE DEF missing
<1>5. \/ \E n \in missing : CreateObject(n) /\ Step("record", st, {n}, pc)
      \/ /\ missing = {}
         /\ Step(CASE pc = "assemble" -> "holdSeeder"
                   [] pc = "build" /\ "seeder" \in st.res -> "seed"
                   [] OTHER -> "assemble",
                 st, {}, ret)
         /\ UNCHANGED dockerVars
  BY DEF Create, Last, missing
<1> QED
  BY <1>1, <1>2, <1>3, <1>4, <1>5

\* What clearing does: stop an object, remove it, or go on.
LEMMA ClearMeans ==
  ASSUME IInv, Clear
  PROVE  /\ pc = "clear"
         /\ UNCHANGED <<disk, st, cmd, outcome>>
         /\ \/ /\ pc' = "clear" /\ objs' = objs /\ running' \subseteq running
            \/ /\ pc' = "build" /\ objs' = objs /\ running' = running
               /\ st.res \subseteq Volumes
            \/ \E n \in st.res \ Volumes :
                  /\ pc' = "cleared" /\ todo' = {n}
                  /\ objs' = objs \ {<<st.run, n>>}
                  /\ running' = running \ {<<st.run, n>>}
<1>1. pc = "clear" /\ UNCHANGED <<disk, st, cmd, outcome>>
  BY DEF Clear, Step
<1>2. ASSUME NEW n \in st.res, StopContainer(n), Step("clear", st, {}, ret)
      PROVE  pc' = "clear" /\ objs' = objs /\ running' \subseteq running
  BY <1>2 DEF StopContainer, Docker, Step
<1>3. ASSUME NEW n \in st.res \ Volumes, RemoveObject(n), Step("cleared", st, {n}, ret)
      PROVE  /\ pc' = "cleared" /\ todo' = {n}
             /\ objs' = objs \ {<<st.run, n>>}
             /\ running' = running \ {<<st.run, n>>}
  BY <1>3 DEF RemoveObject, Docker, Step
<1>4. ASSUME Step("build", st, {}, "build"), UNCHANGED dockerVars
      PROVE  pc' = "build" /\ objs' = objs /\ running' = running
  BY <1>4 DEF Step, dockerVars
<1>5. \/ \E n \in st.res \ Volumes :
            \/ StopContainer(n) /\ Step("clear", st, {}, ret)
            \/ RemoveObject(n) /\ Step("cleared", st, {n}, ret)
      \/ /\ Step("build", st, {}, "build") /\ UNCHANGED dockerVars
         /\ st.res \subseteq Volumes
  BY DEF Clear, First
<1> QED
  BY <1>1, <1>2, <1>3, <1>4, <1>5

\* A laboratory without orphans that lacks nothing is what its record says.
LEMMA Exactly ==
  ASSUME NEW s \in RunState, NoOrphans(s), AllExist(s)
  PROVE  Of(s.run) = s.res
BY ConstantsAssumption DEF NoOrphans, AllExist, Of

\* A record whose phase alone is changed.
LEMMA PhaseChanged ==
  ASSUME NEW s \in RunState, NEW p \in Phases
  PROVE  LET t == [s EXCEPT !.phase = p]
         IN  t \in RunState /\ t.run = s.run /\ t.phase = p /\ t.res = s.res
OBVIOUS

\* What a served laboratory has that is opened again, or is found healthy.
LEMMA Reopening ==
  ASSUME RecordInv, SteadyInv, pc = "reopen"
  PROVE  {"app", "gateway"} \subseteq st.res /\ Of(st.run) = st.res
BY DEF RecordInv, SteadyInv, Layout, Guarded

\* A steady laboratory found healthy is on disk as one.
LEMMA Healthy ==
  ASSUME IInv, RecordInv, SteadyInv, pc = "health", st.phase = "steady"
  PROVE  disk # NoState /\ disk.phase = "steady" /\ disk.res = Layout
<1>1. st = disk /\ disk \in RunState
  BY DEF IInv, MemoryInv, Holding, RecordInv, Guarded
<1>2. Layout \subseteq st.res /\ "seeder" \notin st.res
  BY DEF SteadyInv, Guarded
<1> QED
  BY <1>1, <1>2, ConstantsAssumption DEF Layout

\* The disk lags no more when it and the objects stay, or objects go...
LEMMA LagKept ==
  ASSUME JournalLag, disk' = disk, objs' \subseteq objs
  PROVE  JournalLag'
BY DEF JournalLag, Of

\* ...nor when the step only stays where it is...
LEMMA LagStays ==
  ASSUME LagInv, disk' = disk, st' = st, pc' = pc, objs' \subseteq objs
  PROVE  LagInv'
BY DEF LagInv, JournalLag, Single, Unrecorded, Of

\* ...nor when the record alone gains names...
LEMMA LagSame ==
  ASSUME JournalLag, objs' = objs, disk # NoState,
         disk'.run = disk.run, disk.res \subseteq disk'.res
  PROVE  JournalLag'
BY DEF JournalLag, Of

\* ...nor when what exists is written...
LEMMA LagAdopted ==
  ASSUME NEW s \in RunState, disk' = Adopted(s), objs' = objs
  PROVE  JournalLag'
BY AdoptedState DEF JournalLag, Of

\* ...and when the step knows what exists.
LEMMA LagKnown ==
  ASSUME RecordInv', pc' \in Guarded \ {"unseeded"}
  PROVE  JournalLag'
BY DEF RecordInv, JournalLag, Of

-----------------------------------------------------------------------------
(* One lemma per part, one case per action.                                *)

\* What is on disk, and what of it exists.
LEMMA RecordStep ==
  ASSUME IInv, IInv', PInv, [Next]_vars
  PROVE  RecordInv' /\ ReadyInv'
<1> USE ConstantsAssumption DEF IInv, PInv, TypeOK, NoLostOwnership,
   MemoryInv, ReturnInv, SeederInv, RecordInv, ReadyInv, Of, Holding,
   Adopting, Deleting, Building, Guarded, Step, dockerVars, Docker
<1>1. CASE RecoverTransients
  BY <1>1, AdoptedState DEF RecoverTransients, AfterRecover
<1>2. CASE DiscardStopApp
  BY <1>2 DEF DiscardStopApp, StopContainer
<1>3. CASE DiscardSeeder
  BY <1>3 DEF DiscardSeeder, RemoveObject
<1>4. CASE SaveState
  BY <1>4 DEF SaveState
<1>5. CASE CleanupValidate
  BY <1>5 DEF CleanupValidate
<1>6. CASE CleanupRemove
  BY <1>6 DEF CleanupRemove, RemoveObject, First
<1>7. CASE CleanupDone
  BY <1>7 DEF CleanupDone
<1>8. CASE DeleteState
  BY <1>8 DEF DeleteState, Finish
<1>9. CASE Stop
  BY <1>9 DEF Stop, AfterStop
<1>10. CASE StopNext
  BY <1>10 DEF StopNext, StopContainer, First
<1>11. CASE StopDone
  BY <1>11 DEF StopDone
<1>12. CASE Remove
  BY <1>12 DEF Remove, AfterRemove
<1>13. CASE Rebuild
  BY <1>13 DEF Rebuild
<1>14. CASE Resume
  BY <1>14, AdoptedState DEF Resume
<1>15. CASE Clear
  BY <1>15, ClearMeans
<1>16. CASE RecordCleared
  BY <1>16 DEF RecordCleared
<1>17. CASE UpLoad
  BY <1>17, AdoptedState DEF UpLoad
<1>18. CASE UpLayout
  <2>1. pc = "layout" /\ objs' = objs /\ todo' = {} /\ st \in RunState
    BY <1>18 DEF UpLayout
  <2>2. Of(st.run) = st.res
    BY <1>18, <2>1, Exactly DEF UpLayout, Check
  <2>3. \/ pc' \in {"status", "cleanup", "resume"}
        \/ pc' \in {"revive", "reopen"} /\ st' = st /\ disk' = disk
    BY <1>18 DEF UpLayout
  <2> QED
    BY <2>1, <2>2, <2>3
<1>19. CASE Revive
  BY <1>19 DEF Revive, StopContainer
<1>20. CASE Reopen
  <2>1. pc' = "health" /\ UNCHANGED <<objs, disk, st>> /\ pc = "reopen"
    BY <1>20 DEF Reopen, StartContainer
  <2> QED
    BY <2>1, Reopening
<1>21. CASE CreateRun
  BY <1>21 DEF CreateRun
<1>22. CASE Create
  BY <1>22, CreateMeans
<1>23. CASE Record
  BY <1>23 DEF Record
<1>24. CASE Seed
  BY <1>24 DEF Seed, StartContainer
<1>25. CASE SeedReady
  BY <1>25 DEF SeedReady
<1>26. CASE RemoveSeeder
  BY <1>26 DEF RemoveSeeder, RemoveObject
<1>27. CASE RecordNoSeeder
  BY <1>27 DEF RecordNoSeeder
<1>28. CASE HoldSeeder
  BY <1>28 DEF HoldSeeder
<1>29. CASE StartApp
  BY <1>29 DEF StartApp, StartContainer
<1>30. CASE AppStarted
  BY <1>30 DEF AppStarted
<1>31. CASE StartGateway
  BY <1>31 DEF StartGateway, StartContainer
<1>32. CASE Health
  BY <1>32 DEF Health
<1>33. CASE Publish
  BY <1>33 DEF Publish
<1>34. CASE Status
  BY <1>34 DEF Status, Finish
<1>35. CASE RaiseOut
  BY <1>35 DEF RaiseOut, Finish
<1>36. CASE RaiseInto
  BY <1>36, RaiseMeans
<1>37. CASE Undo
  BY <1>37, AdoptedState DEF Undo, Finish
<1>38. CASE Halt
  BY <1>38 DEF Halt, StopContainer, First
<1>39. CASE HaltDone
  BY <1>39 DEF HaltDone, Finish
<1>40. CASE HaltSeeder
  BY <1>40 DEF HaltSeeder, RemoveObject
<1>41. CASE HaltSave
  BY <1>41 DEF HaltSave
<1>42. CASE Crash
  BY <1>42 DEF Crash, Finish
<1>43. CASE SeederWrites
  BY <1>43 DEF SeederWrites
<1>44. CASE ContainerExits
  BY <1>44 DEF ContainerExits
<1>45. CASE CalmDown
  BY <1>45 DEF CalmDown
<1>46. ASSUME NEW c \in Commands, StartCommand(c)
       PROVE  RecordInv' /\ ReadyInv'
  BY <1>46 DEF StartCommand, Entry
<1>47. CASE UNCHANGED vars
  BY <1>47 DEF vars
<1> HIDE DEF IInv, PInv, RecordInv, ReadyInv, Step, Docker
<1> QED
  BY <1>1, <1>2, <1>3, <1>4, <1>5, <1>6, <1>7, <1>8, <1>9, <1>10, <1>11,
     <1>12, <1>13, <1>14, <1>15, <1>16, <1>17, <1>18, <1>19, <1>20, <1>21,
     <1>22, <1>23, <1>24, <1>25, <1>26, <1>27, <1>28, <1>29, <1>30, <1>31,
     <1>32, <1>33, <1>34, <1>35, <1>36, <1>37, <1>38, <1>39, <1>40, <1>41,
     <1>42, <1>43, <1>44, <1>45, <1>46, <1>47 DEF Next, Program

\* What a steady run has.
LEMMA SteadyStep ==
  ASSUME IInv, IInv', PInv, [Next]_vars
  PROVE  SteadyInv'
<1> USE ConstantsAssumption DEF IInv, PInv, TypeOK, MemoryInv, ReturnInv,
   SeederInv, RecordInv, SteadyInv, Layout, Holding, Adopting, Deleting,
   Building, Guarded, Step, dockerVars, Docker
<1>1. CASE RecoverTransients
  BY <1>1, AdoptedState DEF RecoverTransients, AfterRecover
<1>2. CASE DiscardStopApp
  BY <1>2 DEF DiscardStopApp, StopContainer
<1>3. CASE DiscardSeeder
  BY <1>3 DEF DiscardSeeder, RemoveObject
<1>4. CASE SaveState
  BY <1>4 DEF SaveState
<1>5. CASE CleanupValidate
  BY <1>5 DEF CleanupValidate
<1>6. CASE CleanupRemove
  BY <1>6 DEF CleanupRemove, RemoveObject, First
<1>7. CASE CleanupDone
  BY <1>7 DEF CleanupDone
<1>8. CASE DeleteState
  BY <1>8 DEF DeleteState, Finish
<1>9. CASE Stop
  BY <1>9 DEF Stop, AfterStop
<1>10. CASE StopNext
  BY <1>10 DEF StopNext, StopContainer, First
<1>11. CASE StopDone
  BY <1>11 DEF StopDone
<1>12. CASE Remove
  BY <1>12 DEF Remove, AfterRemove
<1>13. CASE Rebuild
  BY <1>13 DEF Rebuild
<1>14. CASE Resume
  BY <1>14, AdoptedState DEF Resume
<1>15. CASE Clear
  BY <1>15, ClearMeans
<1>16. CASE RecordCleared
  BY <1>16 DEF RecordCleared
<1>17. CASE UpLoad
  BY <1>17, AdoptedState DEF UpLoad
<1>18. CASE UpLayout
  BY <1>18 DEF UpLayout
<1>19. CASE Revive
  BY <1>19 DEF Revive, StopContainer
<1>20. CASE Reopen
  BY <1>20 DEF Reopen, StartContainer
<1>21. CASE CreateRun
  BY <1>21 DEF CreateRun
<1>22. CASE Create
  BY <1>22, CreateMeans
<1>23. CASE Record
  BY <1>23 DEF Record
<1>24. CASE Seed
  BY <1>24 DEF Seed, StartContainer
<1>25. CASE SeedReady
  BY <1>25 DEF SeedReady
<1>26. CASE RemoveSeeder
  BY <1>26 DEF RemoveSeeder, RemoveObject
<1>27. CASE RecordNoSeeder
  BY <1>27 DEF RecordNoSeeder
<1>28. CASE HoldSeeder
  BY <1>28 DEF HoldSeeder
<1>29. CASE StartApp
  BY <1>29 DEF StartApp, StartContainer
<1>30. CASE AppStarted
  BY <1>30 DEF AppStarted
<1>31. CASE StartGateway
  BY <1>31 DEF StartGateway, StartContainer
<1>32. CASE Health
  BY <1>32 DEF Health
<1>33. CASE Publish
  BY <1>33 DEF Publish
<1>34. CASE Status
  BY <1>34 DEF Status, Finish
<1>35. CASE RaiseOut
  BY <1>35 DEF RaiseOut, Finish
<1>36. CASE RaiseInto
  BY <1>36, RaiseMeans
<1>37. CASE Undo
  BY <1>37, AdoptedState DEF Undo, Finish
<1>38. CASE Halt
  BY <1>38 DEF Halt, StopContainer, First
<1>39. CASE HaltDone
  BY <1>39 DEF HaltDone, Finish
<1>40. CASE HaltSeeder
  BY <1>40 DEF HaltSeeder, RemoveObject
<1>41. CASE HaltSave
  BY <1>41 DEF HaltSave
<1>42. CASE Crash
  BY <1>42 DEF Crash, Finish
<1>43. CASE SeederWrites
  BY <1>43 DEF SeederWrites
<1>44. CASE ContainerExits
  BY <1>44 DEF ContainerExits
<1>45. CASE CalmDown
  BY <1>45 DEF CalmDown
<1>46. ASSUME NEW c \in Commands, StartCommand(c)
       PROVE  SteadyInv'
  BY <1>46 DEF StartCommand, Entry
<1>47. CASE UNCHANGED vars
  BY <1>47 DEF vars
<1> HIDE DEF IInv, PInv, SteadyInv, Step, Docker
<1> QED
  BY <1>1, <1>2, <1>3, <1>4, <1>5, <1>6, <1>7, <1>8, <1>9, <1>10, <1>11,
     <1>12, <1>13, <1>14, <1>15, <1>16, <1>17, <1>18, <1>19, <1>20, <1>21,
     <1>22, <1>23, <1>24, <1>25, <1>26, <1>27, <1>28, <1>29, <1>30, <1>31,
     <1>32, <1>33, <1>34, <1>35, <1>36, <1>37, <1>38, <1>39, <1>40, <1>41,
     <1>42, <1>43, <1>44, <1>45, <1>46, <1>47 DEF Next, Program

\* How far the disk lags.
LEMMA LagStep ==
  ASSUME IInv, IInv', PInv, RecordInv', SteadyInv', [Next]_vars
  PROVE  LagInv'
<1> USE ConstantsAssumption DEF IInv, PInv, TypeOK, MemoryInv, LagInv,
   Holding, Adopting, Deleting, Building, Guarded, Step, dockerVars, Docker
<1>1. CASE RecoverTransients
  BY <1>1, LagKept, LagAdopted DEF RecoverTransients, AfterRecover
<1>2. CASE DiscardStopApp
  BY <1>2, LagKept DEF DiscardStopApp, StopContainer
<1>3. CASE DiscardSeeder
  BY <1>3, LagKept DEF DiscardSeeder, RemoveObject
<1>4. CASE SaveState
  <2>1. pc' # "halt" /\ objs' = objs /\ disk' = st /\ Of(st.run) = st.res
    BY <1>4 DEF SaveState, RecordInv, ReturnInv
  <2> QED
    BY <2>1 DEF JournalLag, Of
<1>5. CASE CleanupValidate
  BY <1>5, LagKept DEF CleanupValidate
<1>6. CASE CleanupRemove
  BY <1>6, LagKept DEF CleanupRemove, RemoveObject, First
<1>7. CASE CleanupDone
  BY <1>7, LagKept DEF CleanupDone
<1>8. CASE DeleteState
  BY <1>8 DEF DeleteState, Finish, JournalLag
<1>9. CASE Stop
  BY <1>9, LagKept DEF Stop, AfterStop
<1>10. CASE StopNext
  BY <1>10, LagKept DEF StopNext, StopContainer, First
<1>11. CASE StopDone
  BY <1>11, LagKept DEF StopDone
<1>12. CASE Remove
  BY <1>12, LagKept DEF Remove, AfterRemove
<1>13. CASE Rebuild
  <2>1. /\ pc' # "halt" /\ objs' = objs
        /\ \/ disk' = disk
           \/ disk # NoState /\ disk'.run = disk.run /\ disk'.res = disk.res
    BY <1>13, PhaseChanged DEF Rebuild, RecordInv
  <2> QED
    BY <2>1, LagKept, LagSame
<1>14. CASE Resume
  BY <1>14, LagKept, LagAdopted DEF Resume
<1>15. CASE Clear
  BY <1>15, ClearMeans, LagKept
<1>16. CASE RecordCleared
  <2>1. pc' # "halt" /\ objs' = objs /\ st \in RunState
        /\ disk' = [st EXCEPT !.res = @ \ todo] /\ Of(st.run) = st.res \ todo
    BY <1>16 DEF RecordCleared, RecordInv
  <2> QED
    BY <2>1 DEF JournalLag, Of
<1>17. CASE UpLoad
  BY <1>17, LagKept, LagAdopted DEF UpLoad
<1>18. CASE UpLayout
  <2>1. /\ pc' # "halt" /\ objs' = objs
        /\ \/ disk' = disk
           \/ disk # NoState /\ disk'.run = disk.run /\ disk'.res = disk.res
    BY <1>18, PhaseChanged DEF UpLayout, RecordInv
  <2> QED
    BY <2>1, LagKept, LagSame
<1>19. CASE Revive
  BY <1>19, LagKept DEF Revive, StopContainer
<1>20. CASE Reopen
  BY <1>20, LagKept DEF Reopen, StartContainer
<1>21. CASE CreateRun
  <2>1. pc' = "build"
    BY <1>21 DEF CreateRun
  <2> QED
    BY <2>1, LagKnown
<1>22. CASE Create
  <2>1. /\ pc' # "halt" /\ disk' = disk
        /\ pc' = "record" \/ objs' = objs
    BY <1>22, CreateMeans
  <2> QED
    BY <2>1, LagKept, LagKnown
<1>23. CASE Record
  <2>1. pc' \in {"build", "assemble"}
    BY <1>23 DEF Record, ReturnInv
  <2> QED
    BY <2>1, LagKnown
<1>24. CASE Seed
  BY <1>24, LagKept DEF Seed, StartContainer
<1>25. CASE SeedReady
  BY <1>25, LagKept DEF SeedReady
<1>26. CASE RemoveSeeder
  BY <1>26, LagKept DEF RemoveSeeder, RemoveObject
<1>27. CASE RecordNoSeeder
  <2>1. pc' \in {"assemble", "startGateway"}
    BY <1>27 DEF RecordNoSeeder, ReturnInv
  <2> QED
    BY <2>1, LagKnown
<1>28. CASE HoldSeeder
  BY <1>28, LagKept DEF HoldSeeder
<1>29. CASE StartApp
  BY <1>29, LagKept DEF StartApp, StartContainer
<1>30. CASE AppStarted
  BY <1>30, LagKept DEF AppStarted
<1>31. CASE StartGateway
  BY <1>31, LagKept DEF StartGateway, StartContainer
<1>32. CASE Health
  BY <1>32, LagKept DEF Health
<1>33. CASE Publish
  <2>1. /\ pc = "publish" /\ pc' = "status" /\ objs' = objs
        /\ disk' = [st EXCEPT !.phase = "steady"]
    BY <1>33 DEF Publish
  <2>2. st = disk /\ st \in RunState
    BY <2>1 DEF RecordInv
  <2>3. disk'.run = disk.run /\ disk'.res = disk.res /\ disk # NoState
    BY <2>1, <2>2, PhaseChanged
  <2> QED
    BY <2>1, <2>3, LagSame
<1>34. CASE Status
  BY <1>34, LagKept DEF Status, Finish
<1>35. CASE RaiseOut
  BY <1>35, LagKept DEF RaiseOut, Finish
<1>36. CASE RaiseInto
  <2>1. JournalLag'
    BY <1>36, RaiseMeans, LagKept
  <2>2. Single(Of(st.run) \ st.res)
    BY <1>36, RaiseMeans DEF RecordInv, Single
  <2>3. Single(Unrecorded(st))'
    BY <1>36, <2>2, RaiseMeans DEF Single, Unrecorded, Of
  <2> QED
    BY <2>1, <2>3
<1>37. CASE Undo
  BY <1>37, LagKept, LagAdopted DEF Undo, Finish
<1>38. CASE Halt
  <2>1. /\ pc = "halt" /\ pc' = "halt" /\ st' = st
        /\ disk' = disk /\ objs' = objs
    BY <1>38 DEF Halt, StopContainer
  <2>2. JournalLag'
    BY <2>1, LagKept
  <2> QED
    BY <2>1, <2>2 DEF Single, Unrecorded, Of
<1>39. CASE HaltDone
  <2>1. /\ pc = "halt" /\ pc' # "halt" /\ objs' = objs
        /\ disk' = disk \/ disk' = st
    BY <1>39 DEF HaltDone, Finish, ReturnInv
  <2>2. CASE disk' = disk
    BY <2>1, <2>2, LagKept
  <2>3. CASE disk' = st
    BY <2>1, <2>3 DEF JournalLag, Single, Unrecorded, Of
  <2> QED
    BY <2>1, <2>2, <2>3
<1>40. CASE HaltSeeder
  BY <1>40, LagKept DEF HaltSeeder, RemoveObject
<1>41. CASE HaltSave
  <2>1. /\ pc = "haltSave" /\ st' = st /\ objs' = objs
        /\ disk' = disk \/ disk' = st
    BY <1>41 DEF HaltSave
  <2>2. Single(Unrecorded(st))
    BY <2>1 DEF SteadyInv, Layout, Of, Single, Unrecorded
  <2>3. Single(Unrecorded(st))'
    BY <2>1, <2>2 DEF Single, Unrecorded, Of
  <2>4. CASE disk' = disk
    BY <2>1, <2>3, <2>4, LagKept
  <2>5. CASE disk' = st
    BY <2>1, <2>3, <2>5 DEF JournalLag, Single, Unrecorded, Of
  <2> QED
    BY <2>1, <2>4, <2>5
<1>42. CASE Crash
  BY <1>42, LagKept DEF Crash, Finish
<1>43. CASE SeederWrites
  BY <1>43, LagStays DEF SeederWrites
<1>44. CASE ContainerExits
  BY <1>44, LagStays DEF ContainerExits
<1>45. CASE CalmDown
  BY <1>45, LagStays DEF CalmDown
<1>46. ASSUME NEW c \in Commands, StartCommand(c)
       PROVE  LagInv'
  <2>1. /\ pc' # "halt" /\ disk' = disk /\ objs' = objs
    BY <1>46 DEF StartCommand, Entry
  <2> QED
    BY <2>1, LagKept
<1>47. CASE UNCHANGED vars
  BY <1>47, LagStays DEF vars
<1> HIDE DEF IInv, PInv, LagInv, Step, Docker
<1> QED
  BY <1>1, <1>2, <1>3, <1>4, <1>5, <1>6, <1>7, <1>8, <1>9, <1>10, <1>11,
     <1>12, <1>13, <1>14, <1>15, <1>16, <1>17, <1>18, <1>19, <1>20, <1>21,
     <1>22, <1>23, <1>24, <1>25, <1>26, <1>27, <1>28, <1>29, <1>30, <1>31,
     <1>32, <1>33, <1>34, <1>35, <1>36, <1>37, <1>38, <1>39, <1>40, <1>41,
     <1>42, <1>43, <1>44, <1>45, <1>46, <1>47 DEF Next, Program

\* Which command is where.
LEMMA WayStep ==
  ASSUME IInv, IInv', PInv, [Next]_vars
  PROVE  CommandInv'
<1> USE ConstantsAssumption DEF IInv, PInv, TypeOK, MemoryInv, ReturnInv,
   CommandInv, Holding, Adopting, Deleting, Building, Guarded, Step,
   dockerVars, Docker
<1>1. CASE RecoverTransients
  BY <1>1, AdoptedState DEF RecoverTransients, AfterRecover
<1>2. CASE DiscardStopApp
  BY <1>2 DEF DiscardStopApp, StopContainer
<1>3. CASE DiscardSeeder
  BY <1>3 DEF DiscardSeeder, RemoveObject
<1>4. CASE SaveState
  BY <1>4 DEF SaveState
<1>5. CASE CleanupValidate
  BY <1>5 DEF CleanupValidate
<1>6. CASE CleanupRemove
  BY <1>6 DEF CleanupRemove, RemoveObject, First
<1>7. CASE CleanupDone
  BY <1>7 DEF CleanupDone
<1>8. CASE DeleteState
  BY <1>8 DEF DeleteState, Finish
<1>9. CASE Stop
  BY <1>9 DEF Stop, AfterStop, Check, NoOrphans
<1>10. CASE StopNext
  BY <1>10 DEF StopNext, StopContainer, First
<1>11. CASE StopDone
  BY <1>11 DEF StopDone
<1>12. CASE Remove
  BY <1>12 DEF Remove, AfterRemove
<1>13. CASE Rebuild
  BY <1>13 DEF Rebuild
<1>14. CASE Resume
  BY <1>14, AdoptedState DEF Resume
<1>15. CASE Clear
  BY <1>15, ClearMeans
<1>16. CASE RecordCleared
  BY <1>16 DEF RecordCleared
<1>17. CASE UpLoad
  BY <1>17, AdoptedState DEF UpLoad
<1>18. CASE UpLayout
  BY <1>18 DEF UpLayout
<1>19. CASE Revive
  BY <1>19 DEF Revive, StopContainer
<1>20. CASE Reopen
  <2>1. /\ pc = "reopen" /\ pc' = "health" /\ UNCHANGED <<objs, cmd, outcome, ret>>
        /\ running' = running \cup {<<st.run, "gateway">>}
    BY <1>20 DEF Reopen, StartContainer
  <2>2. "gateway" \in Of(st.run)
    BY <2>1, Reopening
  <2> QED
    BY <2>1, <2>2 DEF Of
<1>21. CASE CreateRun
  BY <1>21 DEF CreateRun
<1>22. CASE Create
  BY <1>22, CreateMeans
<1>23. CASE Record
  BY <1>23 DEF Record
<1>24. CASE Seed
  BY <1>24 DEF Seed, StartContainer, RecordInv, ReadyInv, Of
<1>25. CASE SeedReady
  BY <1>25 DEF SeedReady
<1>26. CASE RemoveSeeder
  BY <1>26 DEF RemoveSeeder, RemoveObject
<1>27. CASE RecordNoSeeder
  BY <1>27 DEF RecordNoSeeder
<1>28. CASE HoldSeeder
  BY <1>28 DEF HoldSeeder
<1>29. CASE StartApp
  BY <1>29 DEF StartApp, StartContainer, RecordInv, ReadyInv, Of
<1>30. CASE AppStarted
  BY <1>30 DEF AppStarted
<1>31. CASE StartGateway
  BY <1>31 DEF StartGateway, StartContainer, RecordInv, ReadyInv, Of
<1>32. CASE Health
  BY <1>32 DEF Health
<1>33. CASE Publish
  BY <1>33 DEF Publish
<1>34. CASE Status
  BY <1>34 DEF Status, Finish
<1>35. CASE RaiseOut
  BY <1>35 DEF RaiseOut, Finish
<1>36. CASE RaiseInto
  BY <1>36, RaiseMeans
<1>37. CASE Undo
  BY <1>37, AdoptedState DEF Undo, Finish
<1>38. CASE Halt
  BY <1>38 DEF Halt, StopContainer, First
<1>39. CASE HaltDone
  BY <1>39 DEF HaltDone, Finish
<1>40. CASE HaltSeeder
  BY <1>40 DEF HaltSeeder, RemoveObject
<1>41. CASE HaltSave
  BY <1>41 DEF HaltSave
<1>42. CASE Crash
  BY <1>42 DEF Crash, Finish
<1>43. CASE SeederWrites
  BY <1>43 DEF SeederWrites
<1>44. CASE ContainerExits
  BY <1>44 DEF ContainerExits
<1>45. CASE CalmDown
  BY <1>45 DEF CalmDown
<1>46. ASSUME NEW c \in Commands, StartCommand(c)
       PROVE  CommandInv'
  BY <1>46 DEF StartCommand, Entry
<1>47. CASE UNCHANGED vars
  BY <1>47 DEF vars
<1> HIDE DEF IInv, PInv, CommandInv, Step, Docker
<1> QED
  BY <1>1, <1>2, <1>3, <1>4, <1>5, <1>6, <1>7, <1>8, <1>9, <1>10, <1>11,
     <1>12, <1>13, <1>14, <1>15, <1>16, <1>17, <1>18, <1>19, <1>20, <1>21,
     <1>22, <1>23, <1>24, <1>25, <1>26, <1>27, <1>28, <1>29, <1>30, <1>31,
     <1>32, <1>33, <1>34, <1>35, <1>36, <1>37, <1>38, <1>39, <1>40, <1>41,
     <1>42, <1>43, <1>44, <1>45, <1>46, <1>47 DEF Next, Program

\* What is done when the report is made.
LEMMA StatusStep ==
  ASSUME IInv, IInv', PInv, CommandInv', [Next]_vars
  PROVE  StatusInv' /\ CommandPromise'
<1> USE ConstantsAssumption DEF IInv, PInv, TypeOK, MemoryInv, ReturnInv,
   RemovalInv, CommandInv, StatusInv, CommandPromise, Holding, Adopting,
   Deleting, Building, Guarded, Step, dockerVars, Docker
<1>1. CASE RecoverTransients
  BY <1>1, AdoptedState DEF RecoverTransients, AfterRecover
<1>2. CASE DiscardStopApp
  BY <1>2 DEF DiscardStopApp, StopContainer
<1>3. CASE DiscardSeeder
  BY <1>3 DEF DiscardSeeder, RemoveObject
<1>4. CASE SaveState
  BY <1>4 DEF SaveState
<1>5. CASE CleanupValidate
  BY <1>5 DEF CleanupValidate
<1>6. CASE CleanupRemove
  BY <1>6 DEF CleanupRemove, RemoveObject, First
<1>7. CASE CleanupDone
  BY <1>7 DEF CleanupDone
<1>8. CASE DeleteState
  BY <1>8 DEF DeleteState, Finish
<1>9. CASE Stop
  BY <1>9 DEF Stop, AfterStop, Check, NoOrphans
<1>10. CASE StopNext
  BY <1>10 DEF StopNext, StopContainer, First
<1>11. CASE StopDone
  BY <1>11 DEF StopDone
<1>12. CASE Remove
  BY <1>12 DEF Remove, AfterRemove, Check
<1>13. CASE Rebuild
  BY <1>13 DEF Rebuild
<1>14. CASE Resume
  BY <1>14, AdoptedState DEF Resume
<1>15. CASE Clear
  BY <1>15, ClearMeans
<1>16. CASE RecordCleared
  BY <1>16 DEF RecordCleared
<1>17. CASE UpLoad
  BY <1>17, AdoptedState DEF UpLoad
<1>18. CASE UpLayout
  BY <1>18 DEF UpLayout, RecordInv
<1>19. CASE Revive
  BY <1>19 DEF Revive, StopContainer
<1>20. CASE Reopen
  BY <1>20 DEF Reopen, StartContainer
<1>21. CASE CreateRun
  BY <1>21 DEF CreateRun
<1>22. CASE Create
  BY <1>22, CreateMeans
<1>23. CASE Record
  BY <1>23 DEF Record
<1>24. CASE Seed
  BY <1>24 DEF Seed, StartContainer
<1>25. CASE SeedReady
  BY <1>25 DEF SeedReady
<1>26. CASE RemoveSeeder
  BY <1>26 DEF RemoveSeeder, RemoveObject
<1>27. CASE RecordNoSeeder
  BY <1>27 DEF RecordNoSeeder
<1>28. CASE HoldSeeder
  BY <1>28 DEF HoldSeeder
<1>29. CASE StartApp
  BY <1>29 DEF StartApp, StartContainer
<1>30. CASE AppStarted
  BY <1>30 DEF AppStarted
<1>31. CASE StartGateway
  BY <1>31 DEF StartGateway, StartContainer
<1>32. CASE Health
  <2>1. /\ pc = "health" /\ UNCHANGED <<objs, running, disk, cmd, outcome>>
        /\ pc' = "status" => st.phase = "steady"
    BY <1>32 DEF Health
  <2>2. pc' = "status" => disk # NoState /\ disk.phase = "steady" /\ disk.res = Layout
    BY <2>1, Healthy
  <2> QED
    BY <2>1, <2>2
<1>33. CASE Publish
  <2>1. /\ pc = "publish" /\ pc' = "status" /\ cmd' = cmd /\ outcome' = outcome
        /\ disk' = [st EXCEPT !.phase = "steady"] /\ st.res = Layout
    BY <1>33 DEF Publish, Check
  <2>2. st \in RunState
    BY <2>1
  <2> HIDE DEF RunState, IInv, PInv
  <2>3. disk' \in RunState /\ disk'.phase = "steady" /\ disk'.res = Layout
    BY <2>1, <2>2, PhaseChanged
  <2> USE DEF RunState, IInv, PInv
  <2> QED
    BY <2>1, <2>3
<1>34. CASE Status
  BY <1>34 DEF Status, Finish, Check, NoOrphans, AllExist
<1>35. CASE RaiseOut
  BY <1>35 DEF RaiseOut, Finish
<1>36. CASE RaiseInto
  BY <1>36, RaiseMeans
<1>37. CASE Undo
  BY <1>37, AdoptedState DEF Undo, Finish
<1>38. CASE Halt
  BY <1>38 DEF Halt, StopContainer, First
<1>39. CASE HaltDone
  BY <1>39 DEF HaltDone, Finish
<1>40. CASE HaltSeeder
  BY <1>40 DEF HaltSeeder, RemoveObject
<1>41. CASE HaltSave
  BY <1>41 DEF HaltSave
<1>42. CASE Crash
  BY <1>42 DEF Crash, Finish
<1>43. CASE SeederWrites
  BY <1>43 DEF SeederWrites
<1>44. CASE ContainerExits
  BY <1>44 DEF ContainerExits
<1>45. CASE CalmDown
  BY <1>45 DEF CalmDown
<1>46. ASSUME NEW c \in Commands, StartCommand(c)
       PROVE  StatusInv' /\ CommandPromise'
  BY <1>46 DEF StartCommand, Entry
<1>47. CASE UNCHANGED vars
  BY <1>47 DEF vars
<1> HIDE DEF IInv, PInv, StatusInv, CommandPromise, Step, Docker
<1> QED
  BY <1>1, <1>2, <1>3, <1>4, <1>5, <1>6, <1>7, <1>8, <1>9, <1>10, <1>11,
     <1>12, <1>13, <1>14, <1>15, <1>16, <1>17, <1>18, <1>19, <1>20, <1>21,
     <1>22, <1>23, <1>24, <1>25, <1>26, <1>27, <1>28, <1>29, <1>30, <1>31,
     <1>32, <1>33, <1>34, <1>35, <1>36, <1>37, <1>38, <1>39, <1>40, <1>41,
     <1>42, <1>43, <1>44, <1>45, <1>46, <1>47 DEF Next, Program

-----------------------------------------------------------------------------
(* The theorems.                                                           *)

\* Both invariants hold in every reachable state.
THEOREM PromiseInvariance == Spec => [](IInv /\ PInv)
<1>1. ASSUME IInv, IInv', PInv, [Next]_vars PROVE PInv'
  BY <1>1, RecordStep, SteadyStep, LagStep, WayStep, StatusStep DEF PInv
<1>2. IInv /\ PInv /\ IInv' /\ [Next]_vars => PInv'
  BY <1>1
<1> QED
  BY Invariance, InitPInv, <1>2, PTL DEF Spec

\* The create-to-checkpoint window is one object wide, wherever a command is
\* killed or fails, in its handlers too.
THEOREM LagBounded == Spec => []JournalLag
<1>1. PInv => JournalLag
  BY DEF PInv, LagInv
<1> QED
  BY PromiseInvariance, <1>1, PTL

\* A command that reports success has done what it is for.
THEOREM SuccessIsHonest == Spec => []CommandPromise
<1>1. PInv => CommandPromise
  BY DEF PInv
<1> QED
  BY PromiseInvariance, <1>1, PTL

-----------------------------------------------------------------------------
(* Seeding: why a gateway serves the reviewed seed data.                   *)

\* Runs whose application runs on storage without the reviewed seed data.
Blank == {r \in Runs : <<r, "app">> \in running /\ r \notin seeded}

\* From the end of seeding to the last check of the seeder.
Assembling ==
    \/ pc \in {"assemble", "holdSeeder", "startApp", "appStarted"}
    \/ pc = "record" /\ ret = "assemble"

\* The gateway is down from before the application starts until after.
ClosedInv ==
    /\ pc \in {"revive", "reopen"} => st.phase = "steady"
    /\ \/ pc \in {"build", "record", "seed", "seeding", "assemble", "holdSeeder",
                  "startApp"}
       \/ pc \in {"unseed", "unseeded"} /\ ret = "assemble"
       => ~Up("gateway")

\* Persistent storage is seeded once, before its first application, and stays so.
KeptInv ==
    Persistent =>
        /\ \A r \in Runs :
              <<r, "app">> \in running => r \in seeded /\ Volumes \subseteq Of(r)
        /\ disk # NoState /\ disk.phase # "provisioning" /\ Volumes \subseteq Of(disk.run)
              => disk.run \in seeded
        /\ pc \in {"seed", "seeding"} => Volumes \subseteq st.res
        /\ pc \in Guarded /\ st.phase = "provisioning"
           /\ (Assembling \/ pc \in {"unseed", "unseeded", "startGateway", "health", "publish"})
              => st.run \in seeded /\ Volumes \subseteq st.res

\* Disposable storage is seeded while the seeder runs, until the application does.
HeldInv ==
    ~Persistent /\ Volumes # {} =>
        /\ Assembling => "seeder" \in st.res /\ (Up("seeder") => st.run \in seeded)
        /\ pc \in {"unseed", "unseeded"} => ret = "startGateway"
        /\ \/ pc \in {"unseed", "unseeded", "startGateway", "publish"}
           \/ pc = "health" /\ st.phase = "provisioning"
           => st.run \notin Blank

\* An application on blank storage is never left without a mark: the seeder
\* beside it, or the stop that failed.
LeftInv ==
    Volumes # {} =>
        /\ disk # NoState /\ disk.phase = "steady" /\ disk.run \in Blank =>
              disk.run \in missed \/ "seeder" \in Of(disk.run)
        /\ pc = "discarding" => ~Up("app")
        /\ \/ pc = "haltSeeder"
           \/ pc = "halt" /\ ret = "haltSeeder" /\ "app" \notin todo
           => (st.run \in Blank => st.run \in missed)

SeedInv == ClosedInv /\ KeptInv /\ HeldInv /\ LeftInv /\ SeededWhileServing

\* What any step leaves of the storage and of the marks.
StorageKept ==
    /\ \A r \in Runs : r \in seeded' => r \in seeded \/ <<r, "seeder">> \in running
    /\ Persistent =>
          \A r \in Runs :
             r \in seeded /\ (\A v \in Volumes : <<r, v>> \in objs') => r \in seeded'
    /\ ~Persistent =>
          \A r \in Runs :
             /\ r \in seeded
             /\ <<r, "seeder">> \in running' \/ <<r, "app">> \in running'
             => r \in seeded'
    /\ \A r \in Runs : r \in missed /\ <<r, "app">> \in running' => r \in missed'

\* What the daemon does.
LEMMA DockerSets ==
  ASSUME NEW o, NEW u, Docker(o, u)
  PROVE  objs' = o /\ running' = u
BY DEF Docker

LEMMA DockerKeeps ==
  ASSUME NEW o, NEW u, Docker(o, u)
  PROVE  StorageKept
<1>1. ASSUME ~Persistent, NEW r \in Runs, <<r, "seeder">> \in u \/ <<r, "app">> \in u
      PROVE  Holds(r, o, u)
  BY <1>1 DEF Holds
<1>2. ASSUME Persistent, NEW r \in Runs, \A v \in Volumes : <<r, v>> \in o
      PROVE  Holds(r, o, u)
  BY <1>2 DEF Holds
<1> HIDE DEF Holds
<1> QED
  BY <1>1, <1>2 DEF Docker, StorageKept

\* Every step keeps the storage.
LEMMA StorageStep ==
  ASSUME [Next]_vars
  PROVE  StorageKept
<1> USE ConstantsAssumption DEF dockerVars
<1>u. UNCHANGED dockerVars => StorageKept
  BY DEF StorageKept
<1>1. CASE RecoverTransients
  BY <1>1, <1>u DEF RecoverTransients
<1>2. CASE DiscardStopApp
  BY <1>2, <1>u, DockerKeeps DEF DiscardStopApp, StopContainer
<1>3. CASE DiscardSeeder
  BY <1>3, <1>u, DockerKeeps DEF DiscardSeeder, RemoveObject
<1>4. CASE SaveState
  BY <1>4, <1>u DEF SaveState
<1>5. CASE CleanupValidate
  BY <1>5, <1>u DEF CleanupValidate
<1>6. CASE CleanupRemove
  BY <1>6, <1>u, DockerKeeps DEF CleanupRemove, RemoveObject
<1>7. CASE CleanupDone
  BY <1>7, <1>u DEF CleanupDone
<1>8. CASE DeleteState
  BY <1>8, <1>u DEF DeleteState
<1>9. CASE Stop
  BY <1>9, <1>u DEF Stop
<1>10. CASE StopNext
  BY <1>10, <1>u, DockerKeeps DEF StopNext, StopContainer
<1>11. CASE StopDone
  BY <1>11, <1>u DEF StopDone
<1>12. CASE Remove
  BY <1>12, <1>u DEF Remove
<1>13. CASE Rebuild
  BY <1>13, <1>u DEF Rebuild
<1>14. CASE Resume
  BY <1>14, <1>u DEF Resume
<1>15. CASE Clear
  BY <1>15, <1>u, DockerKeeps DEF Clear, StopContainer, RemoveObject
<1>16. CASE RecordCleared
  BY <1>16, <1>u DEF RecordCleared
<1>17. CASE UpLoad
  BY <1>17, <1>u DEF UpLoad
<1>18. CASE UpLayout
  BY <1>18, <1>u DEF UpLayout
<1>19. CASE Revive
  BY <1>19, <1>u, DockerKeeps DEF Revive, StopContainer
<1>20. CASE Reopen
  BY <1>20, <1>u, DockerKeeps DEF Reopen, StartContainer
<1>21. CASE CreateRun
  BY <1>21, <1>u DEF CreateRun
<1>22. CASE Create
  BY <1>22, <1>u, DockerKeeps DEF Create, CreateObject
<1>23. CASE Record
  BY <1>23, <1>u DEF Record
<1>24. CASE Seed
  BY <1>24, <1>u, DockerKeeps DEF Seed, StartContainer
<1>25. CASE SeedReady
  BY <1>25, <1>u DEF SeedReady
<1>26. CASE RemoveSeeder
  BY <1>26, <1>u, DockerKeeps DEF RemoveSeeder, RemoveObject
<1>27. CASE RecordNoSeeder
  BY <1>27, <1>u DEF RecordNoSeeder
<1>28. CASE HoldSeeder
  BY <1>28, <1>u DEF HoldSeeder
<1>29. CASE StartApp
  BY <1>29, <1>u, DockerKeeps DEF StartApp, StartContainer
<1>30. CASE AppStarted
  BY <1>30, <1>u DEF AppStarted
<1>31. CASE StartGateway
  BY <1>31, <1>u, DockerKeeps DEF StartGateway, StartContainer
<1>32. CASE Health
  BY <1>32, <1>u DEF Health
<1>33. CASE Publish
  BY <1>33, <1>u DEF Publish
<1>34. CASE Status
  BY <1>34, <1>u DEF Status
<1>35. CASE RaiseOut
  BY <1>35, <1>u DEF RaiseOut
<1>36. CASE RaiseInto
  BY <1>36, <1>u DEF RaiseInto
<1>37. CASE Undo
  BY <1>37, <1>u DEF Undo
<1>38. CASE Halt
  BY <1>38, DockerKeeps DEF Halt, StopContainer, StorageKept
<1>39. CASE HaltDone
  BY <1>39, <1>u DEF HaltDone
<1>40. CASE HaltSeeder
  BY <1>40, <1>u, DockerKeeps DEF HaltSeeder, RemoveObject
<1>41. CASE HaltSave
  BY <1>41, <1>u DEF HaltSave
<1>42. CASE Crash
  BY <1>42, <1>u DEF Crash
<1>43. CASE SeederWrites
  BY <1>43 DEF SeederWrites, StorageKept
<1>44. CASE ContainerExits
  BY <1>44, <1>u, DockerKeeps DEF ContainerExits
<1>45. CASE CalmDown
  BY <1>45, <1>u DEF CalmDown
<1>46. ASSUME NEW c \in Commands, StartCommand(c)
       PROVE  StorageKept
  BY <1>46, <1>u DEF StartCommand
<1>47. CASE UNCHANGED vars
  BY <1>47, <1>u DEF vars
<1> HIDE DEF dockerVars
<1> QED
  BY <1>1, <1>2, <1>3, <1>4, <1>5, <1>6, <1>7, <1>8, <1>9, <1>10, <1>11,
     <1>12, <1>13, <1>14, <1>15, <1>16, <1>17, <1>18, <1>19, <1>20, <1>21,
     <1>22, <1>23, <1>24, <1>25, <1>26, <1>27, <1>28, <1>29, <1>30, <1>31,
     <1>32, <1>33, <1>34, <1>35, <1>36, <1>37, <1>38, <1>39, <1>40, <1>41,
     <1>42, <1>43, <1>44, <1>45, <1>46, <1>47 DEF Next, Program

\* Containers come to run by being started.
Starts ==
    /\ \A r \in Runs :
          <<r, "app">> \in running' =>
              <<r, "app">> \in running \/ (pc = "startApp" /\ r = st.run)
    /\ \A r \in Runs :
          <<r, "gateway">> \in running' =>
              \/ <<r, "gateway">> \in running
              \/ pc \in {"startGateway", "reopen"} /\ r = st.run
    /\ \A r \in Runs :
          <<r, "seeder">> \in running' =>
              <<r, "seeder">> \in running \/ (pc = "seed" /\ r = st.run)

\* An application comes to run on blank storage by being started.
Blanks ==
    /\ Persistent => Blank' = {}
    /\ \A r \in Blank' :
          \/ r \in Blank /\ (r \in missed => r \in missed')
          \/ pc = "startApp" /\ r = st.run /\ <<r, "app">> \in running' \ running

\* The gateway is down.
LEMMA ClosedStep ==
  ASSUME IInv, PInv, SeedInv, StorageKept, [Next]_vars
  PROVE  ClosedInv'
<1> USE ConstantsAssumption DEF IInv, PInv, SeedInv, TypeOK, MemoryInv,
   ReturnInv, CommandInv, RecordInv, ClosedInv, Of, Up, Holding, Adopting,
   Deleting, Building, Guarded, Step, dockerVars
<1>1. CASE RecoverTransients
  BY <1>1, AdoptedState DEF RecoverTransients, AfterRecover
<1>2. CASE DiscardStopApp
  BY <1>2, DockerSets DEF DiscardStopApp, StopContainer
<1>3. CASE DiscardSeeder
  BY <1>3, DockerSets DEF DiscardSeeder, RemoveObject
<1>4. CASE SaveState
  BY <1>4 DEF SaveState
<1>5. CASE CleanupValidate
  BY <1>5 DEF CleanupValidate
<1>6. CASE CleanupRemove
  BY <1>6, DockerSets DEF CleanupRemove, RemoveObject, First
<1>7. CASE CleanupDone
  BY <1>7 DEF CleanupDone
<1>8. CASE DeleteState
  BY <1>8 DEF DeleteState, Finish
<1>9. CASE Stop
  BY <1>9 DEF Stop, AfterStop
<1>10. CASE StopNext
  BY <1>10, DockerSets DEF StopNext, StopContainer, First
<1>11. CASE StopDone
  BY <1>11 DEF StopDone
<1>12. CASE Remove
  BY <1>12 DEF Remove, AfterRemove
<1>13. CASE Rebuild
  BY <1>13 DEF Rebuild
<1>14. CASE Resume
  BY <1>14, AdoptedState DEF Resume
<1>15. CASE Clear
  BY <1>15, ClearMeans
<1>16. CASE RecordCleared
  BY <1>16 DEF RecordCleared
<1>17. CASE UpLoad
  BY <1>17, AdoptedState DEF UpLoad
<1>18. CASE UpLayout
  BY <1>18 DEF UpLayout
<1>19. CASE Revive
  BY <1>19, DockerSets DEF Revive, StopContainer
<1>20. CASE Reopen
  BY <1>20, DockerSets DEF Reopen, StartContainer
<1>21. CASE CreateRun
  BY <1>21 DEF CreateRun
<1>22. CASE Create
  BY <1>22, CreateMeans
<1>23. CASE Record
  BY <1>23 DEF Record
<1>24. CASE Seed
  BY <1>24, DockerSets DEF Seed, StartContainer
<1>25. CASE SeedReady
  BY <1>25 DEF SeedReady
<1>26. CASE RemoveSeeder
  BY <1>26, DockerSets DEF RemoveSeeder, RemoveObject
<1>27. CASE RecordNoSeeder
  BY <1>27 DEF RecordNoSeeder
<1>28. CASE HoldSeeder
  BY <1>28 DEF HoldSeeder
<1>29. CASE StartApp
  BY <1>29, DockerSets DEF StartApp, StartContainer
<1>30. CASE AppStarted
  BY <1>30 DEF AppStarted
<1>31. CASE StartGateway
  BY <1>31, DockerSets DEF StartGateway, StartContainer
<1>32. CASE Health
  BY <1>32 DEF Health
<1>33. CASE Publish
  BY <1>33 DEF Publish
<1>34. CASE Status
  BY <1>34 DEF Status, Finish
<1>35. CASE RaiseOut
  BY <1>35 DEF RaiseOut, Finish
<1>36. CASE RaiseInto
  BY <1>36, RaiseMeans
<1>37. CASE Undo
  BY <1>37, AdoptedState DEF Undo, Finish
<1>38. CASE Halt
  BY <1>38, DockerSets DEF Halt, StopContainer, First
<1>39. CASE HaltDone
  BY <1>39 DEF HaltDone, Finish
<1>40. CASE HaltSeeder
  BY <1>40, DockerSets DEF HaltSeeder, RemoveObject
<1>41. CASE HaltSave
  BY <1>41 DEF HaltSave
<1>42. CASE Crash
  BY <1>42 DEF Crash, Finish
<1>43. CASE SeederWrites
  BY <1>43 DEF SeederWrites
<1>44. CASE ContainerExits
  BY <1>44, DockerSets DEF ContainerExits
<1>45. CASE CalmDown
  BY <1>45 DEF CalmDown
<1>46. ASSUME NEW c \in Commands, StartCommand(c)
       PROVE  ClosedInv'
  BY <1>46 DEF StartCommand, Entry
<1>47. CASE UNCHANGED vars
  BY <1>47 DEF vars
<1> HIDE DEF IInv, PInv, SeedInv, StorageKept, Step, ClosedInv
<1> QED
  BY <1>1, <1>2, <1>3, <1>4, <1>5, <1>6, <1>7, <1>8, <1>9, <1>10, <1>11,
     <1>12, <1>13, <1>14, <1>15, <1>16, <1>17, <1>18, <1>19, <1>20, <1>21,
     <1>22, <1>23, <1>24, <1>25, <1>26, <1>27, <1>28, <1>29, <1>30, <1>31,
     <1>32, <1>33, <1>34, <1>35, <1>36, <1>37, <1>38, <1>39, <1>40, <1>41,
     <1>42, <1>43, <1>44, <1>45, <1>46, <1>47 DEF Next, Program

\* Persistent storage.
LEMMA KeptStep ==
  ASSUME IInv, PInv, SeedInv, StorageKept, [Next]_vars
  PROVE  KeptInv'
<1> USE ConstantsAssumption DEF IInv, PInv, SeedInv, StorageKept, TypeOK,
   NoLostOwnership, MemoryInv, ReturnInv, CommandInv, RecordInv, KeptInv,
   Assembling, Of, Up, Holding, Adopting, Deleting, Building, Guarded, Step,
   dockerVars
<1>1. CASE RecoverTransients
  BY <1>1, AdoptedState DEF RecoverTransients, AfterRecover
<1>2. CASE DiscardStopApp
  BY <1>2, DockerSets DEF DiscardStopApp, StopContainer
<1>3. CASE DiscardSeeder
  BY <1>3, DockerSets DEF DiscardSeeder, RemoveObject
<1>4. CASE SaveState
  BY <1>4 DEF SaveState
<1>5. CASE CleanupValidate
  BY <1>5 DEF CleanupValidate
<1>6. CASE CleanupRemove
  <2>1. PICK n \in First(todo) :
           /\ objs' = objs \ {<<st.run, n>>} /\ running' = running \ {<<st.run, n>>}
           /\ pc = "removing" /\ pc' = "removing" /\ disk' = disk /\ st' = st
    BY <1>6, DockerSets DEF CleanupRemove, RemoveObject
  <2>2. n \in Volumes => "app" \notin todo
    BY <2>1, ConstantsAssumption DEF First, Rank
  <2>3. n \in Volumes => <<st.run, "app">> \notin running
    BY <2>1, <2>2 DEF RemovalInv
  <2> QED
    BY <2>1, <2>3
<1>7. CASE CleanupDone
  BY <1>7 DEF CleanupDone
<1>8. CASE DeleteState
  BY <1>8 DEF DeleteState, Finish
<1>9. CASE Stop
  BY <1>9 DEF Stop, AfterStop
<1>10. CASE StopNext
  BY <1>10, DockerSets DEF StopNext, StopContainer, First
<1>11. CASE StopDone
  BY <1>11 DEF StopDone
<1>12. CASE Remove
  BY <1>12 DEF Remove, AfterRemove
<1>13. CASE Rebuild
  BY <1>13 DEF Rebuild, DestructionInv
<1>14. CASE Resume
  BY <1>14, AdoptedState DEF Resume
<1>15. CASE Clear
  BY <1>15, ClearMeans
<1>16. CASE RecordCleared
  BY <1>16 DEF RecordCleared
<1>17. CASE UpLoad
  BY <1>17, AdoptedState DEF UpLoad
<1>18. CASE UpLayout
  BY <1>18 DEF UpLayout
<1>19. CASE Revive
  BY <1>19, DockerSets DEF Revive, StopContainer
<1>20. CASE Reopen
  <2>1. pc = "reopen" /\ pc' = "health" /\ UNCHANGED <<objs, disk, st>> /\ st.phase = "steady"
        /\ running' = running \cup {<<st.run, "gateway">>}
    BY <1>20, DockerSets DEF Reopen, StartContainer, ClosedInv
  <2> QED
    BY <2>1
<1>21. CASE CreateRun
  BY <1>21 DEF CreateRun
<1>22. CASE Create
  <2>1. /\ st \in RunState /\ disk \in RunState /\ st.run = disk.run /\ st.phase = disk.phase
        /\ pc \in {"build", "assemble"} /\ UNCHANGED <<running, disk, st>>
    BY <1>22, CreateMeans
  <2>2. objs \subseteq objs'
    BY <1>22, CreateMeans
  <2>3. ASSUME NEW v \in Volumes, disk.phase # "provisioning", <<disk.run, v>> \in objs'
        PROVE  <<disk.run, v>> \in objs
    BY <1>22, <2>1, <2>3, CreateMeans
  <2>4. Persistent => \A r \in Runs :
           <<r, "app">> \in running' => r \in seeded' /\ Volumes \subseteq Of(r)'
    BY <2>1, <2>2
  <2>5. Persistent /\ disk.phase # "provisioning" /\ Volumes \subseteq Of(disk.run)'
           => disk.run \in seeded'
    BY <2>1, <2>3
  <2>6. pc' \in {"seed", "assemble"} /\ Persistent /\ pc = "build" =>
           \/ pc' = "seed" /\ Volumes \subseteq st.res
           \/ pc' = "assemble" /\ st.phase # "provisioning"
    BY <1>22, <2>1, CreateMeans DEF Storage, NeedsSeeder, SeederInv
  <2>7. \/ pc = "build" /\ pc' = "record" /\ ret' = "build"
        \/ pc = "build" /\ pc' \in {"seed", "assemble"}
        \/ pc = "assemble" /\ pc' = "record" /\ ret' = "assemble"
        \/ pc = "assemble" /\ pc' = "holdSeeder"
    BY <1>22, CreateMeans
  <2>8. /\ Persistent /\ pc' \in {"seed", "seeding"} => Volumes \subseteq st.res
        /\ Persistent /\ st.phase = "provisioning" /\ pc = "assemble"
              => st.run \in seeded /\ Volumes \subseteq st.res
        /\ \/ Persistent /\ st.phase = "provisioning" /\ Assembling'
           \/ pc' \in {"unseed", "unseeded", "startGateway", "health", "publish"}
           => pc = "assemble"
    BY <2>6, <2>7
  <2>9. st.run \in seeded /\ Volumes \subseteq st.res /\ Persistent /\ pc = "assemble"
           => st.run \in seeded'
    BY <2>1, <2>2
  <2> QED
    BY <2>1, <2>4, <2>5, <2>8, <2>9
<1>23. CASE Record
  BY <1>23 DEF Record
<1>24. CASE Seed
  BY <1>24, DockerSets DEF Seed, StartContainer
<1>25. CASE SeedReady
  BY <1>25 DEF SeedReady
<1>26. CASE RemoveSeeder
  BY <1>26, DockerSets DEF RemoveSeeder, RemoveObject
<1>27. CASE RecordNoSeeder
  BY <1>27 DEF RecordNoSeeder
<1>28. CASE HoldSeeder
  BY <1>28 DEF HoldSeeder
<1>29. CASE StartApp
  <2>1. pc = "startApp" /\ pc' = "appStarted" /\ UNCHANGED <<objs, disk, st>>
        /\ running' = running \cup {<<st.run, "app">>}
    BY <1>29, DockerSets DEF StartApp, StartContainer
  <2>2. Persistent => st.run \in seeded /\ Volumes \subseteq Of(st.run)
    BY <2>1 DEF SteadyInv, Layout
  <2> QED
    BY <2>1, <2>2
<1>30. CASE AppStarted
  BY <1>30 DEF AppStarted
<1>31. CASE StartGateway
  BY <1>31, DockerSets DEF StartGateway, StartContainer
<1>32. CASE Health
  BY <1>32 DEF Health
<1>33. CASE Publish
  BY <1>33 DEF Publish
<1>34. CASE Status
  BY <1>34 DEF Status, Finish
<1>35. CASE RaiseOut
  BY <1>35 DEF RaiseOut, Finish
<1>36. CASE RaiseInto
  BY <1>36, RaiseMeans
<1>37. CASE Undo
  <2>1. st \in RunState /\ disk \in RunState /\ st.phase = "provisioning"
        /\ disk.phase = "provisioning"
    BY <1>37 DEF Undo, DestructionInv
  <2>2. /\ UNCHANGED <<objs, running>> /\ pc' \in {"idle", "cleanup"}
        /\ disk' \in {disk, Adopted(st)}
    BY <1>37 DEF Undo, Finish
  <2>3. disk'.phase = "provisioning"
    BY <2>1, <2>2, AdoptedState
  <2> QED
    BY <2>1, <2>2, <2>3
<1>38. CASE Halt
  BY <1>38, DockerSets DEF Halt, StopContainer, First
<1>39. CASE HaltDone
  BY <1>39 DEF HaltDone, Finish
<1>40. CASE HaltSeeder
  BY <1>40, DockerSets DEF HaltSeeder, RemoveObject
<1>41. CASE HaltSave
  BY <1>41 DEF HaltSave
<1>42. CASE Crash
  BY <1>42 DEF Crash, Finish
<1>43. CASE SeederWrites
  BY <1>43 DEF SeederWrites
<1>44. CASE ContainerExits
  BY <1>44, DockerSets DEF ContainerExits
<1>45. CASE CalmDown
  BY <1>45 DEF CalmDown
<1>46. ASSUME NEW c \in Commands, StartCommand(c)
       PROVE  KeptInv'
  BY <1>46 DEF StartCommand, Entry
<1>47. CASE UNCHANGED vars
  BY <1>47 DEF vars
<1> HIDE DEF IInv, PInv, SeedInv, StorageKept, Step, KeptInv
<1> QED
  BY <1>1, <1>2, <1>3, <1>4, <1>5, <1>6, <1>7, <1>8, <1>9, <1>10, <1>11,
     <1>12, <1>13, <1>14, <1>15, <1>16, <1>17, <1>18, <1>19, <1>20, <1>21,
     <1>22, <1>23, <1>24, <1>25, <1>26, <1>27, <1>28, <1>29, <1>30, <1>31,
     <1>32, <1>33, <1>34, <1>35, <1>36, <1>37, <1>38, <1>39, <1>40, <1>41,
     <1>42, <1>43, <1>44, <1>45, <1>46, <1>47 DEF Next, Program

\* No container comes to run but when it is started.
LEMMA StartStep ==
  ASSUME IInv, [Next]_vars
  PROVE  Starts
<1> USE ConstantsAssumption DEF Starts, Up, Step, dockerVars
<1>1. CASE RecoverTransients
  BY <1>1 DEF RecoverTransients, AfterRecover
<1>2. CASE DiscardStopApp
  BY <1>2, DockerSets DEF DiscardStopApp, StopContainer
<1>3. CASE DiscardSeeder
  BY <1>3, DockerSets DEF DiscardSeeder, RemoveObject
<1>4. CASE SaveState
  BY <1>4 DEF SaveState
<1>5. CASE CleanupValidate
  BY <1>5 DEF CleanupValidate
<1>6. CASE CleanupRemove
  BY <1>6, DockerSets DEF CleanupRemove, RemoveObject, First
<1>7. CASE CleanupDone
  BY <1>7 DEF CleanupDone
<1>8. CASE DeleteState
  BY <1>8 DEF DeleteState, Finish
<1>9. CASE Stop
  BY <1>9 DEF Stop, AfterStop
<1>10. CASE StopNext
  BY <1>10, DockerSets DEF StopNext, StopContainer, First
<1>11. CASE StopDone
  BY <1>11 DEF StopDone
<1>12. CASE Remove
  BY <1>12 DEF Remove, AfterRemove
<1>13. CASE Rebuild
  BY <1>13 DEF Rebuild
<1>14. CASE Resume
  BY <1>14 DEF Resume
<1>15. CASE Clear
  BY <1>15, ClearMeans
<1>16. CASE RecordCleared
  BY <1>16 DEF RecordCleared
<1>17. CASE UpLoad
  BY <1>17 DEF UpLoad
<1>18. CASE UpLayout
  BY <1>18 DEF UpLayout
<1>19. CASE Revive
  BY <1>19, DockerSets DEF Revive, StopContainer
<1>20. CASE Reopen
  BY <1>20, DockerSets DEF Reopen, StartContainer
<1>21. CASE CreateRun
  BY <1>21 DEF CreateRun
<1>22. CASE Create
  BY <1>22, DockerSets DEF Create, CreateObject, Last
<1>23. CASE Record
  BY <1>23 DEF Record
<1>24. CASE Seed
  BY <1>24, DockerSets DEF Seed, StartContainer
<1>25. CASE SeedReady
  BY <1>25 DEF SeedReady
<1>26. CASE RemoveSeeder
  BY <1>26, DockerSets DEF RemoveSeeder, RemoveObject
<1>27. CASE RecordNoSeeder
  BY <1>27 DEF RecordNoSeeder
<1>28. CASE HoldSeeder
  BY <1>28 DEF HoldSeeder
<1>29. CASE StartApp
  BY <1>29, DockerSets DEF StartApp, StartContainer
<1>30. CASE AppStarted
  BY <1>30 DEF AppStarted
<1>31. CASE StartGateway
  BY <1>31, DockerSets DEF StartGateway, StartContainer
<1>32. CASE Health
  BY <1>32 DEF Health
<1>33. CASE Publish
  BY <1>33 DEF Publish
<1>34. CASE Status
  BY <1>34 DEF Status, Finish
<1>35. CASE RaiseOut
  BY <1>35 DEF RaiseOut, Finish
<1>36. CASE RaiseInto
  BY <1>36 DEF RaiseInto
<1>37. CASE Undo
  BY <1>37 DEF Undo, Finish
<1>38. CASE Halt
  BY <1>38, DockerSets DEF Halt, StopContainer, First
<1>39. CASE HaltDone
  BY <1>39 DEF HaltDone, Finish
<1>40. CASE HaltSeeder
  BY <1>40, DockerSets DEF HaltSeeder, RemoveObject
<1>41. CASE HaltSave
  BY <1>41 DEF HaltSave
<1>42. CASE Crash
  BY <1>42 DEF Crash, Finish
<1>43. CASE SeederWrites
  BY <1>43 DEF SeederWrites
<1>44. CASE ContainerExits
  BY <1>44, DockerSets DEF ContainerExits
<1>45. CASE CalmDown
  BY <1>45 DEF CalmDown
<1>46. ASSUME NEW c \in Commands, StartCommand(c)
       PROVE  Starts
  BY <1>46 DEF StartCommand, Entry
<1>47. CASE UNCHANGED vars
  BY <1>47 DEF vars
<1> HIDE DEF Starts, Up, Step, dockerVars
<1> QED
  BY <1>1, <1>2, <1>3, <1>4, <1>5, <1>6, <1>7, <1>8, <1>9, <1>10, <1>11,
     <1>12, <1>13, <1>14, <1>15, <1>16, <1>17, <1>18, <1>19, <1>20, <1>21,
     <1>22, <1>23, <1>24, <1>25, <1>26, <1>27, <1>28, <1>29, <1>30, <1>31,
     <1>32, <1>33, <1>34, <1>35, <1>36, <1>37, <1>38, <1>39, <1>40, <1>41,
     <1>42, <1>43, <1>44, <1>45, <1>46, <1>47 DEF Next, Program

\* No application comes to run on blank storage but when it is started.
LEMMA BlankStep ==
  ASSUME KeptInv', StorageKept, Starts
  PROVE  Blanks
<1>1. ASSUME NEW r \in Runs, <<r, "app">> \in running', r \notin seeded'
      PROVE  r \notin seeded /\ (r \in missed => r \in missed')
  BY <1>1, ConstantsAssumption DEF StorageKept, KeptInv
<1>2. ASSUME NEW r \in Runs, <<r, "app">> \in running'
      PROVE  \/ <<r, "app">> \in running
             \/ pc = "startApp" /\ r = st.run /\ <<r, "app">> \notin running
  BY <1>2 DEF Starts
<1>3. Persistent => Blank' = {}
  BY ConstantsAssumption DEF KeptInv, Blank
<1> QED
  BY <1>1, <1>2, <1>3 DEF Blanks, Blank

\* What is served stays seeded, because an application starts behind a gateway
\* that is down, and a gateway in front of an application that is seeded.
LEMMA ServedStep ==
  ASSUME IInv, PInv, SeedInv, Starts, Blanks
  PROVE  SeededWhileServing'
<1>1. SUFFICES ASSUME NEW r \in Runs, Volumes # {}, r \in Blank', <<r, "gateway">> \in running'
               PROVE  r \in missed'
  BY DEF SeededWhileServing, ServesBlank, Blank
<1>2. \/ r \in Blank /\ (r \in missed => r \in missed')
      \/ pc = "startApp" /\ r = st.run
  BY <1>1 DEF Blanks, Blank
<1>3. \/ <<r, "gateway">> \in running
      \/ r = st.run /\ pc \in {"startGateway", "reopen"}
  BY <1>1 DEF Starts
<1>4. CASE pc = "startApp" /\ r = st.run
  BY <1>3, <1>4 DEF SeedInv, ClosedInv, Up
<1>5. CASE r \in Blank /\ <<r, "gateway">> \in running /\ (r \in missed => r \in missed')
  BY <1>1, <1>5 DEF SeedInv, SeededWhileServing, ServesBlank, Blank
<1>6. CASE r \in Blank /\ r = st.run /\ pc = "startGateway"
  BY <1>1, <1>6, ConstantsAssumption DEF SeedInv, HeldInv, KeptInv, Blank
<1>7. CASE /\ r \in Blank /\ r = st.run /\ pc = "reopen"
           /\ r \in missed => r \in missed'
  <2>1. disk # NoState /\ disk.run = r /\ disk.phase = "steady" /\ "seeder" \notin Of(r)
    BY <1>7, ConstantsAssumption, Reopening
       DEF IInv, MemoryInv, Holding, Building, Guarded, PInv, SteadyInv, SeedInv,
           ClosedInv, RecordInv, Layout
  <2> QED
    BY <1>1, <1>7, <2>1 DEF SeedInv, LeftInv
<1> QED
  BY <1>2, <1>3, <1>4, <1>5, <1>6, <1>7

\* Disposable storage.
LEMMA HeldStep ==
  ASSUME IInv, PInv, SeedInv, StorageKept, KeptInv', Starts, Blanks, [Next]_vars
  PROVE  HeldInv'
<1> USE ConstantsAssumption DEF IInv, PInv, SeedInv, StorageKept, Starts,
   Blanks, TypeOK, MemoryInv, ReturnInv, SteadyInv, RecordInv, HeldInv,
   Assembling, Up, Holding, Adopting, Deleting, Building, Guarded, Step,
   dockerVars
<1>1. CASE RecoverTransients
  BY <1>1, AdoptedState DEF RecoverTransients, AfterRecover
<1>2. CASE DiscardStopApp
  BY <1>2, DockerSets DEF DiscardStopApp, StopContainer
<1>3. CASE DiscardSeeder
  BY <1>3, DockerSets DEF DiscardSeeder, RemoveObject
<1>4. CASE SaveState
  BY <1>4 DEF SaveState
<1>5. CASE CleanupValidate
  BY <1>5 DEF CleanupValidate
<1>6. CASE CleanupRemove
  BY <1>6, DockerSets DEF CleanupRemove, RemoveObject, First
<1>7. CASE CleanupDone
  BY <1>7 DEF CleanupDone
<1>8. CASE DeleteState
  BY <1>8 DEF DeleteState, Finish
<1>9. CASE Stop
  BY <1>9 DEF Stop, AfterStop
<1>10. CASE StopNext
  BY <1>10, DockerSets DEF StopNext, StopContainer, First
<1>11. CASE StopDone
  BY <1>11 DEF StopDone
<1>12. CASE Remove
  BY <1>12 DEF Remove, AfterRemove
<1>13. CASE Rebuild
  BY <1>13 DEF Rebuild
<1>14. CASE Resume
  BY <1>14, AdoptedState DEF Resume
<1>15. CASE Clear
  BY <1>15, DockerSets DEF Clear, StopContainer, RemoveObject, First
<1>16. CASE RecordCleared
  BY <1>16 DEF RecordCleared
<1>17. CASE UpLoad
  BY <1>17, AdoptedState DEF UpLoad
<1>18. CASE UpLayout
  BY <1>18 DEF UpLayout
<1>19. CASE Revive
  BY <1>19, DockerSets DEF Revive, StopContainer
<1>20. CASE Reopen
  <2>1. pc = "reopen" /\ pc' = "health" /\ st' = st /\ st.phase = "steady"
    BY <1>20 DEF Reopen, ClosedInv
  <2> QED
    BY <2>1
<1>21. CASE CreateRun
  BY <1>21 DEF CreateRun
<1>22. CASE Create
  <2>1. /\ st \in RunState /\ (st.phase = "rebuild" => Persistent)
        /\ pc \in {"build", "assemble"} /\ UNCHANGED <<running, st>>
    BY <1>22, CreateMeans
  <2>2. ~Persistent /\ Volumes # {} => ~(pc = "build" /\ pc' = "assemble")
    BY <1>22, <2>1, CreateMeans DEF Storage, NeedsSeeder
  <2>3. \/ pc = "build" /\ pc' = "record" /\ ret' = "build"
        \/ pc = "build" /\ pc' \in {"seed", "assemble"}
        \/ pc = "assemble" /\ pc' = "record" /\ ret' = "assemble"
        \/ pc = "assemble" /\ pc' = "holdSeeder"
    BY <1>22, CreateMeans
  <2> QED
    BY <2>1, <2>2, <2>3
<1>23. CASE Record
  BY <1>23 DEF Record
<1>24. CASE Seed
  BY <1>24, DockerSets DEF Seed, StartContainer
<1>25. CASE SeedReady
  <2>1. /\ pc = "seeding" /\ st.run \in seeded /\ Up("seeder")
        /\ UNCHANGED <<running, seeded, st>>
        /\ ~Persistent => pc' = "assemble"
    BY <1>25 DEF SeedReady, Check
  <2>2. "seeder" \in st.res
    BY <2>1 DEF CommandInv, Of
  <2> QED
    BY <2>1, <2>2
<1>26. CASE RemoveSeeder
  BY <1>26, DockerSets DEF RemoveSeeder, RemoveObject
<1>27. CASE RecordNoSeeder
  BY <1>27 DEF RecordNoSeeder
<1>28. CASE HoldSeeder
  BY <1>28 DEF HoldSeeder
<1>29. CASE StartApp
  BY <1>29, DockerSets DEF StartApp, StartContainer
<1>30. CASE AppStarted
  <2>1. /\ pc = "appStarted" /\ SeederHolds /\ UNCHANGED <<objs, running, seeded, st>>
        /\ ret' = "startGateway" /\ pc' \in {"unseed", "startGateway"}
    BY <1>30 DEF AppStarted, Check
  <2>2. ~Persistent /\ Volumes # {} => st.run \in seeded
    BY <2>1 DEF SeederHolds
  <2>3. ~Persistent /\ Volumes # {} => st.run \notin Blank'
    BY <2>1, <2>2 DEF Blank
  <2> QED
    BY <2>1, <2>3
<1>31. CASE StartGateway
  BY <1>31, DockerSets DEF StartGateway, StartContainer
<1>32. CASE Health
  BY <1>32 DEF Health
<1>33. CASE Publish
  BY <1>33 DEF Publish
<1>34. CASE Status
  BY <1>34 DEF Status, Finish
<1>35. CASE RaiseOut
  BY <1>35 DEF RaiseOut, Finish
<1>36. CASE RaiseInto
  BY <1>36, RaiseMeans
<1>37. CASE Undo
  BY <1>37, AdoptedState DEF Undo, Finish
<1>38. CASE Halt
  BY <1>38, DockerSets DEF Halt, StopContainer, First
<1>39. CASE HaltDone
  BY <1>39 DEF HaltDone, Finish
<1>40. CASE HaltSeeder
  BY <1>40, DockerSets DEF HaltSeeder, RemoveObject
<1>41. CASE HaltSave
  BY <1>41 DEF HaltSave
<1>42. CASE Crash
  BY <1>42 DEF Crash, Finish
<1>43. CASE SeederWrites
  BY <1>43 DEF SeederWrites
<1>44. CASE ContainerExits
  BY <1>44, DockerSets DEF ContainerExits
<1>45. CASE CalmDown
  BY <1>45 DEF CalmDown
<1>46. ASSUME NEW c \in Commands, StartCommand(c)
       PROVE  HeldInv'
  BY <1>46 DEF StartCommand, Entry
<1>47. CASE UNCHANGED vars
  BY <1>47 DEF vars
<1> HIDE DEF IInv, PInv, SeedInv, StorageKept, Step, HeldInv
<1> QED
  BY <1>1, <1>2, <1>3, <1>4, <1>5, <1>6, <1>7, <1>8, <1>9, <1>10, <1>11,
     <1>12, <1>13, <1>14, <1>15, <1>16, <1>17, <1>18, <1>19, <1>20, <1>21,
     <1>22, <1>23, <1>24, <1>25, <1>26, <1>27, <1>28, <1>29, <1>30, <1>31,
     <1>32, <1>33, <1>34, <1>35, <1>36, <1>37, <1>38, <1>39, <1>40, <1>41,
     <1>42, <1>43, <1>44, <1>45, <1>46, <1>47 DEF Next, Program

\* What is left.
LEMMA LeftStep ==
  ASSUME IInv, PInv, SeedInv, StorageKept, KeptInv', Starts, Blanks, [Next]_vars
  PROVE  LeftInv'
<1> USE ConstantsAssumption DEF IInv, PInv, SeedInv, StorageKept, Starts,
   Blanks, TypeOK, NoLostOwnership, MemoryInv, ReturnInv, CommandInv,
   RecordInv, HeldInv, LeftInv, Of, Up, Holding, Adopting, Deleting,
   Building, Guarded, Step, dockerVars
<1>1. CASE RecoverTransients
  BY <1>1, AdoptedState DEF RecoverTransients, AfterRecover
<1>2. CASE DiscardStopApp
  BY <1>2, DockerSets DEF DiscardStopApp, StopContainer
<1>3. CASE DiscardSeeder
  <2>1. /\ pc = "discarding" /\ pc' = "save" /\ running' \subseteq running
        /\ disk' = disk /\ st.run = disk.run
    BY <1>3, DockerSets DEF DiscardSeeder, RemoveObject
  <2>2. Volumes # {} => st.run \notin Blank'
    BY <2>1 DEF Blank
  <2> QED
    BY <2>1, <2>2
<1>4. CASE SaveState
  BY <1>4 DEF SaveState
<1>5. CASE CleanupValidate
  BY <1>5 DEF CleanupValidate
<1>6. CASE CleanupRemove
  <2>1. PICK n \in First(todo) :
           /\ objs' = objs \ {<<st.run, n>>} /\ running' = running \ {<<st.run, n>>}
           /\ pc = "removing" /\ pc' = "removing" /\ UNCHANGED <<disk, st>>
    BY <1>6, DockerSets DEF CleanupRemove, RemoveObject
  <2>2. n = "seeder" => "app" \notin todo
    BY <2>1 DEF First, Rank
  <2>3. n = "seeder" => <<st.run, "app">> \notin running
    BY <2>1, <2>2 DEF RemovalInv
  <2>4. n = "seeder" => st.run \notin Blank'
    BY <2>1, <2>3 DEF Blank
  <2> QED
    BY <2>1, <2>4
<1>7. CASE CleanupDone
  BY <1>7 DEF CleanupDone
<1>8. CASE DeleteState
  BY <1>8 DEF DeleteState, Finish
<1>9. CASE Stop
  BY <1>9 DEF Stop, AfterStop
<1>10. CASE StopNext
  BY <1>10, DockerSets DEF StopNext, StopContainer, First
<1>11. CASE StopDone
  BY <1>11 DEF StopDone
<1>12. CASE Remove
  BY <1>12 DEF Remove, AfterRemove
<1>13. CASE Rebuild
  BY <1>13 DEF Rebuild
<1>14. CASE Resume
  BY <1>14, AdoptedState DEF Resume
<1>15. CASE Clear
  <2>1. /\ pc' \in {"clear", "build", "cleared"} /\ disk' = disk /\ pc = "clear"
    BY <1>15, ClearMeans
  <2>2. disk.phase = "rebuild"
    BY <2>1 DEF SteadyInv
  <2> QED
    BY <2>1, <2>2
<1>16. CASE RecordCleared
  BY <1>16 DEF RecordCleared
<1>17. CASE UpLoad
  BY <1>17, AdoptedState DEF UpLoad
<1>18. CASE UpLayout
  BY <1>18 DEF UpLayout
<1>19. CASE Revive
  BY <1>19, DockerSets DEF Revive, StopContainer
<1>20. CASE Reopen
  BY <1>20, DockerSets DEF Reopen, StartContainer
<1>21. CASE CreateRun
  BY <1>21 DEF CreateRun
<1>22. CASE Create
  <2>1. /\ pc \in {"build", "assemble"} /\ UNCHANGED <<running, disk, st>>
        /\ objs \subseteq objs' /\ pc' \in {"record", "holdSeeder", "seed", "assemble"}
    BY <1>22, CreateMeans
  <2> QED
    BY <2>1
<1>23. CASE Record
  BY <1>23 DEF Record
<1>24. CASE Seed
  BY <1>24, DockerSets DEF Seed, StartContainer
<1>25. CASE SeedReady
  BY <1>25 DEF SeedReady
<1>26. CASE RemoveSeeder
  <2>1. /\ pc = "unseed" /\ pc' = "unseeded" /\ running' \subseteq running
        /\ disk' = disk /\ st.run = disk.run
    BY <1>26, DockerSets DEF RemoveSeeder, RemoveObject
  <2>2. Volumes # {} => disk.run \notin Blank'
    BY <2>1
  <2> QED
    BY <2>1, <2>2
<1>27. CASE RecordNoSeeder
  BY <1>27 DEF RecordNoSeeder
<1>28. CASE HoldSeeder
  BY <1>28 DEF HoldSeeder
<1>29. CASE StartApp
  <2>1. /\ pc = "startApp" /\ pc' = "appStarted" /\ UNCHANGED <<objs, disk, st>>
        /\ st \in RunState /\ st.run = disk.run
    BY <1>29, DockerSets DEF StartApp, StartContainer
  <2>2. ~Persistent /\ Volumes # {} => "seeder" \in st.res
    BY <2>1 DEF Assembling
  <2>3. Of(st.run) = st.res
    BY <2>1
  <2>4. "seeder" \in st.res => <<st.run, "seeder">> \in objs'
    BY <2>1, <2>3
  <2> QED
    BY <2>1, <2>2, <2>4
<1>30. CASE AppStarted
  BY <1>30 DEF AppStarted
<1>31. CASE StartGateway
  BY <1>31, DockerSets DEF StartGateway, StartContainer
<1>32. CASE Health
  BY <1>32 DEF Health
<1>33. CASE Publish
  <2>1. /\ pc = "publish" /\ pc' = "status" /\ UNCHANGED <<objs, running>>
        /\ st \in RunState /\ disk' = [st EXCEPT !.phase = "steady"]
    BY <1>33 DEF Publish
  <2>2. disk'.run = st.run
    BY <2>1
  <2>3. Volumes # {} => st.run \notin Blank'
    BY <2>1
  <2> QED
    BY <2>1, <2>2, <2>3
<1>34. CASE Status
  BY <1>34 DEF Status, Finish
<1>35. CASE RaiseOut
  BY <1>35 DEF RaiseOut, Finish
<1>36. CASE RaiseInto
  <2>1. pc \in Guarded /\ st'.run = st.run /\ UNCHANGED <<objs, running, disk>>
    BY <1>36, RaiseMeans
  <2>2. /\ pc' \in {"undo", "halt"}
        /\ pc' = "halt" /\ ret' = "haltSeeder" => "app" \in todo'
    BY <1>36, RaiseMeans
  <2> QED
    BY <2>1, <2>2
<1>37. CASE Undo
  <2>1. st \in RunState /\ disk.phase = "provisioning"
        /\ (st.phase = "provisioning")
    BY <1>37 DEF Undo, DestructionInv
  <2>2. /\ UNCHANGED <<objs, running>> /\ pc' \in {"idle", "cleanup"}
        /\ disk' \in {disk, Adopted(st)}
    BY <1>37 DEF Undo, Finish
  <2>3. disk'.phase = "provisioning"
    BY <2>1, <2>2, AdoptedState
  <2> QED
    BY <2>2, <2>3
<1>38. CASE Halt
  <2>1. pc = "halt" /\ pc' = "halt" /\ UNCHANGED <<objs, disk, st, ret>>
    BY <1>38, DockerSets DEF Halt, StopContainer
  <2>2. "app" \notin todo' =>
           \/ "app" \notin todo
           \/ <<st.run, "app">> \notin running'
           \/ st.run \in missed'
    BY <1>38, DockerSets DEF Halt, StopContainer
  <2>3. running' \subseteq running
    BY <1>38, DockerSets DEF Halt, StopContainer
  <2>4. st.run \in Blank' => <<st.run, "app">> \in running'
    BY DEF Blank
  <2> QED
    BY <2>1, <2>2, <2>3, <2>4
<1>39. CASE HaltDone
  BY <1>39 DEF HaltDone, Finish
<1>40. CASE HaltSeeder
  BY <1>40, DockerSets DEF HaltSeeder, RemoveObject
<1>41. CASE HaltSave
  BY <1>41 DEF HaltSave
<1>42. CASE Crash
  BY <1>42 DEF Crash, Finish
<1>43. CASE SeederWrites
  BY <1>43 DEF SeederWrites
<1>44. CASE ContainerExits
  <2>1. running' \subseteq running /\ UNCHANGED <<objs, disk, pc, st, todo, ret>>
    BY <1>44, DockerSets DEF ContainerExits
  <2>2. \A r \in Blank' : r \in Blank /\ (r \in missed => r \in missed')
    BY <2>1
  <2>3. UNCHANGED Of(disk.run) /\ (Up("app")' => Up("app"))
    BY <2>1
  <2> HIDE DEF Of, Up, Blanks, StorageKept, Starts, HeldInv, RecordInv, CommandInv, TypeOK
  <2> QED
    BY <2>1, <2>2, <2>3
<1>45. CASE CalmDown
  BY <1>45 DEF CalmDown
<1>46. ASSUME NEW c \in Commands, StartCommand(c)
       PROVE  LeftInv'
  BY <1>46 DEF StartCommand, Entry
<1>47. CASE UNCHANGED vars
  BY <1>47 DEF vars
<1> HIDE DEF IInv, PInv, SeedInv, StorageKept, Step, LeftInv
<1> QED
  BY <1>1, <1>2, <1>3, <1>4, <1>5, <1>6, <1>7, <1>8, <1>9, <1>10, <1>11,
     <1>12, <1>13, <1>14, <1>15, <1>16, <1>17, <1>18, <1>19, <1>20, <1>21,
     <1>22, <1>23, <1>24, <1>25, <1>26, <1>27, <1>28, <1>29, <1>30, <1>31,
     <1>32, <1>33, <1>34, <1>35, <1>36, <1>37, <1>38, <1>39, <1>40, <1>41,
     <1>42, <1>43, <1>44, <1>45, <1>46, <1>47 DEF Next, Program

\* All of it holds initially.
LEMMA InitSeedInv == Init => SeedInv
BY DEF Init, SeedInv, ClosedInv, KeptInv, HeldInv, LeftInv, SeededWhileServing,
   ServesBlank, Assembling, Blank, Up, Guarded

\* What every step knows of the seed data.
THEOREM SeedInvariance == Spec => []SeedInv
<1>1. ASSUME IInv, PInv, SeedInv, [Next]_vars PROVE SeedInv'
  <2>1. StorageKept /\ Starts
    BY <1>1, StorageStep, StartStep
  <2>2. ClosedInv' /\ KeptInv'
    BY <1>1, <2>1, ClosedStep, KeptStep
  <2>3. Blanks
    BY <2>1, <2>2, BlankStep
  <2>4. HeldInv' /\ LeftInv' /\ SeededWhileServing'
    BY <1>1, <2>1, <2>2, <2>3, HeldStep, LeftStep, ServedStep
  <2> QED
    BY <2>2, <2>4 DEF SeedInv
<1>2. IInv /\ PInv /\ SeedInv /\ [Next]_vars => SeedInv'
  BY <1>1
<1> QED
  BY PromiseInvariance, InitSeedInv, <1>2, PTL DEF Spec

\* An application that serves has the reviewed seed data, except one whose
\* stop failed with the failure suppressed.
THEOREM ServedIsSeeded == Spec => []SeededWhileServing
<1>1. SeedInv => SeededWhileServing
  BY DEF SeedInv
<1> QED
  BY SeedInvariance, <1>1, PTL
=============================================================================
