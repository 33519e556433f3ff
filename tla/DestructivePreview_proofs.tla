------------------------ MODULE DestructivePreview_proofs ------------------------
(***************************************************************************)
(* Proofs about LifecycleLock and DestructivePreview, for any number of    *)
(* threads, Runtimes and objects: one operation at a time, alone and with  *)
(* the commands on top, and therefore that a destructive command removes   *)
(* only what was shown.                                                    *)
(***************************************************************************)
EXTENDS DestructivePreview, TLAPS

-----------------------------------------------------------------------------
(* The lock.                                                               *)

\* Nobody is inside at first.
LEMMA LockInitially == LockInit => LockInv
BY LockAssumption DEF LockInit, LockInv, LockTypeOK, Places, Mine

\* Every step of the lock keeps its invariant.
LEMMA LockStep == LockInv /\ [LockNext]_lockVars => LockInv'
<1> SUFFICES ASSUME LockInv, [LockNext]_lockVars PROVE LockInv'
  OBVIOUS
<1> USE LockAssumption DEF LockInv, LockTypeOK, Places, Mine, Move
<1>1. ASSUME NEW c \in Callers, Call(c) PROVE LockInv'
  BY <1>1, SMTT(20) DEF Call
<1>2. ASSUME NEW c \in Callers, TakeThread(c) PROVE LockInv'
  <2>1. CASE depth[Owner[c]] > 0
    BY <1>2, <2>1, SMTT(20) DEF TakeThread
  <2>2. CASE ~(depth[Owner[c]] > 0)
    BY <1>2, <2>2, SMTT(20) DEF TakeThread
  <2> QED
    BY <2>1, <2>2
<1>3. ASSUME NEW c \in Callers, TakeFile(c) PROVE LockInv'
  BY <1>3, SMTT(20) DEF TakeFile
<1>4. ASSUME NEW c \in Callers, GiveUp(c) PROVE LockInv'
  BY <1>4, SMTT(20) DEF GiveUp
<1>5. ASSUME NEW c \in Callers, DeadlinePasses(c) PROVE LockInv'
  BY <1>5, SMTT(20) DEF DeadlinePasses
<1>6. ASSUME NEW c \in Callers, LeaveNested(c) PROVE LockInv'
  BY <1>6, SMTT(20) DEF LeaveNested
<1>7. ASSUME NEW c \in Callers, Leave(c) PROVE LockInv'
  BY <1>7, SMTT(20) DEF Leave
<1>8. ASSUME NEW c \in Callers, ReleaseThread(c) PROVE LockInv'
  BY <1>8, SMTT(20) DEF ReleaseThread
<1>9. ASSUME NEW r \in Runtimes, Crash(r) PROVE LockInv'
  BY <1>9, SMTT(20) DEF Crash
<1>10. CASE UNCHANGED lockVars
  BY <1>10 DEF lockVars
<1> QED
  BY <1>1, <1>2, <1>3, <1>4, <1>5, <1>6, <1>7, <1>8, <1>9, <1>10
     DEF LockNext, Try

\* Two callers inside would have the same Runtime and its thread lock.
LEMMA Exclusion == LockInv => MutualExclusion
BY LockAssumption DEF LockInv, MutualExclusion, Mine

\* The lock by itself lets one operation run at a time, whatever threads and
\* processes call, nest, give up or die.
THEOREM LockExcludes == LockSpec => []MutualExclusion
BY LockInitially, LockStep, Exclusion, PTL DEF LockSpec

\* Only a try that finds the file lock held refuses, and then somebody inside
\* holds it.
LEMMA Refusal == LockInv /\ [LockNext]_lockVars => RefusedStep \/ UNCHANGED lockVars
<1> SUFFICES ASSUME LockInv, LockNext, NEW c \in Callers, at[c] = "poll", at'[c] = "left"
             PROVE  \E d \in Callers : at[d] = "in"
  BY DEF RefusedStep
<1> USE LockAssumption DEF LockInv, LockTypeOK, Places, Move
<1>1. flock # Nobody => \E d \in Callers : at[d] = "in"
  OBVIOUS
<1>2. ASSUME NEW d \in Callers,
             \/ Call(d) \/ TakeThread(d) \/ TakeFile(d) \/ DeadlinePasses(d)
             \/ LeaveNested(d) \/ ReleaseThread(d)
      PROVE  FALSE
  BY <1>2 DEF Call, TakeThread, TakeFile, DeadlinePasses, LeaveNested, ReleaseThread
<1>3. ASSUME NEW d \in Callers, GiveUp(d) PROVE flock # Nobody
  BY <1>3 DEF GiveUp
<1>4. ASSUME NEW d \in Callers, Leave(d) PROVE FALSE
  BY <1>4 DEF Leave
<1>5. ASSUME NEW r \in Runtimes, Crash(r) PROVE FALSE
  BY <1>5 DEF Crash
<1> QED
  BY <1>1, <1>2, <1>3, <1>4, <1>5 DEF LockNext, Try

\* No caller is turned away on behalf of an operation that ended or died.
THEOREM LockRefusesFairly == LockSpec => RefusedByOperation
BY LockInitially, LockStep, Refusal, PTL DEF LockSpec, RefusedByOperation

-----------------------------------------------------------------------------
(* The commands on top of it.                                              *)

IInv == LockInv /\ TypeOK /\ PreviewInv

LEMMA Initially == Init => IInv
<1> SUFFICES ASSUME Init PROVE IInv
  OBVIOUS
<1>1. LockInv
  BY LockInitially DEF Init
<1>2. TypeOK /\ PreviewInv
  BY <1>1 DEF Init, TypeOK, PreviewInv, LockInv, LockInit, Steps, Scopes, Objects,
     TokenMatches
<1> QED
  BY <1>1, <1>2 DEF IInv

\* Every step of a command is a step of the lock, or leaves it alone.
LEMMA LockSimulation == Next => [LockNext]_lockVars
<1> USE DEF LockNext, Try, End, StartOver
<1>1. ASSUME NEW c \in Callers, Command(c) PROVE [LockNext]_lockVars
  <2>1. ASSUME NEW s \in Scopes, NEW token, Begin(c, s, token) PROVE [LockNext]_lockVars
    BY <2>1 DEF Begin
  <2>2. CASE Preview(c) \/ PrintToken(c) \/ Confirm(c) \/ Decline(c) \/ Apply(c)
    BY <2>2 DEF Preview, PrintToken, Confirm, Decline, Apply
  <2>3. CASE RemoveNext(c) \/ RemoveImages(c)
    BY <2>3 DEF RemoveNext, RemoveImages
  <2>4. CASE RemoveDone(c)
    BY <2>4 DEF RemoveDone
  <2>5. CASE BeginOther(c) \/ Nest(c) \/ Unnest(c)
    BY <2>5 DEF BeginOther, Nest, Unnest
  <2>6. ASSUME NEW r \in Runs, StartRun(c, r) \/ OtherForget(c, r)
        PROVE  [LockNext]_lockVars
    BY <2>6 DEF StartRun, OtherForget
  <2>7. ASSUME NEW o \in Objects, CreateObject(c, o) \/ OtherRemove(c, o)
        PROVE  [LockNext]_lockVars
    BY <2>7 DEF CreateObject, OtherRemove
  <2>8. CASE Wait(c) \/ Refused(c) \/ Fail(c)
    BY <2>8 DEF Wait, Refused, Fail
  <2> QED
    BY <1>1, <2>1, <2>2, <2>3, <2>4, <2>5, <2>6, <2>7, <2>8 DEF Command
<1>2. ASSUME NEW r \in Runtimes, Killed(r) PROVE [LockNext]_lockVars
  BY <1>2 DEF Killed
<1>3. ASSUME NEW o \in Objects, Foreign(o) \/ Vanish(o) PROVE [LockNext]_lockVars
  BY <1>3 DEF Foreign, Vanish
<1> QED
  BY <1>1, <1>2, <1>3 DEF Next

\* Of two callers only one changes the laboratory, and it is the one inside.
LEMMA Alone ==
  ASSUME LockInv, NEW c \in Callers, NEW d \in Callers, at[c] = "in", at[d] = "in"
  PROVE  c = d
BY Exclusion DEF MutualExclusion

\* A token that matched still does while the command stays the same.
LEMMA TokenFrame ==
  ASSUME NEW c \in Callers, told'[c] = told[c], scope'[c] = scope[c], shown'[c] = shown[c]
  PROVE  TokenMatches(c)' <=> TokenMatches(c)
BY DEF TokenMatches, Token

\* The commands keep their invariant.
LEMMA CommandStep ==
  ASSUME IInv, NEW c \in Callers, Command(c), LockTypeOK'
  PROVE  TypeOK' /\ PreviewInv'
<1>0. at \in [Callers -> Places] /\ LockInv
  BY DEF IInv, LockInv, LockTypeOK
<1> USE <1>0, LockAssumption, PreviewAssumption DEF IInv, TypeOK, PreviewInv, Steps, Scopes,
        Become, Active, Forget, Move
<1>1. ASSUME NEW s \in Scopes, NEW token \in {NoToken, issued}, Begin(c, s, token)
      PROVE  TypeOK' /\ PreviewInv'
  <2>1. /\ told' \in [Callers -> Tokens \cup {NoToken}]
        /\ scope' \in [Callers -> {"remove", "images", "reset"}]
        /\ UNCHANGED <<objs, owned, images, shown, issued>>
    BY <1>1 DEF Begin, labVars
  <2>2. /\ step' = [step EXCEPT ![c] = "preview"] /\ at' = [at EXCEPT ![c] = "call"]
        /\ \A d \in Callers \ {c} : told'[d] = told[d] /\ scope'[d] = scope[d]
    BY <1>1 DEF Begin, Call
  <2>3. TypeOK'
    BY <2>1, <2>2
  <2>4. PreviewInv'
    BY <2>1, <2>2, TokenFrame
  <2> QED
    BY <2>3, <2>4
<1>2. CASE Preview(c)
  <2>1. /\ shown' = [shown EXCEPT ![c] = objs]
        /\ step' = [step EXCEPT ![c] = "ask"] /\ at' = [at EXCEPT ![c] = "left"]
        /\ UNCHANGED <<objs, owned, images, scope, told, issued>>
    BY <1>2 DEF Preview, Leave, labVars
  <2>2. TypeOK'
    BY <2>1
  <2>3. PreviewInv'
    BY <2>1, TokenFrame
  <2> QED
    BY <2>2, <2>3
<1>3. CASE PrintToken(c) \/ Decline(c)
  BY <1>3, TokenFrame, SMTT(20) DEF PrintToken, Decline, Token, Tokens, lockVars, labVars
<1>4. CASE Confirm(c)
  BY <1>4, TokenFrame, SMTT(20) DEF Confirm, Call, labVars
<1>5. CASE Apply(c)
  BY <1>5, TokenFrame, SMTT(20) DEF Apply, FingerprintMatches, lockVars, labVars
<1>6. CASE RemoveNext(c)
  BY <1>6, TokenFrame, SMTT(20) DEF RemoveNext, lockVars, commandVars
<1>7. CASE RemoveDone(c)
  BY <1>7, TokenFrame, SMTT(20) DEF RemoveDone, lockVars, End, Leave, StartOver
<1>8. CASE RemoveImages(c)
  <2>1. /\ images' = FALSE /\ at' = [at EXCEPT ![c] = "left"]
        /\ UNCHANGED <<objs, owned, issued>>
        /\ Forget({c})
    BY <1>8 DEF RemoveImages, End, Leave
  <2>2. TypeOK'
    BY <2>1
  <2>3. PreviewInv'
    BY <2>1, TokenFrame
  <2> QED
    BY <2>2, <2>3
<1>9. CASE BeginOther(c) \/ Nest(c) \/ Unnest(c)
  BY <1>9, TokenFrame, SMTT(20) DEF BeginOther, Nest, Unnest, Call, TakeThread, LeaveNested,
     labVars, commandVars
<1>10. ASSUME NEW r \in Runs, StartRun(c, r) \/ OtherForget(c, r)
       PROVE  TypeOK' /\ PreviewInv'
  <2>1. /\ at[c] = "in" /\ step[c] = "other"
        /\ owned' \subseteq Runs /\ images' \in BOOLEAN
        /\ UNCHANGED <<lockVars, commandVars, objs, issued>>
    BY <1>10 DEF StartRun, OtherForget
  <2>2. TypeOK'
    BY <2>1 DEF lockVars, commandVars
  <2>3. PreviewInv'
    BY <2>1, Alone, TokenFrame DEF lockVars, commandVars
  <2> QED
    BY <2>2, <2>3
<1>11. ASSUME NEW o \in Objects, CreateObject(c, o) \/ OtherRemove(c, o)
       PROVE  TypeOK' /\ PreviewInv'
  BY <1>11, Alone, TokenFrame, SMTT(20) DEF CreateObject, OtherRemove, lockVars, commandVars
<1>12. CASE Wait(c)
  <2>1. /\ UNCHANGED <<labVars, commandVars, issued>>
        /\ \/ UNCHANGED at
           \/ /\ at[c] \in {"call", "poll"}
              /\ \E place \in {"poll", "in"} : at' = [at EXCEPT ![c] = place]
           \/ at[c] = "left" /\ at' = [at EXCEPT ![c] = "out"]
    BY <1>12 DEF Wait, TakeThread, TakeFile, DeadlinePasses, ReleaseThread
  <2>2. PreviewInv'
    BY <2>1, TokenFrame DEF labVars, commandVars
  <2>3. TypeOK'
    BY <2>1 DEF labVars, commandVars
  <2> QED
    BY <2>2, <2>3
<1>13. CASE Refused(c)
  BY <1>13, TokenFrame, SMTT(20) DEF Refused, GiveUp, labVars
<1>14. CASE Fail(c)
  BY <1>14, TokenFrame, SMTT(20) DEF Fail, End, Leave, labVars
<1> QED
  BY <1>1, <1>2, <1>3, <1>4, <1>5, <1>6, <1>7, <1>8, <1>9, <1>10, <1>11, <1>12,
     <1>13, <1>14 DEF Command

\* So does everybody else.
LEMMA OthersStep ==
  ASSUME IInv, LockTypeOK',
         \/ \E r \in Runtimes : Killed(r)
         \/ \E o \in Objects : Foreign(o) \/ Vanish(o)
         \/ UNCHANGED vars
  PROVE  TypeOK' /\ PreviewInv'
<1>0. at \in [Callers -> Places]
  BY DEF IInv, LockInv, LockTypeOK
<1> USE <1>0, LockAssumption, PreviewAssumption DEF IInv, TypeOK, PreviewInv, Steps, Scopes,
        Forget
<1>1. ASSUME NEW r \in Runtimes, Killed(r) PROVE TypeOK' /\ PreviewInv'
  BY <1>1, TokenFrame, SMTT(20) DEF Killed, Crash, labVars
<1>2. ASSUME NEW o \in Objects, Foreign(o) \/ Vanish(o) PROVE TypeOK' /\ PreviewInv'
  BY <1>2, TokenFrame, SMTT(20) DEF Foreign, Vanish, lockVars, commandVars
<1>3. CASE UNCHANGED vars
  BY <1>3, TokenFrame, SMTT(20) DEF vars, lockVars, labVars, commandVars
<1> QED
  BY <1>1, <1>2, <1>3

\* Whatever commands do, and however they die, all of it is a use of the lock.
THEOREM UsesLock == Spec => LockSpec
<1>1. Init => LockInit
  BY DEF Init
<1>2. [Next]_vars => [LockNext]_lockVars
  BY LockSimulation DEF vars, lockVars
<1> QED
  BY <1>1, <1>2, PTL DEF Spec, LockSpec

\* The three parts hold in every reachable state.
THEOREM Invariance == Spec => []IInv
<1>1. IInv /\ [Next]_vars => IInv'
  <2> SUFFICES ASSUME IInv, [Next]_vars PROVE IInv'
    OBVIOUS
  <2>1. LockInv'
    BY LockSimulation, LockStep DEF IInv, vars, lockVars
  <2> QED
    BY <2>1, CommandStep, OthersStep DEF IInv, LockInv, Next
<1> QED
  BY Initially, <1>1, PTL DEF Spec

\* Types hold, and no caller is inside without a command to run.
THEOREM TypeCorrect == Spec => []TypeOK
<1>1. IInv => TypeOK
  BY DEF IInv
<1> QED
  BY Invariance, <1>1, PTL

\* With everything the commands do on top, still one operation at a time.
THEOREM OneAtATime == Spec => []MutualExclusion
<1>1. IInv => MutualExclusion
  BY Exclusion DEF IInv
<1> QED
  BY Invariance, <1>1, PTL

\* What a destructive command removes was in the preview that was accepted.
THEOREM ReviewedOnly == Spec => OnlyReviewedGoes
<1>1. ASSUME IInv, NEW c \in Callers, RemoveNext(c)
      PROVE  objs \ objs' \subseteq Reviewed(c)
  <2>1. PICK o \in objs : o[1] \in owned /\ objs' = objs \ {o}
    BY <1>1 DEF RemoveNext
  <2>2. o \in shown[c] /\ TokenMatches(c)
    BY <1>1, <2>1 DEF IInv, PreviewInv, RemoveNext, Active
  <2>3. told[c] = NoToken \/ (told[c].scope = scope[c] /\ told[c].shown = shown[c])
    BY <2>2 DEF TokenMatches, Token
  <2>4. Reviewed(c) = shown[c]
    BY <2>3 DEF Reviewed
  <2> QED
    BY <2>1, <2>2, <2>4
<1>2. IInv /\ [Next]_vars => ReviewedStep \/ UNCHANGED vars
  BY <1>1 DEF ReviewedStep
<1> QED
  BY Invariance, <1>2, PTL DEF Spec, OnlyReviewedGoes

\* A command that is refused was kept out by one that is running.
THEOREM RefusedFairly == Spec => RefusedByOperation
<1>1. IInv /\ [Next]_vars => RefusedStep \/ UNCHANGED lockVars
  BY LockSimulation, Refusal DEF IInv, vars
<1> QED
  BY Invariance, <1>1, PTL DEF Spec, RefusedByOperation

\* The reviewed images go only with a purge of them, confirmed or by its token.
THEOREM ImagesReviewed == Spec => OnlyReviewedImagesGo
<1>1. ASSUME IInv, NEW c \in Callers, RemoveImages(c) PROVE ReviewedImages
  <2>1. step[c] = "images" /\ at[c] = "in"
    BY <1>1 DEF RemoveImages, Active
  <2>2. scope[c] = "images" /\ TokenMatches(c)
    BY <1>1, <2>1 DEF IInv, PreviewInv
  <2> QED
    BY <2>1, <2>2 DEF ReviewedImages, TokenMatches, Token
<1>2. ASSUME IInv, Next, \A c \in Callers : ~RemoveImages(c) PROVE ReviewedImages
  <2>1. ASSUME NEW c \in Callers, Command(c) PROVE images' \in {images, TRUE}
    BY <1>2, <2>1 DEF Command, Begin, Preview, PrintToken, Confirm, Decline, Apply,
       RemoveNext, RemoveDone, BeginOther, Nest, Unnest, StartRun, OtherForget,
       CreateObject, OtherRemove, Wait, Refused, Fail, labVars
  <2>2. ASSUME NEW r \in Runtimes, Killed(r) PROVE images' = images
    BY <2>2 DEF Killed, labVars
  <2>3. ASSUME NEW o \in Objects, Foreign(o) \/ Vanish(o) PROVE images' = images
    BY <2>3 DEF Foreign, Vanish
  <2> QED
    BY <1>2, <2>1, <2>2, <2>3 DEF Next, ReviewedImages
<1>3. IInv /\ [Next]_vars => ReviewedImages \/ UNCHANGED vars
  BY <1>1, <1>2
<1> QED
  BY Invariance, <1>3, PTL DEF Spec, OnlyReviewedImagesGo
=================================================================================
