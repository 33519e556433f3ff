-------------------------- MODULE SubprocessRun_proofs --------------------------
(***************************************************************************)
(* Proofs about SubprocessRun, for any limit and any amount of output: the *)
(* captured output stays bounded and is whole in every result, success is  *)
(* the daemon's, and who may be left of the group when the try is over.    *)
(***************************************************************************)
EXTENDS SubprocessRun, TLAPS

\* Nothing is read twice or lost, and the limit ends the reading.
CaptureInv ==
    /\ written = captured + unread
    /\ pc \in {"idle", "setup", "head", "select", "forced", "wait"} => captured <= MaxOutput
    /\ pc \in {"wait", "returned", "failed"} => unread = 0 /\ holders = {}

\* The child has an exit code when it is gone, and zero comes from the daemon.
CodeInv ==
    /\ pc = "idle" => alive = {} /\ code = "none"
    /\ pc \notin {"idle", "aborted"} /\ "child" \notin alive => code \in Codes
    /\ "zero" \in {code, result} => request = "done"

\* Whoever has been sent a SIGKILL starts nobody, and neither does a child
\* that has been waited for.
KillInv ==
    /\ pc \in {"reap", "raised"} => alive \subseteq doomed
    /\ pc \in {"returned", "failed"} => "child" \notin alive

IInv == TypeOK /\ CaptureInv /\ CodeInv /\ KillInv

-----------------------------------------------------------------------------

LEMMA Initially == Init => IInv
<1> SUFFICES ASSUME Init PROVE IInv
  OBVIOUS
<1>1. TypeOK
  <2>1. 0 \in 0..MaxWritten /\ 0 \in 0..0 /\ 0 \in 0..(MaxOutput + 1)
    BY OutputAssumption
  <2>2. deaf \subseteq Members
    BY DEF Init
  <2> QED
    BY <2>1, <2>2 DEF Init, TypeOK, Ends
<1>2. CaptureInv /\ CodeInv /\ KillInv
  BY OutputAssumption DEF Init, CaptureInv, CodeInv, KillInv, Codes
<1> QED
  BY <1>1, <1>2 DEF IInv

\* What the command, its plug-in and the daemon do.
LEMMA CommandStep ==
  ASSUME IInv,
         \/ Fork \/ Ask \/ Serve
         \/ \E m \in Members : Put(m) \/ Close(m) \/ Exit(m) \/ Die(m)
  PROVE  IInv'
<1> USE OutputAssumption DEF IInv, TypeOK, CaptureInv, CodeInv, KillInv, Members, Codes, Ends,
        runner, members, signals
<1>1. CASE Fork
  BY <1>1 DEF Fork, Dying
<1>2. CASE Ask
  BY <1>2 DEF Ask
<1>3. CASE Serve
  BY <1>3 DEF Serve
<1>4. ASSUME NEW m \in Members, Put(m) PROVE IInv'
  BY <1>4 DEF Put
<1>5. ASSUME NEW m \in Members, Close(m) PROVE IInv'
  BY <1>5 DEF Close
<1>6. ASSUME NEW m \in Members, NEW c \in Codes, Gone(m, c), m \in alive,
             c = "zero" => request = "done"
      PROVE  IInv'
  BY <1>6 DEF Gone
<1>7. ASSUME NEW m \in Members, Exit(m) PROVE IInv'
  BY <1>6, <1>7 DEF Exit
<1>8. ASSUME NEW m \in Members, Die(m) PROVE IInv'
  BY <1>6, <1>8 DEF Die
<1> QED
  BY <1>1, <1>2, <1>3, <1>4, <1>5, <1>7, <1>8

\* What run does before it has to terminate anybody.
LEMMA LoopStep ==
  ASSUME IInv, Popen \/ Unavailable \/ SetUpFails \/ Loop \/ Interrupt \/ Expire
  PROVE  IInv'
<1> USE OutputAssumption DEF IInv, TypeOK, CaptureInv, CodeInv, KillInv, Members, Codes, Ends,
        members, signals, Goto, Abort, Leave, Return
<1>1. CASE Popen
  BY <1>1 DEF Popen
<1>2. CASE Unavailable
  BY <1>2 DEF Unavailable
<1>3. CASE Head
  BY <1>3 DEF Head
<1>4. CASE Read
  BY <1>4 DEF Read
<1>5. CASE EndOfFile
  BY <1>5 DEF EndOfFile
<1>6. CASE SelectEmpty
  BY <1>6 DEF SelectEmpty
<1>7. CASE ReadBlocks
  BY <1>7 DEF ReadBlocks
<1>8. CASE Wait
  BY <1>8 DEF Wait
<1>9. CASE WaitTooLong
  BY <1>9 DEF WaitTooLong
<1>10. CASE Expire
  BY <1>10 DEF Expire
<1>11. CASE SetUp
  BY <1>11 DEF SetUp
<1>12. CASE SetUpFails
  BY <1>12 DEF SetUpFails
<1>13. CASE Interrupt
  BY <1>13 DEF Interrupt
<1> HIDE DEF IInv
<1> QED
  BY <1>1, <1>2, <1>3, <1>4, <1>5, <1>6, <1>7, <1>8, <1>9, <1>10, <1>11,
     <1>12, <1>13 DEF Loop

\* _terminate.
LEMMA StopStep ==
  ASSUME IInv, Stop \/ TerminateInterrupted
  PROVE  IInv'
<1> USE OutputAssumption DEF IInv, TypeOK, CaptureInv, CodeInv, KillInv, Members, Codes, Ends,
        members, signals, Goto, Abort, Leave, Return
<1>1. CASE Terminate
  BY <1>1 DEF Terminate
<1>2. CASE Grace
  BY <1>2 DEF Grace
<1>3. CASE Kill
  BY <1>3 DEF Kill, GroupExists
<1>4. CASE Reap
  BY <1>4 DEF Reap
<1>5. CASE TerminateInterrupted
  BY <1>5 DEF TerminateInterrupted
<1> QED
  BY <1>1, <1>2, <1>3, <1>4, <1>5 DEF Stop

\* All of it holds in every reachable state.
THEOREM Invariance == Spec => []IInv
<1>1. IInv /\ [Next]_vars => IInv'
  <2> SUFFICES ASSUME IInv, [Next]_vars PROVE IInv'
    OBVIOUS
  <2>1. CASE UNCHANGED vars
    BY <2>1 DEF IInv, TypeOK, CaptureInv, CodeInv, KillInv, vars, runner, members, signals
  <2> QED
    BY <2>1, CommandStep, LoopStep, StopStep DEF Next
<1> QED
  BY Initially, <1>1, PTL DEF Spec

\* The types, and that no more is captured than the limit and the one read
\* that goes over it, whatever is written.
THEOREM TypeCorrect == Spec => []TypeOK
<1>1. IInv => TypeOK
  BY DEF IInv
<1> QED
  BY Invariance, <1>1, PTL

\* A result, returned or in a CommandError, has the whole output, whatever the child and its plug-in write
\* and whenever they close it.
THEOREM WholeOutput == Spec => []OutputWhole
<1>1. IInv => OutputWhole
  BY DEF IInv, TypeOK, CaptureInv, OutputWhole
<1> QED
  BY Invariance, <1>1, PTL

\* Success is only reported when the daemon has done what it was asked.
THEOREM SuccessIsDone == Spec => []ReturnMeansDone
<1>1. IInv => ReturnMeansDone
  BY DEF IInv, CodeInv, ReturnMeansDone
<1> QED
  BY Invariance, <1>1, PTL

\* Once the try is over: after an exception in it nobody is left who is not
\* about to die; after a result or a CommandError, which terminate nobody, at
\* most a plug-in that has closed its output.
THEOREM NobodyLeft == Spec => []NoSurvivors
<1>1. IInv => NoSurvivors
  BY DEF IInv, TypeOK, CaptureInv, KillInv, NoSurvivors, Members
<1> QED
  BY Invariance, <1>1, PTL
=================================================================================
