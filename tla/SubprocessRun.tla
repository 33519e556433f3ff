----------------------------- MODULE SubprocessRun -----------------------------
(***************************************************************************)
(* Runner.run (process.py) for one call of the docker command (Docker._run *)
(* in docker.py): the command, in a process group of its own, asks the     *)
(* daemon for something and waits for the answer, and a plug-in it starts  *)
(* inherits its output; the runner reads that output until everyone has    *)
(* closed it or a deadline or a limit ends it.  What the daemon has been   *)
(* asked for it does, whether the command still lives or not.              *)
(*                                                                         *)
(* run has four ends: "returned", a result; "failed", the CommandError of  *)
(* a checked call, which brings the result along; "raised", an exception   *)
(* in the try once _terminate is through; "aborted", one outside the try   *)
(* or in _terminate itself.                                                *)
(*                                                                         *)
(* External: the command, its plug-in and the daemon.  The two pipes are   *)
(* one, and their content is counted in reads, of up to 65,536 bytes each. *)
(***************************************************************************)
EXTENDS Naturals

CONSTANTS
    MaxOutput, \* max_output_bytes, in reads
    MaxWritten \* how much the group may write

ASSUME OutputAssumption == MaxOutput \in Nat \ {0} /\ MaxWritten \in Nat

VARIABLES
    pc,       \* where run is
    result,   \* what its caller gets: the exit code, or an exception
    alive,    \* the members of the group that run
    forked,   \* the plug-in was started
    code,     \* the exit code of the child
    reaped,   \* the runner has waited for it
    deaf,     \* the members that ignore SIGTERM
    termed,   \* those that were sent one
    doomed,   \* those that were sent a SIGKILL
    holders,  \* those that have the output open
    unread,   \* what is in the pipe
    written,  \* what the group has written in all
    captured, \* what the runner has read
    late,     \* the deadline in force has passed
    request   \* what has become of the request to the daemon

members == <<alive, forked, code, holders>>
signals == <<termed, doomed>>
runner  == <<pc, result, reaped, captured, late>>
vars    == <<runner, members, signals, deaf, unread, written, request>>

Members == {"child", "plugin"}
Codes   == {"zero", "nonzero"}
Ends    == {"returned", "failed", "raised", "aborted"}

\* A signalled member runs no further step of its own.
Dying == doomed \cup (termed \ deaf)

\* killpg(group, 0): a child that was not waited for still counts.
GroupExists == alive # {} \/ ~reaped

Init ==
    /\ pc = "idle" /\ result = "none"
    /\ alive = {} /\ forked = FALSE /\ code = "none" /\ reaped = TRUE
    /\ deaf \in SUBSET Members
    /\ termed = {} /\ doomed = {}
    /\ holders = {}
    /\ unread = 0 /\ written = 0 /\ captured = 0
    /\ late = FALSE
    /\ request = "none"

-----------------------------------------------------------------------------
(* The command and the daemon.                                             *)

Fork ==
    /\ "child" \in alive \ Dying
    /\ ~forked
    /\ forked' = TRUE
    /\ alive' = alive \cup {"plugin"}
    /\ holders' = IF "child" \in holders THEN holders \cup {"plugin"} ELSE holders
    /\ UNCHANGED <<runner, code, signals, deaf, unread, written, request>>

Put(m) ==
    /\ m \in holders \ Dying
    /\ written < MaxWritten
    /\ written' = written + 1
    /\ unread' = unread + 1
    /\ UNCHANGED <<runner, members, signals, deaf, request>>

Close(m) ==
    /\ m \in holders \ Dying
    /\ holders' = holders \ {m}
    /\ UNCHANGED <<runner, alive, forked, code, signals, deaf, unread, written, request>>

Ask ==
    /\ "child" \in alive \ Dying
    /\ request = "none"
    /\ request' = "asked"
    /\ UNCHANGED <<runner, members, signals, deaf, unread, written>>

Serve ==
    /\ request = "asked"
    /\ request' \in {"done", "refused"}
    /\ UNCHANGED <<runner, members, signals, deaf, unread, written>>

Gone(m, c) ==
    /\ alive' = alive \ {m}
    /\ holders' = holders \ {m}
    /\ code' = IF m = "child" THEN c ELSE code
    /\ UNCHANGED <<runner, forked, signals, deaf, unread, written, request>>

\* The command succeeds when the daemon has told it so.
Exit(m) ==
    /\ m \in alive \ Dying
    /\ \E c \in Codes : (c = "zero" => request = "done") /\ Gone(m, c)

Die(m) ==
    /\ m \in alive \cap Dying
    /\ Gone(m, "nonzero")

-----------------------------------------------------------------------------
(* run.                                                                    *)

Popen ==
    /\ pc = "idle"
    /\ pc' = "setup"
    /\ alive' = {"child"}
    /\ holders' = {"child"}
    /\ reaped' = FALSE
    /\ UNCHANGED <<result, captured, late, forked, code, signals, deaf, unread, written, request>>

\* An exception that nothing in run answers.
Abort ==
    /\ pc' = "aborted"
    /\ result' = "error"
    /\ UNCHANGED <<reaped, captured, late, members, signals, deaf, unread, written, request>>

\* There is no such executable.
Unavailable == pc = "idle" /\ Abort

Goto(step) ==
    /\ pc' = step
    /\ UNCHANGED <<result, late, members, signals, deaf, written, request>>

\* The selector, non-blocking pipes, the deadline.
SetUp ==
    /\ pc = "setup"
    /\ Goto("head")
    /\ UNCHANGED <<reaped, captured, unread>>

\* The child exists, and the try has not begun.
SetUpFails == pc = "setup" /\ Abort

\* Mutant: only wait looks at the deadline.
HeadNoDeadline ==
    /\ pc = "head"
    /\ Goto("select")
    /\ UNCHANGED <<reaped, captured, unread>>

\* The head of the loop looks at the deadline.
Head ==
    /\ pc = "head"
    /\ Goto(IF late THEN "terminate" ELSE "select")
    /\ UNCHANGED <<reaped, captured, unread>>

\* Mutant: without the limit.
ReadAll ==
    /\ pc \in {"select", "forced"}
    /\ unread > 0
    /\ unread' = unread - 1
    /\ captured' = captured + 1
    /\ Goto("head")
    /\ UNCHANGED reaped

Read ==
    /\ pc \in {"select", "forced"}
    /\ unread > 0
    /\ unread' = unread - 1
    /\ captured' = captured + 1
    /\ Goto(IF captured' > MaxOutput THEN "terminate" ELSE "head")
    /\ UNCHANGED reaped

EndOfFile ==
    /\ pc \in {"select", "forced"}
    /\ unread = 0
    /\ holders = {}
    /\ Goto("wait")
    /\ UNCHANGED <<reaped, captured, unread>>

\* Mutant: a child that has exited has no more to say.
SelectEmptyEnds ==
    /\ pc = "select"
    /\ unread = 0
    /\ holders # {}
    /\ reaped' = (reaped \/ "child" \notin alive)
    /\ Goto(IF "child" \in alive THEN "head" ELSE "wait")
    /\ UNCHANGED <<captured, unread>>

\* select finds nothing for a tenth of a second; poll waits for a child that
\* has exited, and then the pipes are read all the same.
SelectEmpty ==
    /\ pc = "select"
    /\ unread = 0
    /\ holders # {}
    /\ reaped' = (reaped \/ "child" \notin alive)
    /\ Goto(IF "child" \in alive THEN "head" ELSE "forced")
    /\ UNCHANGED <<captured, unread>>

\* A plug-in still has them open: BlockingIOError.
ReadBlocks ==
    /\ pc = "forced"
    /\ unread = 0
    /\ holders # {}
    /\ Goto("terminate")
    /\ UNCHANGED <<reaped, captured, unread>>

\* The end of the try, with the finally.
Leave(end, value) ==
    /\ pc' = end
    /\ result' = value
    /\ late' = FALSE
    /\ UNCHANGED <<captured, members, signals, deaf, unread, written, request>>

\* Behind the try: a nonzero code of a checked call is a CommandError, and
\* nobody is terminated for it.
Return(value) ==
    \E check \in BOOLEAN :
        Leave(IF check /\ value # "zero" THEN "failed" ELSE "returned", value)

\* Mutant: whoever has closed its output is done.
WaitNot ==
    /\ pc = "wait"
    /\ Return(IF code = "none" THEN "zero" ELSE code)
    /\ reaped' = ("child" \notin alive)

\* wait(): the exit code, or terminate.
Wait ==
    /\ pc = "wait"
    /\ "child" \notin alive
    /\ reaped' = TRUE
    /\ Return(code)

WaitTooLong ==
    /\ pc = "wait"
    /\ "child" \in alive
    /\ late
    /\ Goto("terminate")
    /\ UNCHANGED <<reaped, captured, unread>>

\* KeyboardInterrupt, or whatever else is raised in the try.
Interrupt ==
    /\ pc \in {"head", "select", "forced", "wait"}
    /\ Goto("terminate")
    /\ UNCHANGED <<reaped, captured, unread>>

-----------------------------------------------------------------------------
(* _terminate.                                                             *)

Terminate ==
    /\ pc = "terminate"
    /\ pc' = "grace"
    /\ termed' = alive
    /\ late' = FALSE
    /\ UNCHANGED <<result, reaped, captured, members, doomed, deaf, unread, written, request>>

\* poll, then a look at the group, until it is gone or the grace is over.
Grace ==
    /\ pc = "grace"
    /\ reaped' = (reaped \/ (~late /\ "child" \notin alive))
    /\ Goto(IF late \/ (alive = {} /\ reaped') THEN "kill" ELSE "grace")
    /\ UNCHANGED <<captured, unread>>

\* Mutant: SIGKILL for a child that still runs.
KillIfChild ==
    /\ pc = "kill"
    /\ pc' = "reap"
    /\ doomed' = IF "child" \in alive THEN alive ELSE {}
    /\ late' = FALSE
    /\ UNCHANGED <<result, reaped, captured, members, termed, deaf, unread, written, request>>

\* SIGKILL for the group, if there is one.
Kill ==
    /\ pc = "kill"
    /\ pc' = "reap"
    /\ doomed' = IF GroupExists THEN alive ELSE {}
    /\ late' = FALSE
    /\ UNCHANGED <<result, reaped, captured, members, termed, deaf, unread, written, request>>

\* A wait that takes too long is given up too.
Reap ==
    /\ pc = "reap"
    /\ "child" \notin alive \/ late
    /\ reaped' = ("child" \notin alive)
    /\ Leave("raised", "error")

\* A second interrupt ends _terminate where it is.
TerminateInterrupted == pc \in {"terminate", "grace", "kill", "reap"} /\ Abort

Expire ==
    /\ pc \in {"head", "select", "forced", "wait", "grace", "reap"}
    /\ ~late
    /\ late' = TRUE
    /\ UNCHANGED <<pc, result, reaped, captured, members, signals, deaf, unread, written, request>>

-----------------------------------------------------------------------------

Loop == SetUp \/ Head \/ Read \/ EndOfFile \/ SelectEmpty \/ ReadBlocks \/ Wait \/ WaitTooLong
Stop == Terminate \/ Grace \/ Kill \/ Reap

Next ==
    \/ Popen \/ Unavailable \/ Loop \/ Stop \/ Expire
    \/ SetUpFails \/ Interrupt \/ TerminateInterrupted
    \/ Fork \/ Ask \/ Serve
    \/ \E m \in Members : Put(m) \/ Close(m) \/ Exit(m) \/ Die(m)

\* The command may hang for ever; the runner, its clock and signals do not.
Spec == /\ Init /\ [][Next]_vars
        /\ WF_vars(Loop \/ Stop) /\ WF_vars(Expire)
        /\ \A m \in Members : WF_vars(Die(m))

-----------------------------------------------------------------------------
(* Properties.                                                             *)

\* The types, and that no more is captured than the limit and the read that
\* goes over it.
TypeOK ==
    /\ pc \in {"idle", "setup", "head", "select", "forced", "wait", "terminate",
               "grace", "kill", "reap"} \cup Ends
    /\ result \in Codes \cup {"none", "error"}
    /\ holders \subseteq alive /\ alive \subseteq Members
    /\ forked \in BOOLEAN /\ reaped \in BOOLEAN /\ late \in BOOLEAN
    /\ code \in Codes \cup {"none"}
    /\ deaf \subseteq Members /\ termed \subseteq Members /\ doomed \subseteq Members
    /\ written \in 0..MaxWritten /\ unread \in 0..written
    /\ captured \in 0..(MaxOutput + 1)
    /\ request \in {"none", "asked", "done", "refused"}

\* Docker._run: after a call that returned success the daemon has nothing of
\* it left to do; what lands late is only what an exception left open.
ReturnMeansDone == result = "zero" => request = "done"

\* run: a result, the one in a CommandError too, has the whole output, also of
\* a child that exits before it is read and of a plug-in that outlives it.
OutputWhole == pc \in {"returned", "failed"} => captured = written /\ holders = {}

\* run and _terminate: an exception in the try leaves nobody of the group but
\* who is about to die of a SIGKILL, also if the leader has exited or ignores
\* SIGTERM.  A CommandError, like a result, comes without _terminate: the child
\* is gone, a plug-in that has closed its output may live on.  Nothing is said
\* of "aborted": there anybody may.
NoSurvivors ==
    /\ pc = "raised" => alive \subseteq doomed
    /\ pc \in {"returned", "failed"} => alive \subseteq {"plugin"} \ holders

\* run: it comes to one of its ends, whatever the command does.
RunReturns == pc = "setup" ~> pc \in Ends
=============================================================================
