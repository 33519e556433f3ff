----------------------------- MODULE LifecycleLock -----------------------------
(***************************************************************************)
(* The lock around every operation of the runtime: Runtime._lifecycle and  *)
(* StateStore.lifecycle_lock.  A re-entrant thread lock guards one Runtime *)
(* object; behind it a file lock, taken without blocking and retried until *)
(* a deadline, keeps out every other Runtime, of this process or another.  *)
(* Nested calls count a depth and do not touch the file lock again.        *)
(***************************************************************************)
EXTENDS Integers, FiniteSets

CONSTANTS
    Runtimes, \* Runtime objects, one per process on the command line
    Callers,  \* threads that call them
    Owner,    \* the Runtime each thread calls
    MaxDepth, \* bound: how deep calls nest
    Nobody

ASSUME LockAssumption ==
    /\ Owner \in [Callers -> Runtimes]
    /\ MaxDepth \in Nat \ {0}
    /\ Nobody \notin Runtimes \cup Callers

VARIABLES
    at,     \* where each caller stands
    late,   \* whether its deadline has passed
    thread, \* who holds the thread lock of each Runtime
    depth,  \* _lock_depth of each Runtime
    flock   \* the Runtime whose descriptor holds the file lock

lockVars == <<at, late, thread, depth, flock>>

Places == {"out", "call", "poll", "in", "left"}

Mine(c) == thread[Owner[c]] = c

Move(c, place) == at' = [at EXCEPT ![c] = place]

-----------------------------------------------------------------------------

Call(c) ==
    /\ at[c] = "out"
    /\ Move(c, "call")
    /\ UNCHANGED <<late, thread, depth, flock>>

\* with self._thread_lock, and the test of the depth right after it: by a new
\* call, or by one from inside another operation.
TakeThread(c) ==
    /\ at[c] \in {"call", "in"}
    /\ depth[Owner[c]] < MaxDepth
    /\ thread[Owner[c]] \in {Nobody, c}
    /\ thread' = [thread EXCEPT ![Owner[c]] = c]
    /\ IF depth[Owner[c]] > 0
       THEN /\ depth' = [depth EXCEPT ![Owner[c]] = @ + 1]
            /\ Move(c, "in")
       ELSE /\ depth' = depth
            /\ Move(c, "poll")
    /\ UNCHANGED <<late, flock>>

\* flock(LOCK_EX | LOCK_NB) gets the lock.
TakeFile(c) ==
    /\ at[c] = "poll"
    /\ flock = Nobody
    /\ flock' = Owner[c]
    /\ depth' = [depth EXCEPT ![Owner[c]] = 1]
    /\ late' = [late EXCEPT ![c] = FALSE]
    /\ Move(c, "in")
    /\ UNCHANGED thread

\* Mutant: every try sets the deadline again.
DeadlineMoves(c) ==
    /\ at[c] = "poll"
    /\ ~late[c]
    /\ UNCHANGED lockVars

DeadlinePasses(c) ==
    /\ at[c] = "poll"
    /\ ~late[c]
    /\ late' = [late EXCEPT ![c] = TRUE]
    /\ UNCHANGED <<at, thread, depth, flock>>

\* Held by another at a try after the deadline.  Before the deadline the
\* caller sleeps and tries again, which changes nothing.
GiveUp(c) ==
    /\ at[c] = "poll"
    /\ flock # Nobody
    /\ late[c]
    /\ late' = [late EXCEPT ![c] = FALSE]
    /\ Move(c, "left")
    /\ UNCHANGED <<thread, depth, flock>>

\* The nested call returns.
LeaveNested(c) ==
    /\ at[c] = "in"
    /\ depth[Owner[c]] > 1
    /\ depth' = [depth EXCEPT ![Owner[c]] = @ - 1]
    /\ UNCHANGED <<at, late, thread, flock>>

\* Mutant: an exception leaves the depth as it was.
LeaveKeepsDepth(c) ==
    /\ at[c] = "in"
    /\ depth[Owner[c]] = 1
    /\ flock' = Nobody
    /\ Move(c, "left")
    /\ UNCHANGED <<late, thread, depth>>

\* The outermost one does, or raises.
Leave(c) ==
    /\ at[c] = "in"
    /\ depth[Owner[c]] = 1
    /\ depth' = [depth EXCEPT ![Owner[c]] = 0]
    /\ flock' = Nobody
    /\ Move(c, "left")
    /\ UNCHANGED <<late, thread>>

\* The thread lock goes last.
ReleaseThread(c) ==
    /\ at[c] = "left"
    /\ thread' = [thread EXCEPT ![Owner[c]] = Nobody]
    /\ Move(c, "out")
    /\ UNCHANGED <<late, depth, flock>>

\* Mutant: the lock is a file that exists, which outlives the process.
CrashKeepsFile(r) ==
    /\ at' = [c \in Callers |-> IF Owner[c] = r THEN "out" ELSE at[c]]
    /\ thread' = [thread EXCEPT ![r] = Nobody]
    /\ depth' = [depth EXCEPT ![r] = 0]
    /\ late' = [c \in Callers |-> Owner[c] # r /\ late[c]]
    /\ UNCHANGED flock

\* The process dies; the kernel closes its descriptor.
Crash(r) ==
    /\ at' = [c \in Callers |-> IF Owner[c] = r THEN "out" ELSE at[c]]
    /\ thread' = [thread EXCEPT ![r] = Nobody]
    /\ depth' = [depth EXCEPT ![r] = 0]
    /\ flock' = IF flock = r THEN Nobody ELSE flock
    /\ late' = [c \in Callers |-> Owner[c] # r /\ late[c]]

-----------------------------------------------------------------------------

LockInit ==
    /\ at = [c \in Callers |-> "out"]
    /\ late = [c \in Callers |-> FALSE]
    /\ thread = [r \in Runtimes |-> Nobody]
    /\ depth = [r \in Runtimes |-> 0]
    /\ flock = Nobody

Try(c) == TakeFile(c) \/ GiveUp(c)

LockNext ==
    \/ \E c \in Callers :
          \/ Call(c) \/ TakeThread(c) \/ Try(c) \/ DeadlinePasses(c)
          \/ LeaveNested(c) \/ Leave(c) \/ ReleaseThread(c)
    \/ \E r \in Runtimes : Crash(r)

LockSpec == LockInit /\ [][LockNext]_lockVars

-----------------------------------------------------------------------------
(* Properties.                                                             *)

LockTypeOK ==
    /\ at \in [Callers -> Places]
    /\ late \in [Callers -> BOOLEAN]
    /\ thread \in [Runtimes -> Callers \cup {Nobody}]
    /\ depth \in [Runtimes -> 0..MaxDepth]
    /\ flock \in Runtimes \cup {Nobody}

\* One lifecycle operation at a time, over all threads and processes.
MutualExclusion ==
    \A c, d \in Callers : at[c] = "in" /\ at[d] = "in" => c = d

\* Why: who is inside holds both locks, and a depth is nobody's but theirs, and
\* so is the file lock.
LockInv ==
    /\ LockTypeOK
    /\ \A c \in Callers : at[c] \in {"poll", "in", "left"} => Mine(c)
    /\ \A c \in Callers :
          at[c] = "in" => flock = Owner[c] /\ depth[Owner[c]] > 0
    /\ \A r \in Runtimes :
          depth[r] > 0 =>
              \E c \in Callers : Owner[c] = r /\ thread[r] = c /\ at[c] = "in"
    /\ flock # Nobody => depth[flock] > 0

RefusedStep ==
    \A c \in Callers :
        at[c] = "poll" /\ at'[c] = "left" => \E d \in Callers : at[d] = "in"

\* A caller that is refused was kept out by an operation that is running, and
\* never by one that has ended or died.
RefusedByOperation == [][RefusedStep]_lockVars

\* Nobody waits for the file lock for ever.
PollingEnds == \A c \in Callers : at[c] = "poll" ~> at[c] # "poll"
=============================================================================
