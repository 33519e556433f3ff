--------------------------- MODULE DestructivePreview ---------------------------
(***************************************************************************)
(* reset, remove and purge ask before they destroy: the objects are listed *)
(* under the lifecycle lock, the user decides without it, and the command  *)
(* takes it again, compares a fingerprint of the list and goes ahead       *)
(* (cli.py, runtime.py).  A preview can also be printed with a token that  *)
(* a later command presents instead of asking.  In between, other          *)
(* commands change the laboratory, and Docker changes under all of them.   *)
(*                                                                         *)
(* What the other commands do in detail is RunLifecycle and                *)
(* UpdateTransaction; here they create and remove whatever the state file  *)
(* and the update journal own, in any order.                               *)
(***************************************************************************)
EXTENDS LifecycleLock

CONSTANTS
    Users,   \* the callers that run destructive commands, too
    Runs,    \* run identities (uuid4)
    Ids,     \* identities of containers and networks, names of volumes
    NoToken

VARIABLES
    objs,   \* managed objects of the laboratory
    owned,  \* runs that the state file and the update journal name
    images, \* the reviewed images are present
    step,   \* what each caller does
    scope,  \* which destructive command it is
    shown,  \* the objects its preview listed
    told,   \* the token it was given
    issued  \* the last token printed

labVars == <<objs, owned, images>>
commandVars == <<step, scope, shown, told>>
vars == <<lockVars, labVars, commandVars, issued>>

Objects == Runs \X Ids
Scopes  == {"remove", "images", "reset"}
Steps   == {"idle", "preview", "ask", "apply", "remove", "images", "other"}

\* _destructive_preview_token, which hashes all of it.
Token(c) == [scope |-> scope[c], shown |-> shown[c]]
Tokens   == [scope : Scopes, shown : SUBSET Objects]

ASSUME PreviewAssumption ==
    /\ Users \subseteq Callers
    /\ NoToken \notin Tokens

-----------------------------------------------------------------------------

Active(c, label) == at[c] = "in" /\ step[c] = label /\ depth[Owner[c]] = 1
Become(c, label) == step' = [step EXCEPT ![c] = label]

Forget(who) ==
    /\ step'  = [c \in Callers |-> IF c \in who THEN "idle" ELSE step[c]]
    /\ scope' = [c \in Callers |-> IF c \in who THEN "remove" ELSE scope[c]]
    /\ shown' = [c \in Callers |-> IF c \in who THEN {} ELSE shown[c]]
    /\ told'  = [c \in Callers |-> IF c \in who THEN NoToken ELSE told[c]]

\* The operation returns or raises, and with it the command ends.
End(c) == Leave(c) /\ Forget({c})

\* Objects that somebody has seen; no new run and no new object is among them.
Seen ==
    objs \cup UNION {shown[c] : c \in Callers}
         \cup (IF issued = NoToken THEN {} ELSE issued.shown)

Fresh(o) == \A p \in Seen : p[2] # o[2]

\* Every managed object has an owner: a record, or a deterministic name and
\* complete labels of a run that is recorded.
Known == \A o \in objs : o[1] \in owned

-----------------------------------------------------------------------------
(* The destructive command.                                                *)

Begin(c, s, token) ==
    /\ c \in Users
    /\ step[c] = "idle"
    /\ Call(c)
    /\ Become(c, "preview")
    /\ scope' = [scope EXCEPT ![c] = s]
    /\ told' = [told EXCEPT ![c] = token]
    /\ UNCHANGED <<labVars, shown, issued>>

\* cleanup_preview, the lock's release included; an object without an owner
\* ends the command (Fail).
Preview(c) ==
    /\ Active(c, "preview")
    /\ Known
    /\ shown' = [shown EXCEPT ![c] = objs]
    /\ Become(c, "ask")
    /\ Leave(c)
    /\ UNCHANGED <<labVars, scope, told, issued>>

\* Mutant: any token will do.
AnyToken(c) == TRUE

\* A token has to be for this command and this preview.
TokenMatches(c) == told[c] \in {NoToken, Token(c)}

\* Without --yes in JSON mode the preview and its token are all there is.
PrintToken(c) ==
    /\ step[c] = "ask" /\ at[c] = "out"
    /\ TokenMatches(c)
    /\ issued' = Token(c)
    /\ Forget({c})
    /\ UNCHANGED <<lockVars, labVars>>

\* The user, or --yes, says to go on.
Confirm(c) ==
    /\ step[c] = "ask"
    /\ TokenMatches(c)
    /\ Call(c)
    /\ Become(c, "apply")
    /\ UNCHANGED <<labVars, scope, shown, told, issued>>

\* The user refuses, or the token does not match.
Decline(c) ==
    /\ step[c] = "ask" /\ at[c] = "out"
    /\ Forget({c})
    /\ UNCHANGED <<lockVars, labVars, issued>>

\* Mutant: what is owned now is removed, whatever was shown.
OwnedMatches(c) == Known

\* _assert_cleanup_fingerprint.
FingerprintMatches(c) == Known /\ objs = shown[c]

Apply(c) ==
    /\ Active(c, "apply")
    /\ FingerprintMatches(c)
    /\ Become(c, "remove")
    /\ UNCHANGED <<lockVars, labVars, scope, shown, told, issued>>

\* Recovery of what was interrupted, then _cleanup: every owned object goes.
RemoveNext(c) ==
    /\ Active(c, "remove")
    /\ \E o \in objs : o[1] \in owned /\ objs' = objs \ {o}
    /\ UNCHANGED <<lockVars, owned, images, commandVars, issued>>

\* reset goes on with _up, which only creates, and undoes its own creations.
StartOver(c) ==
    /\ Become(c, "other")
    /\ scope' = [scope EXCEPT ![c] = "remove"]
    /\ shown' = [shown EXCEPT ![c] = {}]
    /\ told' = [told EXCEPT ![c] = NoToken]

RemoveDone(c) ==
    /\ Active(c, "remove")
    /\ objs = {}
    /\ owned' = {}
    /\ \/ scope[c] = "remove" /\ End(c)
       \/ /\ scope[c] = "images"
          /\ Become(c, "images")
          /\ UNCHANGED <<lockVars, scope, shown, told>>
       \/ scope[c] = "reset" /\ StartOver(c) /\ UNCHANGED lockVars
    /\ UNCHANGED <<objs, images, issued>>

RemoveImages(c) ==
    /\ Active(c, "images")
    /\ images' = FALSE
    /\ End(c)
    /\ UNCHANGED <<objs, owned, issued>>

-----------------------------------------------------------------------------
(* Any other command: up, rebuild, update and their recovery.              *)

BeginOther(c) ==
    /\ step[c] = "idle"
    /\ Call(c)
    /\ Become(c, "other")
    /\ UNCHANGED <<labVars, scope, shown, told, issued>>

\* A run is recorded before its first object; an update has two.
StartRun(c, r) ==
    /\ Active(c, "other")
    /\ Cardinality(owned) <= 1
    /\ \A o \in Seen : o[1] # r
    /\ owned' = owned \cup {r}
    /\ images' = TRUE
    /\ UNCHANGED <<lockVars, objs, commandVars, issued>>

\* The first objects of a run, or those with which a rebuild replaces them.
CreateObject(c, o) ==
    /\ Active(c, "other")
    /\ o[1] \in owned
    /\ Fresh(o)
    /\ objs' = objs \cup {o}
    /\ UNCHANGED <<lockVars, owned, images, commandVars, issued>>

OtherRemove(c, o) ==
    /\ Active(c, "other")
    /\ o \in objs /\ o[1] \in owned
    /\ objs' = objs \ {o}
    /\ UNCHANGED <<lockVars, owned, images, commandVars, issued>>

OtherForget(c, r) ==
    /\ Active(c, "other")
    /\ r \in owned
    /\ \A o \in objs : o[1] # r
    /\ owned' = owned \ {r}
    /\ UNCHANGED <<lockVars, objs, images, commandVars, issued>>

\* Operations may call each other; the depth says when to unlock.
Nest(c) ==
    /\ Active(c, "other")
    /\ TakeThread(c)
    /\ UNCHANGED <<labVars, commandVars, issued>>

Unnest(c) ==
    /\ LeaveNested(c)
    /\ UNCHANGED <<labVars, commandVars, issued>>

-----------------------------------------------------------------------------
(* Waiting, failing, and everybody else.                                   *)

Wait(c) ==
    /\ \/ at[c] = "call" /\ TakeThread(c)
       \/ TakeFile(c) \/ DeadlinePasses(c) \/ ReleaseThread(c)
    /\ UNCHANGED <<labVars, commandVars, issued>>

Refused(c) ==
    /\ GiveUp(c)
    /\ Forget({c})
    /\ UNCHANGED <<labVars, issued>>

\* The operation is complete, one of its checks fails or a call raises.
Fail(c) ==
    /\ End(c)
    /\ UNCHANGED <<labVars, issued>>

Killed(r) ==
    /\ \E c \in Callers : Owner[c] = r /\ step[c] # "idle"
    /\ Crash(r)
    /\ Forget({c \in Callers : Owner[c] = r})
    /\ UNCHANGED <<labVars, issued>>

\* Another installation, with other state files, uses the same daemon.
Foreign(o) ==
    /\ Known
    /\ o[1] \notin owned
    /\ Fresh(o)
    /\ objs' = objs \cup {o}
    /\ UNCHANGED <<lockVars, owned, images, commandVars, issued>>

Vanish(o) ==
    /\ o \in objs
    /\ objs' = objs \ {o}
    /\ UNCHANGED <<lockVars, owned, images, commandVars, issued>>

-----------------------------------------------------------------------------

Init ==
    /\ LockInit
    /\ objs = {}
    /\ owned = {}
    /\ images = FALSE
    /\ step = [c \in Callers |-> "idle"]
    /\ scope = [c \in Callers |-> "remove"]
    /\ shown = [c \in Callers |-> {}]
    /\ told = [c \in Callers |-> NoToken]
    /\ issued = NoToken

Command(c) ==
    \/ \E s \in Scopes, token \in {NoToken, issued} : Begin(c, s, token)
    \/ Preview(c) \/ PrintToken(c) \/ Confirm(c) \/ Decline(c) \/ Apply(c)
    \/ RemoveNext(c) \/ RemoveDone(c) \/ RemoveImages(c)
    \/ BeginOther(c) \/ Nest(c) \/ Unnest(c)
    \/ \E r \in Runs : StartRun(c, r) \/ OtherForget(c, r)
    \/ \E o \in Objects : CreateObject(c, o) \/ OtherRemove(c, o)
    \/ Wait(c) \/ Refused(c) \/ Fail(c)

Next ==
    \/ \E c \in Callers : Command(c)
    \/ \E r \in Runtimes : Killed(r)
    \/ \E o \in Objects : Foreign(o) \/ Vanish(o)

\* Time passes, and a caller that polls tries again.
Polls(c) == Refused(c) \/ Wait(c)

Spec == Init /\ [][Next]_vars /\ \A c \in Callers : WF_vars(Polls(c))

-----------------------------------------------------------------------------
(* Properties.                                                             *)

TypeOK ==
    /\ LockTypeOK
    /\ objs \subseteq Objects
    /\ owned \subseteq Runs
    /\ images \in BOOLEAN
    /\ step \in [Callers -> Steps]
    /\ scope \in [Callers -> Scopes]
    /\ shown \in [Callers -> SUBSET Objects]
    /\ told \in [Callers -> Tokens \cup {NoToken}]
    /\ issued \in Tokens \cup {NoToken}
    /\ \A c \in Callers :
          at[c] \in {"call", "poll", "in"} => step[c] \notin {"idle", "ask"}

\* The objects whose removal by this command somebody has seen and accepted.
Reviewed(c) ==
    CASE told[c] = NoToken -> shown[c]
      [] told[c] # NoToken /\ told[c].scope = scope[c] -> told[c].shown
      [] OTHER -> {}

\* Why: past the comparison, a command owns nothing that it has not shown, and
\* it holds the lock until it is done.
PreviewInv ==
    \A c \in Callers :
        /\ step[c] \in {"apply", "remove", "images"} => TokenMatches(c)
        /\ step[c] \in {"remove", "images"} => at[c] = "in"
        /\ step[c] = "remove" => \A o \in objs : o[1] \in owned => o \in shown[c]
        /\ step[c] = "images" => scope[c] = "images"

ReviewedStep ==
    \A c \in Callers : RemoveNext(c) => objs \ objs' \subseteq Reviewed(c)

\* A destructive command removes only what the accepted preview listed,
\* whoever used the laboratory meanwhile.
OnlyReviewedGoes == [][ReviewedStep]_vars

ReviewedImages ==
    images /\ ~images' =>
        \E c \in Callers :
            /\ at[c] = "in" /\ scope[c] = "images"
            /\ told[c] # NoToken => told[c].scope = "images"

\* Images go only with a purge that was asked, or whose token was issued, to
\* remove them.
OnlyReviewedImagesGo == [][ReviewedImages]_vars
=============================================================================
