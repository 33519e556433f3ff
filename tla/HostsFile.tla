------------------------------- MODULE HostsFile -------------------------------
(***************************************************************************)
(* Changing /etc/hosts: the command line previews, asks, and runs the      *)
(* root-owned helper through sudo (cli.py, privilege.py, hosts.py and      *)
(* data/helpers/vulndockyard-hosts).  Nothing locks the file.  Several     *)
(* commands and an editor change it at once, a helper may outlive the      *)
(* command that started it, and the only defence is to compare: the helper *)
(* with the confirmed preview, and once more just before it replaces.      *)
(*                                                                         *)
(* Any other path than /etc/hosts is changed in the process of the         *)
(* command, by the same steps (HostsManager.apply_many); system tells.     *)
(***************************************************************************)
EXTENDS HostsText

CONSTANTS
    Commands, \* command processes
    Foreign,  \* lines an editor may add
    MaxEdits  \* bound: how often an editor writes

ASSUME ForeignAssumption == Foreign \cap (Names \cup Markers \cup {"nl"}) = {}

VARIABLES
    file,   \* the text of the hosts file
    edits,  \* how often an editor wrote it
    system, \* whether it is /etc/hosts
    pc,     \* the next step of each command
    writer, \* the next step of its helper, or of itself in process
    seen,   \* the text it previewed
    after,  \* the managed names it was confirmed to leave
    stale,  \* the file was written since its writer took a snapshot
    raced   \* the file was written since its writer compared it

commandVars == <<pc, seen, after>>
writerVars  == <<writer, stale, raced>>
vars == <<file, edits, system, commandVars, writerVars>>

-----------------------------------------------------------------------------
(* Steps.                                                                  *)

Goto(p, label)  == pc' = [pc EXCEPT ![p] = label] /\ UNCHANGED <<seen, after>>
Write(p, label) == writer' = [writer EXCEPT ![p] = label]
Looking(p)      == writer[p] \in {"staged", "compared"}

\* Any write of the file shows to every other writer that compares later.
Put(text, others) ==
    /\ file' = text
    /\ stale' = [q \in Commands |-> stale[q] \/ (q \in others /\ Looking(q))]
    /\ raced' = [q \in Commands |->
                    raced[q] \/ (q \in others /\ writer[q] = "compared")]

\* A command that is over keeps nothing; its helper may still need it.
Exit(p) ==
    /\ pc' = [pc EXCEPT ![p] = "idle"]
    /\ IF writer'[p] = "off"
       THEN /\ seen' = [seen EXCEPT ![p] = <<>>]
            /\ after' = [after EXCEPT ![p] = {}]
            /\ stale' = [stale EXCEPT ![p] = FALSE]
            /\ raced' = [raced EXCEPT ![p] = FALSE]
       ELSE UNCHANGED <<seen, after, stale, raced>>

-----------------------------------------------------------------------------
(* The command.                                                            *)

\* What add or remove of some names makes of the managed names.
Wanted(names, add) ==
    IF add THEN ToSet(Parsed(file)) \cup names ELSE ToSet(Parsed(file)) \ names

\* preview_many, and _apply_hostnames up to the confirmation: a change that
\* changes nothing, a malformed file and a refused question end the command.
Preview(p, names, add) ==
    /\ pc[p] = "idle"
    /\ writer[p] = "off"
    /\ Transformable(file, Wanted(names, add))
    /\ Wanted(names, add) # ToSet(Parsed(file))
    /\ pc' = [pc EXCEPT ![p] = "apply"]
    /\ seen' = [seen EXCEPT ![p] = file]
    /\ after' = [after EXCEPT ![p] = Wanted(names, add)]
    /\ UNCHANGED <<file, edits, system, writerVars>>

\* invoke_hosts_helper: only the root-owned helper of this release is run; any
\* other, or none, ends the command (GiveUp).
Invoke(p) ==
    /\ pc[p] = "apply"
    /\ system
    /\ Goto(p, "wait")
    /\ Write(p, "start")
    /\ UNCHANGED <<file, edits, system, stale, raced>>

\* The helper's main up to the temporary file: the text it reads has to be
\* the one that was confirmed.
HelperSnapshot(p) ==
    /\ writer[p] = "start"
    /\ file = seen[p]
    /\ Transformable(file, after[p])
    /\ Write(p, "staged")
    /\ stale' = [stale EXCEPT ![p] = FALSE]
    /\ UNCHANGED <<file, edits, system, commandVars, raced>>

\* apply_many up to the temporary file, in the process of the command.
ApplySnapshot(p) ==
    /\ pc[p] = "apply"
    /\ ~system
    /\ file = seen[p]
    /\ Transformable(file, after[p])
    /\ Goto(p, "wait")
    /\ Write(p, "staged")
    /\ stale' = [stale EXCEPT ![p] = FALSE]
    /\ UNCHANGED <<file, edits, system, raced>>

\* Mutant: the file is not compared again before it is replaced.
NoComparison(p) ==
    /\ writer[p] = "staged"
    /\ Write(p, "compared")
    /\ raced' = [raced EXCEPT ![p] = FALSE]
    /\ UNCHANGED <<file, edits, system, commandVars, stale>>

\* _require_unchanged: identity, times and text are still those of the snapshot.
RequireUnchanged(p) ==
    /\ writer[p] = "staged"
    /\ ~stale[p]
    /\ Write(p, "compared")
    /\ raced' = [raced EXCEPT ![p] = FALSE]
    /\ UNCHANGED <<file, edits, system, commandVars, stale>>

\* os.replace: not conditional on anything any more.
Replace(p) ==
    /\ writer[p] = "compared"
    /\ Write(p, "done")
    /\ Put(IF system THEN HelperTransform(seen[p], after[p])
           ELSE Transform(seen[p], after[p]), Commands \ {p})
    /\ UNCHANGED <<edits, system, commandVars>>

\* A writer whose command has gone ends by itself.
Linger(p) ==
    /\ pc[p] = "idle"
    /\ writer[p] = "done"
    /\ Write(p, "off")
    /\ Exit(p)
    /\ UNCHANGED <<file, edits, system>>

\* The managed names are read back before success is reported.
VerifyHosts(p) ==
    /\ pc[p] = "wait"
    /\ writer[p] = "done"
    /\ WellFormed(file)
    /\ Parsed(file) = Sorted(after[p])
    /\ Write(p, "off")
    /\ Exit(p)
    /\ UNCHANGED <<file, edits, system>>

\* A check of the writer fails, or a call raises, even after the replacement:
\* the writer is over, and with it the command that still waits for it.
Fail(p) ==
    /\ writer[p] # "off"
    /\ Write(p, "off")
    /\ Exit(p)
    /\ UNCHANGED <<file, edits, system>>

\* The command is declined, interrupted or fails by itself.
GiveUp(p) ==
    /\ pc[p] = "apply"
    /\ UNCHANGED <<file, edits, system, writer>>
    /\ Exit(p)

\* _run_elevated at its timeout, or the command is killed: the signal reaches
\* the helper (Fail), or sudo dies first and the helper goes on alone.
Abandon(p) ==
    /\ pc[p] = "wait"
    /\ system
    /\ UNCHANGED <<file, edits, system, writer>>
    /\ Exit(p)

-----------------------------------------------------------------------------
(* Everybody else.                                                         *)

LineStarts == {i \in 1..(Len(file) + 1) : i > 1 => file[i - 1] = "nl"}

\* An editor adds a line that is not there, anywhere.
EditInsert(line) ==
    /\ edits < MaxEdits
    /\ edits' = edits + 1
    /\ line \notin ToSet(file)
    /\ \E i \in LineStarts \cup {Len(file) + 1} :
          Put(SubSeq(file, 1, i - 1)
                 \o (IF i \in LineStarts THEN <<>> ELSE <<"nl">>)
                 \o <<line, "nl">> \o SubSeq(file, i, Len(file)), Commands)
    /\ UNCHANGED <<system, commandVars, writer>>

\* An editor deletes a line, a marker perhaps.
EditDelete ==
    /\ edits < MaxEdits
    /\ edits' = edits + 1
    /\ \E i \in LineStarts, j \in DOMAIN file :
          /\ j >= i /\ file[j] = "nl"
          /\ \A k \in i..(j - 1) : file[k] # "nl"
          /\ Put(SubSeq(file, 1, i - 1) \o SubSeq(file, j + 1, Len(file)), Commands)
    /\ UNCHANGED <<system, commandVars, writer>>

-----------------------------------------------------------------------------

Init ==
    /\ \E x \in Foreign : file \in {<<>>, <<x>>, <<x, "nl">>}
    /\ edits = 0
    /\ system \in BOOLEAN
    /\ pc = [p \in Commands |-> "idle"]
    /\ writer = [p \in Commands |-> "off"]
    /\ seen = [p \in Commands |-> <<>>]
    /\ after = [p \in Commands |-> {}]
    /\ stale = [p \in Commands |-> FALSE]
    /\ raced = [p \in Commands |-> FALSE]

Command(p) ==
    \/ \E names \in SUBSET Names \ {{}}, add \in BOOLEAN : Preview(p, names, add)
    \/ Invoke(p) \/ VerifyHosts(p) \/ GiveUp(p) \/ Abandon(p)
    \/ HelperSnapshot(p) \/ ApplySnapshot(p) \/ RequireUnchanged(p)
    \/ Replace(p) \/ Linger(p) \/ Fail(p)

Next ==
    \/ \E p \in Commands : Command(p)
    \/ \E line \in Foreign : EditInsert(line)
    \/ EditDelete

Spec == Init /\ [][Next]_vars
-----------------------------------------------------------------------------
(* Properties.                                                             *)

Labels  == {"idle", "apply", "wait"}
Stages  == {"off", "start", "staged", "compared", "done"}
Replaces(p) == writer[p] = "compared" /\ writer'[p] = "done"

\* Types; a writer runs only for a command, or has outlived one.
TypeOK ==
    /\ ToSet(file) \subseteq Names \cup Markers \cup {"nl"} \cup Foreign
    /\ pc \in [Commands -> Labels]
    /\ writer \in [Commands -> Stages]
    /\ after \in [Commands -> SUBSET Names]
    /\ \A p \in Commands :
          /\ pc[p] = "apply" => writer[p] = "off"
          /\ pc[p] = "wait" => writer[p] # "off"
          /\ writer[p] # "off" => Transformable(seen[p], after[p])

\* Adding names to a file without a block and removing them all again gives
\* back every byte, a missing line feed at the end included (hosts.py).
RoundTrip ==
    \A p \in Commands :
        pc[p] = "apply" /\ ~HasBlock(seen[p]) =>
            Transform(Transform(seen[p], after[p]), {}) = seen[p]

\* The two implementations agree on everything the command line asks of the
\* helper, and what they write can be read back and changed again.
HelperAgrees ==
    \A p \in Commands :
        pc[p] = "apply" =>
            LET text == Transform(seen[p], after[p])
            IN  /\ HelperTransform(seen[p], after[p]) = text
                /\ WellFormed(text)
                /\ ToSet(Parsed(text)) = after[p]

\* Whenever a writer replaces the file, however late, and unless the file
\* changed in the moment after the last comparison, it replaces the text
\* that was shown to the user by the names the user confirmed.
AppliesWhatWasConfirmed ==
    [][\A p \in Commands :
          Replaces(p) /\ ~raced[p] =>
              file = seen[p] /\ ToSet(Parsed(file')) = after[p]]_vars

\* Removing the block together with a line feed that no longer ends the text.
Glues(p) == after[p] = {} /\ Separated(seen[p]) /\ After(seen[p]) # <<>>

\* Nobody's lines are lost or changed by a replacement, with two exceptions:
\* the same moment, and Glues.
UnrelatedLinesKept ==
    [][\A p \in Commands :
          Replaces(p) /\ ~raced[p] /\ ~Glues(p) => Unrelated(file') = Unrelated(file)]_vars

\* Without the second exception, as the threat model promises it.
UnrelatedLinesAlwaysKept ==
    [][\A p \in Commands :
          Replaces(p) /\ ~raced[p] => Unrelated(file') = Unrelated(file)]_vars
=============================================================================
