----------------------------- MODULE ProviderCache -----------------------------
(***************************************************************************)
(* The Vulhub cache (provider.py).  A sync, alone under the exclusive      *)
(* lock, fetches the archive the release pins, indexes it in a temporary   *)
(* directory, writes what makes the index verifiable, and swaps the        *)
(* directory in by two renames; what fails on the way is undone, what is   *)
(* killed is not.  Readers, under the shared lock, answer from the index   *)
(* they can verify.                                                        *)
(*                                                                         *)
(* A release is a build of the program: the commit and the archive it pins *)
(* and its allowlist.  Processes of several releases use one cache.        *)
(***************************************************************************)
EXTENDS Naturals, BoundedFetch

CONSTANTS
    Processes,
    Releases,
    Environments,
    Compose,   \* what a release's archive has for an environment
    Allow,     \* the environments a release's allowlist has reviewed
    Repeats,   \* releases whose environments.toml names a CVE twice
    NoRelease,
    MaxKills   \* how often a process is killed

\* A Compose file the policy accepts, one it rejects, and one that has not the
\* checksum the allowlist has for the environment.
Conditions == {"absent", "accepted", "rejected", "changed"}

ASSUME CacheAssumption ==
    /\ Compose \in [Releases -> [Environments -> Conditions]]
    /\ Allow \in [Releases -> SUBSET Environments]
    /\ Repeats \subseteq Releases
    /\ NoRelease \notin Releases
    /\ MaxKills \in Nat

VARIABLES
    pc,        \* where each process is
    rel,       \* the release it runs
    root,      \* the directory vulhub
    previous,  \* the directory vulhub.previous
    backed,    \* backed_up, of the sync that has the lock
    activated, \* activated, of the same
    saw,       \* what a reader has read of the index
    told,      \* how the operation that has just ended has ended
    before,    \* the cache as an operation found it under the lock
    spoiled,   \* the sync has begun to remove what it would restore
    kills

locals    == <<rel, saw, before, backed, activated, spoiled>>
disk      == <<root, previous>>
cacheVars == <<pc, told, locals, disk, kills>>
vars      == <<cacheVars, fetchVars>>

-----------------------------------------------------------------------------
(* Directories and what is in them.                                        *)

Files   == {"index.json", "integrity.json"}
NoIndex == [of |-> NoRelease, runnable |-> {}]
Indexes == [of : Releases \cup {NoRelease}, runnable : SUBSET Environments]
Dirs    == [exists : BOOLEAN, index : Indexes,
            integrity : Releases \cup {NoRelease}, private : SUBSET Files]
Gone    == [exists |-> FALSE, index |-> NoIndex,
            integrity |-> NoRelease, private |-> {}]

\* Mutant: what is on the allowlist runs.
RunnableIfListed(r) == Allow[r]

\* "runnable": on the allowlist, its Compose file the reviewed one, and accepted.
Runnable(r) == {e \in Allow[r] : Compose[r][e] = "accepted"}

\* _index raises for an entry of the allowlist that is gone, changed or no
\* longer accepted; anything else it lists as blocked.
Indexable(r) ==
    \A e \in Allow[r] : Compose[r][e] \notin {"absent", "changed"} /\ e \in Runnable(r)

IndexOf(r) == [of |-> r, runnable |-> Runnable(r)]

\* The directory a sync has built.  The files get their mode only afterwards.
Built(r) == [exists |-> TRUE, index |-> IndexOf(r),
             integrity |-> r, private |-> {}]

\* rmtree at work: a file less, or the directory itself when it is empty.
Smaller(d) ==
    {[d EXCEPT !.index = NoIndex, !.private = @ \ {"index.json"}],
     [d EXCEPT !.integrity = NoRelease, !.private = @ \ {"integrity.json"}]}
    \ {d}

RemovalOf(d) == IF Smaller(d) = {} THEN {Gone} ELSE Smaller(d)

\* What a reader of release r makes of a directory.  An index of another
\* release or commit has other checksums; one that names a CVE twice is
\* written, but _parse_entries does not take it.
Verdict(d, index, r) ==
    IF ~d.exists THEN "not-synced"
    ELSE IF /\ d.private = Files
            /\ index.of = r /\ d.integrity = r
            /\ r \notin Repeats
            /\ index.runnable = Allow[r]
         THEN "verified" ELSE "stale"

-----------------------------------------------------------------------------
(* Processes and the lock.                                                 *)

SyncSteps == {"fetching", "index", "clear", "backup", "activate",
              "secure", "finish", "dropRoot", "restore", "dropTemp"}
ReadSteps == {"read", "compare"}
Syncing(p) == pc[p] \in SyncSteps
Reading(p) == pc[p] \in ReadSteps

Goto(p, step) == pc' = [pc EXCEPT ![p] = step] /\ told' = "nothing"

\* The operation ends, and its locals with it.
End(p, word) ==
    /\ pc' = [pc EXCEPT ![p] = "idle"]
    /\ told' = word
    /\ rel' = [rel EXCEPT ![p] = NoRelease]
    /\ saw' = [saw EXCEPT ![p] = NoIndex]
    /\ before' = [before EXCEPT ![p] = Gone]
    /\ IF Syncing(p)
       THEN backed' = FALSE /\ activated' = FALSE /\ spoiled' = FALSE
       ELSE UNCHANGED <<backed, activated, spoiled>>

Init ==
    /\ FetchInit
    /\ pc = [p \in Processes |-> "idle"]
    /\ told = "nothing"
    /\ rel = [p \in Processes |-> NoRelease]
    /\ saw = [p \in Processes |-> NoIndex]
    /\ before = [p \in Processes |-> Gone]
    /\ backed = FALSE
    /\ activated = FALSE
    /\ spoiled = FALSE
    /\ root = Gone
    /\ previous = Gone
    /\ kills = 0

Start(p) ==
    /\ pc[p] = "idle"
    /\ \E wait \in {"waitSync", "waitRead"} : Goto(p, wait)
    /\ UNCHANGED <<locals, disk, kills, fetchVars>>

\* With the lock: the program of some release, and the cache as it is now.
Enter(p, step) ==
    /\ Goto(p, step)
    /\ \E r \in Releases : rel' = [rel EXCEPT ![p] = r]
    /\ before' = [before EXCEPT ![p] = root]
    /\ UNCHANGED <<saw, backed, activated, spoiled, disk, kills>>

\* LOCK_EX, and the request.
LockSync(p) ==
    /\ pc[p] = "waitSync"
    /\ \A q \in Processes : ~Syncing(q) /\ ~Reading(q)
    /\ Enter(p, "fetching")
    /\ StartFetch

\* Mutant: readers go without the lock.
LockNothing(p) ==
    /\ pc[p] = "waitRead"
    /\ Enter(p, "read")
    /\ UNCHANGED fetchVars

\* LOCK_SH
LockRead(p) ==
    /\ pc[p] = "waitRead"
    /\ \A q \in Processes : ~Syncing(q)
    /\ Enter(p, "read")
    /\ UNCHANGED fetchVars

\* The deadline passes while another process has the lock.
LockTimesOut(p) ==
    /\ pc[p] \in {"waitSync", "waitRead"}
    /\ \E q \in Processes \ {p} : Syncing(q) \/ Reading(q)
    /\ End(p, "busy")
    /\ UNCHANGED <<disk, kills, fetchVars>>

-----------------------------------------------------------------------------
(* sync.  Until mkdtemp a failure only ends it.                            *)

\* The size and the checksum tell the published archive from any other.
Fetched(p) ==
    /\ pc[p] = "fetching"
    /\ caller = "whole"
    /\ Goto(p, "index")
    /\ UNCHANGED <<locals, disk, kills, fetchVars>>

\* The process ends, and with it a thread that is still at work.
NotFetched(p) ==
    /\ pc[p] = "fetching"
    /\ caller \in Outcomes \ {"whole"}
    /\ End(p, "failed")
    /\ Quiet
    /\ UNCHANGED <<disk, kills>>

\* _extract, _allowlist and _index; then index.json and integrity.json, all of
\* it in the temporary directory.
Index(p) ==
    /\ pc[p] = "index"
    /\ Indexable(rel[p])
    /\ Goto(p, "clear")
    /\ UNCHANGED <<locals, disk, kills, fetchVars>>

\* A backup that an earlier sync has left.
Clear(p) ==
    /\ pc[p] = "clear"
    /\ IF previous.exists
       THEN previous' \in RemovalOf(previous) /\ Goto(p, "clear")
       ELSE previous' = previous /\ Goto(p, "backup")
    /\ UNCHANGED <<locals, root, kills, fetchVars>>

\* Mutant: the backup is made but not noted.
BackupUnnoted(p) ==
    /\ pc[p] = "backup"
    /\ Goto(p, "activate")
    /\ previous' = root
    /\ root' = Gone
    /\ UNCHANGED <<locals, kills, fetchVars>>

\* The first rename, of the cache there is.
Backup(p) ==
    /\ pc[p] = "backup"
    /\ Goto(p, "activate")
    /\ previous' = root
    /\ root' = Gone
    /\ backed' = root.exists
    /\ UNCHANGED <<rel, saw, before, activated, spoiled, kills, fetchVars>>

\* The second.
Activate(p) ==
    /\ pc[p] = "activate"
    /\ Goto(p, "secure")
    /\ root' = Built(rel[p])
    /\ activated' = TRUE
    /\ UNCHANGED <<rel, saw, before, backed, spoiled, previous, kills, fetchVars>>

\* Mutant: only the index gets its mode.
SecureIndex(p) ==
    /\ pc[p] = "secure"
    /\ root' = [root EXCEPT !.private = {"index.json"}]
    /\ Goto(p, "finish")
    /\ UNCHANGED <<locals, previous, kills, fetchVars>>

\* chmod of the index, then of the integrity file.
Secure(p) ==
    /\ pc[p] = "secure"
    /\ IF "index.json" \notin root.private
       THEN root' = [root EXCEPT !.private = {"index.json"}] /\ Goto(p, "secure")
       ELSE root' = [root EXCEPT !.private = Files] /\ Goto(p, "finish")
    /\ UNCHANGED <<locals, previous, kills, fetchVars>>

\* The backup goes, and with its first file what the sync could restore.
RemoveBackup(p) ==
    /\ pc[p] = "finish"
    /\ previous.exists
    /\ previous' \in RemovalOf(previous)
    /\ spoiled' = TRUE
    /\ Goto(p, "finish")
    /\ UNCHANGED <<rel, saw, before, backed, activated, root, kills, fetchVars>>

Finish(p) ==
    /\ pc[p] = "finish"
    /\ ~previous.exists
    /\ End(p, "synced")
    /\ UNCHANGED <<disk, kills, fetchVars>>

-----------------------------------------------------------------------------
(* The handler of a sync that failed.                                      *)

\* Whatever raises once the temporary directory is there; _index does for an
\* archive it does not take.
StepFails(p) ==
    /\ pc[p] \in {"index", "clear", "backup", "activate", "secure", "finish"}
    /\ Goto(p, "dropRoot")
    /\ UNCHANGED <<locals, disk, kills, fetchVars>>

DropRoot(p) ==
    /\ pc[p] = "dropRoot"
    /\ IF activated /\ root.exists
       THEN root' \in RemovalOf(root) /\ Goto(p, "dropRoot")
       ELSE root' = root /\ Goto(p, "restore")
    /\ UNCHANGED <<locals, previous, kills, fetchVars>>

Restore(p) ==
    /\ pc[p] = "restore"
    /\ Goto(p, "dropTemp")
    /\ IF backed /\ previous.exists
       THEN root' = previous /\ previous' = Gone
       ELSE UNCHANGED disk
    /\ UNCHANGED <<locals, kills, fetchVars>>

\* The temporary directory, if it has not become the cache, and raise.
DropTemp(p) ==
    /\ pc[p] = "dropTemp"
    /\ End(p, "undone")
    /\ UNCHANGED <<disk, kills, fetchVars>>

\* A failure of the handler itself replaces the one it handles.
UndoFails(p) ==
    /\ pc[p] \in {"dropRoot", "restore", "dropTemp"}
    /\ End(p, "failed")
    /\ UNCHANGED <<disk, kills, fetchVars>>

-----------------------------------------------------------------------------
(* status and entries.                                                     *)

\* _cache_metadata reads the index first...
Read(p) ==
    /\ pc[p] = "read"
    /\ saw' = [saw EXCEPT ![p] = root.index]
    /\ Goto(p, "compare")
    /\ UNCHANGED <<rel, before, backed, activated, spoiled, disk, kills, fetchVars>>

\* ...then the integrity file.
Verify(p) ==
    /\ pc[p] = "compare"
    /\ End(p, Verdict(root, saw[p], rel[p]))
    /\ UNCHANGED <<disk, kills, fetchVars>>

-----------------------------------------------------------------------------

\* A process is killed; its lock and its thread go with it.
Kill(p) ==
    /\ kills < MaxKills
    /\ Syncing(p)
    /\ End(p, "killed")
    /\ kills' = kills + 1
    /\ Quiet
    /\ UNCHANGED disk

Fetching == FetchStep /\ UNCHANGED cacheVars

Sync(p) ==
    \/ Fetched(p) \/ NotFetched(p) \/ Index(p) \/ Clear(p)
    \/ Backup(p) \/ Activate(p) \/ Secure(p) \/ RemoveBackup(p) \/ Finish(p)

Undo(p) == StepFails(p) \/ DropRoot(p) \/ Restore(p) \/ DropTemp(p) \/ UndoFails(p)

Operation(p) ==
    \/ LockSync(p) \/ LockRead(p) \/ LockTimesOut(p)
    \/ Sync(p) \/ Undo(p) \/ Read(p) \/ Verify(p)

Next ==
    \/ \E p \in Processes : Start(p) \/ Operation(p) \/ Kill(p)
    \/ Fetching

\* What an ended process would stop has to stop without that.
Spec == Init /\ [][Next]_vars /\ FetchFairness

-----------------------------------------------------------------------------
(* Properties.                                                             *)

Words == {"nothing", "busy", "synced", "undone", "failed", "killed",
          "verified", "stale", "not-synced"}

\* The types, and that one process at most is between its two renames.
TypeOK ==
    /\ FetchTypeOK
    /\ pc \in [Processes -> SyncSteps \cup ReadSteps \cup {"idle", "waitSync", "waitRead"}]
    /\ rel \in [Processes -> Releases \cup {NoRelease}]
    /\ root \in Dirs /\ previous \in Dirs
    /\ backed \in BOOLEAN /\ activated \in BOOLEAN /\ spoiled \in BOOLEAN
    /\ saw \in [Processes -> Indexes]
    /\ told \in Words
    /\ before \in [Processes -> Dirs]
    /\ kills \in 0..MaxKills
    /\ \A p, q \in Processes : Syncing(p) /\ (Syncing(q) \/ Reading(q)) => p = q

Ends(p, word) == pc[p] # "idle" /\ pc'[p] = "idle" /\ told' = word

\* sync: when it reports its entries, the next reader of the same release
\* verifies them, whatever earlier syncs of other releases, killed or failed
\* ones among them, had left in both directories.  (Not so for a release whose
\* archive names a CVE twice: its index is never accepted.)
SyncDelivers ==
    [][\A p \in Processes : Ends(p, "synced") /\ rel[p] \notin Repeats =>
         Verdict(root', root'.index, rel[p]) = "verified"]_vars

\* sync: one that fails and has undone what it did leaves the cache it found,
\* unless the failure came while it was removing that very cache.
FailedSyncKeeps ==
    [][\A p \in Processes : Ends(p, "undone") /\ ~spoiled => root' = before[p]]_vars

\* status and entries: the answer is that of the cache as the reader found it
\* under its lock; no sync swaps a directory or a file while it reads.
ReadersUndisturbed ==
    [][\A p \in Processes : pc[p] = "compare" /\ pc'[p] = "idle" =>
         told' = Verdict(before[p], before[p].index, rel[p])]_vars

\* entries: what a verified cache offers to run is what the reader's own
\* release has reviewed, with the Compose file that was reviewed.
RunsOnlyReviewed ==
    [][\A p \in Processes : pc[p] = "compare" /\ Ends(p, "verified") =>
         /\ root.index.runnable = Allow[rel[p]]
         /\ \A e \in root.index.runnable : Compose[rel[p]][e] = "accepted"]_vars
=============================================================================
