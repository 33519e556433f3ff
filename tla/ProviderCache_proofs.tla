-------------------------- MODULE ProviderCache_proofs --------------------------
(***************************************************************************)
(* Proofs about ProviderCache, for any number of processes, releases and   *)
(* environments, and however often processes are killed.                   *)
(***************************************************************************)
EXTENDS ProviderCache, TLAPS

-----------------------------------------------------------------------------
(* The invariant.                                                          *)

\* Whatever is in an index was reviewed by the release that wrote it.
SoundIndex(i) == i = NoIndex \/ \E r \in Releases : i = IndexOf(r)

Sound(d) == d \in Dirs /\ SoundIndex(d.index) /\ (~d.exists => d = Gone)

DiskInv ==
    /\ Sound(root) /\ Sound(previous)
    /\ \A p \in Processes : Sound(before[p])

ReaderInv ==
    \A p \in Processes :
        /\ Syncing(p) \/ Reading(p) => rel[p] \in Releases
        /\ Reading(p) => before[p] = root
        /\ pc[p] = "compare" => saw[p] = root.index

\* What there is to undo, for whoever has to.
Untouched(p) == root = before[p] /\ ~backed /\ ~activated /\ ~spoiled
Backed(p)    == backed = before[p].exists /\ ~spoiled /\ previous = before[p]
Undoable(p)  ==
    /\ ~backed /\ ~activated => root = before[p]
    /\ ~backed /\ activated => before[p] = Gone
    /\ backed => before[p].exists /\ (spoiled \/ previous = before[p])

BuiltWith(r, files) ==
    [exists |-> TRUE, index |-> IndexOf(r), integrity |-> r, private |-> files]

Secured(p, files) == root = BuiltWith(rel[p], files)

OwnInv(p) ==
    /\ pc[p] \in {"fetching", "index", "clear", "backup"} => Untouched(p)
    /\ pc[p] \in {"secure", "finish"} => Indexable(rel[p]) /\ activated
    /\ pc[p] \in {"clear", "backup", "activate"} => Indexable(rel[p])
    /\ pc[p] = "activate" => root = Gone /\ ~activated /\ Backed(p)
    /\ pc[p] = "secure" =>
          Backed(p) /\ (Secured(p, {}) \/ Secured(p, {"index.json"}))
    /\ pc[p] = "finish" => Secured(p, Files)
    /\ pc[p] \in {"finish", "dropRoot", "restore"} => Undoable(p)
    /\ pc[p] = "restore" => (activated => ~root.exists)
    /\ pc[p] = "dropTemp" => spoiled \/ root = before[p]

SyncInv == \A p \in Processes : OwnInv(p)

\* The flags are those of the sync that has the lock.
FlagInv == (\A p \in Processes : ~Syncing(p)) => ~backed /\ ~activated /\ ~spoiled

IInv == TypeOK /\ DiskInv /\ ReaderInv /\ SyncInv /\ FlagInv

-----------------------------------------------------------------------------
(* Directories.                                                            *)

LEMMA GoneSound == Sound(Gone)
BY DEF Sound, SoundIndex, Gone, Dirs, Indexes, NoIndex, Files

LEMMA RunnableReviewed ==
  ASSUME NEW r \in Releases
  PROVE  /\ Runnable(r) \subseteq Environments
         /\ Indexable(r) => Runnable(r) = Allow[r]
BY CacheAssumption DEF Runnable, Indexable

LEMMA BuiltSound ==
  ASSUME NEW r \in Releases, NEW files \in SUBSET Files
  PROVE  Sound(BuiltWith(r, files))
<1>1. IndexOf(r) \in Indexes
  BY RunnableReviewed DEF IndexOf, Indexes
<1>2. BuiltWith(r, files) \in Dirs
  BY <1>1 DEF BuiltWith, Dirs
<1> QED
  BY <1>1, <1>2 DEF Sound, SoundIndex, BuiltWith

\* What rmtree leaves is sound, if it leaves anything.
LEMMA RemovalSound ==
  ASSUME NEW d, Sound(d), d.exists, NEW e \in RemovalOf(d)
  PROVE  Sound(e)
<1>1. CASE e = Gone
  BY <1>1, GoneSound
<1>2. CASE e \in Smaller(d)
  <2>1. d \in Dirs /\ NoIndex \in Indexes
    BY DEF Sound, NoIndex, Indexes
  <2>2. CASE e = [d EXCEPT !.index = NoIndex, !.private = @ \ {"index.json"}]
    <3>1. e \in Dirs
      BY <2>1, <2>2 DEF Dirs
    <3>2. e.exists = d.exists /\ e.index = NoIndex
      BY <2>1, <2>2 DEF Dirs
    <3> QED
      BY <3>1, <3>2 DEF Sound, SoundIndex
  <2>3. CASE e = [d EXCEPT !.integrity = NoRelease, !.private = @ \ {"integrity.json"}]
    <3>1. e \in Dirs
      BY <2>1, <2>3 DEF Dirs
    <3>2. e.exists = d.exists /\ e.index = d.index
      BY <2>1, <2>3 DEF Dirs
    <3> QED
      BY <3>1, <3>2 DEF Sound, SoundIndex
  <2> QED
    BY <1>2, <2>2, <2>3 DEF Smaller
<1> QED
  BY <1>1, <1>2 DEF RemovalOf

-----------------------------------------------------------------------------

LEMMA FetchKeepsType ==
  ASSUME FetchTypeOK, FetchStep \/ Quiet \/ StartFetch \/ UNCHANGED fetchVars
  PROVE  FetchTypeOK'
<1> USE DEF FetchTypeOK, Outcomes, Bodies, Stages, LeaveResponse
<1>1. CASE Quiet
  BY <1>1 DEF Quiet
<1>2. CASE StartFetch
  BY <1>2 DEF StartFetch
<1>3. CASE Expire
  BY <1>3 DEF Expire
<1>4. CASE Open
  BY <1>4 DEF Open
<1>5. CASE OpenFails
  BY <1>5 DEF OpenFails
<1>6. CASE Hold
  BY <1>6 DEF Hold
<1>7. CASE Report
  BY <1>7 DEF Report
<1>8. CASE ClearHolder
  BY <1>8 DEF ClearHolder
<1>9. CASE ReadStops
  BY <1>9 DEF ReadStops
<1>10. CASE ReadFails
  BY <1>10 DEF ReadFails
<1>11. CASE Receive
  BY <1>11 DEF Receive
<1>12. CASE GiveUpFetch
  BY <1>12 DEF GiveUpFetch
<1>13. ASSUME NEW body \in Bodies, ReadEnds(body) PROVE FetchTypeOK'
  BY <1>13 DEF ReadEnds
<1>14. CASE UNCHANGED fetchVars
  BY <1>14 DEF fetchVars
<1> QED
  BY <1>1, <1>2, <1>3, <1>4, <1>5, <1>6, <1>7, <1>8, <1>9, <1>10, <1>11, <1>12,
     <1>13, <1>14 DEF FetchStep

LEMMA Initially == Init => IInv
<1> SUFFICES ASSUME Init PROVE IInv
  OBVIOUS
<1>1. Sound(Gone) /\ Gone \in Dirs
  BY GoneSound DEF Sound
<1>2. FetchTypeOK
  <2>1. FetchInit
    BY DEF Init
  <2>2. expired \in BOOLEAN /\ held \in BOOLEAN /\ open \in BOOLEAN /\ ~open
    BY <2>1 DEF FetchInit
  <2>3. /\ caller \in {"none", "waiting"} \cup Outcomes /\ worker \in Stages
        /\ outcome \in Outcomes \cup {"none"} /\ slot \in Outcomes \cup {"none"}
    BY <2>1 DEF FetchInit, Stages
  <2> QED
    BY <2>2, <2>3 DEF FetchTypeOK
<1>3. TypeOK
  <2>1. kills \in 0..MaxKills
    BY CacheAssumption DEF Init
  <2>2. /\ pc \in [Processes -> SyncSteps \cup ReadSteps \cup {"idle", "waitSync", "waitRead"}]
        /\ rel \in [Processes -> Releases \cup {NoRelease}]
        /\ saw \in [Processes -> Indexes]
        /\ before \in [Processes -> Dirs]
    BY <1>1 DEF Init, Indexes, NoIndex
  <2>3. \A q \in Processes : ~Syncing(q)
    BY DEF Init, Syncing, SyncSteps
  <2>4. /\ root \in Dirs /\ previous \in Dirs /\ told \in Words
        /\ backed \in BOOLEAN /\ activated \in BOOLEAN /\ spoiled \in BOOLEAN
    BY <1>1 DEF Init, Words
  <2> QED
    BY <1>2, <2>1, <2>2, <2>3, <2>4 DEF TypeOK
<1>4. DiskInv
  BY <1>1 DEF Init, DiskInv
<1>5. ReaderInv /\ SyncInv /\ FlagInv
  BY DEF Init, ReaderInv, SyncInv, OwnInv, FlagInv, Syncing, SyncSteps, Reading, ReadSteps
<1> QED
  BY <1>3, <1>4, <1>5 DEF IInv

-----------------------------------------------------------------------------
(* Steps that are alike.                                                   *)

\* An operation ends and leaves the directories as they are.
LEMMA EndStep ==
  ASSUME IInv, NEW p \in Processes, NEW word \in Words, End(p, word),
         UNCHANGED disk, FetchTypeOK', kills' \in 0..MaxKills
  PROVE  IInv'
<1> USE DEF IInv, End, disk
<1>1. Sound(Gone) /\ Gone \in Dirs /\ NoIndex \in Indexes
  BY GoneSound DEF Sound, NoIndex, Indexes
<1>2. /\ pc'[p] = "idle" /\ ~Syncing(p)' /\ ~Reading(p)'
      /\ \A q \in Processes \ {p} :
            /\ pc'[q] = pc[q] /\ rel'[q] = rel[q]
            /\ saw'[q] = saw[q] /\ before'[q] = before[q]
            /\ (Syncing(q)' <=> Syncing(q)) /\ (Reading(q)' <=> Reading(q))
  BY DEF TypeOK, Syncing, SyncSteps, Reading, ReadSteps
<1>3. TypeOK'
  <2>1. \A q, s \in Processes :
           Syncing(q)' /\ (Syncing(s)' \/ Reading(s)') => q = s
    BY <1>2 DEF TypeOK
  <2>2. /\ pc' \in [Processes -> SyncSteps \cup ReadSteps \cup {"idle", "waitSync", "waitRead"}]
        /\ rel' \in [Processes -> Releases \cup {NoRelease}]
        /\ saw' \in [Processes -> Indexes]
        /\ before' \in [Processes -> Dirs]
    BY <1>1 DEF TypeOK
  <2>3. backed' \in BOOLEAN /\ activated' \in BOOLEAN /\ spoiled' \in BOOLEAN
    BY DEF TypeOK
  <2> QED
    BY <2>1, <2>2, <2>3 DEF TypeOK
<1>4. DiskInv'
  BY <1>1, <1>2 DEF DiskInv, Sound, SoundIndex, TypeOK
<1>5. ReaderInv'
  BY <1>2 DEF ReaderInv
<1>6. \A q \in Processes \ {p} : Syncing(q) => ~Syncing(p)
  BY DEF TypeOK
<1>7. SyncInv'
  <2> SUFFICES ASSUME NEW q \in Processes PROVE OwnInv(q)'
    BY DEF SyncInv
  <2>1. CASE q = p \/ ~Syncing(q)
    BY <2>1, <1>2 DEF OwnInv, Syncing, SyncSteps
  <2>2. CASE q # p /\ Syncing(q)
    <3>1. UNCHANGED <<backed, activated, spoiled, root, previous>>
      BY <2>2, <1>6
    <3>2. OwnInv(q)
      BY DEF SyncInv
    <3> QED
      BY <3>1, <3>2, <2>2, <1>2
         DEF OwnInv, Untouched, Backed, Undoable, Secured
  <2> QED
    BY <2>1, <2>2
<1>8. FlagInv'
  BY <1>2, <1>6 DEF FlagInv
<1> QED
  BY <1>3, <1>4, <1>5, <1>7, <1>8

\* A sync goes on: nobody else has the lock.
LEMMA SyncMoves ==
  ASSUME IInv, NEW p \in Processes, Syncing(p), NEW step \in SyncSteps, Goto(p, step),
         UNCHANGED <<rel, saw, before, kills, fetchVars>>,
         Sound(root)', Sound(previous)',
         backed' \in BOOLEAN, activated' \in BOOLEAN, spoiled' \in BOOLEAN,
         OwnInv(p)'
  PROVE  IInv'
<1> USE DEF IInv, Goto
<1>1. /\ pc'[p] = step /\ Syncing(p)'
      /\ \A q \in Processes \ {p} :
            /\ pc'[q] = pc[q]
            /\ ~Syncing(q)' /\ ~Reading(q)'
  BY DEF TypeOK, Syncing, Reading
<1>2. ~Reading(p)'
  BY <1>1 DEF Reading, ReadSteps, SyncSteps
<1>3. FetchTypeOK'
  BY FetchKeepsType DEF TypeOK
<1>4. TypeOK'
  <2>1. pc' \in [Processes -> SyncSteps \cup ReadSteps \cup {"idle", "waitSync", "waitRead"}]
    BY DEF TypeOK
  <2> QED
    BY <1>1, <1>3, <2>1 DEF TypeOK, Sound, Words
<1>5. DiskInv'
  BY DEF DiskInv, Sound, SoundIndex
<1>6. ReaderInv'
  <2> SUFFICES ASSUME NEW q \in Processes, Syncing(q)' \/ Reading(q)' \/ pc'[q] = "compare"
               PROVE  q = p
    BY <1>1, <1>2 DEF ReaderInv, Syncing, SyncSteps
  <2> QED
    BY <1>1 DEF Reading, ReadSteps
<1>7. SyncInv'
  <2> SUFFICES ASSUME NEW q \in Processes, q # p PROVE OwnInv(q)'
    BY DEF SyncInv
  <2> QED
    BY <1>1 DEF OwnInv, Syncing, SyncSteps
<1>8. FlagInv'
  BY <1>1 DEF FlagInv
<1> QED
  BY <1>4, <1>5, <1>6, <1>7, <1>8

-----------------------------------------------------------------------------
(* The steps.                                                              *)

\* To the lock, and with it into the operation.
LEMMA LockStep ==
  ASSUME IInv, NEW p \in Processes, Start(p) \/ LockSync(p) \/ LockRead(p)
  PROVE  IInv'
<1> USE DEF IInv, Goto, locals, disk
<1>1. pc[p] \in {"idle", "waitSync", "waitRead"} /\ ~Syncing(p) /\ ~Reading(p)
  BY DEF Start, LockSync, LockRead, Syncing, SyncSteps, Reading, ReadSteps
<1>2. PICK step \in {"waitSync", "waitRead", "fetching", "read"} :
         /\ pc' = [pc EXCEPT ![p] = step]
         /\ step = "fetching" => LockSync(p)
         /\ step = "read" => LockRead(p)
  BY DEF Start, LockSync, LockRead, Enter
<1>3. UNCHANGED <<saw, backed, activated, spoiled, root, previous, kills>> /\ told' = "nothing"
  BY DEF Start, LockSync, LockRead, Enter
<1>4. /\ rel' \in [Processes -> Releases \cup {NoRelease}]
      /\ before' \in [Processes -> Dirs] /\ Sound(before'[p])
      /\ step \in {"fetching", "read"} => rel'[p] \in Releases /\ before'[p] = root
  <2>1. CASE Start(p)
    BY <1>2, <2>1 DEF Start, TypeOK, DiskInv, LockSync, LockRead, Enter, Syncing, SyncSteps
  <2>2. CASE LockSync(p) \/ LockRead(p)
    BY <2>2 DEF LockSync, LockRead, Enter, TypeOK, DiskInv
  <2> QED
    BY <2>1, <2>2
<1>5. /\ pc'[p] = step
      /\ Syncing(p)' <=> step = "fetching"
      /\ Reading(p)' <=> step = "read"
  BY <1>2 DEF TypeOK, Syncing, SyncSteps, Reading, ReadSteps
<1>6. \A q \in Processes \ {p} :
         /\ pc'[q] = pc[q] /\ rel'[q] = rel[q] /\ before'[q] = before[q]
         /\ (Syncing(q)' <=> Syncing(q)) /\ (Reading(q)' <=> Reading(q))
  BY <1>2 DEF Start, LockSync, LockRead, Enter, TypeOK, Syncing, Reading
<1>7. \A q \in Processes :
         /\ step = "fetching" => ~Syncing(q) /\ ~Reading(q)
         /\ step = "read" => ~Syncing(q)
  BY <1>2 DEF LockSync, LockRead
<1>8. TypeOK'
  <2>1. FetchTypeOK'
    BY FetchKeepsType DEF TypeOK, Start, LockSync, LockRead
  <2>2. pc' \in [Processes -> SyncSteps \cup ReadSteps \cup {"idle", "waitSync", "waitRead"}]
    BY <1>2 DEF TypeOK, SyncSteps, ReadSteps
  <2>3. \A q, s \in Processes : Syncing(q)' /\ (Syncing(s)' \/ Reading(s)') => q = s
    BY <1>5, <1>6, <1>7 DEF TypeOK
  <2> QED
    BY <2>1, <2>2, <2>3, <1>3, <1>4 DEF TypeOK, Words
<1>9. DiskInv'
  BY <1>3, <1>4, <1>6 DEF DiskInv, Sound, SoundIndex
<1>10. ReaderInv'
  BY <1>3, <1>4, <1>5, <1>6 DEF ReaderInv
<1>11. SyncInv'
  <2> SUFFICES ASSUME NEW q \in Processes PROVE OwnInv(q)'
    BY DEF SyncInv
  <2>1. CASE q = p /\ step = "fetching"
    <3>1. ~backed /\ ~activated /\ ~spoiled
      BY <2>1, <1>7 DEF FlagInv
    <3> QED
      BY <2>1, <3>1, <1>3, <1>4, <1>5 DEF OwnInv, Untouched
  <2>2. CASE q = p /\ step # "fetching"
    BY <2>2, <1>5 DEF OwnInv
  <2>3. CASE q # p
    BY <2>3, <1>3, <1>6 DEF SyncInv, OwnInv, Untouched, Backed, Undoable, Secured
  <2> QED
    BY <2>1, <2>2, <2>3
<1>12. FlagInv'
  <2> SUFFICES ASSUME \A q \in Processes : ~Syncing(q)'
               PROVE  \A q \in Processes : ~Syncing(q)
    BY <1>3 DEF FlagInv
  <2> QED
    BY <1>1, <1>6
<1> QED
  BY <1>8, <1>9, <1>10, <1>11, <1>12

\* A reader takes a look at the index.
LEMMA ReadStep ==
  ASSUME IInv, NEW p \in Processes, Read(p)
  PROVE  IInv'
<1> USE DEF IInv, Read, Goto, disk
<1>1. /\ pc'[p] = "compare" /\ ~Syncing(p) /\ ~Syncing(p)' /\ Reading(p)
      /\ saw'[p] = root.index
      /\ \A q \in Processes \ {p} :
            /\ pc'[q] = pc[q] /\ saw'[q] = saw[q]
            /\ (Syncing(q)' <=> Syncing(q)) /\ (Reading(q)' <=> Reading(q))
  BY DEF TypeOK, Syncing, SyncSteps, Reading, ReadSteps
<1>2. TypeOK'
  <2>1. FetchTypeOK'
    BY FetchKeepsType DEF TypeOK
  <2>2. /\ pc' \in [Processes -> SyncSteps \cup ReadSteps \cup {"idle", "waitSync", "waitRead"}]
        /\ saw' \in [Processes -> Indexes]
    BY DEF TypeOK, ReadSteps, Dirs
  <2> QED
    BY <2>1, <2>2, <1>1 DEF TypeOK, Words
<1>3. DiskInv'
  BY DEF DiskInv, Sound, SoundIndex
<1>4. ReaderInv'
  BY <1>1 DEF ReaderInv
<1>5. SyncInv'
  <2> SUFFICES ASSUME NEW q \in Processes PROVE OwnInv(q)'
    BY DEF SyncInv
  <2>1. CASE q = p
    BY <2>1, <1>1 DEF OwnInv
  <2>2. CASE q # p
    BY <2>2, <1>1 DEF SyncInv, OwnInv, Untouched, Backed, Undoable, Secured
  <2> QED
    BY <2>1, <2>2
<1>6. FlagInv'
  BY <1>1 DEF FlagInv
<1> QED
  BY <1>2, <1>3, <1>4, <1>5, <1>6

\* Until the swap, and the swap.
LEMMA SwapStep ==
  ASSUME IInv, NEW p \in Processes,
         Fetched(p) \/ Index(p) \/ Clear(p) \/ Backup(p) \/ Activate(p)
  PROVE  IInv'
<1> USE DEF IInv, locals, disk
<1>1. Syncing(p) /\ OwnInv(p) /\ Sound(root) /\ Sound(previous) /\ Sound(before[p])
  BY DEF Fetched, Index, Clear, Backup, Activate, Syncing, SyncSteps, SyncInv, DiskInv
<1>2. rel[p] \in Releases /\ backed \in BOOLEAN /\ activated \in BOOLEAN /\ spoiled \in BOOLEAN
  BY <1>1 DEF ReaderInv, TypeOK
<1>3. ASSUME NEW step \in SyncSteps, Goto(p, step) PROVE pc'[p] = step
  BY <1>3 DEF Goto, TypeOK
<1>4. CASE Fetched(p) \/ Index(p)
  <2>1. PICK step \in {"index", "clear"} : Goto(p, step) /\ (step = "clear" => Indexable(rel[p]))
    BY <1>4 DEF Fetched, Index
  <2>2. step \in SyncSteps /\ pc'[p] = step
    BY <2>1, <1>3 DEF SyncSteps
  <2>3. UNCHANGED <<rel, saw, before, kills, fetchVars, backed, activated, spoiled, root, previous>>
    BY <1>4 DEF Fetched, Index
  <2>4. Untouched(p)
    BY <1>4, <1>1 DEF Fetched, Index, OwnInv
  <2>5. OwnInv(p)'
    BY <2>1, <2>2, <2>3, <2>4 DEF OwnInv, Untouched
  <2> QED
    BY <1>1, <1>2, <2>1, <2>2, <2>3, <2>5, SyncMoves DEF Sound, SoundIndex
<1>5. CASE Clear(p)
  <2>1. PICK step \in {"clear", "backup"} : Goto(p, step)
    BY <1>5 DEF Clear
  <2>2. step \in SyncSteps /\ pc'[p] = step
    BY <2>1, <1>3 DEF SyncSteps
  <2>3. UNCHANGED <<rel, saw, before, kills, fetchVars, backed, activated, spoiled, root>>
    BY <1>5 DEF Clear
  <2>4. Sound(previous')
    BY <1>1, <1>5, RemovalSound DEF Clear
  <2>5. OwnInv(p)'
    BY <1>1, <1>5, <2>2, <2>3 DEF Clear, OwnInv, Untouched
  <2> QED
    BY <1>1, <1>2, <2>1, <2>2, <2>3, <2>4, <2>5, SyncMoves DEF Sound, SoundIndex
<1>6. CASE Backup(p)
  <2>1. Goto(p, "activate") /\ "activate" \in SyncSteps /\ pc'[p] = "activate"
    BY <1>6, <1>3 DEF Backup, SyncSteps
  <2>2. OwnInv(p)'
    BY <1>1, <1>6, <2>1 DEF Backup, OwnInv, Untouched, Backed
  <2>3. Sound(Gone) /\ backed' \in BOOLEAN
    BY <1>1, <1>6, GoneSound DEF Backup, Sound, Dirs
  <2> QED
    BY <1>1, <1>2, <1>6, <2>1, <2>2, <2>3, SyncMoves DEF Backup, Sound, SoundIndex
<1>7. CASE Activate(p)
  <2>1. Goto(p, "secure") /\ "secure" \in SyncSteps /\ pc'[p] = "secure"
    BY <1>7, <1>3 DEF Activate, SyncSteps
  <2>2. root' = BuiltWith(rel[p], {})
    BY <1>7 DEF Activate, Built, BuiltWith
  <2>3. OwnInv(p)'
    BY <1>1, <1>7, <2>1, <2>2 DEF Activate, OwnInv, Backed, Secured, BuiltWith
  <2>4. Sound(root')
    BY <1>2, <2>2, BuiltSound
  <2> QED
    BY <1>1, <1>2, <1>7, <2>1, <2>3, <2>4, SyncMoves DEF Activate, Sound, SoundIndex
<1> QED
  BY <1>4, <1>5, <1>6, <1>7

\* After the swap.
LEMMA SecureStep ==
  ASSUME IInv, NEW p \in Processes, Secure(p) \/ RemoveBackup(p)
  PROVE  IInv'
<1> USE DEF IInv, locals, disk
<1>1. Syncing(p) /\ OwnInv(p) /\ Sound(root) /\ Sound(previous) /\ Sound(before[p])
  BY DEF Secure, RemoveBackup, Syncing, SyncSteps, SyncInv, DiskInv
<1>2. rel[p] \in Releases /\ backed \in BOOLEAN /\ activated \in BOOLEAN /\ spoiled \in BOOLEAN
  BY <1>1 DEF ReaderInv, TypeOK
<1>3. ASSUME NEW step \in SyncSteps, Goto(p, step) PROVE pc'[p] = step
  BY <1>3 DEF Goto, TypeOK
<1>4. CASE Secure(p)
  <2>1. PICK step \in {"secure", "finish"}, files \in {{"index.json"}, Files} :
           /\ Goto(p, step) /\ root' = [root EXCEPT !.private = files]
           /\ (step = "finish" <=> files = Files)
    BY <1>4 DEF Secure, Files
  <2>2. step \in SyncSteps /\ pc'[p] = step
    BY <2>1, <1>3 DEF SyncSteps
  <2>3. UNCHANGED <<rel, saw, before, kills, fetchVars, backed, activated, spoiled, previous>>
    BY <1>4 DEF Secure
  <2>4. Backed(p) /\ Indexable(rel[p]) /\ activated /\ \E f \in SUBSET Files : Secured(p, f)
    BY <1>1, <1>4 DEF Secure, OwnInv, Files
  <2>5. root' = BuiltWith(rel[p], files)
    <3>1. PICK f : root = [exists |-> TRUE, index |-> IndexOf(rel[p]),
                           integrity |-> rel[p], private |-> f]
      BY <2>4 DEF Secured, BuiltWith
    <3>2. root' = [root EXCEPT !.private = files]
      BY <2>1
    <3> QED
      BY <3>1, <3>2 DEF BuiltWith
  <2>6. Undoable(p)'
    BY <1>1, <1>2, <2>3, <2>4 DEF Undoable, Backed, Sound, Dirs
  <2>7. OwnInv(p)'
    BY <2>1, <2>2, <2>3, <2>4, <2>5, <2>6 DEF OwnInv, Backed, Secured, BuiltWith
  <2>8. Sound(root')
    BY <1>2, <2>5, BuiltSound DEF Files
  <2> QED
    BY <1>1, <1>2, <2>1, <2>2, <2>3, <2>7, <2>8, SyncMoves DEF Sound, SoundIndex
<1>5. CASE RemoveBackup(p)
  <2>1. Goto(p, "finish") /\ "finish" \in SyncSteps /\ pc'[p] = "finish"
    BY <1>5, <1>3 DEF RemoveBackup, SyncSteps
  <2>2. OwnInv(p)'
    BY <1>1, <1>5, <2>1 DEF RemoveBackup, OwnInv, Undoable, Secured, BuiltWith
  <2>3. Sound(previous')
    BY <1>1, <1>5, RemovalSound DEF RemoveBackup
  <2> QED
    BY <1>1, <1>2, <1>5, <2>1, <2>2, <2>3, SyncMoves DEF RemoveBackup, Sound, SoundIndex
<1> QED
  BY <1>4, <1>5

\* The way back.
LEMMA UndoStep ==
  ASSUME IInv, NEW p \in Processes, StepFails(p) \/ DropRoot(p) \/ Restore(p)
  PROVE  IInv'
<1> USE DEF IInv, locals, disk
<1>1. Syncing(p) /\ OwnInv(p) /\ Sound(root) /\ Sound(previous) /\ Sound(before[p])
  BY DEF StepFails, DropRoot, Restore, Syncing, SyncSteps, SyncInv, DiskInv
<1>2. backed \in BOOLEAN /\ activated \in BOOLEAN /\ spoiled \in BOOLEAN
  BY DEF TypeOK
<1>3. ASSUME NEW step \in SyncSteps, Goto(p, step) PROVE pc'[p] = step
  BY <1>3 DEF Goto, TypeOK
<1>4. CASE StepFails(p)
  <2>1. Goto(p, "dropRoot") /\ "dropRoot" \in SyncSteps /\ pc'[p] = "dropRoot"
    BY <1>4, <1>3 DEF StepFails, SyncSteps
  <2>2. Undoable(p)
    BY <1>1, <1>4 DEF StepFails, OwnInv, Untouched, Backed, Undoable, Sound
  <2>3. OwnInv(p)'
    BY <1>4, <2>1, <2>2 DEF StepFails, OwnInv, Undoable
  <2> QED
    BY <1>1, <1>2, <1>4, <2>1, <2>3, SyncMoves DEF StepFails, Sound, SoundIndex
<1>5. CASE DropRoot(p)
  <2>1. PICK step \in {"dropRoot", "restore"} : Goto(p, step)
    BY <1>5 DEF DropRoot
  <2>2. step \in SyncSteps /\ pc'[p] = step
    BY <2>1, <1>3 DEF SyncSteps
  <2>3. UNCHANGED <<rel, saw, before, kills, fetchVars, backed, activated, spoiled, previous>>
    BY <1>5 DEF DropRoot
  <2>4. Undoable(p)'
    BY <1>1, <1>5, <2>3 DEF DropRoot, OwnInv, Undoable
  <2>5. step = "restore" => (activated => ~root.exists) /\ root' = root
    BY <1>5, <2>2 DEF DropRoot, Goto, TypeOK
  <2>6. OwnInv(p)'
    BY <2>2, <2>3, <2>4, <2>5 DEF OwnInv
  <2>7. Sound(root')
    BY <1>1, <1>5, RemovalSound DEF DropRoot
  <2> QED
    BY <1>1, <1>2, <2>1, <2>2, <2>3, <2>6, <2>7, SyncMoves DEF Sound, SoundIndex
<1>6. CASE Restore(p)
  <2>1. Goto(p, "dropTemp") /\ "dropTemp" \in SyncSteps /\ pc'[p] = "dropTemp"
    BY <1>6, <1>3 DEF Restore, SyncSteps
  <2>2. UNCHANGED <<rel, saw, before, kills, fetchVars, backed, activated, spoiled>>
    BY <1>6 DEF Restore
  <2>3. Undoable(p) /\ (activated => ~root.exists)
    BY <1>1, <1>6 DEF Restore, OwnInv
  <2>4. spoiled \/ root' = before[p]
    BY <1>1, <1>6, <2>3 DEF Restore, Undoable, Sound
  <2>5. OwnInv(p)'
    BY <2>1, <2>2, <2>4 DEF OwnInv
  <2>6. Sound(root') /\ Sound(previous')
    BY <1>1, <1>6, GoneSound DEF Restore
  <2> QED
    BY <1>1, <1>2, <2>1, <2>2, <2>5, <2>6, SyncMoves DEF Sound, SoundIndex
<1> QED
  BY <1>4, <1>5, <1>6

\* Everything that ends an operation.
LEMMA LastStep ==
  ASSUME IInv, NEW p \in Processes,
         \/ LockTimesOut(p) \/ NotFetched(p) \/ Finish(p) \/ DropTemp(p)
         \/ UndoFails(p) \/ Verify(p) \/ Kill(p)
  PROVE  IInv'
<1>1. PICK word \in Words : End(p, word)
  BY DEF LockTimesOut, NotFetched, Finish, DropTemp, UndoFails, Verify, Kill, Verdict, Words
<1>2. UNCHANGED disk
  BY DEF LockTimesOut, NotFetched, Finish, DropTemp, UndoFails, Verify, Kill
<1>3. kills' \in 0..MaxKills
  <2>1. kills \in 0..MaxKills /\ MaxKills \in Nat
    BY CacheAssumption DEF IInv, TypeOK
  <2>2. kills' = kills \/ (kills < MaxKills /\ kills' = kills + 1)
    BY DEF LockTimesOut, NotFetched, Finish, DropTemp, UndoFails, Verify, Kill
  <2> QED
    BY <2>1, <2>2
<1>4. FetchTypeOK'
  <2>1. Quiet \/ UNCHANGED fetchVars
    BY DEF LockTimesOut, NotFetched, Finish, DropTemp, UndoFails, Verify, Kill
  <2> QED
    BY <2>1, FetchKeepsType DEF IInv, TypeOK
<1> QED
  BY <1>1, <1>2, <1>3, <1>4, EndStep

\* The fetch goes on, or nothing happens.
LEMMA OtherStep ==
  ASSUME IInv, Fetching \/ UNCHANGED vars
  PROVE  IInv'
<1>1. UNCHANGED cacheVars /\ FetchTypeOK'
  BY FetchKeepsType DEF Fetching, vars, IInv, TypeOK
<1> USE DEF IInv, cacheVars, locals, disk
<1>2. TypeOK'
  BY <1>1 DEF TypeOK, Syncing, Reading
<1>3. DiskInv' /\ ReaderInv' /\ FlagInv'
  BY <1>1 DEF DiskInv, Sound, SoundIndex, ReaderInv, FlagInv, Syncing, Reading
<1>4. SyncInv'
  BY <1>1 DEF SyncInv, OwnInv, Untouched, Backed, Undoable, Secured
<1> QED
  BY <1>2, <1>3, <1>4

LEMMA NextStep == IInv /\ [Next]_vars => IInv'
<1> SUFFICES ASSUME IInv, [Next]_vars PROVE IInv'
  OBVIOUS
<1>1. ASSUME NEW p \in Processes, Start(p) \/ Operation(p) \/ Kill(p)
      PROVE  IInv'
  BY <1>1, LockStep, ReadStep, SwapStep, SecureStep, UndoStep, LastStep
     DEF Operation, Sync, Undo
<1>2. CASE Fetching \/ UNCHANGED vars
  BY <1>2, OtherStep
<1> QED
  BY <1>1, <1>2 DEF Next

\* Which step ends what.
LEMMA EndsHow ==
  ASSUME IInv, Next, NEW p \in Processes, pc[p] # "idle", pc'[p] = "idle"
  PROVE  /\ pc[p] = "compare" => Verify(p)
         /\ told' = "synced" => Finish(p)
         /\ told' = "undone" => DropTemp(p)
<1> USE DEF IInv, TypeOK
<1>1. ASSUME NEW q \in Processes, Start(q) \/ Operation(q) \/ Kill(q)
      PROVE  q = p
  <2>1. \E step : pc' = [pc EXCEPT ![q] = step]
    BY <1>1 DEF Start, Operation, Sync, Undo, LockSync, LockRead, LockTimesOut, Enter,
       Fetched, NotFetched, Index, Clear, Backup, Activate, Secure, RemoveBackup, Finish,
       StepFails, DropRoot, Restore, DropTemp, UndoFails, Read, Verify, Kill, Goto, End
  <2> QED
    BY <2>1
<1>2. ~Fetching
  BY DEF Fetching, cacheVars
<1>3. Start(p) \/ Operation(p) \/ Kill(p)
  BY <1>1, <1>2 DEF Next
<1>4. CASE Start(p) \/ LockSync(p) \/ LockRead(p) \/ Read(p)
  BY <1>4 DEF Start, LockSync, LockRead, Enter, Read, Goto
<1>5. CASE Fetched(p) \/ Index(p) \/ Clear(p) \/ Backup(p) \/ Activate(p)
  BY <1>5 DEF Fetched, Index, Clear, Backup, Activate, Goto
<1>6. CASE \/ Secure(p) \/ RemoveBackup(p) \/ StepFails(p) \/ DropRoot(p) \/ Restore(p)
  BY <1>6 DEF Secure, RemoveBackup, StepFails, DropRoot, Restore, Goto
<1>7. CASE LockTimesOut(p) \/ NotFetched(p) \/ UndoFails(p) \/ Kill(p)
  BY <1>7 DEF LockTimesOut, NotFetched, UndoFails, Kill, End, Syncing, SyncSteps
<1>8. CASE Finish(p) \/ DropTemp(p)
  BY <1>8 DEF Finish, DropTemp, End
<1>9. CASE Verify(p)
  BY <1>9 DEF Verify, End, Verdict
<1> QED
  BY <1>3, <1>4, <1>5, <1>6, <1>7, <1>8, <1>9 DEF Operation, Sync, Undo

LEMMA Invariance == Spec => []IInv
<1>1. Init => IInv
  BY Initially
<1> QED
  BY <1>1, NextStep, PTL DEF Spec

-----------------------------------------------------------------------------
(* The theorems.                                                           *)

\* The types; and a sync has the cache for itself.
THEOREM TypeCorrect == Spec => []TypeOK
<1>1. IInv => TypeOK
  BY DEF IInv
<1> QED
  BY <1>1, Invariance, PTL

\* sync: what it reports as its entries, the next reader of its release takes
\* for verified, whatever other syncs have left.
THEOREM SyncsDeliver == Spec => SyncDelivers
<1> DEFINE A(p) == Ends(p, "synced") /\ rel[p] \notin Repeats =>
                     Verdict(root', root'.index, rel[p]) = "verified"
<1>1. IInv /\ [Next]_vars => [\A p \in Processes : A(p)]_vars
  <2> SUFFICES ASSUME IInv, Next, NEW p \in Processes, Ends(p, "synced"), rel[p] \notin Repeats
               PROVE  Verdict(root', root'.index, rel[p]) = "verified"
    OBVIOUS
  <2>1. Finish(p)
    BY EndsHow DEF Ends
  <2>2. root' = BuiltWith(rel[p], Files) /\ Indexable(rel[p]) /\ rel[p] \in Releases
    BY <2>1 DEF Finish, disk, IInv, SyncInv, OwnInv, Secured, ReaderInv, Syncing, SyncSteps
  <2>3. Runnable(rel[p]) = Allow[rel[p]]
    BY <2>2, RunnableReviewed
  <2> QED
    BY <2>2, <2>3 DEF Verdict, BuiltWith, IndexOf
<1> QED
  BY <1>1, Invariance, PTL DEF Spec, SyncDelivers

\* sync: one that fails and undoes what it did leaves the cache it found.
THEOREM FailureKeeps == Spec => FailedSyncKeeps
<1> DEFINE A(p) == Ends(p, "undone") /\ ~spoiled => root' = before[p]
<1>1. IInv /\ [Next]_vars => [\A p \in Processes : A(p)]_vars
  <2> SUFFICES ASSUME IInv, Next, NEW p \in Processes, Ends(p, "undone"), ~spoiled
               PROVE  root' = before[p]
    OBVIOUS
  <2>1. DropTemp(p)
    BY EndsHow DEF Ends
  <2> QED
    BY <2>1 DEF DropTemp, disk, IInv, SyncInv, OwnInv
<1> QED
  BY <1>1, Invariance, PTL DEF Spec, FailedSyncKeeps

\* status and entries: the answer is that of the cache the reader found.
THEOREM ReadersAlone == Spec => ReadersUndisturbed
<1> DEFINE A(p) == pc[p] = "compare" /\ pc'[p] = "idle" =>
                     told' = Verdict(before[p], before[p].index, rel[p])
<1>1. IInv /\ [Next]_vars => [\A p \in Processes : A(p)]_vars
  <2> SUFFICES ASSUME IInv, Next, NEW p \in Processes, pc[p] = "compare", pc'[p] = "idle"
               PROVE  told' = Verdict(before[p], before[p].index, rel[p])
    OBVIOUS
  <2>1. Verify(p)
    BY EndsHow DEF Ends
  <2>2. before[p] = root /\ saw[p] = root.index
    BY DEF IInv, ReaderInv, Reading, ReadSteps
  <2> QED
    BY <2>1, <2>2 DEF Verify, End
<1> QED
  BY <1>1, Invariance, PTL DEF Spec, ReadersUndisturbed

\* entries: a verified cache offers what the reader's release has reviewed.
THEOREM ReviewedOnly == Spec => RunsOnlyReviewed
<1> DEFINE A(p) == pc[p] = "compare" /\ Ends(p, "verified") =>
                     /\ root.index.runnable = Allow[rel[p]]
                     /\ \A e \in root.index.runnable : Compose[rel[p]][e] = "accepted"
<1>1. IInv /\ [Next]_vars => [\A p \in Processes : A(p)]_vars
  <2> SUFFICES ASSUME IInv, Next, NEW p \in Processes, pc[p] = "compare", Ends(p, "verified")
               PROVE  /\ root.index.runnable = Allow[rel[p]]
                      /\ \A e \in root.index.runnable : Compose[rel[p]][e] = "accepted"
    OBVIOUS
  <2>1. Verify(p)
    BY EndsHow DEF Ends
  <2>2. /\ saw[p] = root.index /\ SoundIndex(root.index) /\ rel[p] \in Releases
        /\ Verdict(root, saw[p], rel[p]) = "verified"
    BY <2>1 DEF Ends, Verify, End, IInv, ReaderInv, DiskInv, Sound, Reading, ReadSteps
  <2>3. root.index.of = rel[p] /\ root.index.runnable = Allow[rel[p]]
    BY <2>2 DEF Verdict
  <2>4. root.index = IndexOf(rel[p])
    <3>1. root.index # NoIndex
      BY <2>2, <2>3, CacheAssumption DEF NoIndex
    <3>2. PICK r \in Releases : root.index = IndexOf(r)
      BY <2>2, <3>1 DEF SoundIndex
    <3>3. r = rel[p]
      BY <2>3, <3>2 DEF IndexOf
    <3> QED
      BY <3>2, <3>3
  <2> QED
    BY <2>3, <2>4 DEF IndexOf, Runnable
<1> QED
  BY <1>1, Invariance, PTL DEF Spec, RunsOnlyReviewed
=============================================================================
