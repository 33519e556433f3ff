# VulnDockyard in TLA+

VulnDockyard is a command-line controller for deliberately vulnerable training
laboratories in Docker.  Each invocation is a short-lived process; what the
invocations share is a directory of state files and the Docker daemon, and no
step changes both.  This directory models what the program promises across
those two stores when commands fail, die and are repeated, and what its smaller
parts promise: the lock, the confirmation of destructive commands, the hosts
file, the Vulhub cache, the bounded fetch and the subprocess runner.  It checks
all of it with TLC on small instances, and proves with TLAPS, for all instances,
every invariant and every action property that it checks.

Paths below are relative to `src/src/vulndockyard/`.

## 1. The system

| Component | State it keeps | Operations | Talks to |
|---|---|---|---|
| **Runtime** (`runtime.py`) | none between commands; in memory, the `RunState` it is working on | `up`, `stop`, `restart`, `rebuild`, `remove`, `reset`, `purge`; `activate_reviewed_update`; `status`, `logs`, `open`, `verify`; `cleanup_preview` | store, Docker adapter, lock |
| **Run-state store** (`state.py`) | `runs/<lab>.json` (one `RunState`: run identity, phase, recorded objects), `updates/<lab>.json` (`UpdateJournal`) | `load`, `save` (closed parser, temp file, rename, fsync), `delete`, `all` | file system |
| **Lifecycle lock** (`state.py`, `runtime.py`) | `flock` on `.lifecycle.lock`, thread `RLock`, depth | `_lifecycle`, `lifecycle_lock` | kernel |
| **Docker adapter** (`docker.py`) | none; the daemon holds labelled networks, volumes, containers | create, start, stop, remove, inspect, `managed_resources` | subprocess runner |
| **Subprocess runner** (`process.py`) | output buffers of one child | `run` with timeout, output bound, group termination | kernel |
| **Hosts manager and helper** (`hosts.py`, `data/helpers/vulndockyard-hosts`, `privilege.py`) | the managed block of `/etc/hosts` | preview, confirm, checked replace | file system, `sudo` |
| **Vulhub provider cache** (`provider.py`) | cache directory, its `.previous` sibling, shared/exclusive lock | `sync`, `status`, `entries`, `search` | bounded fetch |
| **Bounded fetch** (`httpio.py`) | worker thread, one-slot queue, response holder | `fetch_bounded` | network |
| **Update protocol** (`updates.py`) | none | `check_latest`, `transactional_replace`, `apply_reviewed_update` | runtime |
| **Command line** (`cli.py`, `output.py`, `errors.py`) | none | one command per process, destructive preview and confirmation | everything |
| **Catalogue, models, Compose policy, paths, JSON** | packaged data | validation | - |

What is hard, and the property that answers it:

- *Two stores, no transaction.*  A command alternates Docker calls and
  state-file writes.  It can be killed between any two, any call can fail with
  or without its effect, and the next command starts from what is left.  So:
  nothing that exists may ever lose its owner (`NoLostOwnership`), the record
  lags the daemon by at most one creation (`JournalLag`), a success report
  tells the truth (`CommandPromise`), and some command always gets out
  (`UpRecovers`, `RemoveRecovers`, `RemoveAlwaysRecovers`).
- *Data that must survive repair.*  The destructive `_cleanup` is shared by
  remove, reset, purge, the undoing of a failed start, the recovery of an
  interrupted start and the repair of an incomplete laboratory
  (`PersistentDataSafe`).
- *Data that must not survive unseeded.*  Disposable storage is tmpfs: it is
  empty whenever no running container mounts it, and the seeder and the
  application hand it over (`SeededWhileServing`).
- *Two runs at once.*  An update runs a candidate beside the previous run, moves
  the reviewed port over and removes one of the two, under a journal.  Whatever
  is interrupted, no object may be orphaned (`Accounted`), only one gateway may
  claim the port (`OnePortOwner`), a deployment to go on with must remain
  (`RollbackBase`, `ImplementsReplacement`), a stopped laboratory must end
  stopped (`OnlyRolesRestarted`), and recovery must end (`CleanupResolves`,
  `ExecutionResolves`).
- *Several processes.*  The lock serialises operations (`MutualExclusion`), is
  refused for a real holder only (`RefusedByOperation`) and never waited for
  without end (`PollingEnds`).  Destructive commands ask outside it; they still
  remove only what was shown (`OnlyReviewedGoes`, `OnlyReviewedImagesGo`).
- *A file without a lock.*  `/etc/hosts` has writers that lock nothing, and a
  helper under `sudo` that may outlive its command.  What is written is what was
  confirmed (`AppliesWhatWasConfirmed`), other lines stay (`UnrelatedLinesKept`),
  and the two implementations of the block are one function that can be undone
  (`HelperAgrees`, `RoundTrip`).
- *A cache swapped by two renames*, by processes of several releases, killed and
  failing anywhere: `SyncDelivers`, `FailedSyncKeeps`, `ReadersUndisturbed`,
  `RunsOnlyReviewed`.
- *Deadlines.*  A late HTTP answer (`ResponseCloses`, `FetchReturns`); a child
  that hangs, forks, dies before its output is read or ignores signals
  (`RunReturns`, `OutputWhole`, `NoSurvivors`); a Docker request that outlives
  the command that made it (`ReturnMeansDone`).

## 2. Modules

| Module | What it is |
|---|---|
| `RunLifecycle` | one laboratory: store, daemon, and the command in progress |
| `UpdateTransaction` | the update of `runtime.py` and its two recoveries; implements `Replacement` |
| `Replacement` | what a transactional update promises, in four variables |
| `LifecycleLock` | the thread lock and the file lock around every operation |
| `DestructivePreview` | preview, confirmation and removal; its commands take `LifecycleLock`'s steps |
| `HostsText` | the managed block as functions on texts: `hosts.py` and the helper's copy |
| `HostsFile` | commands, helpers and editors at one file, on top of `HostsText` |
| `BoundedFetch` | caller, worker thread, queue and response of one fetch |
| `ProviderCache` | sync and readers; its sync contains a `BoundedFetch` |
| `SubprocessRun` | the runner, one child with its group, and the daemon |
| `MCDestructivePreview`, `MCHostsFile`, `MCProviderCache` | functions and symmetry for TLC; the other modules need none |
| `RunLifecycle_proofs`, `RunPromises_proofs`, `UpdateTransaction_proofs`, `Replacement_proofs`, `DestructivePreview_proofs` (with the lock's), `HostsFile_proofs` (with those of `HostsText`), `ProviderCache_proofs`, `SubprocessRun_proofs` | theorems for all constants |

### RunLifecycle

State.  `objs`, `running` and `seeded` are the daemon: the managed objects
(pairs of a run and a deterministic name), the running containers, and the runs
whose storage holds the reviewed seed data.  `disk` is `runs/<lab>.json`, or
`NoState`.  `pc`, `st`, `todo` and `ret` are the memory of the running command:
where it is, the `RunState` it holds, what its current loop still has to visit,
and where a shared procedure returns to.  `cmd` and `outcome` name the command
and its exit.  `calm` turns TRUE once and for all when nothing fails any more;
it is the antecedent of the recovery properties.

Actions.  A command is a path through labels named after the methods.
`StartCommand` takes the lock.  `RecoverTransients` ... `SaveState` are
`_recover_runtime_transients_for_cleanup` with `_adopt_journaled_candidate`
(`Adopted`) and `_discard_rollback_seeder`.  `CleanupValidate`,
`CleanupRemove`, `CleanupDone` are `_cleanup`; `DeleteState` is `store.delete`
after it.  `Stop*`, `Remove`, `Rebuild` are the methods of that name.  `UpLoad`
and `UpLayout` are the two halves of `_up` around its orphan check; `CreateRun`
is the first checkpoint of `_create_run`.  `_create_run`, `_reseed_and_start`
and the second half of `_resume_persistent_rebuild` create, seed, start and
check the same way, so they share `Create` ... `Publish` and are told apart by
the phase of `st` (provisioning, steady, rebuild); `Storage` says what each has
to create.  `Resume`, `Clear`, `RecordCleared` are the first half of the
rebuild.  `RaiseOut` and `RaiseInto` are an exception, without and with a
handler around it; `Undo` is the handler of `_create_run`, `Halt*` those of the
other three.  `Check` collects the code's own refusals; a step whose check is
false can only raise.

Environment.  `Crash` kills the process between any two steps.
`ContainerExits` stops a container behind the program's back (they are created
with `--restart no`).  `SeederWrites` is the seeder finishing its copy; without
it `_wait_for_seeder` only ends by raising.

Abstractions.

- A Docker call that returned or raised has finished: it took effect or it did
  not.  For a call that returned success that is what the code does
  (`ReturnMeansDone` of `SubprocessRun`).  After an exception the daemon may
  still do what it was asked; here it has done so by the time the call raises,
  or never does.
- Ports, pulls, preflight, foreign consumers, label mismatches, timeouts and a
  full disk are all "the call raises" (`Raises`), at every step.
- Network attachments and their repair, the health request's content, and the
  policy validation of inspections are not modelled.
- One laboratory, one manifest, a trusted image, no update journal; state files
  of older schemas are not modelled.  `purge` without `--images` is `remove`.
- Nothing but the program removes its objects (no `docker rm` by hand).
- Where a check and the call it guards are adjacent they are one step, except
  around the application's start, where the seeder may exit in between
  (`HoldSeeder`, `StartApp`, `AppStarted`).
- Seeding is all or nothing per run.
- A `KeyboardInterrupt` inside a handler is a `Crash` there.
- A fresh `uuid4` is any run identity of which nothing exists.

### UpdateTransaction

State.  `objs`, `running` and `disk` as above, for the runs; `jr` is
`updates/<lab>.json` or `NoJournal`, and `mem` the journal in the command's
memory.  A journal has its phase (staged, cutover, ready), the two runs with
their recorded objects, and the roles that ran before.  A gateway's name says
its port: `temporary`, or one of the two identities (`gateway`, `again`) on the
reviewed port.  Two are enough because a rollback recreates the gateway at most
once before its identity is journaled.

Actions.  `Stage` is `activate_reviewed_update` up to the first journal,
`CreateCandidate` ... `OpenTemporary` its call of `_create_run`, `Smoke` to
`Forget` the rest.  `Recover` is a later command that finds a journal:
`JudgeMatch` and `JudgeMismatch` decide about a ready candidate, `Restore` to
`Restored` are `_restore_previous_update` with `_adopt_rollback_gateway`,
`_adopt_rollback_seeder`, `_discard_rollback_seeder` and `_reseed_and_start`,
`Survive` is the end of `_recover_update_for_cleanup`, which shares the steps
before it and is told apart by `cmd`.  `SaveJournal` and `SavePrevious` are the
checkpoints; the tables `AfterSave` and `AfterStore` say where each goes on.
`Raise` leads into the handler of `_create_run` (`Abandon`), of the update
(`restore`, from the journal on disk) or of `_reseed_and_start` (`Halt`).
`OtherCommand` is everything else that happens to the run between updates,
summarised from `RunLifecycle`.

`Recover` takes any manifest: with another one than the candidate's installed,
a ready journal is rolled back.

Abstractions beyond those of `RunLifecycle`: a run's networks and volumes are
one object, `base`; whether the seeder ran and copied is left out; policy drift
and a failing health request are "the call raises"; the command that recovered
ends there, since what it does next is a command of its own; the refusals for
persistent, untrusted and legacy previous runs are preconditions.

### Replacement

The protocol of `updates.py`: stage, verify, then either retire the current
deployment or give the candidate up.  A deployment is *intact* while its base
and its application exist.  The mapping reads `current` and `candidate` from the
journal (the state file when there is none), `verified` from its phase and
`intact` from the daemon.  Cleanup-only recovery does not implement it, by the
comment at `runtime.py:1671`: it never repairs, so it discards a candidate that
fails its validation even if the previous run is half removed.

### LifecycleLock and DestructivePreview

A thread (*caller*) calls a `Runtime`; on the command line each process has one.
`at` says where each caller is, `thread`, `depth` and `flock` are the thread
lock and `_lock_depth` of each runtime and the one file lock.  `TakeThread`
takes the first and, if the depth is not 0, nests; `TakeFile` and `GiveUp` are
the non-blocking tries before and after the deadline; `Leave` and
`ReleaseThread` are the two ends of the `with` statement, since between them
another process may go first.  `Crash` drops both, as the kernel does.

`DestructivePreview` runs commands through it.  `Begin`, `Preview`, then outside
the lock `PrintToken`, `Confirm` or `Decline`, then `Apply` (the fingerprint),
`RemoveNext`, `RemoveDone`, `RemoveImages`.  A preview's token is its scope and
its list, and a command may bring one that an earlier process printed.  Objects
are pairs of a run and an identity, which is what the fingerprint compares.  The
other commands (`BeginOther` to `OtherForget`) create and remove whatever is
recorded, in any order and nested; `Foreign` is a second installation with other
state files on the same daemon, `Vanish` somebody's `docker rm`.

### HostsText and HostsFile

A text is a sequence of tokens: line feeds, markers, managed entries, foreign
words.  `Transform` is `transform_hosts`, `HelperTransform` the helper's own
copy.  In `HostsFile` a command previews, asks and hands over to a *writer*, the
helper under `sudo` (`HelperSnapshot`), or itself for any other path than
`/etc/hosts` (`ApplySnapshot`, `system`).  A writer compares, `RequireUnchanged`
is `_require_unchanged`, and `Replace` is the rename.  `stale` and `raced` note
that somebody wrote since the writer's snapshot, and since its last comparison.
`Abandon` is a command that is killed or gives its helper up at the timeout; the
helper goes on.  Ownership, mode and checksum of the helper and of the file are
"the step fails" (`Fail`, `GiveUp`).

### BoundedFetch and ProviderCache

`BoundedFetch`: `Open`, `Hold`, `ReadEnds`/`ReadStops`/`ReadFails`, `Report` and
`ClearHolder` are the thread, `Receive` and `GiveUpFetch` its caller, `Expire`
the deadline.  Bodies are the published one, a truncated one and another.

`ProviderCache`: `root` and `previous` are the two directories, reduced to what
a reader verifies: which release wrote the index, what it offers to run, which
release the integrity file names, and which files have their private mode.
`LockSync`, `Fetched`, `Index`, `Clear`, `Backup`, `Activate`, `Secure`,
`RemoveBackup`, `Finish` are `sync`; `StepFails`, `DropRoot`, `Restore`,
`DropTemp` its handler; `Read` and `Verify` the reader.  `rmtree` goes file by
file (`RemovalOf`).  A *release* is a build of the program, with the archive it
pins and its allowlist, so that one process may meet what another release left.
`before` and `spoiled` remember what the properties compare with.

What the code does that a reader might not expect, and the model shows: a kill
between the renames leaves no cache, and the next sync removes the verified
backup before it has a new one in place; a failure while the backup is being
removed drops the new cache and restores what is left of the old one
(`spoiled`); a release whose index names a CVE twice writes an index that its
own parser refuses (`Repeats`: `_index` sorts, `_parse_entries` wants no
duplicates).  Abstractions: extraction and the extracted tree, which no reader
uses; the descriptive fields of an entry; a rename and the flag assigned right
after it are one step; temporary directories that a kill leaves behind.

### SubprocessRun

The runner's labels follow `run` (`SetUp`, `Head`, `Read`, `EndOfFile`,
`SelectEmpty`, `ReadBlocks`, `Wait`) and `_terminate` (`Terminate`, `Grace`,
`Kill`, `Reap`).
Around it are the external parts: a child that may fork a plug-in, write, close
its output, exit in any order, and ignore SIGTERM (`deaf`), and the daemon,
which serves the request whether or not its client still lives.  The two pipes
are one, content is counted in reads; one `os.read` takes up to 65,536 bytes
(`process.py:138`), so the bound of `TypeOK` is, in bytes, the limit and one such
read.  `ReadBlocks` stands for the
`BlockingIOError` of the forced read when a descendant still holds the pipe: it
reaches the caller of `Runner.run` as it is, not as the program's own error, and
here both are "an exception".  Reuse of process identifiers is not modelled.

`run` has four ends, and they differ in who is left of the group:

| End | Code | Who may be left |
|---|---|---|
| `returned` | a result (line 166) | a plug-in that closed its output |
| `failed` | `CommandError`, for a nonzero code with `check` (lines 164-165) | the same: nobody is terminated |
| `raised` | an exception in the `try`, `KeyboardInterrupt` included (`Interrupt`), after `_terminate` | only who is about to die of a SIGKILL |
| `aborted` | no such executable; the selector's set-up fails (lines 123-127, `SetUpFails`); `_terminate` itself is interrupted (`TerminateInterrupted`) | anybody |

`NoSurvivors` states the first three.  The last is no divergence, as no document
promises anything about it; still, a failure between `Popen` and the `try` leaves
the command running with nobody to signal or wait for it.  `check` is an argument
of each call, so `Return` takes either value.

## 3. Runs

Nothing bounds the state but what the table names; commands, crashes and
failures repeat without limit where it names no number.

| Run | Question | Instance | Result |
|---|---|---|---|
| `disposable` | ownership, journal lag and honest storage on tmpfs; do remove and up always get through? | 2 runs, 2 volumes | holds |
| `persistent` | the inductive invariant, the promises of success, the safety of the data, recovery | same | holds, recovery except `Stuck` and `Damaged` |
| `stuck_remove` | does remove always get through, without the exception? | 1 run, 2 volumes | violated, 1 |
| `restart_refuses` | does restart resume an interrupted rebuild? | same | violated, 2 |
| `unseeded` | blank storage, with suppressed stops that fail | same | violated, 3 |
| `update` | the invariants and the end of an update under both recoveries; does it implement `Replacement`? | 2 runs | holds, execution except `Wrecked` |
| `update_wrecked` | does executing recovery always end, without the exception? | 2 runs | violated, 4 |
| `preview` | exclusion, refusal and polling of the lock; is only removed what was shown? | 2 processes (1 destructive), 2 runs, 2 identities, depth 2 | holds |
| `hosts` | what is written, and what becomes of other lines | 2 commands, 2 names, 2 foreign lines, 1 edit | holds, except `raced` and `Glues` |
| `hosts_glue` | other lines, without the exception `Glues` | 1 command | violated, 5 |
| `provider` | sync, failed sync, readers, what is offered to run, the fetch inside sync | 2 processes, 3 releases, 2 environments, 1 kill | holds |
| `runner` | the output, who is left of the group, the return, and the daemon's part | limit 2, 4 writes | holds |

Why the bounds are enough.  Two volumes are the fewest for which a removal can
be interrupted between volumes.  Two run identities: a new run is created only
when nothing of the old one is left, and the second shows what would happen if
something were; an update never knows more than two, and a third reuses the
identity that is gone.  Two processes around the confirmation, one of them
destructive, with the second able to be a complete other command in between.
Nesting to depth 2 distinguishes outermost from nested.  Two commands and an
edit race in every order for the hosts file; three releases are one that
reviewed something, one whose archive changed it and names a CVE twice, and one
whose policy has come to refuse what it reviewed.  One kill, at any step
of a sync, shows each state a kill alone can leave to the next sync and reader;
what several kills leave is covered by the proofs, which have no bound on kills.
Four writes are two more than the limit of two, enough to be under it, at it,
over it by one and to keep writing afterwards.  Symmetry is used for
the hosts file only, which has no liveness property.

Each property is also run against a changed model: `PROJECT.json` lists, for
every one, an operator marked `Mutant` in its module that replaces the code's
step, and under which TLC finds the property violated.

Type invariants are checked in `runner` and, as part of `IInv`, in `persistent`;
those of `RunLifecycle`, `UpdateTransaction`, `DestructivePreview`,
`HostsFile`, `ProviderCache` and `SubprocessRun` are proved.

What the violations show:

1. **A removal that cannot be repeated** (`RunStuckRemove`).  `rebuild` is
   interrupted, then `remove` is interrupted after the first persistent volume
   is gone.  Every later `stop`, `remove`, `reset` and `purge` first adopts the
   daemon's inventory, which lacks that volume, and saves it; the parser
   refuses a rebuild without all its volumes (`state.py:361`), so the command
   fails before it removes anything.  `up` and `rebuild` refuse for the missing
   volume.  The message at `runtime.py:1711` promises cleanup.
2. **restart does not resume a rebuild** (`RunRestartRefuses`).  `restart` goes
   through `_stop`, which compares the record with the daemon without adopting;
   a rebuild interrupted between an object and its checkpoint makes it refuse
   every time.  `up` and `rebuild` adopt first and succeed.
3. **Blank storage in service** (`RunUnseeded`).  The seeder exits between the
   last check and the application's start; the failure handler's stops fail and
   are suppressed; the application stays up on an empty tmpfs.  The next `up`
   finds it running and starts only the gateway.

4. **An update that can go neither way** (`UpdateWrecked`).  The candidate is
   ready and the cleanup of the previous run is cut after its application is
   gone; then a container of the candidate stops, for which a reboot is enough.
   Every later up, restart, rebuild or update finds running roles that differ
   from the journal, tries to restore the previous run, misses its resources and
   keeps the journal (`runtime.py:1478`, `1625`).  `docs/updates.md:55` says a
   journaled ready candidate completes.  `stop` and `remove` get out, by
   discarding the candidate.
5. **Two lines glued** (`UnrelatedLinesAlwaysKept`).  A hosts file without a
   final line feed gets one before the block.  Another program appends a line
   after the block; removing the block then takes that line feed along
   (`hosts.py:107`) and joins two lines that are not the program's.
   `docs/threat-model.md:44` promises "preservation of unrelated bytes".

`Damaged` deserves a note: a `remove` of a steady laboratory interrupted
between volumes makes every later `up` refuse (`_validate_state` wants exactly
the reviewed storage), although `_up` has a branch that would discard an
incomplete disposable laboratory; `remove` and `reset` still work.

### Fairness

`RunLifecycle` and `UpdateTransaction`.  `WF(Program)`: a command that was
started goes on, because every wait in the code has a timeout and an exception
is a step too.  `WF(SeederWrites)`: the seeder copies a bounded tree.  The
recovery properties each assume that the user insists on one command
(`Insists`), which is strong fairness of it: other commands come and go in
between, so they hold however the user mixes commands, as long as that one is
among them for ever.  For updates the insisting user has the manifest of the
candidate installed.  Crashes and failures end at some point (`calm`), which is
the assumption of the property and not of the specification: nothing forces
`CalmDown`.

`DestructivePreview`.  `WF(Polls(c))`: time passes, and a caller that polls tries
again or is refused.  Nothing is assumed of the holder, which may keep the lock
for ever; that is why there is a deadline.

`BoundedFetch`.  `FetchFairness` is that of the thread's own steps, of the caller
and of the clock.  Opening may take for ever and so may the peer.  Processes
need not end: the readiness probe (`runtime.py:533`) fetches again and again in
one process, so a response has to be closed by the fetch itself.

`SubprocessRun`.  The runner's loop, its clock, and the death of a member that a
signal reached.  The command may hang, the daemon may never answer, and no
interrupt has to come.

## 4. Proofs

All theorems follow from the named assumptions on the constants alone.  Each
proof module has an inductive invariant (`IInv`; where there are more, they build
on each other), and the usual argument: it holds initially, every step keeps it
(one lemma per action or small group of actions), and each theorem follows from
it; action properties by one more case distinction over the actions.

**RunLifecycle_proofs**: `TypeCorrect`, `Ownership` (`NoLostOwnership`),
`DataSafe` (`PersistentDataSafe`), and `Invariance` itself, which `persistent`
checks.  `NoLostOwnership` is not inductive: the state file is deleted
(`DeleteState`) and created (`CreateRun`) while objects might exist, so `IInv`
carries what those steps rely on.  `RemovalInv` says that a cleanup in progress
still has all remaining objects on its list, hence that nothing exists when the
file is deleted or first written; `MemoryInv` that the state in memory is of the
run on disk, with the same phase wherever it can be saved; `ReturnInv` where
shared procedures may continue.  For the data, `DestructionInv` says that only
remove, purge, reset or the undoing of a first start reach `_cleanup` over
persistent volumes, and `SeederInv` that a persistent run gets no seeder after
its first start.  `DataStep` shows the action property from it.

**RunPromises_proofs**: `LagBounded` (`JournalLag`), `SuccessIsHonest`
(`CommandPromise`) and `ServedIsSeeded` (`SeededWhileServing`).  The first two are
from `PInv` on top of `IInv`.  `RecordInv` says what each step
knows of the objects: between a creation and its checkpoint exactly the object
on the list is unrecorded, after adoption nothing is.  A failure loses that
knowledge, so `LagInv` bounds what the handler has in memory as well, because
`halt` saves it.  `ReadyInv` and `SteadyInv` say which containers a step counts on,
hence that a laboratory found healthy is one the report may call so;
`CommandInv` keeps stop and remove on their own way, and `StatusInv` is what is
already true when only the report is left.

`ServedIsSeeded` adds `SeedInv`.  That an application serves seed data is not
inductive because it is decided long before: an application and its gateway run
only after the storage was filled, handed over and, when that failed, the
application stopped again.  `ClosedInv` says that the gateway is down until the
application has started.  For persistent storage `KeptInv` says that it is seeded
once, before its first application, and that nothing but its removal empties it.
For tmpfs there are two owners to follow: `HeldInv` says that from the end of the
copy until the application holds it, the seeder is recorded and its storage full
as long as it runs, and that past the last check nothing can be blank any more;
`LeftInv` that an application on blank storage (`Blank`) is never left behind by
a handler without its seeder, which the next start notices, or the mark of the
suppressed stop, which is the exception.  `StorageKept`, `Starts` and `Blanks`
each say once, for all steps, what can fill and empty the storage, what can start
an application, and hence who can become blank.

**UpdateTransaction_proofs**: every invariant and action property of the `update`
run (`Accounted`, `OnePortOwner`, `RollbackBase`, `OnlyRolesRestarted`,
`CleanupStartsNothing`, `EndsComplete`) and `UpdateReplaces`, the refinement.  The
invariant speaks of what one run has (`Held`) and runs (`Served`), so that
adoption and removal are facts about one run at a time.  `PortInv`, `JournalInv`
and `MemoryInv` relate the daemon, the journal on disk and the one in memory at
each step; `SteadyInv` is the laboratory without a journal, `CandidateInv` and
`CompletionInv` the way forward, `RollbackInv` the way back.  Adoption
(`WithCandidate`, `WithPrevious`) is what makes it work: an object is in the
journal, or it is one that adoption recognises by its name, and the checkpoints
keep that difference to the objects of one step.  A transaction can conclude at
three places only (`Concluding`), and `Conclusion` says what each has
established there, from which `RolesRespected` and `CompleteAtTheEnd` follow.
For the refinement, `Unseen` says which steps leave all four variables of the
abstract replacement alone, and each of the others is shown to be one of its
actions.

**Replacement_proofs**: `AlwaysRecoverable`, a replacement keeps an intact
deployment, the current one or a verified candidate.  With `UpdateReplaces` that
becomes `AlwaysADeployment` of `UpdateTransaction_proofs`: as long as recovery
executes (`Executing`), no interruption of an update leaves nothing to go on with.
The hypothesis is needed: TLC finds a cleanup that gives up the candidate beside a
previous run that is half removed.

**DestructivePreview_proofs**: `LockExcludes` for the lock alone, from `LockInv`
(who is inside holds both locks, and a depth is nobody's but theirs); then
`LockSimulation`, that every step of `DestructivePreview` is one of the lock or
leaves it alone (`UsesLock`), which carries exclusion over (`OneAtATime`).
`ReviewedOnly` (`OnlyReviewedGoes`) adds `PreviewInv`: past the comparison a command owns nothing
that it has not shown, because nobody else can record a run while it is inside.
`ImagesReviewed` (`OnlyReviewedImagesGo`) is from the same invariant.
`LockRefusesFairly` says of the lock that who gives up polling was kept out by an
operation in progress: a file lock that is held has a depth, and a depth somebody
inside.  The simulation carries it over too (`RefusedFairly`,
`RefusedByOperation`).
The number of threads, processes and nested calls is arbitrary.

**HostsFile_proofs**: every property of the `hosts` run, `RoundTrips`
(`RoundTrip`), `HelpersAgree` (`HelperAgrees`), `ConfirmedOnly`
(`AppliesWhatWasConfirmed`) and `UnrelatedKept` (`UnrelatedLinesKept`), for texts
of any length and any number of names.  Most of it is about the operators of
`HostsText`.  Any set of friendly names can be sorted (`SortedIs`), so a block has
its entries.  A block put between a text that ends with a line feed and any other
text without markers is found again: the whole is well formed, and its parts and
its names are those it was put together from (`FramedIs`).  What is around the
block of a well-formed text is such texts (`SplitIs`), so `FramedIs` applies to
whatever `Transform` writes (`TransformIs`, `RoundTripIs`), and the helper's copy
differs only where nothing was to be done (`HelperIs`).  For the lines, a reader
of two texts, the first of which ends a line, reads the lines of the first and
then those of the second (`LinesJoin`), and a line feed at the end makes no line
(`LinesEnd`); `UnrelatedIs` puts these together, with `Glues` as the one case where
neither applies.  The steps need little then: `HInv` says that what a command or
its writer still has to do can be done to the text that was confirmed, and that
this text is still in the file until `stale` or `raced` says otherwise.

**ProviderCache_proofs**: `SyncsDeliver`, `FailureKeeps`, `ReadersAlone`,
`ReviewedOnly`.  `DiskInv` says that every index on disk is one that some release
wrote, or none, even half-removed; `SyncInv` what the two directories are at each
step of a sync and of its handler; `ReaderInv` that the cache is what a reader
found; `FlagInv` that the handler's flags are down between syncs.

**SubprocessRun_proofs**: `WholeOutput`, `SuccessIsDone`, `NobodyLeft`, and a type
invariant that bounds what is captured by the limit and one read, for any limit
and any amount of output.  `CaptureInv` accounts for every read between writer and
reader, `CodeInv` for where an exit code of zero can come from, `KillInv` for
whoever is alive after SIGKILL and after a wait.  `NobodyLeft` is about the ends
behind the `try`, not about `aborted`.

Induction.  The library's induction theorems take a predicate as a parameter,
which the provers cannot instantiate.  The two inductions that `HostsFile_proofs`
needs, over the places of the sorted names and over the tokens of a text, go
through a lemma about a *set* of naturals (`Upward`), which follows from the
existence of a least member and is used with the set of those naturals for which
the claim holds.

Checked by TLC only is liveness: `UpRecovers`, `RemoveRecovers`,
`RemoveAlwaysRecovers`, `CleanupResolves`, `ExecutionResolves`, `PollingEnds`,
`ResponseCloses`, `FetchReturns`, `RunReturns`.  Temporal reasoning under fairness
is not within reach of the prover.  The inductive invariants themselves were
found with TLC: each was checked as an invariant before it was proved, and `IInv`
of `RunLifecycle` is one of the `persistent` run.

## 5. Not modelled

- *Catalogue, manifests, locks, JSON* (`catalog.py`, `models.py`, `jsonutil.py`)
  *and the Compose policy* (`compose_policy.py`): pure predicates over packaged or
  fetched documents, without state.  Where their verdict decides what happens
  (`ProviderCache`) it is a constant, `Compose`.
- *Policy validation of Docker inspections, networks and their attachments,
  foreign consumers, image provenance, ports* (`docker.py`, `runtime.py`): each is
  a check whose only effect on control is that the step raises, and every step
  of `RunLifecycle` and `UpdateTransaction` can.
- *Several laboratories*: the rule that one runs at a time adds a refusal before
  the first step of a start; each laboratory has files of its own.
- *Records of older schemas*, `purge --images` on the daemon's side, untrusted
  images: refusals, and one image removal (`RemoveImages`).
- *Archive extraction* (`provider.py`): a pure function of the archive into a
  directory nobody reads.
- *Release check* (`updates.py`, `check_latest`): one bounded request and a
  comparison.  *Paths, rendering, exit codes*: formatting and file-system metadata.
- *Release, audit and CI scripts*: tools of the repository.
- Reuse of process identifiers, clocks that go back, and a file system that
  loses what was fsynced.
