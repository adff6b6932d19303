# A verification project for the Cornell-Method desktop application

TLA+ models of the parts of this repository in which concurrency, process
lifetime, partial failure and recovery decide whether a user's notes survive;
the TLC configurations that check them; and TLAPS proofs of the main safety
properties for every value of the constants.

Run inside this directory:

    tlc -workers 2 -config MCDesktopLifecycle.cfg MCDesktopLifecycle
    tlapm DesktopLifecycle_proofs.tla

`PROJECT.json` lists every run, the definition-to-source map, the mutants that
show each property can fail, the hazards, the findings and the theorems.

## 1. Inventory of the system

The product is a note editor that runs as a web application and as a macOS
desktop application. The desktop application is where state is shared between
processes: a native shell (Rust, Tauri) starts a local Next.js runtime (the
*sidecar*) in a process group of its own, shows it in one window, and runs every
operation on the database file in a *helper* process (`launcher.cjs`, which
calls `desktop-storage.js`).

| Component | State it keeps | Operations | Interacts with | Hard behaviour | What makes it correct |
|---|---|---|---|---|---|
| Desktop lifecycle (`lifecycle.rs`, `main.rs`) | `AppState.sidecar`, `data_operation` lock, `exit_allowed`, `recovery_only` | start, five data commands, close, quit, exit, update restart | sidecar and helper processes, update worker, close bridge, event loop | threads share the sidecar slot without one common lock; processes outlive the application; a restart can fail after the data changed | one writer of the database at a time; a true answer to every command; unsaved work is asked for |
| Close bridge (`CloseCoordinator`, `desktop-close-bridge.ts`, `desktop-close-coordinator.tsx`) | pending request, bridge generation, dispatch and fallback flags, exit permission | begin, claim, fallback, ready, not-ready, reset, resolve, clear | close waiter, navigation handler, page | messages are navigations of the page; generations; a 120 s timeout racing the answer; page remounts | one question per close; a decision is never dropped or taken from another page |
| Desktop storage (`desktop-storage.js`) | live database, WAL and SHM, initialization markers, staging, safety backups, pending restore, checkpoints | bootstrap, export, restore, pending restore (store, publish, resume, cancel), delete, probe | helper process; the next start | any step may be the last (crash); rename/fsync order; two claimers of one pending restore | the live database is the old or the new one, never a mixture; a crash is recovered or refused, never ignored |
| Sidecar runtime and helper answers (`runtime.rs`, `launcher.cjs`) | launcher and runtime processes in one group, loopback port, file selection, recovery snapshot | start, stop, run a helper, believe its answer | data commands, dialogs, recovery page | the shell signals a group but waits for one process; another program may hold the port; a helper's last line may be anything | a stop that succeeds leaves nothing; an answer the page gets is what the helper did |
| Update state and recovery (`update_state.rs`, `update_recovery.rs`, `update_migration.rs`, `update_apply.rs`) | one JSON state file, in memory and on disk, candidate and backup bundles, checkpoints, restart hand-off | check, prepare, apply, hand off, startup recovery, health, cleanup, rollback | single instance, lifecycle, staged migration | crash between two renames; the new program is the one that recovers; a write that fails after its rename | the way back stays open until the new program confirmed itself; no edit is lost |
| Update fetch, verification and bundles (`update_check.rs`, `update_selection.rs`, `update_manifest.rs`, `update_provider.rs`, `update_download.rs`, `update_signature.rs`, `update_verification.rs`, `update_archive.rs`, `update_bundle.rs`) | staging directories, packages, extracted trees | check, select, download, verify, unpack, revalidate, copy | update state | a crash between a file and its record; leftovers of an earlier attempt; what changes between verification and use | only the published bundle goes into service |
| Single instance (`instance.rs`) | lock, owner marker, focus socket | acquire, activate, release | second start, crash leftovers | a start that takes over a stale socket while another probes it | at most one primary, and the others raise its window |
| Note editor (`modules/notes/ui`, `shared/canvas`) | drafts, dirty owners, undo history | edit, save, undo, redo | API, close bridge | saves in flight while editing | no edit is reported saved that was not |
| Markdown editing (`shared/markdown`) | none | list continuation, task toggles | editor | text positions | toggling is an involution; offsets stay valid |
| Notes server and API (`server/notes`, `app/api`) | Prisma tables | CRUD | database | transactions | references stay consistent |
| Web backup provider, basic auth, diagnostics, window state, menu, recovery page | small | I/O and presentation | | | |
| Codex queue, scripts, spikes, e2e | directories | development tooling | | rename races | a task is run once |

Interaction in one paragraph: setup runs startup recovery, the staged migration
and the bootstrap as helpers, then starts the sidecar and opens the window. A
data command (from the settings page or the recovery page) takes
`data_operation`, stops the sidecar, runs its helper, and restarts the sidecar.
A close asks the page over the close bridge, stops the sidecar, allows the exit
and asks the event loop to end. An update worker prepares a candidate bundle,
allows the exit and asks for a restart; the next start switches the bundle.

The hazards this creates are listed one by one, at their lines, under
`hazards` in `PROJECT.json`, with the properties that cover them or a note saying
why none does yet.

## 2. Plan

In order of importance; each line is one module or pair of modules, with its MC
module and its proofs.

Done:

1. `DesktopLifecycle`: threads, sidecar slot, commands, closing, crash and relaunch.
2. `CloseBridge`, which refines `CloseProtocol`: the messages between the close
   coordinator and the page.
3. `StorageFiles`, `Bootstrap`, `DeleteData` and their composition `DataStorage`: the
   first database and the complete deletion, file operation by file operation.
4. `PendingRestore` and `RestoreDatabase`: restore, rollback, and the backup kept for
   an update.
5. `UpdateState` and `UpdateRecovery`: the stored state with all its mutators, the staged
   migration, the crash-safe switch of program and database, cleanup and rollback.
6. `UpdateManifest`, `UpdateFetch`, `BundleTree`, `BundleCopy`, composed in `UpdatePackage`:
   from the published manifest to the bundle in service, over the same `UpdateState`.
7. `InstanceLock`: stale lock and socket takeover, activation of an owner that starts or
   ends.
8. `SidecarRuntime`, which refines `SidecarContract`, and `HelperAnswers`, composed in
   `DataCommand`: the processes and answers that `DesktopLifecycle` takes as single steps.

Left, in this order:

9. `ExportBackup`: publishing without replacing, retention of safety backups; and the
   retention of the diagnostic logs, which is the same question.
10. `DraftSave`: dirty owners and saves in flight; then the undo history, and the markdown
    operations as pure operators against a reference definition.
11. Notes transactions, the web backup provider, the recovery page, the Codex task queue.

Proofs left: see the end of section 5. An abstract atomic switch of a (program, database)
pair that `UpdateRecovery` implements is still worth stating; today the pair is in
`WayBack`, `RollbackIsWhole` and `EditsKept`.

## 3. The modules and the code

### 3.1 `DesktopLifecycle`

One native process and the processes around it. Its threads are the setup thread,
one command worker (it holds the `data_operation` mutex from its first step to its
last, so one record `op` is enough), the update worker, the close waiters and the
event loop. An action is what one thread does between two points where another
can see it: the slot's mutex, the atomics `exit_allowed` and `recovery_only`, a
process that starts or ends.

| Variables | In the code |
|---|---|
| `app`, `window`, `exitEvent` | where `run_application` is, the primary window, a queued exit or restart request |
| `exitAllowed`, `recoveryOnly` | `CloseCoordinator.exit_allowed`, `DesktopDatabaseRecoveryState.recovery_only` |
| `handle`, `child`, `alive`, `unkillable` | `AppState.sidecar`; a sidecar `start_sidecar` has spawned and not returned; the process groups that run; those that survived KILL |
| `op`, `helper`, `orphans` | the command that holds `data_operation`, the helper process it waits for, helpers whose application is gone |
| `apply`, `updateOp` | the update worker and who holds the update operation lock |
| `closers` | the close waiters |
| `data`, `pending` | what the live database holds (a usable version, deleted, or in doubt); whether a pending restore is stored |
| `tainted` | history: an application ended with work in progress |

`Quiesce`, `LaunchHelper`, `HelperFinishes`, `Settle`, `Restart`, `Restarted`,
`Rollback`, `RollbackFinishes`, `RecoveryReady`, `DisallowExit`, `AllowAfterCommand` and
`Return` are the steps of `run_data_backup_operation_command`,
`run_pending_restore_resume_command` and `run_desktop_backup_recovery_command`;
`BeginClose` to `FinalizeExit` those of `request_close` and `finalize_close`;
`HandleExitRequested`, `ExitCleanup` and `Exit` those of the event loop. A crash
(`Crash`) takes the process with its locks and leaves its children. What a helper
does to the database is one step here (`HelperOutcome`); its file operations are
the modules of 3.3 and 3.4. A restore that failed may have left the old version, the
requested one (the sync after the switch fails unflagged, `desktop-storage.js:6906-6913`)
or neither, and a rollback that failed likewise, so `AnswerIsTrue` claims a version only
where the helper's own answer does.

### 3.2 `CloseProtocol` and `CloseBridge`

`CloseProtocol` is what the coordinator promises the shell: a question is open once at
a time, it ends as a close or as a cancellation, and only a close destroys the
window. The `waiting` closers of `DesktopLifecycle` are such questions.

`CloseBridge` is the exchange that implements it. The shell evaluates a script that
dispatches a DOM event (`events`); the page answers by navigating to a fragment that
`on_navigation` consumes (`navs`, in order). `pending` and `bridge` are the
coordinator's request and ready generation, `channel`, `waiter` and `decision` the mpsc
channel and thread of each request, `page`, `dialog`, `dirty` and `unsaved` the mounted
coordinator, its dialog and the editors. `RequestClose` and `HandleNavigation` are the
event loop, `Receive`, `Timeout`, `ClearRequest` and `Finalize` the waiter,
`Mount` to `Saved` the page. A readiness that claims the request dispatches the event
again (`Dispatch`) or, with the window gone or the script refused, clears the request with
its sender: `channel` then holds "gone" and the waiter cancels (`Disconnect`). `moved` is
the sidecar on another port after a data command. `Question` is the refinement mapping: a request is closing or over as soon as
its answer is in the channel.

### 3.3 `StorageFiles`, `Bootstrap`, `DeleteData`, `DataStorage`

`StorageFiles` has the files that starts and deletions share: each has a maker (its
identity to `lstat`) and a state (absent, empty, partial, complete), at its own path
(`home`) and below the deletion's staging directory (`staged`). A write through an
open descriptor follows the file wherever it has been renamed (`WriteThrough`).

`Bootstrap` is `bootstrapDesktopStorage`, any number of which may overlap: inspection
in two reads (`ReadMarker`, `ReadDatabase`), the exclusive open of a new database
(`Claim`), the migration, the clean-up of a failed one in two steps (`LookAtClaim`,
`Cleanup`), and the initialization marker.
`DeleteData` is `deleteDesktopData`: plan, staging directory, journal, renames, unlinks,
and the rollback in reverse order; each operation may fail and the helper may be killed
before any. A look at a path and the rename or unlink that follows it are two steps
(`LookBefore` and `Move`, `LookBack` and `Rollback`), so a start can come between.
`replaced` (history) says that a rename back has replaced what a start created there. The journal is written and never read by the program, so it is part of a
step. `DataStorage` runs both on the same files; with `Orphans` a helper outlives its
application and overlaps the next start.

Two remarks on the answers of a deletion. "staging-failed" is given after a rollback
and after a deletion that is complete but for its last sync, so `AnswerIsTrue` says
nothing of it. A staging directory that stays blocks every later deletion
("staging-conflict"), and nothing in the program removes it.

### 3.4 `PendingRestore` and `RestoreDatabase`

`PendingRestore` is the directory in which a backup from a newer application waits for
the update. An entry is one artifact, known by the helper that published it; `name` is
what the entry is called (`staging`, `available`, `processing`, `consumed`,
`publish-failed`), `files` what is in it and `status` the state in its status file.
`Look` to `Discard` are `publishPendingRestoreCandidate`; `Inspect` to `PutBack` the claim
and its release; `MarkCleanupRequired`, `Consume`, `MarkConsumed` and `EmptyConsumed` the
ends of a claim.

`RestoreDatabase` adds `restoreDesktopDatabase` and `resumePendingRestore`: a helper stages
its backup, validates the live database (or, from the recovery page, only fingerprints
it), saves it, looks at it once more, renames the candidate over it, syncs, reads it
back, and rolls back when that fails; the `finally` block and the end of the claim
follow. `live`, `saved` and `seen` are files as the code compares them: inode and bytes.
`flagged` is `restoreLiveSwitchCompleted` on the error, which decides what becomes of
the claim. `applied`, `unsynced` and `overlapped` are history variables that only
properties and `overlapped`'s own update read.

Abstracted: the operation's private staging directory (nobody else reads it), WAL and
SHM files and the checkpoint (part of `CheckLive`), how much is left in a directory
whose removal failed (no operation asks). An update is one step between helpers.

### 3.5 `UpdateState` and `UpdateRecovery`

`UpdateState` is the record of `update-state.json`. A mutator of `UpdateStateStore` is an
operator that yields the set of states it may store: one, or none when it refuses.
`Valid` is `UpdateState::validate`, `Loaded` what a start makes of any file it finds.

`UpdateRecovery` applies one verified update with it.

| Variables | In the code |
|---|---|
| `mem`, `file`, `blocked` | the store's memory, the file, and `writes_blocked` |
| `pc`, `why`, `restart` | where the one start is; what a rollback was called for; the restart the recovery asks for |
| `bundle` | what is at the application's path, at its rollback, switch and failed copies, in staging and in the package store: nothing, the old or new program, or a part |
| `db`, `backup`, `temp` | the live database (schema and edits), the safety backup, the temporaries of a restore |
| `helper`, `copy` | the migration helper and its copy of the database |
| `migrates`, `faults`, `past` | does the candidate change the schema; the fault budget; history that only properties read |

The session is `Edit`, `Apply` (`apply_verified_update_worker`), `HandOff`
(`request_explicit_update_restart`) and `Quit`. A start is `Launch`, `Load`, `CheckHandoff`,
`ClaimIt`, the steps of the helper (`HelperEnds`, `BackUp`, `MigrateCopy`, `PutInPlace`,
`HelperDone`, `HelperFails`), and `run_startup_update_recovery`: `Recover` chooses by phase
and checkpoint; `Revalidate`, `HealthPending`, `BeginSwitch`, `Reconcile`, `RetryHealth` lead
to `switch_bundle` (`PrepareSwitch`, `CopyBundle`, `SwitchOut`, `SwitchIn`, `Switched`);
`Confirm`, `Confirmed`, `Cleanup`, `CleanupFailed`, `Cleaned` end an update; `Back`, `BackIn`,
`Restore`, `Restoring`, `Validate`, `Marker`, `RolledBack` undo it; `GiveUp` and
`GiveUpRollback` record that this start could do neither; `Boot` is the rest of the start.
`Crash` comes anywhere, and the helper may outlive the application.

### 3.6 The package: `UpdateManifest`, `UpdateFetch`, `BundleTree`, `BundleCopy`, `UpdatePackage`

`UpdateManifest` has versions (a number is the sequence of its digits, for the code
compares numbers longer than any integer type), the checks of a manifest and the choice
of a release. `UpdateFetch` follows redirects, sizes and digests through a web of pages.
`BundleTree` is the archive's entries, the tree they unpack to and the checks of it.
`BundleCopy` copies a tree node by node to `switch_temp` and switches to it.

`UpdatePackage` composes them with the same `UpdateState`: `published` is the archive behind
each digest; `parts`, `package`, `unpacked` and `ready` are the files in `incoming/`,
`packages/`, `extract/<digest>.tmp` and `extract/<digest>`; `copy`, `writing` and `live` are
the switch copy, the file being copied and the tree in service. `BeginsCheck` and `Checks`
are a check; `BeginsVerification` to `RecordsVerified` (`Downloads`, `KeepsPackage`,
`RecordsPackage`, `Unpacks`, `MakesReady`, `RecordsExtraction`) the verification worker, file
and record each a step of its own; `BeginsApply`, `HandsOff`, `Starts`, `Switches` and
`EndsSwitch` the application of the package; `Fails` ends an operation, recorded or not;
`Crashes` and `Damages` are the faults. A record that fails may have reached the disk
(`Record`: `write_state_atomically` syncs the directory after its rename), so memory and
file can differ until the next start; a copy that fails may leave its part (`CopyFails`). What the database does meanwhile is left to
`UpdateRecovery`: here `Starts` and `EndsSwitch` take its records as one step. A start with a hand-off looks
at the release again and may be given up with the state as it is.

### 3.7 `InstanceLock`

Every start of the program, with its own home and temporary directory. `stage`, `attempt`
and `outcome` are where a start is; `lock`, `owner` and `socket` the kernel's lock, the name
in the owner marker and what is at the socket's path; `owned` the guards whose drop removes
the socket; `window`, `backlog`, `reply` and `raised` the primary's listener and what the
others hear from it. The kernel gives the lock back when a process ends; the marker and
the socket stay, for the guard's destructor normally does not run, so a stale socket is
the ordinary case. `TryLock`, `Mark`, `CheckSocket` (which connects to what it finds),
`RemoveStale` and `Bind` are the primary's start; `Ask` and `Answered` the attempts of the
others, `Answer` the listener, `DropSocket` to `DropLock` the guard's destructor, `Vanish` a
kill.

### 3.8 `SidecarContract`, `SidecarRuntime`, `HelperAnswers`, `DataCommand`

`SidecarContract` is what the shell relies on: a start hands over a runtime that answers
for itself or leaves nothing, a stop that succeeds leaves nothing, and only a call that
says so leaves processes. `SidecarRuntime` is the exchange that implements it: the shell's
call (`call`, `step`, `answer`, `waited`), the `launcher` and the `runtime` in one process
group, the `port` that another program may have taken, the `line` the launcher wrote and
the TERM signal (`termed`). `KeepsContract` is the refinement.

`HelperAnswers` has the parsers of what helpers print: the last line that parses, checked
against protocol and request, and per command whether the exit status is looked at.

`DataCommand` runs the setup and the data commands over both. `op`, `at`, `inRecovery`
and `again` are the command that holds `data_operation`; `reply` is the answer it
goes by and `truth` (history) what the helper did; `flag`, `snapshot` and `seen` are the
recovery state and a reader between its two reads; `chosen` and `path` the file selection
and what is at its path. `DesktopLifecycle` has the same commands over abstract processes.

## 4. The runs

| Run | States | What it shows |
|---|---|---|
| `lifecycle` | 2.0 M | All five commands against two close waiters, the update worker, recovery mode, crashes, unkillable sidecars and relaunches: nothing changes the database while this process has a sidecar (`NoMutationUnderSidecar`); one writer, also across restarts that interrupted no command (`OneWriter`); no exit skips the question for unsaved work (`PromptNotBypassed`); nothing reopens a deleted database (`DeletedStaysStopped`); restore answers are true, of helpers that failed after their switch too (`AnswerIsTrue`) |
| `lifecycle_live` | 275 k | One life of the application with all five commands: they end (`CommandEnds`), and a confirmed close ends the application unless a restore from the recovery screen succeeds in between (`CloseEnds`) |
| `close_bridge` | 1.6 M | Two requests, two editors, remounts, reloads, refused discards, failing dispatches, timeouts: a pending question reaches the page (`QuestionIsShown`), "save" means saved (`SaveAnswersAreTrue`), the bridge implements `CloseProtocol` (`ImplementsProtocol`) |
| `close_bridge_live` | 103 k | Every request ends, with navigations lost and the sidecar restarted (`QuestionEnds`) |
| `close_bridge_foreign` | | Refutes `CancelIsChosen` (section 6) |
| `bootstrap` | 14 k | Three overlapping starts over five kinds of installation: nothing complete is touched (`CompleteStays`), nothing empty created after use (`NoEmptyAfterUse`), and without failures somebody ends ready (`SomeoneIsReady`) |
| `data_storage` | 153 k | Two deletions and two starts that may overlap them: all of the user's files go or none, unless a rename back has replaced a start's file (`NeverHalfDeleted`), the marker leaves last and returns first (`MarkerGoesLast`), answers are true (`AnswerIsTrue`) |
| `restore` | 2.3 M | Three restores and resumes with every operation failing or being the last, overlap and an update: one offer (`OneOffer`), nothing replaced that is not saved (`ReplacedIsSaved`), a failed resume gives its claim back (`FailedResumeReturnsClaim`), true answers (`AnswerIsTrue`) |
| `update` | 107 k | Two requests for an update with three failures or crashes between any two steps: the application never ends where no note can be read (`NeverLockedOut`), the way back stays open until the new program confirmed itself (`WayBack`), no edit is lost or brought back (`EditsKept`), a rollback leaves everything as it was (`RollbackIsWhole`), and the application comes back (`ServedAgain`) |
| `package` | 608 k | Thirteen networks and ten published archives with two failures (a record may fail before or after its rename), crashes or damaged files: what is offered is the newest release that suits (`OffersNewest`), what is recorded as verified is the published bundle, staged (`VerifiedIsStaged`) and stays recorded on disk (`VerifiedIsKept`), leftovers block no later verification (`LeftoversNeverBlock`), a recorded check is a running one (`CheckingIsWorking`), and what goes into service is the candidate (`LiveIsCandidate`) |
| `instance` | 305 k | Three starts, shared or separate homes and temporary directories, leftovers and foreign files, a failing operation or a kill at any step: a primary can be reached (`Reachable`), a start that says "focused" raised a window (`FocusedWasRaised`), every start ends (`EveryStartEnds`) |
| `runtime` | 756 k | The setup and two data commands, process by process, with helpers that die or answer wrongly and a chosen path that changes: a claim the page gets is true (`ReplyIsTrue`), no process of a runtime is active beside a helper that may replace the database (`RuntimeIsQuiet`), recovery mode has its snapshot (`RecoveryHasSnapshot`), the processes implement `SidecarContract` (`KeepsContract`), calls end (`CallsEnd`) |

The type invariants, and the strengthenings that the proofs show for every instance
(`SlotIsFree`, `SidecarAccounted`, `RollbackHasBackup`, `WaiterHoldsRequest`,
`ClaimIsExclusive`, `OfferIsWhole`, `AppliedIsSpent`, `NoRerun`,
`MarkerIsTrue`, `RefusedForCause`), are left out of the configurations.
`TypeOK` of `UpdatePackage` and `CommandTypeOK` of `DataCommand` are stated as documentation
of the variables; they hold when added to their runs and are not proved.

### Bounds and why they are enough

- `lifecycle`: two process groups (one stored, one that starts; in a crash one that is
  left over), two database versions (the one that was there and the one installed), two
  close waiters (a second is begun only when the first no longer waits). The state
  constraint `Untainted` follows an application that ended in the middle of its work up
  to the window of the next one; what an orphan does to a later command is outside what
  the code guards against, and the proofs do not use the constraint. `AnswerIsTrue` says
  nothing while `tainted`: an earlier application's orphaned helper may then change the
  database behind the answer.
- `lifecycle_live`: one sidecar, version and close waiter and all five commands, with
  sidecars that survive KILL; `CanCrash` is off (a process that crashes promises nothing).
  `LiveSpec` follows one application from its launch to its end (`launched`), which is as
  far as what the properties ask of a command or a close reaches.
- `close_bridge`: two requests, because the hazards are an old waiter against a new
  request; two page generations, because they are an old page's message against a new
  one's readiness; one outstanding navigation when a discard is refused (`MaxNavs`),
  which keeps the page from refusing for ever. Timeouts in all runs but
  `close_bridge_foreign`; losses and the restart of the sidecar in `close_bridge_live`.
- `bootstrap` and `data_storage`: three files suffice for "first", "between" and "last" of
  the order (`Last = 3`: database, one backup, marker); three starts for a claimer, a
  loser and a third that sees the result; two deletions for a retry.
- `restore`: three helpers for a publisher, a resume and a second claimer, two at a time;
  two schemas for "newer" and "not newer". The action constraint `NoneAfterOverlap` starts
  no further helper after two that overlapped.
- `update`: one candidate (which one it is decides nothing here), two requests for a retry
  after a rollback, two edits (one before, one after the safety backup), three faults: the
  deepest hazards need a failure, a crash of its recovery and a failure of the next one.
  With a fourth fault an occupied failed marker can outlive every retry, so
  `ServedAgain` is stated for three (section 6).
- `package`: two digests for "this candidate" and "another", one of which is published in
  ten forms (a good bundle, one with an implied folder and a link to a link, one defect
  each in the others), thirteen networks (one defect each), two faults. Files are damaged only between operations, as the code makes
  no claim about files that change under its hands.
- `instance`: three starts (a primary, one that takes over, one that asks), one retry out
  of the code's several (a retry repeats the same steps), one fault, three arrangements of
  homes and temporary directories.
- `runtime`: two commands after the setup, four starts and stops, two snapshots (a page can
  act on the first and not on the second), one change of the chosen path. A wrong answer
  is wrong in one field; one selection is made in a run; processes of a runtime that was
  handed over move only before a stop; a reader of the recovery state starts only around
  its writes (the model lets it in between the flag and the snapshot, which the code's lock
  prevents, so it has more behaviours). Reports of a helper are those of its command or
  skewed ones, which the parsers must refuse.

Symmetry is used on sets of interchangeable model values, in runs of invariants, step
properties and the step-by-step refinement only; the liveness runs have none.
`CHECK_DEADLOCK FALSE` is set where requests are bounded, or one life of the application
is followed, and the system may come to rest; the runs `lifecycle` and `package` never rest and are checked
for deadlock.

### Fairness

`DesktopLifecycle`: weak fairness of each thread, of the event loop and of the command
worker; none of the user, of crashes or of processes that die. The fairness of
`HelperFinishes` is an assumption about the helper: the code waits for it without a
timeout (`runtime.rs:1901`), so a helper that hangs hangs its command. `CloseBridge`:
weak fairness of the event loop's navigation handler, of the evaluated script, of the
save loop and of each waiter. Neither a mount of the page nor a choice of the user is
forced: that a request ends although nobody answers is the timeout's doing.
`UpdateRecovery`: weak fairness of a start's steps, of the hand-off and of the helper; that
the user starts the application again is part of the first. `InstanceLock`: weak fairness
of each start up to its end or its window, none of the primary's listener or of the
kernel, because the probing start has a timeout of its own. `DataCommand`: weak fairness
of the shell's own calls only; that a call ends although launcher and runtime do nothing
is what the timeouts and the KILL signal are for.

## 5. What is proved

TLAPS proves the following for every value of the constants, from the named
assumptions on them only (distinct model values, ranges of the bounds, the shape of the
published archives and of the recovery snapshots). No bound of section 4 is used.

- `DesktopLifecycle_proofs`: `IInv = TypeOK /\ SlotInv /\ RestoreInv /\ EndInv` is
  inductive. `SlotInv` says which steps of a command or a start own the slot and that it
  is empty then: `NoMutationUnderSidecar` alone is not inductive, because what keeps a
  sidecar away from a helper is the quiesce several steps earlier. `RestoreInv` carries
  the safety backup from the helper's answer to the rollback, `EndInv` the processes
  from the end of one application to the next. From it: `TypeCorrect`,
  `MutationIsAlone`, `RestartFindsSlotFree`, `SidecarsAccounted`, `OneWriterAtATime`,
  `RollbackBackedUp`. Three more invariants are inductive on top of it: `ExitInv` (the exit
  is allowed for good only while no thread can put a sidecar into the slot) for
  `PromptIsKept`; `DeleteInv`
  (a deleted database has no sidecar, and is met only by steps that start none) for `DeletedStaysClosed`; `AnswerInv` (what the database holds at each step of a
  restore until its answer, and which helpers may have changed it) for `AnswersAreTrue`.
- `CloseBridge_proofs`: `IInv` adds the types of what the shell holds (`ShellType`) and
  that no waiter exists for a request not begun (`Fresh`) to `WaiterHoldsRequest`; a
  dispatch that fails ends request and channel together. From
  it `WaitersHoldRequests`, and `Implements`: `Spec => ImplementsProtocol`, step by step
  (each action of the shell maps to one step of `CloseProtocol`, the page's to stutters).
  `PageInv` adds the page's side, for `TypeCorrect` and `SavesAreTrue`. `AskInv`, while no message
  is lost or foreign, says that the messages under way about being ready form a chain from
  the page the shell knows to the one that is mounted, and that a pending question has a
  dialog, an event, or such a message that will have it asked again; from it
  `QuestionsAreShown` (`QuestionIsShown`). `QuestionIsShown` speaks of the moment no message
  is under way, so it is not inductive: a page that comes and goes is known by its chain.
- `DataStorage_proofs`: for starts alone, `BootInv` adds that a claimed file is its start's own
  until the migration ends, that a start which goes on to the marker has a complete database
  before it (so the marker is the last thing written), and that a start which read "no
  marker" still has none beside a missing database. From it
  `OneInitializer`, `NeverEmptyAfterUse`, `NothingOverwritten`. `HopeInv`, for runs in
  which nothing fails, adds that an unfinished file has a start at work on it and that a
  start's refusal has another one that will be ready; with at least one start it gives
  `HealthyStartsEndReady` (`SomeoneIsReady`). With a deletion beside them, `DataInv` relates
  its records to the two places of each file, in the order of the plan (`StagedIsMoved`,
  `PlanIsCurrent`, `PlanIsOrdered`, `Purge`), while starts create files at paths it has
  emptied, also between its look at a path and its rename. A start that looked at its claim
  unlinks that file or one that came there by a rename back (`UnlinksClaim`,
  `UnlinksNoneOfTheirs`), which is why `UserNeverHalfDeleted` excepts `replaced`. From it also
  `MarkerLeavesLast` and `DataTypeCorrect`; with the records of what was moved and unlinked up to the
  answer (`RecordsAreTrue`), `DeletionAnswersAreTrue`.
- `RestoreDatabase_proofs`: `PInv` holds for any overlap of helpers: every entry is where
  its publisher or claimers can have put it, at most one helper has passed the second
  look, and an available name covers a whole artifact. `SInv` relates switch, flag, claim
  and status file as long as helpers do not overlap (`Alone`). From them `OnlyOneOffer`,
  `OffersAreWhole`, `AppliedArtifactsAreSpent`, `RestoreTypeCorrect`. `AInv` follows each helper
  to its answer (whether its candidate is live, whether it set the flag; that an artifact
  once used does not come back, and that a publisher is gone when its artifact is resumed)
  for `RestoreAnswersAreTrue` and `ClaimsAreReturned`. `AllKept` says that what a helper
  keeps has the content it saw, and that the live file is still that one when it is about
  to be replaced, for `ReplacedContentIsSaved`, which holds step by step. These need
  `AnswerAssumption`: not to have answered is none of the answers.
- `UpdateRecovery_proofs`: `UpdateInv` is the conjunction of nine parts. `StoreInv`: memory
  and file always hold states that `validate` accepts, so no start throws away what another
  stored. `CreditInv`: a migration that may still begin is paid for by a request that has
  not been used. `BundleInv`: where the old program is while the bundles move.
  `SessionInv`: what a session may find recorded. `MigrationInv`: the helper's copies equal
  the database they were made from. `BackupInv`: a database whose switch is recorded, in
  memory or in the file alone, has its backup. `EditsInv`, `DiskType` and `ControlType`. Each
  mutator has a lemma on the states it yields (`Sound`), and all steps that neither ask for a
  migration nor record its switch share one (`TameStep`). From it `UpdateTypeCorrect`,
  `OneMigrationPerRequest`, `OldProgramIsThere` (`WayBack`), `SavedEditsAreKept`.
  `WholeInv` says on top of it what the recorded phase tells of bundles and schema: they
  are untouched before the switch, a recorded end means the new bundle is in place and
  fits the database, and a new schema is either recorded or was just put in place.
  From it `RecoveryPageIsKnown` (`NeverLockedOut`) and `RolledBackIsWhole`
  (`RollbackIsWhole`).
- `UpdatePackage_proofs`: `PackageInv`. `StoreInv`: the states in memory and on disk are each
  one that `validate` accepts. `DiskInv`: how far they may differ after a write that failed
  behind its rename; a candidate that only the file has as verified is staged, and a switch
  is never begun on disk alone. `VerifyInv`: what each step of a verification can rely on,
  from the sweep that leaves nothing behind to the tree that is recorded. `TreesInv`: a tree
  that was once extracted keeps the folders its archive implies, whatever is taken from it;
  so one that matches the listed entries has no implied folder beside them. `SwitchInv`:
  while the bundles are switched the staged tree is the published one, and a copy that is
  promoted is equal to it. Each mutator has a lemma (`Moves`: it verifies nothing, and begins
  no switch). From it `ChecksAreWork`, `VerifiedAreStaged`, `LeftoversBlockNothing`,
  `PublishedGoesLive` (`LiveIsCandidate`) and, step by step over the record on disk,
  `VerifiedAreKept`. `PreflightIsSafe`
  is the lemma that two checks of links, written twice, agree: what the extraction accepts,
  the recovery will copy. It needs that a chain of links which ends at a node begins with
  one (`FirstHop`), by the least step at which the chain would differ. Assumed of the
  constants: a published archive is a list of entries (`PublicationsAssumption`), candidates
  and what a manifest can offer have a digest among `Digests` and an identity among
  `Candidates` (`PayloadsAssumption`, `OffersAssumption`), `MaxHops` is a number.
- `InstanceLock_proofs`: `InstanceInv` relates the lock, the marker, the socket and the
  guards for any number of starts (`HoldsLock`, `SocketHasOwner`, `PathStaysFree`,
  `LeftByFault`, `InUseByFault`). From it `PrimaryIsReachable`, `MarkerNamesHolder`,
  `FocusIsReal`, `LeftoversNeverRefuse`, `InstanceTypeCorrect`.
- `DataCommand_proofs`: `CommandInv` joins `SidecarInv` (which processes may exist at each
  step of a call) with the command's side (`JobType`, `JobWaits`, `NoHandleAtWork`,
  `FlagMeansDown`, `RuntimeIsQuiet`, `SnapshotIsGood`). From it
  `SidecarImplementsContract`: `CommandSpec => KeepsContract`, `HelpersWorkAlone`
  (`RuntimeIsQuiet`) and `FlagHasSnapshot`. `RepliesAreTrue` (`ReplyIsTrue`) needs `ReplyInv`
  (reply and truth agree at every place of a command, not only at its answer) and
  `NoSkewedFact`, for every operation of a helper: an answer with one field wrong is either
  refused by the shell's validation or claims nothing.

Only model-checked: liveness (`CommandEnds`, `CloseEnds`, `QuestionEnds`, `ServedAgain`,
`EveryStartEnds`, `CallsEnd`: out of the prover's reach, as is everything about ENABLED)
and `OffersNewest`, which compares versions through folds over their digits. No module
declares a RECURSIVE operator; what the folds of `UpdateManifest` and `BundleTree` compute
for every input is an induction over data and stays with TLC.

## 6. Findings

One run shows a counterexample against a document:

- `close_bridge_foreign`: after a data command has restarted the sidecar on another port
  every close fragment counts as foreign (`lifecycle.rs:1061`), hence as Cancel: the window
  cannot be closed by an answer of the page. `PRODUCT_SPEC.md:91` gives cancelling to the
  user's own "戻る", Escape and clicks outside.

The modules state seven more promises of documents and comments that the code does not keep. They
are in no configuration; adding one to the named run as an INVARIANT (`WindowEnds`: as a
PROPERTY) shows its counterexample:

| Definition (run) | What happens | What a document says |
|---|---|---|
| `NoOrphanAfterExit` (`lifecycle`) | Closing during a restore leaves the restore helper, or a sidecar that is just being started, behind (`lifecycle.rs:969`) | `PRODUCT_SPEC.md:88` |
| `WindowEnds` (`lifecycle_live`) | A close from the recovery screen: the restore under way succeeds between the destruction of the window and the exit request and withdraws the permission (`lifecycle.rs:436`), so the process stays, with its new sidecar and without a window | `PRODUCT_SPEC.md:88` |
| `FailedResumeKeepsPending` (`lifecycle`) | A resume whose sidecar does not restart is rolled back, reported as kept, and its pending restore has been consumed (`lifecycle.rs:875`) | `settings-modal.tsx:372`: "保留中の復元を完了できませんでした。保留状態を保持しています" |
| `NothingReplaced` (`data_storage`) | A start creates its file between the rollback's look at the path and the rename, and is replaced (`desktop-storage.js:3640-3648`); its clean-up can then unlink the user's database, which `NeverHalfDeleted` excepts | the check and error of `desktop-storage.js:3646` |
| `NoEmptyBesideStaged` (`data_storage`) | A deletion interrupted after the marker has moved looks like a first use: the next start creates an empty database beside the staged one (`desktop-storage.js:1403`) | `PRODUCT_SPEC.md:150` |
| `ResumableAfterUpdate` (`restore`, with `LastSchema = 3`) | A kept backup that the update overtakes can be neither resumed nor replaced (`desktop-storage.js:5427`) | `PRODUCT_SPEC.md:136-137` |
| `LiveRuns` (`package`) | A copy whose permissions were damaged is reused and switched to: the comparison of trees ignores permissions (`update_recovery.rs:1829`) | `IMPLEMENTATION_STATUS.md:248`: "partial `switch_temp` は candidate と完全一致する検証済み tree の場合だけ再利用し" |

Met while modelling, contained in the models, and contradicting no document:

- `rollbackRestoreDatabase` compares the rolled-back file with the safety backup including
  its inode (7111), which a copy cannot have: a rollback that worked is answered
  "rollback-failed", and its claim marked cleanup-required.
- `switchRestoreDatabase` does not flag its error when the sync after its rename fails
  (6906-6913): the claim is released although the candidate is live. `AppliedIsSpent`
  excepts it by name (`unsynced`).
- When helpers overlap, the loser of a claim can return the winner's (5777-5790).
- When the root cannot be synced and taking the entry back fails too, "publish-failed" is
  answered with an entry that is available (5680-5690).
- An entry that is left under a processing or consumed name is never cleared: every later
  resume and publish is refused. The comments call this fail-closed.
- A start that is killed between creating and filling the marker, or between claiming and
  migrating the database, leaves an installation that every later start sends to
  recovery.

Of the update, its recovery and its package:

- A stop between the two renames of `switch_bundle` leaves no bundle at the application's
  path, so nothing is there to recover (`update_recovery.rs:791-794`; `MVP_CONTRACT.md:334`
  asks for recovery at the next start). `Dead` names this end, and two others: a health
  check that fails once the cleanup is recorded, and a stop between the rollback of a
  bundle and its record in the cleanup phase.
- A cleanup that stops within the rollback bundle leaves a part of it; a failing health
  check of the next start puts this part back as the current bundle.
- A crash between the rename of the database and the record of it (`torn`) leaves a new
  database under the old program; a rollback restores only a recorded switch.
  `MVP_CONTRACT.md:330` says "失敗・中断時は live DB を変更しない". An orphaned helper does the same
  (`orphan`). `NeverLockedOut`, `EditsKept` and `RollbackIsWhole` except these by name.
- Edits made while a cleanup is still to be retried (`late`) are lost when a later health
  check fails and the safety backup comes back.
- A failed marker that cannot be removed blocks each later rollback; a backup that no longer
  equals the database refuses a retry after edits; a `-wal`, `-shm` or `-journal` file blocks
  the restore.
- The start that takes the hand-off asks the network again, although `MVP_CONTRACT.md:336`
  has the restart work from the verified files.
- A record that fails after its rename leaves the hand-off "requested" in the file while
  the session goes on: the next start migrates.
- `recover_rollback` keeps the code "staged-migration-failed", so each later load goes
  through the rollback once more; this is harmless.
- A manifest that cannot be fetched during a verification drops the candidate; a write that
  fails at the end of a check leaves "checking" until the next start (`update_check.rs:179`,
  `erred` in `CheckingIsWorking`).
- A package whose folders are only implied by its files passes verification and is refused
  by every application of it (`update_archive.rs:613`).
- Redirects of a package to an address with a query are refused, which
  `MVP_CONTRACT.md:360` does not say.

Of starts, processes and answers:

- A restart spawns the new process while the old one still holds the lock; the old one may
  then answer "focused" and end. A start with another TMPDIR looks for the same lock's
  primary at another socket path.
- A helper runs without a time limit, so one that hangs holds `data_operation` for ever.
- The parsers of backup, resume and status answers do not look at the exit status; those of
  catalog, probe and bootstrap do.
- A restore request is validated after the sidecar has been stopped. When a restore and the
  restart both fail there is no sidecar, and every later command answers "quiesce-failed".
- A save destination accepts a file that somebody has created there since the choice.
- The user can edit between the page's answer to a close and the destruction of the window
  (`lifecycle.rs:1015`); `SaveAnswersAreTrue` is about the moment of the answer.

## 7. What is not modelled

Besides the plan of section 2 (export and retention of backups, the note editor and its
undo history, Markdown editing, notes transactions, the web backup provider, the recovery
page, the Codex queue): request parsing, dialogs, menus, window geometry, diagnostics and
the wording of answers (presentation); permissions, symbolic links and layout checks of
the storage (each is a refusal before anything changes, and part of the "refused"
outcomes); what SQLite and Prisma do inside a file; the bytes of ZIP, tar, JSON, property
lists and signatures (abstracted to what the checks tell apart); name resolution, beyond
whether an address is public; basic authentication (a sequential parser); and development
tooling, proofs of concept, spikes and end-to-end tests. `components` in `PROJECT.json`
gives the status of each part with its reason.
