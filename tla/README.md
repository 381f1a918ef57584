# SessionSifu: TLA+ models, model checking and proofs

SessionSifu saves and restores desktop sessions. It exists twice: as a GNOME
Shell extension with a GTK manager (`extension/sessionsifu@local`, `app`), and
as a portable Qt application (`portable/sessionsifu_portable`). This directory
holds TLA+ modules of its stateful parts, TLC configurations that check them on
small instances, and TLAPS proofs. Paths below are relative to `src/`; the
extension's directory is abbreviated `ext/`.

Contents: 1 inventory, 2 plan, 3 modules and how they follow the code, 4 runs
and bounds, 5 fairness, 6 proofs, 7 what the runs found, 8 what is not modelled,
9 running it.

## 1. Inventory

### Parts of the GNOME edition

| Part | State it keeps | Operations | What makes it correct |
|---|---|---|---|
| Compositor queue, `ext/compositorOperations.js` | promise chain, pending requests, unhealthy flag, watchdog | `run`, the watchdog, late completion | one native operation at a time, even after a deadline; every caller answered; refusal only while something hangs |
| Layout safety, `ext/runtimeSafety.js` | shutdown flag, layout generation, quiet period | monitor change, begin and cancel shutdown | work asked for before a change is never carried out after it |
| Restore queue, `ext/restoreSession.js`, `restoreSafety.js`, `restoreScheduling.js` | queue of the run, registrations, document requests; GSettings ledger, holds, marker; record files; archive | automatic, manual and named restore; launch; readiness; layout; retirement; deferral; reconcile | a crash does not lead to a crash loop; documents are not requested twice; no record is lost |
| Applying layouts, `ext/moveSession.js`, `windowSafety.js` | waits for a monitor, an unmaximize, a pause; `moved` flags | move a window, move an application, cancel | Mutter is only asked for things that exist, for windows that exist, by requests that are still wanted |
| Tiled pairs, `ext/windowTilingSupport.js` | partner of each window, pending marks, grab in progress | tile, raise, resize, detach | pairs are mutual and stop with their members; no echo |
| Window tracker, `ext/openWindowsTracker.js` | windows to save, running saves, registrations, pending clean-ups | save on signals, batch save, clean up on close, shutdown | a closed window's record goes, a live or logged-out one's stays |
| Indicator, `ext/indicator.js` | settle timers, restore queue of late windows | new window, first frame, shown, title | each late window restored once, one at a time |
| Saving, `ext/saveSession.js`, `continuousSaver.js` | named sessions, rolling history; timers and the save under way | save, continuous save, save now | files are replaced atomically, histories bounded; saving resumes after a failure |
| Autoclose, `ext/ui/autoclose.js`, `closeSession.js` | end-session dialog, window of running applications, closings, workspaces kept alive | confirm, cancel, retry, close windows, end of an application | the session ends once, when nothing runs, and not after Cancel; windows keep their workspace while others close |
| Control service, `ext/ui/autostart.js` | restores that wait for startup, countdown dialogs, intervals of operations | restores, saves, Recall operations over D-Bus, `disable()` | nothing takes effect after `disable()`; a countdown ends in one restore |
| Recall recorder, `ext/recallRecorder.js`, `recallWorkspaceCache.js` | timers, generations, moment, pass and snapshot in progress, preview cache, activity count | capture, pause, delete, toggles, energy, lock | plaintext is always in somebody's hands; nothing is sealed after a pause or a lock; a pause ends |
| Recall engine, `app/recall_engine.py` | encrypted index, OCR queue | index, search, delete, retention | deletion wins over late OCR |
| Callers, `ext/callerGate.js`, `managerCalls.js` | callers of the last second, pending calls | `invoke`, `allow`, `close` | only the owner of the manager's name is served; every caller is answered; limits hold |

### Parts of the portable edition

| Part | State it keeps | Operations | What makes it correct |
|---|---|---|---|
| Vault key, `vault_key.py` | key file, descriptor, backend | create, load | one key for good once data is encrypted with it |
| Recall vault, `recall.py` | record and image files, record cache, search index | save with prune, reindex, annotate, delete, search, import | an entry and its image come and go together; nothing comes back; caches tell what the files hold |
| Session store, `storage.py` | sessions, history | save, list, delete | atomic replacement, history of five |
| Restore journal and controller, `restore_journal.py`, `controller.py` | journal of outcomes | restore, retry | a retry repeats only what failed |
| Archive, capsules, updates | files | export, import, launch, check | all or nothing |
| UI workers, `ui.py` | generations of background jobs | start, finish, cancel | late results are dropped |

### How they interact

Everything of the extension runs in GNOME Shell's single JavaScript thread. What
interleaves are the *continuations* between awaits, timers and signals.

* The compositor queue is shared by the restore queue, the layouts, the tiled
  pairs and Recall captures; each passes a `mayRun` that is evaluated when its
  turn comes.
* `layoutSafety.generation` and the shutdown flag are read by all of them and
  written by the handlers of `monitors-changed`, of logout and of `disable()`.
* The restore queue and the indicator both ask for layouts of the same windows;
  they share the saved records (`moved`) and the crash marker in GSettings.
* The control service asks for restores, saves and Recall captures; whoever ends
  the Shell session (logout, `disable()`) sets the shutdown flag that all of them
  look at, and leaves behind what waits for a reply, a file or an animation.
* The window tracker rewrites the very record files the restore queue reads and
  deletes.
* The portable edition has real threads: a capture is finished in a thread of its
  own, searches, reindexing and imports run in background pools, annotations and
  deletions in the thread of the window. They share the directory of the vault
  and, under a lock that is held for a search or for a single load, the cached
  objects.
* GSettings are written in memory first and become durable later; a crash of the
  Shell is part of the design (`docs/ARCHITECTURE.md`, recovery).

### What is hard to test

Every hazard is listed with its line in `PROJECT.json`. The recurring ones: a
guard evaluated before a wait and relied on after it; a crash between two
writes; a long sequence of logins, crashes and refusals; a timeout racing the
late answer; one step of several failing; a mark that only a completion clears.

## 2. Plan

Order, most important behaviour first:

1. **Done.** `SerialExecutor` (what the compositor queue promises),
   `CompositorOperations` and the refinement between them, with proofs.
2. **Done.** `RestoreQueue`: recovery with crashes, logout, late windows and the
   tracker; inductive invariant and proofs.
3. **Done.** `LayoutSafety`, `WindowTiling`, `WindowLayout`: layouts of live
   windows, with proofs.
4. **Done.** `SessionTracker`: overlapping batches of saves, registrations,
   deferred clean-up and logout, with proofs. Left: an abstract specification
   (each record is either the last saved state of its window or gone because the
   user closed it) and its refinement.
5. **Done.** `RecallVault`: the threads of the portable edition over the files of
   the Recall history, with proofs.
6. **Done.** `RecallRecorder`: moments, snapshots, cache passes and everything
   that may come between their steps, with proofs.
7. **Done.** `Closing` (the end of a session) and `ControlService` (the D-Bus
   service with its callers and the saver of automatic history), with proofs.
8. Left: the Recall engine of the GTK manager (deletion against late OCR);
   abstract specification of both ends of Recall: an entry is stored or deleted,
   never half of it.
9. **Done.** `PinnedKey` (what a vault's key promises), `VaultKey`: processes that
   create or find the key of a vault, with crashes, and the refinement between them,
   with proofs.
10. Left: `SessionStore` with the restore journal.
11. Left: pure functions as checked operators: the restore plan, clamped and
    paired geometry, the energy policy, deduplication and attempt limits.

Every safety property of the passing runs is a theorem (section 6). Still worth
stating and proving: the abstract specifications of items 4 and 8 with their
refinements.

## 3. Modules

### `SerialExecutor`, `CompositorOperations`

`CompositorOperations` models `run()`: `Run` chains a request to the tail,
`RunRefused` is the rejection while unhealthy, `Start` and `Drop` are the
dispatch with `mayRun()` true or false, `Finish` is the native completion, and
`Watchdog` the 120 s timer that rejects all pending callers and leaves the
native operation in place. The promise chain is kept as the request each request
waits for (`after`), because the order of operations exists nowhere else. The
result of `mayRun()` is arbitrary.

`SerialExecutor` says what a caller may rely on: requests begin in order, one at
a time, and each is completed, abandoned, or given up on.
`CompositorOperations` implements it under the mapping in
`ImplementsSerialExecutor`.

### `RestoreQueue`

One run of `_restorePreviousSession` / `_runRestore`. A step is a stretch of
code between two awaits: `Begin`, `Load`, `Spare` (archive superseded records),
`Pick`, `Preserve` / `Ambiguous`, `Launch` … `LaunchFails`, `NotLaunched`,
`Ready` / `TimesOut`, `Move` … `NotMoved`, `RetireRead`, `RetireDelete`,
`Reconcile`, `Retry`, `Finish`, `Interrupt`, `RunFails`. What the compositor queue
rejects (it is unhealthy, or its watchdog fires) ends differently: a rejected launch
is caught and the record is kept (`NotLaunched`), a rejected layout ends the whole
run and leaves its marker (`RunFails`). `conf` is GSettings as the process
sees it and `disk` the durable part: `Synced` stands for `Gio.Settings.sync()`,
`Flush` for dconf's own delay, and `Crash` loses `conf` and everything in
memory. Record bytes are model values, so that "the file still holds the bytes
that were restored" is an equality. `barred` and `suspect` are history
variables: what was already requested, and which application a crash left marked.

The rest of the desktop is `Environment`: the indicator's `LateWindow`, the
tracker's `Rewrite`, logout, its cancellation, `Disable`, time, and crashes.
Native layout and launch are single steps here; `WindowLayout` opens them up.

### `LayoutSafety`, `WindowTiling`, `WindowLayout`

`LayoutSafety` has the three flags of `runtimeSafety.js`. `WindowTiling` adds
the state of `WindowTilingSupport` in one record: `tile` is `_tile_match_awsm`,
`connected` the windows with handlers, `raises` and `resizes` the pending marks,
`sized` / `resizeGen` the resize in progress, `moving` the dragged windows.
`StopResize` and `Detach` are functions on that record, because the code calls
them from inside other handlers.

`WindowLayout` composes these with `moveSession.js`. A request waits in `queue`
with the generation captured when it was made; `op` is the one operation that
owns the queue. Its program counter follows `_restoreWindowStates`: monitor,
wait, state, geometry, wait, tile, workspaces, change, finish. Requests of the
pairs share the queue. Each native call is one step with the check that precedes
it, and the desktop may interfere exactly where JavaScript is not running or is
inside a native call (`Calm`). What Mutter does of its own accord (moving
windows between monitors, unmaximizing late or never, removing workspaces) and
what the user does are actions without fairness.

`win[w]` is Mutter's view of a window; `goal` is the monitor it was asked to
move to, `leaving` that it was asked to unmaximize, `frame` whose geometry the
extension last gave it. `stale` on a request is a history variable that is set
by whatever makes the request obsolete, independently of the code's own guards.

### `SessionTracker`

The recorder of `openWindowsTracker.js` together with the loop it drives,
`saveWindowsSessionAsync`. `Prepare` is the debounce: a changed window joins
`toSave` and arms the timer. `Fire` turns the waiting windows into a batch,
cancels the saves of these windows that are under way and gives each a new
cancellable; the order in which a batch visits them is left open. `batch[n]` is
one call of `saveWindowsSessionAsync` and stands at one of its awaits: the answer
of `ps` (`info`), the replacement of a file (`writing`), and its report
(`written`). `InfoArrives`, `Written`, `Reported` and the failures `InfoFails`
and `WriteFails` are its continuations, each of which runs on to the next await,
over all the windows the loop passes by (`Advance`), or to the end of the batch
where the results are registered (`EndBatch`, `Register`). Several batches
overlap, since the timer does not wait for them.

A cancellable is named by the batch it was made for: `token[w]` is the entry of
`_runningSaveCancelableMap`, 0 when a logout cleared the map, `cancelled` the
pairs that were cancelled. `books` holds the files, the deferred clean-ups
(`_pendingCleanup`), the registrations (`_windowSessionRecords`) and the windows
with closing handlers. The bytes of a record are the version of the window they
describe. `win[w].class` is the directory of the record, so a change of WM_CLASS
(`Migrate`) moves it. `Close` and `AppStops` are the two closing handlers,
`BeginShutdown` and `CancelShutdown` the logout, `Confirm` the flag
`sessionClosedByUser`, `BeginRestore` and `EndRestore` the restorer in whose time
clean-ups are put off. `excused` and `spared` are history variables that say
which windows the two quiescent properties do not speak of, and why.

### `RecallVault`

`recall.py` as the threads of `ui.py` use it. A record is named by its time stamp;
`file[r]` is its file (`open` if it can be decrypted, `sealed` if it was written
with a former key), `order` the list `_paths()` returns, newest first, and
`images` the records whose image file exists. Each thread has its own program
counter, and a step is one access to a file or one load under the search lock:

* `capture` is `save`: `CaptureBegin` (the newest record is loaded, OCR),
  `CaptureImage`, `CaptureRecord`, then `prune`: inventory (`PruneBegin`), the
  loop (`PruneDrop`, `PruneUnlink`, `PruneKeep`, `PruneAborts` when a listed file
  is gone), the listing of what records name (`Reference`) and `Sweep`.
* `ocr` is `reindex`: load, preview, OCR into the payload, serialisation, write.
* `gui` is the window: `Annotate` and its write, or a deletion record by record,
  image first.
* `search` holds the lock from `SearchBegin` to `SearchEnd`, so that the loads of
  all others wait for it (`Unlocked`), but not their writes.
* `import` is `import_record`.

`_load` hands out the cached object itself. `aliased` says that the payload of the
reindexing is still the object in the cache, so that an annotation meanwhile
reaches both; an eviction, a write of the file or a cleared cache ends this.
Signatures are abstracted to what they decide: `Touch` drops what was cached for a
file that is replaced or removed, and takes the record out of the signatures a
running search works with. Which records the byte limit of the cache puts out is
arbitrary. `removed`, `doomed` and `failed` are history variables: deleted by the
user, image deleted on purpose, write of a changed payload failed; `ocr.missed`
records that the payload of the reindexing lacks a note.

### `RecallRecorder`

The other end of Recall, `recallRecorder.js` in the Shell. `moment` is `saveNow()`
(`SaveNow`, `MetadataSaved`, `MetadataFails`): the record is written in plain text,
superseded records are pruned, and then a snapshot begins or the manager is
started (`Finalize`). `job` holds the two things that capture windows: a *snapshot*
of one moment and a *pass* over the wanted windows for the preview cache. Both use
`CaptureStart`, `CaptureDone`, `PreviewStored`, `CapturesEnd`; the snapshot first
waits for the pass (`SnapshotTurn`), reuses cached previews (`Reuse`, `Reused`),
captures what is missing (`LiveJobs`), reuses once more, rewrites the record
(`PayloadWritten`), captures the display and compresses (`DisplayStart`,
`DisplayDone`, `Compressed`), and hands the entry on in its finally block
(`EndSnapshot`). Every handler of a setting, of energy, restore, hotplug, overview,
lock, shutdown and `destroy()` is one action that runs between any two of these.

`_screenshotGeneration` and the generation of the cache are only ever compared with
the value a job began with, so a job carries the two results of the comparison
(`current`, `kept`) and an increment makes them false. The manager that encrypts
and the deferred OCR are external: they end, with success or without.

### `Closing`

The end of a session with Autoclose: GNOME's dialog calls `closeWindows()` before it
confirms (`ConfirmDialog`), a window lists what still runs (`list`), and the
confirmation is passed on (`AutoConfirm`) by whichever comes first: the end of the
closing (`ClosingEnds`), the end of the last application (`AppChanges`), the
process timer (`ProcessTick`) or an idle call (`ConfirmIdle`). `pids` are the
applications of the list `Watched` (those whose processes outlive their windows) seen
when the user confirmed or when that timer ran. With GTop the timer lists them and then
dies: the check of their processes throws (the TODO at `autoclose.js:606`), so that
`_checkProcessStateId` stays set (`checking = "dead"`) and nothing is prepared any more.
`closing[r]` is one
call of `closeWindows()`; the dialog, Retry and the menu may overlap. It starts
ydotool, closes by rules one application after the other (`NextRule`, `KeysSent`),
then asks all others at once (`AskToClose`), of which an answer may never come.
`kept` are the workspaces with `_keepAliveId`; `Released` gives up those no other
closing claims.

### `ControlService`

The D-Bus object of `ui/autostart.js` from startup to after `disable()`. A manager
call is refused at once or asks the bus who owns the manager's name (`ManagerCall`);
the answer may be out of date when it arrives, an error or a timeout
(`OwnerReplies`, `ManagerChanges`), and is looked at in `Answered`. `last` and
`limited` are the map of the gate with its limit and its second. `seen` is a history
variable: who owned the name since the call was made. The saver of automatic
history has two timers and one save (`InitialSave`, `PeriodicSave`,
`SaveHistoryNow`, `BuildEnds`, `WriteEnds`). Restores of a login begin at once, when
startup is complete, by the countdown of a dialog or by its button; whether they
run is `Restores`, and what they do is `RestoreQueue`. `Disable` leaves what the
code leaves: handlers of `startup-complete`, which may still set the timer of the
previous session or ask for a dialog, a dialog that fades out, the timer of a dialog
that a later one replaced. What it takes away is in `ServiceInvariant`; that what it
leaves has no effect is `NothingAfterDisable`.

### `PinnedKey`, `VaultKey`

`vault_key()` of the portable edition, which every encryption calls anew. A
process holds the lock from `FindKey` to `CheckKey` or `PinKey` and stands between
two accesses to a file or to the credential store: a key that does not exist is put
into the store and read back (`StoreKey`) or written to a file (`CreateKeyFile`,
`WriteKeyFile`), then compared with the descriptor or tried on the records
(`CheckKey`) and pinned (`PinKey`). `Encrypt` writes a record or an image later,
without the lock. `GiveUp` is any exception and the death of the process. The store
may be locked, empty, or hold the key of another vault. A vault of a former version has
a key, records and no descriptor, and its records may be of several keys
(`docs/STABILITY_AUDIT.md:24` speaks of mixed-key histories): `legacy` are the keys of
those that are left, `former` all that were found, `sealed` the keys of the records
written since. A key that opens one of them is accepted. A fingerprint is the key itself.

`PinnedKey` says what this amounts to for the vault's users: one key is chosen, once
and for ever, from the history of the vault if it has one; each user is given that key
and writes with no other. The records of a mixed history that are of another key stay
closed. Under the mapping in `ImplementsPinnedKey` the key is chosen
when the descriptor is complete, a process has it from then, or from the comparison
with the descriptor, until it has written its record. Lock, key file, store and torn
files are steps in which nothing happens, and a process that dies with the key used
it for nothing.

### `MCShell`, `MCRecall`

Components that share no modelled state are checked in one run: `part` says which
one moves, the others stay in one initial state. `MCShell` takes the compositor
queue, the end of a session and the control service, `MCRecall` the recorder, the
vault and its key. `RecallInvariant` puts the invariant of the recorder and the types
of the other two together.

## 4. Runs and bounds

| Run | Instance | Shows |
|---|---|---|
| `shell_services` | queue: 5 requests, watchdog on; closing: 2 applications, one closed by a rule, 2 windows, 2 closings, 3 events; service: 2 clients, 2 calls, limits of 1, 2 dialogs, 2 events | queue: operations in order and one at a time (refinement), refusal only while something hangs, nobody left waiting; the session ends once and not too early, workspaces stay; calls are authorised and answered, saving resumes, `disable()` takes the saver's timers and the last countdown away and nothing takes effect after it |
| `restore_queue` | 2 applications, 2 files, 3 contents, 2 runs, 2 disturbances, clock 1..3 | the inductive invariant and the safety properties |
| `restore_progress` | the same, 1 run | every run ends |
| `restore_partial_load` | 3 runs, 1 disturbance, reads may fail | *violated*: see 7 |
| `window_layout` | 2 windows, 4 records, 2 monitors, 2 workspaces, 2 requests, 3 disturbances of which 2 of the desktop | the layout properties |
| `session_tracker` | 2 windows, 2 classes, 3 changes, 2 disturbances | what is open is recorded, what was closed is not, nothing is removed while protected |
| `tracker_migrate` | 4 changes, no disturbance | *violated*: see 7 |
| `recall` | recorder: 2 windows, 2 moments, 1 entry, 2 energy states, 1 change; vault: 4 records, of which 1 readable and 1 of a former key at first, 4 events, 2 notes, quota 4; key: 2 processes, 3 keys, 2 changes by the user | recorder: plaintext is handled, the cache and what is sealed follow the settings; vault: images go and stay with their records, caches and notes are right; key: no key is used that does not open every record written since the vault got one, that is foreign to its history or that nothing leads to, and a vault has one key for ever (refinement) |
| `recall_deleted` | one record, 2 events | *violated*: see 7 |
| `recall_quota` | 2 records, quota 3, 1 event | *violated*: see 7 |
| `recall_pause` | recorder with 1 moment, 1 change | *violated*: see 7 |
| `closing_cancelled` | as `shell_services`, from every start | *violated*: see 7 |

Why these are enough to be interesting. Five compositor requests allow one that
hangs, one rejected behind it, and a refill of the queue before the late
completion. In the restore instance one application has two records that name
documents and the other has one without; two runs with a crash and one more
disturbance cover "crash, refused run, allowed run", with a hold of two ticks and
a pause of one so that the order of the two limits matters. The four layout
records cover a move to another monitor and workspace with a tile, an unusable
geometry, a sticky record for a monitor that is gone, and a maximized record
with an impossible workspace; the first fits both windows, so they compete. The
first window starts maximized, so that its geometry has to wait for Mutter.
Three disturbances let a monitor disappear and settle while a request is queued,
or a grab begin, resize, and be replaced by the next grab before the partner's
resize has its turn.

Three changes give the tracker up to three overlapping batches: two of one window
and one of the other, or a window saved, migrated and closed while the other one
holds its batch open. Two disturbances combine a logout with its dialog, with a
restore, or with a failing write.

The events of the vault are what a thread begins, a failing write, and a crash; the
steps in between are free. Four of them let a capture, an import and a reindexing
run over a deletion, or two notes and a search over a reindexing. With a record
and an image counting one each, the two first records fill the quota of four: a new
one exceeds it, unless a deletion made room, also while the prune runs.

Two moments of the recorder let the prune of the second meet the snapshot or the
manager of the first, with room for one entry. One change may come between any two
steps of a moment, a snapshot and a pass; expiry, settling, timers and the ends of
processes are not counted. Of two windows one can be excluded, so that a snapshot
with and without it differs.

Three keys are those of the vault, of another vault in the store, and a new one; the
records found at first may be of any of them, of several or of none; two
processes suffice for every race, since all but one wait at the lock or hold a key.
Two changes by the user are, for instance, all records deleted and the store reset.

In part "closing" the application without a rule starts with two windows and the
other with one, so that a window may go without its application ending. Three
events are, for instance, Cancel, a Retry and the last end, while both closings run.
With one call at a gate and one remembered caller, two clients reach every limit.
One of the two applications is `Watched`, and GTop is there or not.
Two dialogs let a later one replace the one whose timer still runs. Two events of
the service go with free replies, timers, intervals, files and `disable()`.

Deadlock checking is off where all bounds used up legitimately ends the instance.

Each property has a mutant, a variant of a modelled definition with a plausible
mistake in it, defined next to the original (`LaunchUnsynced`, `ReleasedAll`, …).
TLC must find the property violated when the variant takes the original's place.

## 5. Fairness

* `CompositorOperations`: promise jobs and the watchdog run; native operations
  need not return.
* `RestoreQueue`: weak fairness of the run's own steps, since every await has a
  timeout; strong fairness of `Finish`, since the retries of unmatched layouts
  stop after ten seconds although each round may be interrupted by a late window.
  Crashes, time and the user are not fair.
* `WindowLayout`: weak fairness of the operation's steps, timers included.
  Nothing is assumed of Mutter: windows may never arrive or unmaximize.
* `RecallVault` states safety only: nothing in it waits for anything but the search
  lock.
* `RecallRecorder`: timers fire, processes end, asynchronous calls return (the
  compositor queue gives up a native one after 120 s), and time passes. Users and
  the desktop owe nothing.
* `Closing`: timers and idle calls run, a closing takes its next step when it can.
  Nobody owes to close a window: `EndFollows` holds with a closing that waits for
  ever. Nothing is assumed of processes: the fair step is one tick of the timer,
  whatever it finds.
* `ControlService`: the bus answers or the call times out after 500 ms, replies are
  dispatched, the periodic timer runs, `ps` and files answer. `SavingResumes`
  speaks of the time in which saving stays on and nothing is in its way.
* `SessionTracker` states safety only; what should eventually hold (everything is
  recorded) is stated of the states in which nothing is left to do (`Quiet`).

## 6. Proofs

`CompositorOperationsProofs` proves, for any number of requests and with or
without a watchdog, that `QueueInvariant` is inductive (the `after` links form a
chain of which a prefix has settled; the flags agree with the one operation in
flight), hence `NoOverlap` and `UnhealthyOnlyWhileHung`, and that every step
implements or stutters in `SerialExecutor`. No run checks `NoOverlap` by itself:
the refinement implies it.

`RestoreQueueProofs` proves `Spec => []RestoreInvariant` for any finite or
infinite sets of applications, files and contents, and any bounds. The invariant
has named parts, each with its own lemma and one case per action:

* `RunShape`: what the fields of the run mean at each point;
* `Archiving`: ledger keys, in memory and on disk, have archived copies;
* `Durability`: a marker that is set is on disk (`MarkerOnDisk`; the code does not
  sync again for a marker it finds set), and from before a launch until its result so
  is the ledger entry;
* `Holding`: an application a crash left marked is remembered by a hold or by
  the marker, *in each of* `conf` and `disk`, since a further crash may fall back
  to either; a run in progress needs holds alone because it moves the marker;
* `Replaying`: barred records stay in the ledger, and an automatic run has none
  of them before it.

None of the safety properties is inductive alone: `CrashedAppIsHeld` speaks of
the moment of native work, while the reason lies in what earlier runs, refused
runs and crashes left in two copies of the settings. From the invariant follow
`BarredArchived`, `LaunchIsDurable`, `CrashedIsHeld`, `NoReplay` and
`OnlyHandled`. `NoReplay` assumes `~PartialLoads` (records are read completely);
section 7 shows the assumption is needed. `HoldAssumption` states that the hold
is at least as long as the pause (24 h and 10 min in the code).

`SessionTrackerProofs` proves, for any sets of windows and classes, any number of
batches, logouts and restores, `Spec => []TrackerInvariant`, and from it
`TypeCorrect`, `Armed`, `NoResurrection` and `Kept`. The core of the invariant is
`SavesAreCancellable`. That a closed window is not written again is not
inductive: a save may be in any of several batches, while the closing handler
cancels a single cancellable, the one in the map. It suffices because every save
under way holds the newest cancellable of its window, or one that a later batch
cancelled, or none at all after a logout (the exception the property names), and
because a closed window waits no more, so that it gets no new one. `FilesEffect`
says what any step can do to the files; `NoResurrection` and `Kept` follow from it.

`ChangesAreRecorded` and `ClosedRecordsGo` speak only of the states in which nothing
is left to do. `RecordsInvariant` says for every other state why it will come out
right:

* `TracesAgree`: the class in a path, a result or a registration is the window's,
  unless the window changed it; cancellables are of batches that have begun;
* `LatestIsKept`: the file of an open window has its latest version, or its newest
  batch was not cancelled and has it on its list, or is writing that version; and no
  write that may still replace the file has older bytes;
* `ClosedAreRemoved`: the file of a closed window is gone, or its removal is pending
  with exactly the bytes that lie there, or a batch that wrote it will register it
  and then remove it.

A batch saves all the windows it took only because its list holds each of them once
and is as long as the set (`QueueHoldsAll`, a pigeonhole argument).

`WindowLayoutProofs` proves, for any finite sets of windows and records, any saved
fields and any bounds, `Spec => []LayoutIndInvariant`, and from it `LayoutInvariant`
and the four action properties of the run. Its parts:

* `LayoutShape`: types, and which windows and records a request or an operation
  works with at each point;
* `PairsAreMutual` and `PendingIsQueued`, which are inductive only together with
  the shape: `StopResize` and `Detach` run inside other handlers;
* `QueuedIsRefused`, `RunningIsRefused`: what made a request obsolete is never
  undone, since generations of layouts and of resizes only grow and a window that is
  gone does not return, so the guard that comes just before a native call still sees
  it, however many waits later. `StaleIsInert` follows;
* `RecordInHand`: the record in hand is not used up, and before it is marked its
  window is on the saved workspace. `RecordsAreUsedOnce` follows, although several
  windows compete for a record.

`OccupiedIsNotResized` and `TouchesOnlyUsable` follow from the shape and from what
the single steps test. Mutter and the user are unrestricted in all of this.

`RecallVaultProofs` proves, for any finite set of records and any quota and
bounds, `Spec => []VaultInvariant`, and from it the type invariant and the four
properties of the vault in `recall`. The invariant has these parts, each with a lemma per thread:

* `StampsAreUnique`: a record whose image is written before its file is one that
  no other thread can come upon. Everything below rests on it, for a thread that
  met a half-made record could delete or annotate it;
* `DoomedFirst` and `SweepSpares` support `ImagesKept`: the sweep goes by a
  listing made earlier, and what became readable since then must have been known
  to it, or be among the imports the property excepts;
* `ImagesFirst` supports `RemovedTogether`: a listed record that is gone without
  this thread's doing has lost its image as well, since every deletion takes the
  image first;
* `CachesAgree`: what is cached under a current signature is what the file holds,
  unless an update is under way or failed. It speaks of the record cache besides
  the index, because searches fill the one from the other;
* `NotesRun`: notes are numbered in the order they are made, and each copy of a
  record (file, cache, reindexing, annotation) has at least the notes of the
  copy it may replace. `NotesKept` follows with `FileSteps`, which says which
  steps write files at all.

`RecallRecorderProofs` proves, for any windows, energy states, limits and bounds,
`RecorderSpec => []RecorderIndInvariant`. Its parts besides the types:

* `ActivityCounted`: the counter is a sum of four terms, which every end of a job
  lowers once, whether it succeeds, fails or is aborted;
* `JobShape` and `OneCaptureAtATime`: where each job may stand, so that a pass and a
  snapshot never capture together;
* `UnheardIsClean`: of a moment that is not begun nothing lies around, so that a new
  moment finds nothing of a former one;
* `PlaintextIsHandled`, which needs the two before it: the file of a moment passes
  from the snapshot to the manager in one step;
* `ExclusionsHold`: a job that nobody invalidated works under the present
  exclusions. `CacheFollowsSettings` needs it for a preview that is being stored
  while they change;
* `CurrentIsWanted`: whatever forbids a snapshot that has begun also invalidates it.
  `OnlyWantedIsSealed` rests on it: the code tests the comparison of generations
  when it hands images over, not pause or settings.

`RecallStaysSound` puts the invariants of recorder, vault and key together for the
specification that the run checks.

`ClosingProofs` proves, for any finite set of applications with any split into
ruled and plain ones and any closings, `ClosingSpec => []EndInvariant`, and from it
the part of `ShellInvariant` about closings and `EndsWhenIdle`. That the
session ends once is not inductive: four callers may confirm, two of them later. It
suffices that whoever passes the confirmation on leaves the window in a state in which
it does so no more and cannot be cancelled (`ConfirmedOnce`). `EndsWhenIdle` needs that idle calls and the process timer exist
with GTop only (`WatchedWithGTop`).

`ControlServiceProofs` proves, for any finite sets of clients and call slots, and
any operations, limits and dialogs, `ServiceSpec => [](CallsInvariant /\
LifeInvariant)`, and from it the part of `ShellInvariant` about the service,
`WorkIsAuthorised` and `NothingAfterDisable`. The core is `OwnersWereSeen`: while a
call waits, the present owner is among those seen since it was made, hence any
answer of the bus is one of them or nobody, and a client is never nobody. The gate's
limit rests on `NobodyMoreWaits`; `NothingAfterDisable` on the shutdown flag, which
`disable()` sets before the service goes and nothing takes back afterwards
(`LifeIsOver`). That a countdown which outlives `disable()` is one of a dialog that was
replaced needs `DialogsInOrder`: the last dialog made is the one the service knows.
`ShellIsSafe` puts both together for `ShellSpec`, the specification
that the run checks.

The second half of `RecallVaultProofs` is about the key and proves, for any processes
and keys, `KeySpec => []KeyInvariant`, and from it `KeyContinues`. Who looks for the key or creates it holds the lock
(`LockIsHeld`); what such a process has seen of the descriptor still holds
(`Progress`), since only a holder writes it. So all records written by this version are
of one key, the pinned one, and there are none before it is pinned (`OneKey`), also when
records are deleted and written meanwhile; while records of former versions are left,
the key is of their history, which may be mixed; and where the descriptor leads there is that key (`Recoverable`),
unless the user changed the store or removed the file. `KeyImplementsPinnedKey` shows
that every step chooses, obtains or uses the pinned key or is none of `PinnedKey`. It
needs `OneKey` when the key is pinned, and `Progress` for a process that is handed the
key after it compared it.

Only model-checked: liveness (`EveryCallerAnswered`, `RestoreEnds`, `QueueDrains`,
`EndFollows`, `EveryCallAnswered`, `SavingResumes`), which rests on fairness and is
beyond the prover.

## 7. What the runs found

* `restore_partial_load`: `_restorePreviousSession` prunes from the replay ledger
  every key that is not among the entries it *could read*, while its comment
  speaks of records that no longer exist. A failed or interrupted read makes a
  later automatic run request documents a second time.
* `tracker_migrate`: results are registered when their whole batch ends. A result
  of the former class that arrives after a newer batch has registered the new one
  passes for another change of class, and the record under the new class is
  deleted; the old one is already gone. An open window stays without a record
  until it changes again. `StillRecorded` leaves windows that changed class to
  this run.
* `recall_deleted`: `reindex` writes back the record it loaded, up to two minutes
  of OCR earlier, without looking whether it still exists. A record deleted
  meanwhile in the window (clear promises that entries are permanently deleted)
  returns with its titles and OCR text. `RemovedTogether` shows that at least its
  image does not.
* `recall_quota`: `prune` lists the newest record first and deletes while the total
  exceeds the quota, so that over the quota the newest records go and the oldest
  stay. The entry `save` has just stored is the first to be deleted, and the window
  reports it as saved. `app/recall_engine.py:2081` has the same loop.

* `recall_pause`: the handler that begins a timed pause removes the timers of the
  recorder (`_reschedule`, `ext/recallRecorder.js:986`), and only a tick of those
  timers would notice that the pause is over. `docs/RECALL_GUIDE.md` says that
  Pause stops new captures for the chosen duration; they stay stopped until a
  setting or the energy state changes, or a capture is asked for.
* `closing_cancelled`: after Cancel the window of running applications still hears
  of their ends, and `_confirm` returns early only when the end is being confirmed
  or was confirmed, so that the last application that the user closes ends the session after all.

Three more disagreements show as exceptions of passing properties. With GTop the timer
that waits for the processes of certain applications dies at its first tick that finds
one (the TODO at `autoclose.js:606` says that the call throws), and the end the user
confirmed never comes; `EndFollows` speaks of GTop only when there is none to wait for.
The restore queue
writes the crash marker before its turn in the compositor queue and overwrites the
marker of a late window whose layout is in flight; `CrashedAppIsHeld` speaks of the
marked application. `_cancelAllRunningSave` clears the map from which a save loop
takes the cancellable of its next window, so that the rest of a batch is written
during a confirmed logout; `ClosedStaysClosed` excepts saves without a cancellable.

## 8. What is not modelled

* Named-session restore (command launches, pid map) shares `_runRestore` but is
  not a run kind of `RestoreQueue`. The ledger's limit of 4096 keys is left out.
  The clock only moves forward.
* `WindowLayout` leaves out reading session files and
  `createEnoughWorkspaceAndMoveWindows`, which nothing calls; always-on-top; and
  the compositor queue's unhealthy state, which `CompositorOperations` covers.
  Frames are opaque; clamping is planned as a checked function. The enabling of
  the extension after it was disabled is not modelled there.
* `SessionTracker` leaves out the summary file, `windows-mapping`, the restart of
  the Shell on X11, the blacklist, ignored windows and windows without WM_CLASS,
  symbolic links, and settings that turn recording off. All windows belong to one
  application. The check of a cancellable by GIO and the rename of the new file
  over the old are one step: GIO's own race between the two is not split.
* `RecallVault` leaves out what is stored and how it is found (OCR, redaction,
  filters, ranking), export, and temporary files of interrupted
  writes. A record has one image. Two reindexings of the same record at once (the
  dialog's and the deferred one) are not modelled. The cache of the directory
  listing goes by the directory's mtime; two changes within one tick of the file
  system's clock are taken to be told apart. Images of records that cannot be
  read are swept by the next prune; `ImagesKept` speaks of readable records.
* `VaultKey` leaves out the text encoding of the key file, symbolic links, the test
  key of the environment, and damage done to files by others; a file is whole or
  torn. A record opens with its key: of many records the code tries 32, and skips
  very large or foreign ones, so that it may refuse a key that opens only others
  (`GiveUp`). Of a mixed history it accepts a key that opens one sample; which one that
  is depends on the order of files, and nothing is promised about the rest. Records
  damaged beyond any key are not among `legacy`. Images are not tried, so that a vault of a former
  version that has images only may be given another key; `KeyContinues` speaks of
  records. A file torn by a crash, or a descriptor, locks the vault until somebody
  removes it: nothing promises otherwise. The GTK manager calls the same function for
  its own vault and keeps the key (`app/recall_engine.py:706`); capsules have a key of
  another kind.
* `RecallRecorder` leaves out the list and the summaries of entries, and the removal
  of entries by age with its setting. What a title, a keyword, visibility, a file
  size or a budget of time decides is a choice. The recorder lives once:
  `destroy()` is followed by nothing.
* `Closing` leaves out which end was chosen (log out, restart, power off), key codes,
  the layout and dragging of its window, and errors in the file of rules.
* `ControlService` leaves out `SaveSession`, `DeleteSession` and `OpenManager`,
  overlapping saves of named sessions with their backup, and what the files of the
  history hold. An unchanged desktop is a choice of the saver.
* The indicator's settle timers and menu, the preferences and the widgets.
* Components with status `not_modelled` in `PROJECT.json`: planned ones say so;
  the others are presentation, packaging or stateless I/O.

## 9. Running

    tlc -config RestoreQueue.cfg MCRestoreQueue.tla
    tlc -config Shell.cfg MCShell.tla
    tlapm RestoreQueueProofs.tla

`PROJECT.json` lists the module, configuration and properties of every run, the
source lines of every definition, the hazards with the properties that watch
them, and the theorems.
