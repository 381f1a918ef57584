--------------------------- MODULE RecallRecorder ---------------------------
(***************************************************************************)
(* The recorder of Privacy Recall in the shell (recallRecorder.js), with   *)
(* its preview cache (recallWorkspaceCache.js), the activity counter       *)
(* (recallActivity.js) and the energy policy (powerPolicy.js).             *)
(*                                                                         *)
(* saveNow() writes a moment: a plaintext record, then a snapshot of its   *)
(* windows and of the displays, then a manager process that encrypts the   *)
(* entry.  A pass captures visible windows into the cache.  Every `await'  *)
(* ends an action, so that settings, power, lock, restore, shutdown and    *)
(* destroy() may come between any two steps.                               *)
(*                                                                         *)
(* A job remembers the value of _screenshotGeneration it started with only *)
(* to compare it: job[p].current says whether it is still equal, and       *)
(* _screenshotGeneration++ makes it false.  job[p].kept is the same for    *)
(* _generation of the cache.  Screenshot pixels, titles, sizes and ages    *)
(* are choices; the two windows in a preview's life that matter are kept:  *)
(* which window it shows and under which exclusions it was taken.          *)
(***************************************************************************)
EXTENDS Integers, FiniteSets

CONSTANTS Windows,         \* windows of the desktop
          SecretWindow,    \* the one whose application the user may exclude
          PowerLevels,     \* energy states the machine goes through
          EntryLimit,      \* RECALL_LIMIT
          MaxMoments,      \* bound on the moments recorded
          MaxChanges       \* bound on what happens around the recorder

ASSUME RecorderAssumption ==
  /\ SecretWindow \in Windows
  /\ IsFiniteSet(Windows)
  /\ "none" \notin Windows
  /\ PowerLevels \subseteq {"ac", "saver", "battery", "low", "critical"}
  /\ "ac" \in PowerLevels
  /\ EntryLimit \in Nat \ {0}
  /\ MaxMoments \in Nat
  /\ MaxChanges \in Nat

VARIABLES
  config,      \* GSettings: recall-enabled, -capture-screenshots, -excluded-apps, -pause-until
  world,       \* energy, screen, shutdown, restore, quiet time after a restore or hotplug
  alive,       \* destroy() was not called
  timers,      \* capture: _initialTimeoutId, _periodicTimeoutId; pass: _workspaceCacheTimeoutId
  wanted,      \* _workspaceCacheTargets; all windows stand for _workspaceCacheFullPending
  moment,      \* saveNow() in progress (_saving)
  job,         \* a cache pass and a snapshot in progress
  previews,    \* windows with a cached preview
  record,      \* the record file of each moment
  pictures,    \* plaintext images beside it: windows, or "display"
  finalizing,  \* moments the manager is encrypting
  deferredOcr, \* _deferredOcrProcess
  operations,  \* recallActivity._operations
  recorded,    \* moments begun
  changes      \* changes around the recorder so far

recorderVars == <<config, world, alive, timers, wanted, moment, job, previews, record,
                  pictures, finalizing, deferredOcr, operations, recorded, changes>>

Moments == 1..MaxMoments
Jobs == {"pass", "snapshot"}
NoWindow == "none"
WindowSteps == {"loop", "native", "storing"}
SnapshotSteps == {"waiting", "reuse", "reusing", "again", "reusingAgain", "payload",
                  "displayQueued", "display", "compress", "compressWindows"}

RecorderTypeOK ==
  /\ config \in [enabled: BOOLEAN, screenshots: BOOLEAN, excluded: BOOLEAN,
                 paused: {"no", "timed", "forever", "expired"}]
  /\ world \in [power: PowerLevels, screen: {"open", "covered", "locked"},
                shutdown: BOOLEAN, restoring: BOOLEAN, settling: BOOLEAN]
  /\ alive \in BOOLEAN
  /\ timers \in [capture: BOOLEAN, pass: BOOLEAN]
  /\ wanted \subseteq Windows
  /\ moment \in [saving: BOOLEAN, power: PowerLevels, windows: SUBSET Windows]
  /\ job \in [Jobs -> [at: {"off"} \cup WindowSteps \cup SnapshotSteps,
                       current: BOOLEAN, kept: BOOLEAN, excluded: BOOLEAN,
                       todo: SUBSET Windows, windows: SUBSET Windows,
                       window: Windows \cup {NoWindow}, name: 0..MaxMoments]]
  /\ previews \subseteq Windows
  /\ record \in [Moments -> {"none", "plain", "sealed"}]
  /\ pictures \in [Moments -> SUBSET (Windows \cup {"display"})]
  /\ finalizing \subseteq Moments
  /\ deferredOcr \in {"none", "running", "stopping"}
  /\ operations \in Int
  /\ recorded \in 0..MaxMoments
  /\ changes \in 0..MaxChanges

NoJob == [at |-> "off", current |-> FALSE, kept |-> FALSE, excluded |-> FALSE,
          todo |-> {}, windows |-> {}, window |-> NoWindow, name |-> 0]

-----------------------------------------------------------------------------
(* policy(): what each energy state allows.                                *)
Critical(power) == power = "critical"
Screenshots(power) == power \in {"ac", "battery"}
Ocr(power) == power = "ac"

Paused == config.paused \in {"timed", "forever"}
Busy(p) == job[p].at # "off"

(* _mayCaptureWorkspace()                                                  *)
MayCapture ==
  /\ alive
  /\ ~world.shutdown
  /\ ~world.restoring
  /\ ~world.settling
  /\ config.enabled
  /\ config.screenshots
  /\ Screenshots(world.power)
  /\ world.screen = "open"
  /\ ~Paused

(* shouldContinue() of a job                                               *)
Continues(p) == job[p].current /\ MayCapture

(* _excludedApplicationVisible(exclusions): a window of the application is *)
(* there, or not.                                                          *)
ExcludedVisible(p) == IF job[p].excluded THEN BOOLEAN ELSE {FALSE}

(* _screenshotGeneration++ and clearPreviewCache(), as every job sees them *)
Invalidated(jobs) == [p \in Jobs |-> [jobs[p] EXCEPT !.current = FALSE]]
CacheDropped(jobs) == [p \in Jobs |-> [jobs[p] EXCEPT !.kept = FALSE]]

(* deleteRecallScreenshots(): goes by the record files that exist.         *)
WithoutImages ==
  [m \in Moments |-> IF record[m] = "none" THEN pictures[m] ELSE {}]

(* _scheduleWorkspaceCache(delay, windows) with the settings and the world *)
(* the handler sees; `rest' has the capture timers.                        *)
SchedulePass(windows, rest) ==
  /\ wanted' = wanted \cup windows
  /\ timers' = [rest EXCEPT !.pass =
       /\ alive /\ ~world'.shutdown
       /\ MayCapture' \/ world'.settling]

(* _reschedule()                                                           *)
Reschedule ==
  IF ~config'.enabled \/ config'.paused \in {"timed", "forever"}
  THEN /\ timers' = [capture |-> FALSE, pass |-> FALSE]
       /\ UNCHANGED wanted
  ELSE SchedulePass(Windows, [capture |-> TRUE, pass |-> FALSE])

(* _resumeDeferredOcr(): no second process while one has not been reaped.  *)
ResumeOcr ==
  deferredOcr' = IF deferredOcr = "none" /\ config'.enabled THEN "running" ELSE deferredOcr

-----------------------------------------------------------------------------
(* Init: the constructor with Recall and its screenshots enabled: the      *)
(* cache of a former login is cleared, both timers and a full pass are     *)
(* scheduled, and deferred OCR goes on when energy allows.                 *)
RecorderInit ==
  /\ \E power \in PowerLevels, enabled \in BOOLEAN, excluded \in BOOLEAN :
       /\ config = [enabled |-> enabled, screenshots |-> TRUE, excluded |-> excluded,
                    paused |-> "no"]
       /\ world = [power |-> power, screen |-> "open", shutdown |-> FALSE,
                   restoring |-> FALSE, settling |-> FALSE]
       /\ timers = [capture |-> enabled, pass |-> enabled /\ Screenshots(power)]
       /\ deferredOcr = IF enabled /\ Ocr(power) THEN "running" ELSE "none"
       /\ moment = [saving |-> FALSE, power |-> power, windows |-> {}]
       /\ wanted = IF enabled THEN Windows ELSE {}
  /\ alive = TRUE
  /\ job = [p \in Jobs |-> NoJob]
  /\ previews = {}
  /\ record = [m \in Moments |-> "none"]
  /\ pictures = [m \in Moments |-> {}]
  /\ finalizing = {}
  /\ operations = 0
  /\ recorded = 0
  /\ changes = 0

-----------------------------------------------------------------------------
(* saveNow() up to its first await.  An expired pause is reset first, whose *)
(* handler runs at once.                                                   *)
SaveNow ==
  /\ alive /\ ~world.shutdown /\ ~moment.saving /\ deferredOcr = "none"
  /\ config.enabled /\ ~Critical(world.power) /\ ~Paused
  /\ recorded < MaxMoments
  /\ recorded' = recorded + 1
  /\ operations' = operations + 1
  /\ moment' = [saving |-> TRUE, power |-> world.power,
                windows |-> IF config.excluded THEN Windows \ {SecretWindow} ELSE Windows]
  /\ config' = [config EXCEPT !.paused = "no"]
  /\ UNCHANGED <<world, alive, previews, record, pictures, finalizing, deferredOcr, changes>>
  /\ IF config.paused = "expired"
     THEN job' = Invalidated(job) /\ Reschedule
     ELSE UNCHANGED <<job, timers, wanted>>

(* The first and the periodic timer, of which the periodic one goes on for *)
(* good, and CaptureRecallNow of the control service.                      *)
CaptureTick == timers.capture /\ SaveNow
CaptureNow == SaveNow

(* _finalizeCapture(m): the manager starts, or the entry is removed.       *)
Finalize(m, records, files, count) ==
  \/ /\ finalizing' = finalizing \cup {m}
     /\ operations' = count + 1
     /\ record' = records
     /\ pictures' = files
  \/ /\ operations' = count
     /\ record' = [records EXCEPT ![m] = "none"]
     /\ pictures' = [files EXCEPT ![m] = {}]
     /\ UNCHANGED finalizing

(* _prune(), unless it ran less than five minutes ago: at most EntryLimit  *)
(* records stay, the new one among them, and the others go with their      *)
(* images.  Age is left out.                                               *)
Pruned(m) ==
  LET files == {n \in Moments : n = m \/ record[n] # "none"} IN
    {{}} \cup {gone \in SUBSET (files \ {m}) :
               Cardinality(files \ gone) = IF Cardinality(files) > EntryLimit
                                           THEN EntryLimit ELSE Cardinality(files)}

(* saveRecallAsync() wrote nothing: no window is left, or an error.        *)
MetadataFails ==
  /\ moment.saving
  /\ moment' = [moment EXCEPT !.saving = FALSE]
  /\ operations' = operations - 1
  /\ UNCHANGED <<config, world, alive, timers, wanted, job, previews, record, pictures,
                 finalizing, deferredOcr, recorded, changes>>

(* saveNow() after saveRecallAsync() wrote the record.  After destroy()    *)
(* the settings are gone: the rest throws and the record stays as it is.   *)
(* The energy policy is the one of the beginning, the settings are the     *)
(* present ones.                                                           *)
MetadataSaved ==
  LET m == recorded
      shots == config.screenshots /\ Screenshots(moment.power)
      snapshot == shots /\ world.screen # "locked" /\ ~Busy("snapshot")
      written == [record EXCEPT ![m] = "plain"]
  IN /\ moment.saving
     /\ moment' = [moment EXCEPT !.saving = FALSE]
     /\ UNCHANGED <<config, world, alive, timers, wanted, previews, deferredOcr, recorded, changes>>
     /\ IF ~alive
        THEN /\ record' = written
             /\ operations' = operations - 1
             /\ UNCHANGED <<job, pictures, finalizing>>
        ELSE \E gone \in Pruned(m) :
               LET records == [n \in Moments |-> IF n \in gone THEN "none" ELSE written[n]]
                   files == [n \in Moments |-> IF n \in gone THEN {} ELSE pictures[n]]
               IN IF snapshot
                  THEN /\ job' = [job EXCEPT !["snapshot"] =
                             [NoJob EXCEPT !.at = "waiting", !.current = TRUE, !.name = m,
                                           !.excluded = config.excluded,
                                           !.windows = moment.windows]]
                       /\ record' = records
                       /\ pictures' = files
                       /\ UNCHANGED <<finalizing, operations>>
                  ELSE Finalize(m, records, files, operations - 1) /\ UNCHANGED job

(* The manager ends: the entry is encrypted, or removed when it failed.    *)
FinalizeDone(m) ==
  /\ m \in finalizing
  /\ finalizing' = finalizing \ {m}
  /\ pictures' = [pictures EXCEPT ![m] = {}]
  /\ \/ record[m] = "plain" /\ record' = [record EXCEPT ![m] = "sealed"]
     \/ record' = [record EXCEPT ![m] = "none"]
  /\ operations' = operations - 1
  /\ UNCHANGED <<config, world, alive, timers, wanted, moment, job, previews, deferredOcr,
                 recorded, changes>>

-----------------------------------------------------------------------------
(* The snapshot of one moment (_captureScreenshotForEntry and the window   *)
(* loops it awaits).  `Snap' is its job.                                   *)
Snap == job["snapshot"]
SnapAt(step) == [job EXCEPT !["snapshot"].at = step]
Shown(m, files) == [pictures EXCEPT ![m] = files]

Surroundings == <<config, world, alive, timers, wanted, moment, deferredOcr, recorded, changes>>

(* Mutant of EndSnapshot: a destroyed recorder leaves what it captured.     *)
EndSnapshotLeaves(files) ==
  /\ job' = [job EXCEPT !["snapshot"] = NoJob]
  /\ UNCHANGED previews
  /\ IF alive
     THEN Finalize(Snap.name, record, Shown(Snap.name, files), operations - 1)
     ELSE operations' = operations - 1 /\ UNCHANGED <<record, pictures, finalizing>>

(* The finally block: the entry goes to the manager unless destroyed.      *)
EndSnapshot(files) ==
  /\ job' = [job EXCEPT !["snapshot"] = NoJob]
  /\ UNCHANGED previews
  /\ IF alive
     THEN Finalize(Snap.name, record, Shown(Snap.name, files), operations - 1)
     ELSE /\ pictures' = Shown(Snap.name, files)
          /\ operations' = operations - 1
          /\ UNCHANGED <<record, finalizing>>

(* The pass in progress at the start has ended.  An invalidated snapshot   *)
(* ends with no image; without displays or record it throws.               *)
SnapshotTurn ==
  /\ Snap.at = "waiting"
  /\ ~Busy("pass")
  /\ UNCHANGED Surroundings
  /\ \/ EndSnapshot({})
     \/ /\ Continues("snapshot")
        /\ record[Snap.name] # "none"
        /\ job' = [job EXCEPT !["snapshot"].at = "reuse", !["snapshot"].todo = Snap.windows]
        /\ UNCHANGED <<previews, record, pictures, finalizing, operations>>

(* restorePreview() finds the window in the cache and starts to write it.  *)
Reuse(w) ==
  /\ Snap.at \in {"reuse", "again"}
  /\ w \in Snap.todo \cap previews
  /\ Continues("snapshot")
  /\ job' = [job EXCEPT
       !["snapshot"].at = IF Snap.at = "reuse" THEN "reusing" ELSE "reusingAgain",
       !["snapshot"].todo = @ \ {w}, !["snapshot"].window = w, !["snapshot"].kept = TRUE]
  /\ UNCHANGED <<previews, record, pictures, finalizing, operations>>
  /\ UNCHANGED Surroundings

(* The write ended: the file stays if the cache was not cleared meanwhile  *)
(* and the snapshot may go on, else it is deleted.                         *)
Reused ==
  /\ Snap.at \in {"reusing", "reusingAgain"}
  /\ job' = SnapAt(IF Snap.at = "reusing" THEN "reuse" ELSE "again")
  /\ \/ UNCHANGED pictures
     \/ /\ Snap.kept /\ Continues("snapshot")
        /\ pictures' = [pictures EXCEPT ![Snap.name] = @ \cup {Snap.window}]
  /\ UNCHANGED <<previews, record, finalizing, operations>>
  /\ UNCHANGED Surroundings

(* The first round of reuse is over: the windows to capture live are those *)
(* visible now, not excluded and without an image.                         *)
LiveJobs(windows) ==
  /\ Snap.at = "reuse"
  /\ windows \subseteq Snap.windows \ pictures[Snap.name]
  /\ Snap.excluded => SecretWindow \notin windows
  /\ job' = [job EXCEPT !["snapshot"].at = "loop", !["snapshot"].todo = windows]
  /\ UNCHANGED <<previews, record, pictures, finalizing, operations>>
  /\ UNCHANGED Surroundings

(* Second round of reuse ended: the payload with the diagnostics is being  *)
(* written over the record.                                                *)
ReuseEnds ==
  /\ Snap.at = "again"
  /\ job' = SnapAt("payload")
  /\ UNCHANGED <<previews, record, pictures, finalizing, operations>>
  /\ UNCHANGED Surroundings

(* The payload is written, also when the record was deleted meanwhile.  An *)
(* invalidated snapshot loses its images; a visible excluded application   *)
(* leaves out the display image.                                           *)
PayloadWritten ==
  /\ Snap.at = "payload"
  /\ UNCHANGED Surroundings
  /\ \/ EndSnapshot({})
     \/ /\ Snap.current /\ alive /\ world.screen # "locked"
        /\ record' = [record EXCEPT ![Snap.name] = "plain"]
        /\ \E hidden \in ExcludedVisible("snapshot") :
             job' = SnapAt(IF hidden THEN "compressWindows" ELSE "displayQueued")
        /\ UNCHANGED <<previews, pictures, finalizing, operations>>
     \/ /\ ~(Snap.current /\ alive /\ world.screen # "locked")
        /\ job' = [job EXCEPT !["snapshot"] = NoJob]
        /\ UNCHANGED previews
        /\ IF alive
           THEN Finalize(Snap.name, [record EXCEPT ![Snap.name] = "plain"],
                         Shown(Snap.name, {}), operations - 1)
           ELSE /\ pictures' = Shown(Snap.name, {})
                /\ record' = [record EXCEPT ![Snap.name] = "plain"]
                /\ operations' = operations - 1
                /\ UNCHANGED finalizing

(* The display screenshot gets its turn of the compositor queue: refused,  *)
(* or requested.                                                           *)
DisplayStart ==
  /\ Snap.at = "displayQueued"
  /\ UNCHANGED Surroundings
  /\ \/ EndSnapshot({})
     \/ /\ Continues("snapshot") /\ ~world.shutdown /\ FALSE \in ExcludedVisible("snapshot")
        /\ pictures' = [pictures EXCEPT ![Snap.name] = @ \cup {"display"}]
        /\ job' = SnapAt("display")
        /\ UNCHANGED <<previews, record, finalizing, operations>>

(* It failed, hung until the watchdog, or is no longer wanted: all images  *)
(* go.  Else the compressor starts.                                        *)
DisplayDone ==
  /\ Snap.at = "display"
  /\ UNCHANGED Surroundings
  /\ \/ EndSnapshot({})
     \/ /\ Continues("snapshot") /\ ~world.shutdown /\ FALSE \in ExcludedVisible("snapshot")
        /\ "display" \in pictures[Snap.name]
        /\ job' = SnapAt("compress")
        /\ UNCHANGED <<previews, record, pictures, finalizing, operations>>

(* Mutant of Compressed: what came while the compressor ran is not seen.   *)
CompressedUnchecked ==
  /\ Snap.at \in {"compress", "compressWindows"}
  /\ UNCHANGED Surroundings
  /\ EndSnapshot(pictures[Snap.name])

(* The compressor ended: failed, or with images it may have read before    *)
(* somebody deleted them.  An invalidated snapshot loses all, an excluded  *)
(* application that appeared costs the display image.                      *)
Compressed ==
  /\ Snap.at \in {"compress", "compressWindows"}
  /\ UNCHANGED Surroundings
  /\ \/ EndSnapshot({})
     \/ /\ alive /\ Snap.current /\ world.screen # "locked"
        /\ \E seen \in ExcludedVisible("snapshot"),
              files \in {pictures[Snap.name], pictures[Snap.name] \cup Snap.windows} :
             EndSnapshot(IF seen /\ Snap.at = "compress" THEN files \ {"display"} ELSE files)

-----------------------------------------------------------------------------
(* Windows captured live, by a pass or by the snapshot, one at a time.     *)

(* The turn of the next window in the compositor queue: refused, or the    *)
(* native request begins (its file exists).                                *)
CaptureStart(p, w) ==
  /\ job[p].at = "loop"
  /\ w \in job[p].todo
  /\ Continues(p)
  /\ \/ job' = [job EXCEPT ![p].todo = @ \ {w}] /\ UNCHANGED pictures
     \/ /\ ~world.shutdown
        /\ job' = [job EXCEPT ![p].at = "native", ![p].todo = @ \ {w}, ![p].window = w]
        /\ pictures' = IF p = "snapshot"
                     THEN [pictures EXCEPT ![Snap.name] = @ \cup {w}] ELSE pictures
  /\ UNCHANGED <<previews, record, finalizing, operations>>
  /\ UNCHANGED Surroundings

(* The native request ended.  A good preview is handed to storePreview();  *)
(* a bad or unwanted one is removed; of a request that hung until the      *)
(* watchdog the snapshot keeps the unfinished file.                        *)
CaptureDone(p) ==
  /\ job[p].at = "native"
  /\ \/ /\ Continues(p) /\ ~world.shutdown
        /\ p = "snapshot" => Snap.window \in pictures[Snap.name]
        /\ job' = [job EXCEPT ![p].at = "storing", ![p].kept = TRUE]
        /\ UNCHANGED pictures
     \/ /\ job' = [job EXCEPT ![p].at = "loop"]
        /\ pictures' = IF p = "snapshot"
                     THEN [pictures EXCEPT ![Snap.name] = @ \ {Snap.window}] ELSE pictures
     \/ /\ job' = [job EXCEPT ![p].at = "loop"]
        /\ UNCHANGED pictures
  /\ UNCHANGED <<previews, record, finalizing, operations>>
  /\ UNCHANGED Surroundings

(* Mutant of PreviewStored: no look back after reading the file.           *)
PreviewStoredUnchecked(p) ==
  /\ job[p].at = "storing"
  /\ job' = [job EXCEPT ![p].at = "loop"]
  /\ previews' = previews \cup {job[p].window}
  /\ UNCHANGED <<record, pictures, finalizing, operations>>
  /\ UNCHANGED Surroundings

(* storePreview() has read the file.                                       *)
PreviewStored(p) ==
  /\ job[p].at = "storing"
  /\ job' = [job EXCEPT ![p].at = "loop"]
  /\ \/ UNCHANGED previews
     \/ job[p].kept /\ Continues(p) /\ previews' = previews \cup {job[p].window}
  /\ UNCHANGED <<record, pictures, finalizing, operations>>
  /\ UNCHANGED Surroundings

(* No window is left, the budget is spent, or the job may not go on.       *)
CapturesEnd(p) ==
  /\ job[p].at = "loop"
  /\ IF p = "pass"
     THEN job' = [job EXCEPT ![p] = NoJob] /\ operations' = operations - 1
     ELSE /\ job' = [job EXCEPT ![p].at = "again",
                                 ![p].todo = Snap.windows \ pictures[Snap.name]]
          /\ UNCHANGED operations
  /\ UNCHANGED <<previews, record, pictures, finalizing>>
  /\ UNCHANGED Surroundings

(* Mutant of PassTick: a running snapshot does not hold the pass back.     *)
PassTickAnyTime ==
  /\ timers.pass /\ ~world.settling
  /\ ~Busy("pass") /\ MayCapture
  /\ job' = [job EXCEPT !["pass"] = [NoJob EXCEPT !.at = "loop", !.current = TRUE,
               !.excluded = config.excluded,
               !.todo = IF config.excluded THEN wanted \ {SecretWindow} ELSE wanted]]
  /\ wanted' = {}
  /\ timers' = [timers EXCEPT !.pass = FALSE]
  /\ operations' = operations + 1
  /\ UNCHANGED <<config, world, alive, moment, previews, record, pictures, finalizing,
                 deferredOcr, recorded, changes>>

(* The pass timer: later if a capture is under way, else a pass over the   *)
(* wanted windows, which are forgotten even if the pass may not begin.     *)
PassTick ==
  /\ timers.pass
  /\ ~world.settling
  /\ UNCHANGED <<config, world, alive, moment, previews, record, pictures, finalizing,
                 deferredOcr, recorded, changes>>
  /\ IF Busy("pass") \/ Busy("snapshot")
     THEN SchedulePass({}, timers) /\ UNCHANGED <<job, operations>>
     ELSE /\ wanted' = {}
          /\ timers' = [timers EXCEPT !.pass = FALSE]
          /\ IF ~MayCapture
             THEN UNCHANGED <<job, operations>>
             ELSE /\ operations' = operations + 1
                  /\ job' = [job EXCEPT !["pass"] =
                       [NoJob EXCEPT !.at = "loop", !.current = TRUE,
                                     !.excluded = config.excluded,
                                     !.todo = IF config.excluded
                                              THEN wanted \ {SecretWindow} ELSE wanted]]

-----------------------------------------------------------------------------
(* The handlers of the settings.  Each is one event-loop turn.             *)
Change == alive /\ changes < MaxChanges /\ changes' = changes + 1

SetEnabled ==
  /\ Change
  /\ config' = [config EXCEPT !.enabled = ~@]
  /\ IF config.enabled
     THEN job' = CacheDropped(Invalidated(job)) /\ previews' = {}
     ELSE job' = Invalidated(job) /\ UNCHANGED previews
  /\ UNCHANGED <<world, alive, moment, record, pictures, finalizing, deferredOcr,
                 operations, recorded>>
  /\ Reschedule

(* recall-capture-screenshots                                              *)
SetScreenshots ==
  /\ Change
  /\ config' = [config EXCEPT !.screenshots = ~@]
  /\ UNCHANGED <<world, alive, moment, record, finalizing, deferredOcr, operations, recorded>>
  /\ IF config.screenshots
     THEN /\ job' = CacheDropped(Invalidated(job))
          /\ previews' = {}
          /\ pictures' = WithoutImages
          /\ UNCHANGED <<wanted, timers>>
     ELSE SchedulePass(Windows, timers) /\ UNCHANGED <<job, previews, pictures>>

(* recall-excluded-apps                                                    *)
SetExcluded ==
  /\ Change
  /\ config' = [config EXCEPT !.excluded = ~@]
  /\ job' = CacheDropped(Invalidated(job))
  /\ previews' = {}
  /\ pictures' = WithoutImages
  /\ UNCHANGED <<world, alive, moment, record, finalizing, deferredOcr, operations, recorded>>
  /\ SchedulePass(Windows, timers)

(* recall-excluded-websites, recall-sensitive-filter                       *)
SetFilters ==
  /\ Change
  /\ job' = CacheDropped(Invalidated(job))
  /\ previews' = {}
  /\ UNCHANGED <<config, world, alive, moment, record, pictures, finalizing, deferredOcr,
                 operations, recorded>>
  /\ SchedulePass(Windows, timers)

(* recall-pause-until, set by the menu: a time to come, -1, or 0.          *)
SetPause(v) ==
  /\ Change
  /\ v # config.paused
  /\ config' = [config EXCEPT !.paused = v]
  /\ job' = Invalidated(job)
  /\ UNCHANGED <<world, alive, moment, previews, record, pictures, finalizing, deferredOcr,
                 operations, recorded>>
  /\ Reschedule

(* recall-interval                                                         *)
SetInterval ==
  /\ Change
  /\ UNCHANGED <<config, world, alive, moment, job, previews, record, pictures, finalizing,
                 deferredOcr, operations, recorded>>
  /\ Reschedule

(* recall-ocr-enabled switched on                                          *)
SetOcr ==
  /\ Change
  /\ Ocr(world.power)
  /\ UNCHANGED <<config, world, alive, timers, wanted, moment, job, previews, record, pictures,
                 finalizing, operations, recorded>>
  /\ ResumeOcr

(* deleteRecall(), for DeleteRecall of the control service                 *)
DeleteRecall ==
  /\ Change
  /\ job' = CacheDropped(job)
  /\ previews' = {}
  /\ pictures' = WithoutImages
  /\ record' = [m \in Moments |-> "none"]
  /\ UNCHANGED <<config, world, alive, timers, wanted, moment, finalizing, deferredOcr,
                 operations, recorded>>

-----------------------------------------------------------------------------
(* What happens around the recorder.                                       *)

(* UPower or the power profile: OCR is stopped or taken up again.          *)
PowerChanges(power) ==
  /\ Change
  /\ power # world.power
  /\ world' = [world EXCEPT !.power = power]
  /\ job' = Invalidated(job)
  /\ UNCHANGED <<config, alive, moment, previews, record, pictures, finalizing, operations, recorded>>
  /\ Reschedule
  /\ IF Ocr(power) /\ ~Ocr(world.power) THEN ResumeOcr
     ELSE deferredOcr' = IF ~Ocr(power) /\ deferredOcr = "running" THEN "stopping"
                         ELSE deferredOcr

(* The manager that was doing deferred OCR has ended.                      *)
OcrDone ==
  /\ deferredOcr # "none"
  /\ deferredOcr' = "none"
  /\ UNCHANGED <<config, world, alive, timers, wanted, moment, job, previews, record, pictures,
                 finalizing, operations, recorded, changes>>

(* Overview, a modal dialog or the lock screen; only the overview tells.   *)
ScreenChanges(screen) ==
  /\ Change
  /\ screen # world.screen
  /\ world' = [world EXCEPT !.screen = screen]
  /\ UNCHANGED <<config, alive, moment, job, previews, record, pictures, finalizing, deferredOcr,
                 operations, recorded>>
  /\ \/ UNCHANGED <<timers, wanted>>
     \/ screen = "open" /\ world.screen = "covered" /\ SchedulePass(Windows, timers)

(* Another workspace, a new window, another focus.                         *)
WindowsChange(windows) ==
  /\ Change
  /\ UNCHANGED <<config, world, alive, moment, job, previews, record, pictures, finalizing,
                 deferredOcr, operations, recorded>>
  /\ SchedulePass(windows, timers)

(* restoreActivity 'changed' at either end of a restore, monitors-changed: *)
(* nothing is captured for 2.5 s.                                          *)
Disturbed(restoring) ==
  /\ Change
  /\ world' = [world EXCEPT !.restoring = restoring, !.settling = TRUE]
  /\ job' = Invalidated(job)
  /\ UNCHANGED <<config, alive, moment, previews, record, pictures, finalizing, deferredOcr,
                 operations, recorded>>
  /\ SchedulePass(Windows, timers)

ShutdownChanges ==
  /\ Change
  /\ world' = [world EXCEPT !.shutdown = ~@]
  /\ UNCHANGED <<config, alive, timers, wanted, moment, job, previews, record, pictures,
                 finalizing, deferredOcr, operations, recorded>>

(* Time: the 2.5 s are over, a timed pause is over.  No handler runs.      *)
SettlingEnds ==
  /\ world.settling
  /\ world' = [world EXCEPT !.settling = FALSE]
  /\ UNCHANGED <<config, alive, timers, wanted, moment, job, previews, record, pictures,
                 finalizing, deferredOcr, operations, recorded, changes>>

PauseExpires ==
  /\ config.paused = "timed"
  /\ config' = [config EXCEPT !.paused = "expired"]
  /\ UNCHANGED <<world, alive, timers, wanted, moment, job, previews, record, pictures,
                 finalizing, deferredOcr, operations, recorded, changes>>

(* destroy()                                                               *)
Destroy ==
  /\ Change
  /\ alive' = FALSE
  /\ deferredOcr' = "none"
  /\ job' = CacheDropped(Invalidated(job))
  /\ timers' = [capture |-> FALSE, pass |-> FALSE]
  /\ previews' = {}
  /\ UNCHANGED <<config, world, wanted, moment, record, pictures, finalizing, operations, recorded>>

-----------------------------------------------------------------------------
SnapshotStep ==
  \/ SnapshotTurn
  \/ \E w \in Windows : Reuse(w)
  \/ Reused
  \/ \E windows \in SUBSET Windows : LiveJobs(windows)
  \/ ReuseEnds
  \/ PayloadWritten
  \/ DisplayStart
  \/ DisplayDone
  \/ Compressed

WindowStep(p) ==
  \/ \E w \in Windows : CaptureStart(p, w)
  \/ CaptureDone(p)
  \/ PreviewStored(p)
  \/ CapturesEnd(p)

MetadataStep == MetadataFails \/ MetadataSaved

UserStep ==
  \/ SetEnabled \/ SetScreenshots \/ SetExcluded \/ SetFilters \/ SetInterval \/ SetOcr
  \/ \E v \in {"no", "timed", "forever"} : SetPause(v)
  \/ DeleteRecall
  \/ CaptureNow

WorldStep ==
  \/ \E power \in PowerLevels : PowerChanges(power)
  \/ \E screen \in {"open", "covered", "locked"} : ScreenChanges(screen)
  \/ \E windows \in {Windows} \cup {{w} : w \in Windows} : WindowsChange(windows)
  \/ \E restoring \in BOOLEAN : Disturbed(restoring)
  \/ ShutdownChanges
  \/ Destroy

RecorderNext ==
  \/ CaptureTick \/ PassTick
  \/ MetadataStep
  \/ SnapshotStep
  \/ \E p \in Jobs : WindowStep(p)
  \/ \E m \in Moments : FinalizeDone(m)
  \/ OcrDone \/ SettlingEnds \/ PauseExpires
  \/ UserStep
  \/ WorldStep

(* Timers fire, processes end, asynchronous calls return (the compositor   *)
(* queue gives up after 120 s) and time passes.  Users owe nothing.        *)
RecorderFairness ==
  /\ WF_recorderVars(CaptureTick) /\ WF_recorderVars(PassTick)
  /\ WF_recorderVars(MetadataStep)
  /\ WF_recorderVars(SnapshotStep \/ WindowStep("snapshot"))
  /\ WF_recorderVars(WindowStep("pass"))
  /\ \A m \in Moments : WF_recorderVars(FinalizeDone(m))
  /\ WF_recorderVars(OcrDone) /\ WF_recorderVars(SettlingEnds) /\ WF_recorderVars(PauseExpires)

RecorderSpec == RecorderInit /\ [][RecorderNext]_recorderVars /\ RecorderFairness

-----------------------------------------------------------------------------
(* What shows as activity is what goes on: the counter behind the spinner  *)
(* and "Saving..." is the number of moments, passes, snapshots and manager *)
(* processes under way, on every error path (recallActivity.begin, end).   *)
Underway ==
  Cardinality({p \in Jobs : Busy(p)}) + Cardinality(finalizing)
    + (IF moment.saving THEN 1 ELSE 0)

ActivityCounted == operations = Underway

(* A pass and a snapshot never capture at the same time: "must never ask   *)
(* Mutter for screenshots concurrently" (recallRecorder.js:1084).          *)
OneCaptureAtATime == Busy("pass") => Snap.at \in {"off", "waiting"}

RecorderInvariant == RecorderTypeOK /\ ActivityCounted /\ OneCaptureAtATime

(* What lies in plain text has somebody who will encrypt or remove it: a   *)
(* record, unless the extension stopped, and an image in any case.  No     *)
(* abort, failure, deletion or destroy() orphans one.                      *)
PlaintextIsHandled ==
  \A m \in Moments :
    (record[m] = "plain" /\ alive) \/ pictures[m] # {} =>
      m \in finalizing \/ (Busy("snapshot") /\ Snap.name = m)

(* The cache holds nothing while Recall or its screenshots are off or the  *)
(* recorder is gone, nor a window the user excludes, whatever was being    *)
(* stored when the setting changed.                                        *)
CacheFollowsSettings ==
  /\ previews # {} => alive /\ config.enabled /\ config.screenshots
  /\ config.excluded => SecretWindow \notin previews

(* Images go to the vault only if nothing the user or the system did since *)
(* the snapshot began forbids them: Recall and screenshots are on, not     *)
(* paused, the exclusions are those they were taken under, no restore runs *)
(* and the screen is not locked.                                           *)
SealedAreWanted ==
  [][\A m \in finalizing' \ finalizing :
       pictures'[m] # {} =>
         /\ config.enabled /\ config.screenshots /\ ~Paused
         /\ Snap.excluded = config.excluded
         /\ ~world.restoring /\ world.screen # "locked"]_recorderVars

(* "Pause stops new captures for the chosen duration"                      *)
(* (docs/RECALL_GUIDE.md:41): when it is over, with Recall on, moments are *)
(* scheduled again, or the user chooses something else.                    *)
PauseEnds ==
  (alive /\ config.enabled /\ config.paused = "expired")
    ~> (~alive \/ ~config.enabled \/ config.paused # "expired" \/ timers.capture)
=============================================================================
