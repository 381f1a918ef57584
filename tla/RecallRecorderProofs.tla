------------------------ MODULE RecallRecorderProofs ------------------------
(***************************************************************************)
(* Proofs about RecallRecorder, for any windows, energy states, limits and *)
(* bounds, and about the three parts of Recall that MCRecall puts together.*)
(***************************************************************************)
EXTENDS MCRecall, RecallVaultProofs, FiniteSetTheorems, TLAPS

JobType ==
  [at: {"off"} \cup WindowSteps \cup SnapshotSteps, current: BOOLEAN, kept: BOOLEAN,
   excluded: BOOLEAN, todo: SUBSET Windows, windows: SUBSET Windows,
   window: Windows \cup {NoWindow}, name: 0..MaxMoments]

(* Where a job may be, and what it works with there.                       *)
JobSteps(p) == {"off"} \cup WindowSteps \cup (IF p = "pass" THEN {} ELSE SnapshotSteps)
WithWindow == {"native", "storing", "reusing", "reusingAgain"}

JobShape ==
  \A p \in Jobs :
    /\ job[p].at \in JobSteps(p)
    /\ job[p].at \in WithWindow => job[p].window \in Windows
    /\ p = "snapshot" /\ Busy(p) => job[p].name \in Moments /\ job[p].name \notin finalizing

(* Nobody has heard yet of a moment that is not begun, or still written.   *)
Unheard(m) == m > recorded \/ (moment.saving /\ m = recorded)

UnheardIsClean ==
  /\ moment.saving => recorded \in Moments
  /\ \A m \in Moments : Unheard(m) =>
       /\ record[m] = "none" /\ pictures[m] = {} /\ m \notin finalizing
       /\ Busy("snapshot") => Snap.name # m

(* A job that was not invalidated works under the present exclusions, and  *)
(* one that captures live never has an excluded window.                    *)
ExclusionsHold ==
  \A p \in Jobs :
    /\ job[p].current => job[p].excluded = config.excluded
    /\ job[p].at \in WindowSteps /\ job[p].excluded => SecretWindow \notin job[p].todo
    /\ job[p].at \in {"native", "storing"} /\ job[p].excluded => job[p].window # SecretWindow

Allowed == config.enabled /\ config.screenshots /\ ~Paused /\ ~world.restoring

(* Whatever forbids a snapshot that has begun also invalidates it.         *)
CurrentIsWanted ==
  Snap.current /\ Snap.at \notin {"off", "waiting"} => Allowed

RecorderIndInvariant ==
  /\ RecorderInvariant
  /\ JobShape
  /\ UnheardIsClean
  /\ ExclusionsHold
  /\ CurrentIsWanted
  /\ PlaintextIsHandled
  /\ CacheFollowsSettings

-----------------------------------------------------------------------------
(* How many jobs run                                                       *)
Number(b) == IF b THEN 1 ELSE 0

LEMMA JobCount ==
  ASSUME NEW jobs
  PROVE  Cardinality({p \in Jobs : jobs[p].at # "off"})
           = Number(jobs["pass"].at # "off") + Number(jobs["snapshot"].at # "off")
<1>1. Cardinality({}) = 0 /\ Cardinality({"pass"}) = 1 /\ Cardinality({"snapshot"}) = 1
  BY FS_EmptySet, FS_Singleton
<1>2. Cardinality({"pass", "snapshot"}) = 2
  <2>1. {"pass", "snapshot"} = {"pass"} \cup {"snapshot"} /\ "snapshot" \notin {"pass"}
    OBVIOUS
  <2>2. IsFiniteSet({"pass"})
    BY FS_Singleton
  <2>3. Cardinality({"pass"} \cup {"snapshot"}) = Cardinality({"pass"}) + 1
    BY <2>1, <2>2, FS_AddElement
  <2>4. QED
    BY <1>1, <2>1, <2>3
<1>3. CASE jobs["pass"].at = "off" /\ jobs["snapshot"].at = "off"
  <2>1. {p \in Jobs : jobs[p].at # "off"} = {}
    BY <1>3 DEF Jobs
  <2>2. QED
    BY <1>1, <1>3, <2>1 DEF Number
<1>4. CASE jobs["pass"].at # "off" /\ jobs["snapshot"].at = "off"
  <2>1. {p \in Jobs : jobs[p].at # "off"} = {"pass"}
    BY <1>4 DEF Jobs
  <2>2. QED
    <3>1. Number(jobs["pass"].at # "off") = 1 /\ Number(jobs["snapshot"].at # "off") = 0
      BY <1>4 DEF Number
    <3>2. QED
      BY <1>1, <2>1, <3>1
<1>5. CASE jobs["pass"].at = "off" /\ jobs["snapshot"].at # "off"
  <2>1. {p \in Jobs : jobs[p].at # "off"} = {"snapshot"}
    BY <1>5 DEF Jobs
  <2>2. QED
    BY <1>1, <1>5, <2>1 DEF Number
<1>6. CASE jobs["pass"].at # "off" /\ jobs["snapshot"].at # "off"
  <2>1. {p \in Jobs : jobs[p].at # "off"} = {"pass", "snapshot"}
    BY <1>6 DEF Jobs
  <2>2. QED
    BY <1>2, <1>6, <2>1 DEF Number
<1>7. QED
  BY <1>3, <1>4, <1>5, <1>6

(* The counter is a sum of four terms, each of which is a number.          *)
LEMMA CountedAs ==
  ASSUME NEW fins, fins \subseteq Moments, NEW jobs, NEW saving
  PROVE  /\ IsFiniteSet(fins)
         /\ Cardinality(fins) \in Nat
         /\ Cardinality({p \in Jobs : jobs[p].at # "off"}) + Cardinality(fins)
              + (IF saving THEN 1 ELSE 0)
            = Number(jobs["pass"].at # "off") + Number(jobs["snapshot"].at # "off")
              + Cardinality(fins) + Number(saving)
<1>1. IsFiniteSet(Moments)
  BY RecorderAssumption, FS_Interval DEF Moments
<1>2. IsFiniteSet(fins)
  BY <1>1, FS_Subset
<1>3. QED
  BY <1>2, FS_CardinalityType, JobCount DEF Number

LEMMA Counted ==
  ASSUME RecorderTypeOK
  PROVE  ActivityCounted <=>
           operations = Number(job["pass"].at # "off") + Number(job["snapshot"].at # "off")
                          + Cardinality(finalizing) + Number(moment.saving)
BY CountedAs DEF RecorderTypeOK, ActivityCounted, Underway, Busy

LEMMA CountedAfter ==
  ASSUME RecorderTypeOK'
  PROVE  ActivityCounted' <=>
           operations' = Number(job'["pass"].at # "off") + Number(job'["snapshot"].at # "off")
                          + Cardinality(finalizing') + Number(moment'.saving)
<1>1. finalizing' \subseteq Moments
  BY DEF RecorderTypeOK
<1>2. Underway' = Cardinality({p \in Jobs : job'[p].at # "off"}) + Cardinality(finalizing')
                   + (IF moment'.saving THEN 1 ELSE 0)
  BY DEF Underway, Busy
<1>3. Cardinality({p \in Jobs : job'[p].at # "off"})
        = Number(job'["pass"].at # "off") + Number(job'["snapshot"].at # "off")
  BY JobCount
<1>4. QED
  BY <1>2, <1>3 DEF ActivityCounted, Number

LEMMA RecorderStartOk == RecorderInit => RecorderIndInvariant
<1> SUFFICES ASSUME RecorderInit PROVE RecorderIndInvariant
  OBVIOUS
<1>1. NoJob \in JobType /\ job = [p \in Jobs |-> NoJob] /\ NoJob.at = "off" /\ ~NoJob.current
  BY RecorderAssumption
     DEF RecorderInit, NoJob, JobType, NoWindow
<1>2. RecorderTypeOK
  BY <1>1, RecorderAssumption DEF RecorderInit, RecorderTypeOK, JobType, Moments
<1>3. ActivityCounted
  <2>1. job["pass"].at = "off" /\ job["snapshot"].at = "off" /\ finalizing = {}
        /\ ~moment.saving /\ operations = 0
    BY <1>1 DEF RecorderInit, Jobs
  <2>2. QED
    BY <1>2, <2>1, Counted, FS_EmptySet DEF Number
<1>4. \A p \in Jobs : job[p].at = "off" /\ ~job[p].current
  BY <1>1
<1>5. OneCaptureAtATime /\ JobShape /\ ExclusionsHold /\ CurrentIsWanted
  BY <1>4 DEF OneCaptureAtATime, JobShape, ExclusionsHold, CurrentIsWanted, Busy, Snap, Jobs,
              JobSteps, WindowSteps, WithWindow
<1>6. UnheardIsClean /\ PlaintextIsHandled /\ CacheFollowsSettings
  BY <1>4 DEF UnheardIsClean, PlaintextIsHandled, CacheFollowsSettings, RecorderInit, Busy, Jobs,
              Moments
<1>7. QED
  BY <1>2, <1>3, <1>5, <1>6 DEF RecorderIndInvariant, RecorderInvariant

-----------------------------------------------------------------------------
(* The handlers of settings and of the world: no job begins or ends, some  *)
(* are invalidated, and records, images and previews may go.               *)
Dimmed(p) ==
  /\ job'[p].at = job[p].at
  /\ job'[p].excluded = job[p].excluded
  /\ job'[p].todo = job[p].todo
  /\ job'[p].window = job[p].window
  /\ job'[p].name = job[p].name
  /\ job'[p].current => job[p].current

LEMMA HandlerStep ==
  ASSUME RecorderIndInvariant,
         RecorderTypeOK',
         UNCHANGED <<moment, finalizing, operations, recorded>>,
         \A p \in Jobs : Dimmed(p),
         alive' => alive,
         \A m \in Moments : record'[m] \in {record[m], "none"} /\ pictures'[m] \in {pictures[m], {}},
         \A p \in Jobs : job'[p].current => config'.excluded = config.excluded,
         job'["snapshot"].current /\ Allowed => Allowed',
         CacheFollowsSettings'
  PROVE  RecorderIndInvariant'
<1> "pass" \in Jobs /\ "snapshot" \in Jobs
  BY DEF Jobs
<1>1. ActivityCounted'
  BY Counted, CountedAfter DEF RecorderIndInvariant, RecorderInvariant, Dimmed
<1>2. OneCaptureAtATime'
  BY DEF RecorderIndInvariant, RecorderInvariant, OneCaptureAtATime, Busy, Snap, Dimmed
<1>3. JobShape'
  BY DEF RecorderIndInvariant, JobShape, Busy, Dimmed
<1>4. UnheardIsClean'
  BY DEF RecorderIndInvariant, UnheardIsClean, Unheard, Busy, Snap, Dimmed
<1>5. ExclusionsHold'
  BY DEF RecorderIndInvariant, ExclusionsHold, Dimmed
<1>6. CurrentIsWanted'
  BY DEF RecorderIndInvariant, CurrentIsWanted, Snap, Dimmed
<1>7. PlaintextIsHandled'
  BY DEF RecorderIndInvariant, PlaintextIsHandled, Busy, Snap, Dimmed
<1>8. QED
  BY <1>1, <1>2, <1>3, <1>4, <1>5, <1>6, <1>7 DEF RecorderIndInvariant, RecorderInvariant

LEMMA DimmedJobs ==
  ASSUME RecorderTypeOK,
         job' \in {job, CacheDropped(job), Invalidated(job), CacheDropped(Invalidated(job))}
  PROVE  job' \in [Jobs -> JobType] /\ \A p \in Jobs : Dimmed(p)
<1>1. job \in [Jobs -> JobType] /\ \A p \in Jobs : job[p] \in JobType
  BY DEF RecorderTypeOK, JobType
<1>2. \A j \in JobType :
        /\ [j EXCEPT !.current = FALSE] \in JobType
        /\ [j EXCEPT !.kept = FALSE] \in JobType
        /\ [[j EXCEPT !.current = FALSE] EXCEPT !.kept = FALSE] \in JobType
  BY DEF JobType
<1>3. CASE job' = job
  BY <1>1, <1>3 DEF Dimmed
<1>4. CASE job' = CacheDropped(job)
  <2>1. \A p \in Jobs : job'[p] = [job[p] EXCEPT !.kept = FALSE]
    BY <1>4 DEF CacheDropped
  <2>2. \A p \in Jobs : Dimmed(p)
    BY <1>1, <2>1 DEF Dimmed, JobType
  <2>3. QED
    BY <1>1, <1>2, <1>4, <2>2 DEF CacheDropped
<1>5. CASE job' = Invalidated(job)
  <2>1. \A p \in Jobs : job'[p] = [job[p] EXCEPT !.current = FALSE]
    BY <1>5 DEF Invalidated
  <2>2. \A p \in Jobs : Dimmed(p)
    BY <1>1, <2>1 DEF Dimmed, JobType
  <2>3. QED
    BY <1>1, <1>2, <1>5, <2>2 DEF Invalidated
<1>6. CASE job' = CacheDropped(Invalidated(job))
  <2>1. \A p \in Jobs : job'[p] = [[job[p] EXCEPT !.current = FALSE] EXCEPT !.kept = FALSE]
    BY <1>6 DEF CacheDropped, Invalidated
  <2>2. \A p \in Jobs : Dimmed(p)
    BY <1>1, <2>1 DEF Dimmed, JobType
  <2>3. job' = [p \in Jobs |-> [[job[p] EXCEPT !.current = FALSE] EXCEPT !.kept = FALSE]]
    BY <1>6 DEF CacheDropped, Invalidated
  <2>4. QED
    BY <1>1, <1>2, <2>2, <2>3
<1>7. QED
  BY <1>3, <1>4, <1>5, <1>6

LEMMA InvalidatedJobs ==
  ASSUME RecorderTypeOK, job' \in {Invalidated(job), CacheDropped(Invalidated(job))}
  PROVE  \A p \in Jobs : ~job'[p].current
<1>1. job \in [Jobs -> JobType] /\ \A p \in Jobs : job[p] \in JobType
  BY DEF RecorderTypeOK, JobType
<1>2. CASE job' = Invalidated(job)
  BY <1>1, <1>2 DEF Invalidated, JobType
<1>3. CASE job' = CacheDropped(Invalidated(job))
  <2>1. \A p \in Jobs : job'[p] = [[job[p] EXCEPT !.current = FALSE] EXCEPT !.kept = FALSE]
    BY <1>3 DEF CacheDropped, Invalidated
  <2>2. QED
    BY <1>1, <2>1 DEF JobType
<1>4. QED
  BY <1>2, <1>3

TimersType == [capture: BOOLEAN, pass: BOOLEAN]

LEMMA PassScheduled ==
  ASSUME RecorderTypeOK, NEW windows, windows \subseteq Windows, NEW rest, rest \in TimersType,
         SchedulePass(windows, rest)
  PROVE  wanted' \subseteq Windows /\ timers' \in TimersType
<1>1. wanted' \subseteq Windows
  BY DEF RecorderTypeOK, SchedulePass
<1> DEFINE on == alive /\ ~world'.shutdown /\ (MayCapture' \/ world'.settling)
<1>2. timers' = [rest EXCEPT !.pass = on] /\ on \in BOOLEAN
  BY DEF SchedulePass
<1> HIDE DEF on
<1>3. QED
  BY <1>1, <1>2 DEF TimersType

LEMMA Rescheduled ==
  ASSUME RecorderTypeOK, Reschedule
  PROVE  wanted' \subseteq Windows /\ timers' \in TimersType
<1>1. [capture |-> TRUE, pass |-> FALSE] \in TimersType
      /\ [capture |-> FALSE, pass |-> FALSE] \in TimersType
  BY DEF TimersType
<1>2. CASE SchedulePass(Windows, [capture |-> TRUE, pass |-> FALSE])
  BY <1>1, <1>2, PassScheduled
<1>3. CASE timers' = [capture |-> FALSE, pass |-> FALSE] /\ UNCHANGED wanted
  BY <1>1, <1>3 DEF RecorderTypeOK
<1>4. QED
  BY <1>2, <1>3 DEF Reschedule

(* What a handler leaves: types of what it changes                         *)
LEMMA HandlerType ==
  ASSUME RecorderTypeOK,
         UNCHANGED <<moment, finalizing, operations, recorded>>,
         job' \in [Jobs -> JobType],
         wanted' \subseteq Windows, timers' \in TimersType,
         config' \in [enabled: BOOLEAN, screenshots: BOOLEAN, excluded: BOOLEAN,
                      paused: {"no", "timed", "forever", "expired"}],
         world' \in [power: PowerLevels, screen: {"open", "covered", "locked"},
                     shutdown: BOOLEAN, restoring: BOOLEAN, settling: BOOLEAN],
         alive' \in BOOLEAN,
         previews' \in {previews, {}},
         record' \in {record, [m \in Moments |-> "none"]},
         pictures' \in {pictures, WithoutImages},
         deferredOcr' \in {"none", "running", "stopping"},
         Change \/ changes' = changes
  PROVE  /\ RecorderTypeOK'
         /\ \A m \in Moments : record'[m] \in {record[m], "none"} /\ pictures'[m] \in {pictures[m], {}}
<1>1. changes' \in 0..MaxChanges
  BY RecorderAssumption DEF RecorderTypeOK, Change
<1>2. record' \in [Moments -> {"none", "plain", "sealed"}]
      /\ \A m \in Moments : record'[m] \in {record[m], "none"}
  BY DEF RecorderTypeOK
<1>3. pictures' \in [Moments -> SUBSET (Windows \cup {"display"})]
      /\ \A m \in Moments : pictures'[m] \in {pictures[m], {}}
  BY DEF RecorderTypeOK, WithoutImages
<1>4. QED
  BY <1>1, <1>2, <1>3 DEF RecorderTypeOK, JobType, TimersType

ConfigType == [enabled: BOOLEAN, screenshots: BOOLEAN, excluded: BOOLEAN,
               paused: {"no", "timed", "forever", "expired"}]
WorldType == [power: PowerLevels, screen: {"open", "covered", "locked"},
              shutdown: BOOLEAN, restoring: BOOLEAN, settling: BOOLEAN]

(* One field of the settings or of the world changes.                      *)
LEMMA SettingsChange ==
  ASSUME NEW c \in ConfigType
  PROVE  /\ [c EXCEPT !.enabled = ~@] \in ConfigType
         /\ [c EXCEPT !.screenshots = ~@] \in ConfigType
         /\ [c EXCEPT !.excluded = ~@] \in ConfigType
         /\ \A v \in {"no", "timed", "forever", "expired"} : [c EXCEPT !.paused = v] \in ConfigType
BY DEF ConfigType

LEMMA WorldChange ==
  ASSUME NEW w \in WorldType
  PROVE  /\ \A power \in PowerLevels : [w EXCEPT !.power = power] \in WorldType
         /\ \A screen \in {"open", "covered", "locked"} : [w EXCEPT !.screen = screen] \in WorldType
         /\ [w EXCEPT !.shutdown = ~@] \in WorldType
         /\ \A restoring \in BOOLEAN :
              [w EXCEPT !.restoring = restoring, !.settling = TRUE] \in WorldType
         /\ [w EXCEPT !.settling = FALSE] \in WorldType
BY DEF WorldType

(* The types, as they are used below                                       *)
LEMMA Typed ==
  ASSUME RecorderTypeOK
  PROVE  /\ config \in ConfigType /\ world \in WorldType /\ timers \in TimersType
         /\ job \in [Jobs -> JobType] /\ wanted \subseteq Windows /\ alive \in BOOLEAN
         /\ previews \subseteq Windows /\ operations \in Int /\ recorded \in 0..MaxMoments
         /\ deferredOcr \in {"none", "running", "stopping"} /\ finalizing \subseteq Moments
         /\ record \in [Moments -> {"none", "plain", "sealed"}]
         /\ pictures \in [Moments -> SUBSET (Windows \cup {"display"})]
         /\ moment \in [saving: BOOLEAN, power: PowerLevels, windows: SUBSET Windows]
BY DEF RecorderTypeOK, ConfigType, WorldType, TimersType, JobType

LEMMA SetEnabledInv ==
  ASSUME RecorderIndInvariant, SetEnabled
  PROVE  RecorderIndInvariant'
<1>1. RecorderTypeOK /\ CacheFollowsSettings
  BY DEF RecorderIndInvariant, RecorderInvariant
<1>2. config' = [config EXCEPT !.enabled = ~@] /\ config' \in ConfigType
      /\ config \in ConfigType
  BY <1>1, Typed, SettingsChange DEF SetEnabled
<1>3. /\ job' \in {Invalidated(job), CacheDropped(Invalidated(job))}
      /\ previews' \in {previews, {}}
      /\ config.enabled => previews' = {}
  BY DEF SetEnabled
<1>4. wanted' \subseteq Windows /\ timers' \in TimersType
  BY <1>1, Rescheduled DEF SetEnabled
<1>5. CacheFollowsSettings'
  BY <1>1, <1>2, <1>3 DEF CacheFollowsSettings, SetEnabled, ConfigType
<1>6. job' \in [Jobs -> JobType] /\ (\A p \in Jobs : Dimmed(p) /\ ~job'[p].current)
  BY <1>1, <1>3, DimmedJobs, InvalidatedJobs
<1>7. RecorderTypeOK'
      /\ \A m \in Moments : record'[m] \in {record[m], "none"} /\ pictures'[m] \in {pictures[m], {}}
  BY <1>1, <1>2, <1>3, <1>4, <1>6, Typed, HandlerType
     DEF SetEnabled, Change, ConfigType, WorldType
<1>8. QED
  BY <1>5, <1>6, <1>7, HandlerStep DEF SetEnabled, Jobs

LEMMA SetScreenshotsInv ==
  ASSUME RecorderIndInvariant, SetScreenshots
  PROVE  RecorderIndInvariant'
<1>1. RecorderTypeOK /\ CacheFollowsSettings
  BY DEF RecorderIndInvariant, RecorderInvariant
<1>2. config' = [config EXCEPT !.screenshots = ~@] /\ config' \in ConfigType
      /\ config \in ConfigType
  BY <1>1, Typed, SettingsChange DEF SetScreenshots
<1>3. /\ job' \in {job, CacheDropped(Invalidated(job))}
      /\ config.screenshots => previews' = {} /\ job' = CacheDropped(Invalidated(job))
      /\ ~config.screenshots => previews' = previews /\ job' = job
      /\ pictures' \in {pictures, WithoutImages}
  BY <1>2 DEF SetScreenshots, ConfigType
<1>4. wanted' \subseteq Windows /\ timers' \in TimersType
  <2>1. CASE config.screenshots
    BY <1>1, <2>1, Typed DEF SetScreenshots
  <2>2. CASE ~config.screenshots
    BY <1>1, <2>2, Typed, PassScheduled DEF SetScreenshots
  <2>3. QED
    BY <2>1, <2>2
<1>5. CacheFollowsSettings'
  BY <1>1, <1>2, <1>3 DEF CacheFollowsSettings, SetScreenshots, ConfigType
<1>6. job' \in [Jobs -> JobType] /\ (\A p \in Jobs : Dimmed(p))
  BY <1>1, <1>3, DimmedJobs
<1>7. RecorderTypeOK'
      /\ \A m \in Moments : record'[m] \in {record[m], "none"} /\ pictures'[m] \in {pictures[m], {}}
  BY <1>1, <1>2, <1>3, <1>4, <1>6, Typed, HandlerType
     DEF SetScreenshots, Change, ConfigType, WorldType
<1>8. /\ config'.excluded = config.excluded
      /\ job'["snapshot"].current /\ Allowed => Allowed'
      /\ \A p \in Jobs : job'[p].current => job[p].current
  <2>1. CASE config.screenshots
    <3>1. \A p \in Jobs : ~job'[p].current
      BY <1>1, <1>3, <2>1, InvalidatedJobs
    <3>2. QED
      BY <1>2, <3>1 DEF ConfigType, Jobs
  <2>2. CASE ~config.screenshots
    BY <1>2, <1>3, <2>2 DEF ConfigType, Allowed, Jobs
  <2>3. QED
    BY <2>1, <2>2
<1>9. \A p \in Jobs : job[p].current => config.excluded = job[p].excluded
  BY DEF RecorderIndInvariant, ExclusionsHold
<1>10. QED
  BY <1>5, <1>6, <1>7, <1>8, HandlerStep DEF SetScreenshots

LEMMA SetExcludedInv ==
  ASSUME RecorderIndInvariant, SetExcluded
  PROVE  RecorderIndInvariant'
<1>1. RecorderTypeOK /\ CacheFollowsSettings
  BY DEF RecorderIndInvariant, RecorderInvariant
<1>2. config' = [config EXCEPT !.excluded = ~@] /\ config' \in ConfigType
  BY <1>1, Typed, SettingsChange DEF SetExcluded
<1>3. /\ job' = CacheDropped(Invalidated(job))
      /\ previews' = {}
      /\ pictures' = WithoutImages
  BY DEF SetExcluded
<1>4. wanted' \subseteq Windows /\ timers' \in TimersType
  BY <1>1, Typed, PassScheduled DEF SetExcluded
<1>5. CacheFollowsSettings'
  BY <1>3 DEF CacheFollowsSettings
<1>6. job' \in [Jobs -> JobType] /\ (\A p \in Jobs : Dimmed(p) /\ ~job'[p].current)
  BY <1>1, <1>3, DimmedJobs, InvalidatedJobs
<1>7. RecorderTypeOK'
      /\ \A m \in Moments : record'[m] \in {record[m], "none"} /\ pictures'[m] \in {pictures[m], {}}
  BY <1>1, <1>2, <1>3, <1>4, <1>6, Typed, HandlerType
     DEF SetExcluded, Change, ConfigType, WorldType
<1>8. QED
  BY <1>5, <1>6, <1>7, HandlerStep DEF SetExcluded, Jobs

LEMMA SetFiltersInv ==
  ASSUME RecorderIndInvariant, SetFilters
  PROVE  RecorderIndInvariant'
<1>1. RecorderTypeOK /\ CacheFollowsSettings
  BY DEF RecorderIndInvariant, RecorderInvariant
<1>2. wanted' \subseteq Windows /\ timers' \in TimersType
  BY <1>1, Typed, PassScheduled DEF SetFilters
<1>3. CacheFollowsSettings'
  BY DEF CacheFollowsSettings, SetFilters
<1>4. job' \in [Jobs -> JobType] /\ (\A p \in Jobs : Dimmed(p) /\ ~job'[p].current)
  BY <1>1, DimmedJobs, InvalidatedJobs DEF SetFilters
<1>5. RecorderTypeOK'
      /\ \A m \in Moments : record'[m] \in {record[m], "none"} /\ pictures'[m] \in {pictures[m], {}}
  BY <1>1, <1>2, <1>4, Typed, HandlerType DEF SetFilters, Change, ConfigType, WorldType
<1>6. QED
  BY <1>3, <1>4, <1>5, HandlerStep DEF SetFilters, Jobs

LEMMA SetPauseInv ==
  ASSUME RecorderIndInvariant, NEW v \in {"no", "timed", "forever"}, SetPause(v)
  PROVE  RecorderIndInvariant'
<1>1. RecorderTypeOK /\ CacheFollowsSettings
  BY DEF RecorderIndInvariant, RecorderInvariant
<1>2. config' = [config EXCEPT !.paused = v] /\ config' \in ConfigType /\ config \in ConfigType
  BY <1>1, Typed, SettingsChange DEF SetPause
<1>3. wanted' \subseteq Windows /\ timers' \in TimersType
  BY <1>1, Rescheduled DEF SetPause
<1>4. CacheFollowsSettings'
  BY <1>1, <1>2 DEF CacheFollowsSettings, SetPause, ConfigType
<1>5. job' \in [Jobs -> JobType] /\ (\A p \in Jobs : Dimmed(p) /\ ~job'[p].current)
  BY <1>1, DimmedJobs, InvalidatedJobs DEF SetPause
<1>6. RecorderTypeOK'
      /\ \A m \in Moments : record'[m] \in {record[m], "none"} /\ pictures'[m] \in {pictures[m], {}}
  BY <1>1, <1>2, <1>3, <1>5, Typed, HandlerType DEF SetPause, Change, ConfigType, WorldType
<1>7. QED
  BY <1>4, <1>5, <1>6, HandlerStep DEF SetPause, Jobs

(* Handlers that change no setting, and leave the restore as it is unless  *)
(* they invalidate every job.                                              *)
LEMMA QuietHandler ==
  ASSUME RecorderIndInvariant,
         UNCHANGED <<config, moment, previews, record, pictures, finalizing, operations, recorded>>,
         UNCHANGED alive,
         \/ job' = job /\ world'.restoring = world.restoring
         \/ job' = Invalidated(job),
         wanted' \subseteq Windows, timers' \in TimersType, world' \in WorldType,
         deferredOcr' \in {"none", "running", "stopping"},
         Change \/ changes' = changes
  PROVE  RecorderIndInvariant'
<1>1. RecorderTypeOK /\ CacheFollowsSettings
  BY DEF RecorderIndInvariant, RecorderInvariant
<1>2. CacheFollowsSettings'
  BY <1>1 DEF CacheFollowsSettings
<1>3. job' \in [Jobs -> JobType] /\ (\A p \in Jobs : Dimmed(p))
  BY <1>1, DimmedJobs
<1>4. RecorderTypeOK'
      /\ \A m \in Moments : record'[m] \in {record[m], "none"} /\ pictures'[m] \in {pictures[m], {}}
  BY <1>1, <1>3, Typed, HandlerType DEF ConfigType, WorldType
<1>5. job'["snapshot"].current /\ Allowed => Allowed'
  <2>1. CASE job' = job /\ world'.restoring = world.restoring
    BY <2>1 DEF Allowed, Paused
  <2>2. CASE job' = Invalidated(job)
    BY <1>1, <2>2, InvalidatedJobs DEF Jobs
  <2>3. QED
    BY <2>1, <2>2
<1>6. QED
  BY <1>2, <1>3, <1>4, <1>5, HandlerStep

LEMMA OcrResumed ==
  ASSUME RecorderTypeOK, ResumeOcr
  PROVE  deferredOcr' \in {"none", "running", "stopping"}
BY DEF RecorderTypeOK, ResumeOcr

LEMMA QuietHandlersInv ==
  ASSUME RecorderIndInvariant,
         \/ SetInterval \/ SetOcr \/ OcrDone \/ ShutdownChanges \/ SettlingEnds
         \/ \E power \in PowerLevels : PowerChanges(power)
         \/ \E screen \in {"open", "covered", "locked"} : ScreenChanges(screen)
         \/ \E windows \in {Windows} \cup {{w} : w \in Windows} : WindowsChange(windows)
         \/ \E restoring \in BOOLEAN : Disturbed(restoring)
  PROVE  RecorderIndInvariant'
<1>1. RecorderTypeOK
  BY DEF RecorderIndInvariant, RecorderInvariant
<1>2. world \in WorldType /\ wanted \subseteq Windows /\ timers \in TimersType
      /\ deferredOcr \in {"none", "running", "stopping"}
  BY <1>1, Typed
<1>3. CASE SetInterval
  <2>1. wanted' \subseteq Windows /\ timers' \in TimersType
    BY <1>1, <1>3, Rescheduled DEF SetInterval
  <2>2. QED
    BY <1>2, <1>3, <2>1, QuietHandler DEF SetInterval
<1>4. CASE SetOcr
  <2>1. deferredOcr' \in {"none", "running", "stopping"}
    BY <1>1, <1>4, OcrResumed DEF SetOcr
  <2>2. QED
    BY <1>2, <1>4, <2>1, QuietHandler DEF SetOcr
<1>5. CASE OcrDone
  BY <1>2, <1>5, QuietHandler DEF OcrDone
<1>6. CASE ShutdownChanges
  <2>1. world' \in WorldType /\ world'.restoring = world.restoring
    <3>1. world' = [world EXCEPT !.shutdown = ~@]
      BY <1>6 DEF ShutdownChanges
    <3>2. world' \in WorldType
      BY <1>2, <3>1, WorldChange
    <3>3. world'.restoring = world.restoring
      BY <1>2, <3>1 DEF WorldType
    <3>4. QED
      BY <3>2, <3>3
  <2>2. QED
    BY <1>2, <1>6, <2>1, QuietHandler DEF ShutdownChanges
<1>7. CASE SettlingEnds
  <2>1. world' \in WorldType
    BY <1>2, <1>7, WorldChange DEF SettlingEnds
  <2>2. world'.restoring = world.restoring
    BY <1>2, <1>7 DEF SettlingEnds, WorldType
  <2>3. QED
    BY <1>2, <1>7, <2>1, <2>2, QuietHandler DEF SettlingEnds
<1>8. ASSUME NEW power \in PowerLevels, PowerChanges(power)
      PROVE  RecorderIndInvariant'
  <2>1. world' \in WorldType /\ world'.restoring = world.restoring
    <3>1. world' = [world EXCEPT !.power = power]
      BY <1>8 DEF PowerChanges
    <3>2. world' \in WorldType
      BY <1>2, <3>1, WorldChange
    <3>3. world'.restoring = world.restoring
      BY <1>2, <3>1 DEF WorldType
    <3>4. QED
      BY <3>2, <3>3
  <2>2. wanted' \subseteq Windows /\ timers' \in TimersType
    BY <1>1, <1>8, Rescheduled DEF PowerChanges
  <2>3. deferredOcr' \in {"none", "running", "stopping"}
    BY <1>1, <1>2, <1>8, OcrResumed DEF PowerChanges
  <2>4. QED
    BY <1>8, <2>1, <2>2, <2>3, QuietHandler DEF PowerChanges
<1>9. ASSUME NEW screen \in {"open", "covered", "locked"}, ScreenChanges(screen)
      PROVE  RecorderIndInvariant'
  <2>1. world' \in WorldType /\ world'.restoring = world.restoring
    <3>1. world' = [world EXCEPT !.screen = screen]
      BY <1>9 DEF ScreenChanges
    <3>2. world' \in WorldType
      BY <1>2, <3>1, WorldChange
    <3>3. world'.restoring = world.restoring
      BY <1>2, <3>1 DEF WorldType
    <3>4. QED
      BY <3>2, <3>3
  <2>2. wanted' \subseteq Windows /\ timers' \in TimersType
    BY <1>1, <1>2, <1>9, PassScheduled DEF ScreenChanges
  <2>3. QED
    BY <1>2, <1>9, <2>1, <2>2, QuietHandler DEF ScreenChanges
<1>10. ASSUME NEW windows \in {Windows} \cup {{w} : w \in Windows}, WindowsChange(windows)
       PROVE  RecorderIndInvariant'
  <2>1. windows \subseteq Windows
    BY <1>10
  <2>2. wanted' \subseteq Windows /\ timers' \in TimersType
    BY <1>1, <1>2, <1>10, <2>1, PassScheduled DEF WindowsChange
  <2>3. QED
    BY <1>2, <1>10, <2>2, QuietHandler DEF WindowsChange
<1>11. ASSUME NEW restoring \in BOOLEAN, Disturbed(restoring)
       PROVE  RecorderIndInvariant'
  <2>1. world' \in WorldType
    BY <1>2, <1>11, WorldChange DEF Disturbed
  <2>2. wanted' \subseteq Windows /\ timers' \in TimersType
    BY <1>1, <1>2, <1>11, PassScheduled DEF Disturbed
  <2>3. QED
    BY <1>2, <1>11, <2>1, <2>2, QuietHandler DEF Disturbed
<1>12. QED
  BY <1>3, <1>4, <1>5, <1>6, <1>7, <1>8, <1>9, <1>10, <1>11

LEMMA PauseExpiresInv ==
  ASSUME RecorderIndInvariant, PauseExpires
  PROVE  RecorderIndInvariant'
<1>1. RecorderTypeOK /\ CacheFollowsSettings
  BY DEF RecorderIndInvariant, RecorderInvariant
<1>2. config' = [config EXCEPT !.paused = "expired"] /\ config' \in ConfigType
      /\ config \in ConfigType
  BY <1>1, Typed, SettingsChange DEF PauseExpires
<1>3. config'.excluded = config.excluded /\ CacheFollowsSettings' /\ (Allowed => Allowed')
  BY <1>1, <1>2 DEF CacheFollowsSettings, PauseExpires, ConfigType, Allowed, Paused
<1>4. job' \in [Jobs -> JobType] /\ (\A p \in Jobs : Dimmed(p))
  BY <1>1, DimmedJobs DEF PauseExpires
<1>5. RecorderTypeOK'
      /\ \A m \in Moments : record'[m] \in {record[m], "none"} /\ pictures'[m] \in {pictures[m], {}}
  BY <1>1, <1>2, <1>4, Typed, HandlerType DEF PauseExpires, ConfigType, WorldType
<1>6. QED
  BY <1>3, <1>4, <1>5, HandlerStep DEF PauseExpires

LEMMA DeleteRecallInv ==
  ASSUME RecorderIndInvariant, DeleteRecall
  PROVE  RecorderIndInvariant'
<1>1. RecorderTypeOK
  BY DEF RecorderIndInvariant, RecorderInvariant
<1>2. CacheFollowsSettings'
  BY DEF CacheFollowsSettings, DeleteRecall
<1>3. job' \in [Jobs -> JobType] /\ (\A p \in Jobs : Dimmed(p))
  BY <1>1, DimmedJobs DEF DeleteRecall
<1>4. RecorderTypeOK'
      /\ \A m \in Moments : record'[m] \in {record[m], "none"} /\ pictures'[m] \in {pictures[m], {}}
  BY <1>1, <1>3, Typed, HandlerType DEF DeleteRecall, Change, ConfigType, WorldType
<1>5. Allowed => Allowed'
  BY DEF DeleteRecall, Allowed, Paused
<1>6. QED
  BY <1>2, <1>3, <1>4, <1>5, HandlerStep DEF DeleteRecall

LEMMA DestroyInv ==
  ASSUME RecorderIndInvariant, Destroy
  PROVE  RecorderIndInvariant'
<1>1. RecorderTypeOK
  BY DEF RecorderIndInvariant, RecorderInvariant
<1>2. CacheFollowsSettings'
  BY DEF CacheFollowsSettings, Destroy
<1>3. job' \in [Jobs -> JobType] /\ (\A p \in Jobs : Dimmed(p) /\ ~job'[p].current)
  BY <1>1, DimmedJobs, InvalidatedJobs DEF Destroy
<1>4. timers' \in TimersType
  BY DEF Destroy, TimersType
<1>5. RecorderTypeOK'
      /\ \A m \in Moments : record'[m] \in {record[m], "none"} /\ pictures'[m] \in {pictures[m], {}}
  BY <1>1, <1>3, <1>4, Typed, HandlerType DEF Destroy, Change, ConfigType, WorldType
<1>6. QED
  BY <1>3, <1>2, <1>5, HandlerStep DEF Destroy, Jobs, Change

-----------------------------------------------------------------------------
(* A pass or a snapshot that goes on: its step and its windows change, and *)
(* the snapshot may change what lies there of its own moment.              *)
Steps == {"off"} \cup WindowSteps \cup SnapshotSteps

SameJob(u, j) ==
  u.name = j.name /\ u.excluded = j.excluded /\ u.current = j.current

LEMMA JobStep ==
  ASSUME RecorderIndInvariant,
         UNCHANGED Surroundings, UNCHANGED <<finalizing, operations>>,
         NEW p \in Jobs, Busy(p), NEW j \in JobType, SameJob(j, job[p]),
         job' = [job EXCEPT ![p] = j],
         j.at \in JobSteps(p) \ {"off"},
         j.at \in WithWindow => j.window \in Windows,
         j.at \in WindowSteps /\ j.excluded => SecretWindow \notin j.todo,
         j.at \in {"native", "storing"} /\ j.excluded => j.window # SecretWindow,
         p = "snapshot" /\ job[p].at = "waiting" => ~Busy("pass") /\ Continues(p),
         previews' \subseteq Windows, CacheFollowsSettings',
         record' \in [Moments -> {"none", "plain", "sealed"}],
         pictures' \in [Moments -> SUBSET (Windows \cup {"display"})],
         \A m \in Moments : \/ p = "snapshot" /\ m = Snap.name
                            \/ record'[m] = record[m] /\ pictures'[m] = pictures[m]
  PROVE  RecorderIndInvariant'
<1> "pass" \in Jobs /\ "snapshot" \in Jobs /\ Jobs = {"pass", "snapshot"}
  BY DEF Jobs
<1> USE DEF Surroundings
<1>1. RecorderTypeOK /\ job \in [Jobs -> JobType]
  BY Typed DEF RecorderIndInvariant, RecorderInvariant
<1>2. /\ job' \in [Jobs -> JobType] /\ job'[p] = j
      /\ \A q \in Jobs : q # p => job'[q] = job[q]
  BY <1>1
<1>3. RecorderTypeOK'
  BY <1>1, <1>2 DEF RecorderTypeOK, JobType
<1>4. ActivityCounted'
  BY <1>1, <1>2, <1>3, Counted, CountedAfter DEF RecorderIndInvariant, RecorderInvariant, Busy
<1>5. OneCaptureAtATime'
  BY <1>2 DEF RecorderIndInvariant, RecorderInvariant, OneCaptureAtATime, Busy, Snap
<1>6. JobShape'
  BY <1>2 DEF RecorderIndInvariant, JobShape, Busy, SameJob
<1>7. UnheardIsClean'
  BY <1>2 DEF RecorderIndInvariant, UnheardIsClean, Unheard, Busy, Snap, SameJob
<1>8. ExclusionsHold'
  BY <1>2 DEF RecorderIndInvariant, ExclusionsHold, SameJob
<1>9. CurrentIsWanted'
  BY <1>2 DEF RecorderIndInvariant, CurrentIsWanted, Snap, SameJob, Allowed, Paused, Continues,
              MayCapture, Busy
<1>10. PlaintextIsHandled'
  BY <1>2 DEF RecorderIndInvariant, PlaintextIsHandled, Busy, Snap, SameJob
<1>11. QED
  BY <1>3, <1>4, <1>5, <1>6, <1>7, <1>8, <1>9, <1>10 DEF RecorderIndInvariant, RecorderInvariant

LEMMA StepOf ==
  ASSUME NEW j \in JobType, NEW at \in Steps
  PROVE  [j EXCEPT !.at = at] \in JobType /\ SameJob([j EXCEPT !.at = at], j)
         /\ [j EXCEPT !.at = at].at = at /\ [j EXCEPT !.at = at].todo = j.todo
         /\ [j EXCEPT !.at = at].window = j.window
BY DEF JobType, SameJob, Steps

(* The snapshot takes a step that captures no window.                      *)
LEMMA SnapshotMoves ==
  ASSUME RecorderIndInvariant, UNCHANGED Surroundings, UNCHANGED <<finalizing, operations, previews>>,
         NEW at \in SnapshotSteps \ {"reusing", "reusingAgain", "waiting"},
         Busy("snapshot"), Snap.at # "waiting", job' = SnapAt(at),
         NEW files \in SUBSET (Windows \cup {"display"}), NEW is \in {"none", "plain", "sealed"},
         pictures' = pictures \/ pictures' = [pictures EXCEPT ![Snap.name] = files],
         record' = record \/ record' = [record EXCEPT ![Snap.name] = is]
  PROVE  RecorderIndInvariant'
<1> DEFINE j == [job["snapshot"] EXCEPT !.at = at]
<1>1. RecorderTypeOK /\ job["snapshot"] \in JobType /\ "snapshot" \in Jobs
  BY Typed DEF RecorderIndInvariant, RecorderInvariant, Jobs
<1>2. j \in JobType /\ SameJob(j, job["snapshot"]) /\ j.at = at
  BY <1>1, StepOf DEF Steps
<1>3. job' = [job EXCEPT !["snapshot"] = j]
  BY DEF SnapAt
<1> HIDE DEF j
<1>4. Snap.name \in Moments
  BY DEF RecorderIndInvariant, JobShape, Snap, Jobs
<1>5. /\ record' \in [Moments -> {"none", "plain", "sealed"}]
      /\ pictures' \in [Moments -> SUBSET (Windows \cup {"display"})]
      /\ \A m \in Moments : m = Snap.name \/ (record'[m] = record[m] /\ pictures'[m] = pictures[m])
  <2>1. record \in [Moments -> {"none", "plain", "sealed"}]
        /\ pictures \in [Moments -> SUBSET (Windows \cup {"display"})]
    BY <1>1, Typed
  <2>2. /\ record' \in [Moments -> {"none", "plain", "sealed"}]
        /\ \A m \in Moments : m = Snap.name \/ record'[m] = record[m]
    BY <1>4, <2>1
  <2>3. /\ pictures' \in [Moments -> SUBSET (Windows \cup {"display"})]
        /\ \A m \in Moments : m = Snap.name \/ pictures'[m] = pictures[m]
    BY <1>4, <2>1
  <2>4. QED
    BY <2>2, <2>3
<1>6. previews' \subseteq Windows /\ CacheFollowsSettings'
  BY <1>1, Typed DEF RecorderIndInvariant, CacheFollowsSettings, Surroundings
<1>7. at \in JobSteps("snapshot") \ {"off"} /\ at \notin WithWindow /\ at \notin WindowSteps
      /\ at \notin {"native", "storing"}
  BY DEF JobSteps, WithWindow, WindowSteps, SnapshotSteps
<1>8. QED
  BY <1>1, <1>2, <1>3, <1>5, <1>6, <1>7, JobStep DEF Snap

(* What is known of a job that is under way                                *)
LEMMA JobFacts ==
  ASSUME RecorderIndInvariant, NEW p \in Jobs
  PROVE  /\ RecorderTypeOK /\ job \in [Jobs -> JobType] /\ job[p] \in JobType
         /\ job[p].at \in JobSteps(p)
         /\ job[p].at \in WithWindow => job[p].window \in Windows
         /\ p = "snapshot" /\ Busy(p) => Snap.name \in Moments /\ Snap.name \notin finalizing
         /\ CacheFollowsSettings
         /\ previews \subseteq Windows
         /\ record \in [Moments -> {"none", "plain", "sealed"}]
         /\ pictures \in [Moments -> SUBSET (Windows \cup {"display"})]
BY Typed DEF RecorderIndInvariant, RecorderInvariant, JobShape, Snap

(* The cache is not touched by most steps.                                 *)
LEMMA CacheKept ==
  ASSUME RecorderIndInvariant, UNCHANGED Surroundings, UNCHANGED previews
  PROVE  previews' \subseteq Windows /\ CacheFollowsSettings'
<1>1. "snapshot" \in Jobs
  BY DEF Jobs
<1>2. QED
  BY <1>1, JobFacts DEF CacheFollowsSettings, Surroundings

LEMMA TurnInv ==
  ASSUME RecorderIndInvariant, UNCHANGED Surroundings, Snap.at = "waiting", ~Busy("pass"),
         Continues("snapshot"),
         job' = [job EXCEPT !["snapshot"].at = "reuse", !["snapshot"].todo = Snap.windows],
         UNCHANGED <<previews, record, pictures, finalizing, operations>>
  PROVE  RecorderIndInvariant'
<1> DEFINE j == [job["snapshot"] EXCEPT !.at = "reuse", !.todo = Snap.windows]
<1>1. "snapshot" \in Jobs
  BY DEF Jobs
<1>2. job["snapshot"] \in JobType /\ Busy("snapshot") /\ Snap = job["snapshot"]
  BY <1>1, JobFacts DEF Busy, Snap
<1>3. j \in JobType /\ SameJob(j, job["snapshot"]) /\ j.at = "reuse"
  BY <1>2 DEF JobType, SameJob, SnapshotSteps, Snap
<1>4. job' = [job EXCEPT !["snapshot"] = j]
  OBVIOUS
<1> HIDE DEF j
<1>5. previews' \subseteq Windows /\ CacheFollowsSettings'
  BY CacheKept
<1>6. /\ j.at \in JobSteps("snapshot") \ {"off"} /\ j.at \notin WithWindow
      /\ j.at \notin WindowSteps /\ j.at \notin {"native", "storing"}
  BY <1>3 DEF JobSteps, WithWindow, WindowSteps, SnapshotSteps
<1>7. QED
  BY <1>1, <1>2, <1>3, <1>4, <1>5, <1>6, JobFacts, JobStep

LEMMA ReuseInv ==
  ASSUME RecorderIndInvariant, NEW w \in Windows, Reuse(w)
  PROVE  RecorderIndInvariant'
<1> DEFINE at == IF Snap.at = "reuse" THEN "reusing" ELSE "reusingAgain"
           j == [job["snapshot"] EXCEPT !.at = at, !.todo = @ \ {w}, !.window = w, !.kept = TRUE]
<1>1. "snapshot" \in Jobs
  BY DEF Jobs
<1>2. job["snapshot"] \in JobType /\ Busy("snapshot") /\ Snap.at # "waiting"
  BY <1>1, JobFacts DEF Busy, Snap, Reuse
<1>3. j \in JobType /\ SameJob(j, job["snapshot"]) /\ j.at = at /\ j.window = w
  BY <1>2 DEF JobType, SameJob, SnapshotSteps
<1>4. job' = [job EXCEPT !["snapshot"] = j]
  BY <1>2 DEF Reuse, Snap, JobType
<1>5. at \in {"reusing", "reusingAgain"}
  OBVIOUS
<1> HIDE DEF j, at
<1>6. previews' \subseteq Windows /\ CacheFollowsSettings'
  BY CacheKept DEF Reuse
<1>7. /\ j.at \in JobSteps("snapshot") \ {"off"} /\ j.window \in Windows
      /\ j.at \notin WindowSteps /\ j.at \notin {"native", "storing"}
  BY <1>3, <1>5 DEF JobSteps, WindowSteps, SnapshotSteps
<1>8. UNCHANGED Surroundings /\ UNCHANGED <<record, pictures, finalizing, operations>>
  BY DEF Reuse
<1>9. QED
  BY <1>1, <1>2, <1>3, <1>4, <1>6, <1>7, <1>8, JobFacts, JobStep DEF Snap

LEMMA ReusedInv ==
  ASSUME RecorderIndInvariant, Reused
  PROVE  RecorderIndInvariant'
<1> DEFINE at == IF Snap.at = "reusing" THEN "reuse" ELSE "again"
<1>1. "snapshot" \in Jobs
  BY DEF Jobs
<1>2. Busy("snapshot") /\ Snap.at # "waiting" /\ Snap.at \in WithWindow
  BY DEF Busy, Snap, Reused, WithWindow
<1>3. Snap.window \in Windows /\ Snap.name \in Moments
      /\ pictures \in [Moments -> SUBSET (Windows \cup {"display"})]
  BY <1>1, <1>2, JobFacts DEF Snap
<1> DEFINE files == pictures[Snap.name] \cup {Snap.window}
<1>4. files \in SUBSET (Windows \cup {"display"})
  BY <1>3
<1>5. pictures' = pictures \/ pictures' = [pictures EXCEPT ![Snap.name] = files]
  BY DEF Reused
<1>6. at \in SnapshotSteps \ {"reusing", "reusingAgain", "waiting"} /\ job' = SnapAt(at)
  BY DEF Reused, SnapshotSteps
<1> HIDE DEF at, files
<1>7. UNCHANGED Surroundings /\ UNCHANGED <<finalizing, operations, previews>> /\ record' = record
  BY DEF Reused
<1>8. QED
  BY <1>2, <1>4, <1>5, <1>6, <1>7, SnapshotMoves

LEMMA LiveJobsInv ==
  ASSUME RecorderIndInvariant, NEW windows \in SUBSET Windows, LiveJobs(windows)
  PROVE  RecorderIndInvariant'
<1> DEFINE j == [job["snapshot"] EXCEPT !.at = "loop", !.todo = windows]
<1>1. "snapshot" \in Jobs
  BY DEF Jobs
<1>2. job["snapshot"] \in JobType /\ Busy("snapshot") /\ Snap.at # "waiting"
  BY <1>1, JobFacts DEF Busy, Snap, LiveJobs
<1>3. j \in JobType /\ SameJob(j, job["snapshot"]) /\ j.at = "loop" /\ j.todo = windows
  BY <1>2 DEF JobType, SameJob, WindowSteps
<1>4. job' = [job EXCEPT !["snapshot"] = j]
  BY DEF LiveJobs
<1> HIDE DEF j
<1>5. j.excluded => SecretWindow \notin j.todo
  BY <1>3 DEF SameJob, LiveJobs, Snap
<1>6. previews' \subseteq Windows /\ CacheFollowsSettings'
  BY CacheKept DEF LiveJobs
<1>7. j.at \in JobSteps("snapshot") \ {"off"} /\ j.at \notin WithWindow
      /\ j.at \notin {"native", "storing"}
  BY <1>3 DEF JobSteps, WithWindow, WindowSteps
<1>8. UNCHANGED Surroundings /\ UNCHANGED <<record, pictures, finalizing, operations>>
  BY DEF LiveJobs
<1>9. QED
  BY <1>1, <1>2, <1>3, <1>4, <1>5, <1>6, <1>7, <1>8, JobFacts, JobStep DEF Snap

LEMMA ReuseEndsInv ==
  ASSUME RecorderIndInvariant, ReuseEnds
  PROVE  RecorderIndInvariant'
<1>1. Busy("snapshot") /\ Snap.at # "waiting" /\ {} \in SUBSET (Windows \cup {"display"})
      /\ "payload" \in SnapshotSteps \ {"reusing", "reusingAgain", "waiting"}
  BY DEF Busy, Snap, ReuseEnds, SnapshotSteps
<1>2. QED
  BY <1>1, SnapshotMoves DEF ReuseEnds

(* A window is captured by p: its job stays what it was, and the snapshot  *)
(* may change the images of its moment.                                    *)
LEMMA WindowTurn ==
  ASSUME RecorderIndInvariant, NEW p \in Jobs, Busy(p), p = "snapshot" => Snap.at # "waiting",
         UNCHANGED Surroundings, UNCHANGED <<record, finalizing, operations>>,
         NEW j \in JobType, SameJob(j, job[p]), job' = [job EXCEPT ![p] = j],
         \/ j.at = "native" /\ j.window \in Windows
            /\ (j.excluded => SecretWindow \notin j.todo /\ j.window # SecretWindow)
         \/ j.at = "storing" /\ job[p].at = "native" /\ j.todo = job[p].todo /\ j.window = job[p].window
         \/ j.at = "loop" /\ job[p].at \in WindowSteps /\ j.todo \subseteq job[p].todo
         \/ j.at = "again" /\ p = "snapshot",
         previews' \subseteq Windows, CacheFollowsSettings',
         \/ UNCHANGED pictures
         \/ p = "snapshot" /\ \E files \in SUBSET (Windows \cup {"display"}) :
              pictures' = [pictures EXCEPT ![Snap.name] = files]
  PROVE  RecorderIndInvariant'
<1>1. /\ job[p] \in JobType /\ job[p].at \in JobSteps(p)
      /\ job[p].at \in WithWindow => job[p].window \in Windows
      /\ p = "snapshot" => Snap.name \in Moments
      /\ record \in [Moments -> {"none", "plain", "sealed"}]
      /\ pictures \in [Moments -> SUBSET (Windows \cup {"display"})]
  BY JobFacts
<1>2. /\ job[p].at \in WindowSteps /\ job[p].excluded => SecretWindow \notin job[p].todo
      /\ job[p].at \in {"native", "storing"} /\ job[p].excluded => job[p].window # SecretWindow
  BY DEF RecorderIndInvariant, ExclusionsHold
<1>3. j.at \in JobSteps(p) \ {"off"}
  BY DEF JobSteps, WindowSteps, SnapshotSteps
<1>4. j.at \in WithWindow => j.window \in Windows
  BY <1>1 DEF WithWindow
<1>5. j.at \in WindowSteps /\ j.excluded => SecretWindow \notin j.todo
  BY <1>2 DEF WindowSteps, SameJob
<1>6. j.at \in {"native", "storing"} /\ j.excluded => j.window # SecretWindow
  BY <1>2 DEF SameJob
<1>7. /\ pictures' \in [Moments -> SUBSET (Windows \cup {"display"})]
      /\ \A m \in Moments : (p = "snapshot" /\ m = Snap.name) \/ pictures'[m] = pictures[m]
  BY <1>1
<1>8. record' \in [Moments -> {"none", "plain", "sealed"}] /\ record' = record
  BY <1>1
<1>9. QED
  BY <1>1, <1>3, <1>4, <1>5, <1>6, <1>7, <1>8, JobStep DEF Snap

LEMMA CaptureStartInv ==
  ASSUME RecorderIndInvariant, NEW p \in Jobs, NEW w \in Windows, CaptureStart(p, w)
  PROVE  RecorderIndInvariant'
<1>1. /\ job[p] \in JobType /\ job[p].at = "loop" /\ w \in job[p].todo
      /\ p = "snapshot" => Snap.name \in Moments
      /\ pictures \in [Moments -> SUBSET (Windows \cup {"display"})]
  BY JobFacts DEF CaptureStart, Busy
<1>2. Busy(p) /\ (p = "snapshot" => Snap.at # "waiting") /\ job[p].at \in WindowSteps
  BY <1>1 DEF Busy, Snap, WindowSteps
<1>3. previews' \subseteq Windows /\ CacheFollowsSettings'
  BY CacheKept DEF CaptureStart
<1>4. UNCHANGED Surroundings /\ UNCHANGED <<record, finalizing, operations>>
  BY DEF CaptureStart
<1>5. job[p].excluded => SecretWindow \notin job[p].todo
  BY <1>2 DEF RecorderIndInvariant, ExclusionsHold
<1>6. CASE job' = [job EXCEPT ![p].todo = @ \ {w}] /\ UNCHANGED pictures
  <2> DEFINE j == [job[p] EXCEPT !.todo = job[p].todo \ {w}]
  <2>1. /\ j \in JobType /\ SameJob(j, job[p]) /\ j.at = "loop" /\ j.todo \subseteq job[p].todo
    BY <1>1 DEF JobType, SameJob
  <2>2. job' = [job EXCEPT ![p] = j]
    BY <1>6
  <2> HIDE DEF j
  <2>3. QED
    BY <1>2, <1>3, <1>4, <1>6, <2>1, <2>2, WindowTurn
<1>7. CASE /\ job' = [job EXCEPT ![p].at = "native", ![p].todo = @ \ {w}, ![p].window = w]
           /\ pictures' = IF p = "snapshot"
                          THEN [pictures EXCEPT ![Snap.name] = @ \cup {w}] ELSE pictures
  <2> DEFINE j == [job[p] EXCEPT !.at = "native", !.todo = job[p].todo \ {w}, !.window = w]
  <2>1. /\ j \in JobType /\ SameJob(j, job[p]) /\ j.at = "native" /\ j.window = w
        /\ j.todo = job[p].todo \ {w} /\ j.excluded = job[p].excluded
    BY <1>1 DEF JobType, SameJob, WindowSteps
  <2>2. job' = [job EXCEPT ![p] = j]
    BY <1>1, <1>7 DEF JobType
  <2> HIDE DEF j
  <2>3. \/ UNCHANGED pictures
        \/ p = "snapshot" /\ \E files \in SUBSET (Windows \cup {"display"}) :
             pictures' = [pictures EXCEPT ![Snap.name] = files]
    BY <1>1, <1>7
  <2>4. j.excluded => SecretWindow \notin j.todo /\ j.window # SecretWindow
    BY <1>1, <1>5, <2>1
  <2>5. QED
    BY <1>2, <1>3, <1>4, <2>1, <2>2, <2>3, <2>4, WindowTurn
<1>8. QED
  BY <1>6, <1>7 DEF CaptureStart

LEMMA CaptureDoneInv ==
  ASSUME RecorderIndInvariant, NEW p \in Jobs, CaptureDone(p)
  PROVE  RecorderIndInvariant'
<1>1. /\ job[p] \in JobType /\ job[p].at = "native"
      /\ p = "snapshot" => Snap.name \in Moments
      /\ pictures \in [Moments -> SUBSET (Windows \cup {"display"})]
  BY JobFacts DEF CaptureDone, Busy
<1>2. Busy(p) /\ (p = "snapshot" => Snap.at # "waiting") /\ job[p].at \in WindowSteps
  BY <1>1 DEF Busy, Snap, WindowSteps
<1>3. previews' \subseteq Windows /\ CacheFollowsSettings'
  BY CacheKept DEF CaptureDone
<1>4. UNCHANGED Surroundings /\ UNCHANGED <<record, finalizing, operations>>
  BY DEF CaptureDone
<1>5. CASE job' = [job EXCEPT ![p].at = "storing", ![p].kept = TRUE] /\ UNCHANGED pictures
  <2> DEFINE j == [job[p] EXCEPT !.at = "storing", !.kept = TRUE]
  <2>1. /\ j \in JobType /\ SameJob(j, job[p]) /\ j.at = "storing" /\ j.todo = job[p].todo
        /\ j.window = job[p].window
    BY <1>1 DEF JobType, SameJob, WindowSteps
  <2>2. job' = [job EXCEPT ![p] = j]
    BY <1>5
  <2> HIDE DEF j
  <2>3. QED
    BY <1>1, <1>2, <1>3, <1>4, <1>5, <2>1, <2>2, WindowTurn
<1>6. CASE job' = [job EXCEPT ![p].at = "loop"]
           /\ \/ UNCHANGED pictures
              \/ pictures' = IF p = "snapshot"
                             THEN [pictures EXCEPT ![Snap.name] = @ \ {Snap.window}] ELSE pictures
  <2> DEFINE j == [job[p] EXCEPT !.at = "loop"]
  <2>1. /\ j \in JobType /\ SameJob(j, job[p]) /\ j.at = "loop" /\ j.todo \subseteq job[p].todo
    BY <1>1 DEF JobType, SameJob, WindowSteps
  <2>2. job' = [job EXCEPT ![p] = j]
    BY <1>6
  <2> HIDE DEF j
  <2>3. \/ UNCHANGED pictures
        \/ p = "snapshot" /\ \E files \in SUBSET (Windows \cup {"display"}) :
             pictures' = [pictures EXCEPT ![Snap.name] = files]
    BY <1>1, <1>6
  <2>4. QED
    BY <1>2, <1>3, <1>4, <2>1, <2>2, <2>3, WindowTurn
<1>7. QED
  BY <1>5, <1>6 DEF CaptureDone

LEMMA PreviewStoredInv ==
  ASSUME RecorderIndInvariant, NEW p \in Jobs, PreviewStored(p)
  PROVE  RecorderIndInvariant'
<1>1. /\ job[p] \in JobType /\ job[p].at = "storing" /\ job[p].window \in Windows
      /\ previews \subseteq Windows /\ CacheFollowsSettings
  BY JobFacts DEF PreviewStored, WithWindow
<1>2. Busy(p) /\ (p = "snapshot" => Snap.at # "waiting") /\ job[p].at \in WindowSteps
  BY <1>1 DEF Busy, Snap, WindowSteps
<1>3. UNCHANGED Surroundings /\ UNCHANGED <<record, pictures, finalizing, operations>>
  BY DEF PreviewStored
<1>4. previews' \subseteq Windows /\ CacheFollowsSettings'
  <2>1. CASE UNCHANGED previews
    BY <1>3, <2>1, CacheKept
  <2>2. CASE Continues(p) /\ previews' = previews \cup {job[p].window}
    <3>1. job[p].excluded = config.excluded
          /\ (job[p].excluded => job[p].window # SecretWindow)
      BY <1>1, <2>2 DEF RecorderIndInvariant, ExclusionsHold, Continues
    <3>2. alive /\ config.enabled /\ config.screenshots
      BY <2>2 DEF Continues, MayCapture
    <3>3. alive' = alive /\ config' = config
      BY <1>3 DEF Surroundings
    <3>4. QED
      BY <1>1, <2>2, <3>1, <3>2, <3>3 DEF CacheFollowsSettings
  <2>3. QED
    BY <2>1, <2>2 DEF PreviewStored
<1> DEFINE j == [job[p] EXCEPT !.at = "loop"]
<1>5. /\ j \in JobType /\ SameJob(j, job[p]) /\ j.at = "loop" /\ j.todo \subseteq job[p].todo
  BY <1>1 DEF JobType, SameJob, WindowSteps
<1>6. job' = [job EXCEPT ![p] = j]
  BY DEF PreviewStored
<1> HIDE DEF j
<1>7. QED
  BY <1>2, <1>3, <1>4, <1>5, <1>6, WindowTurn

(* A pass ends; a snapshot turns to the cache once more.                   *)
LEMMA CapturesEndInv ==
  ASSUME RecorderIndInvariant, NEW p \in Jobs, CapturesEnd(p)
  PROVE  RecorderIndInvariant'
<1>1. /\ RecorderTypeOK /\ job \in [Jobs -> JobType] /\ job[p] \in JobType /\ job[p].at = "loop"
      /\ p = "snapshot" => Snap.name \in Moments
      /\ pictures \in [Moments -> SUBSET (Windows \cup {"display"})]
  BY JobFacts DEF CapturesEnd, Busy
<1>2. Busy(p) /\ (p = "snapshot" => Snap.at # "waiting")
  BY <1>1 DEF Busy, Snap
<1>3. previews' \subseteq Windows /\ CacheFollowsSettings'
  BY CacheKept DEF CapturesEnd
<1>4. UNCHANGED Surroundings /\ UNCHANGED <<record, pictures, finalizing>>
  BY DEF CapturesEnd
<1>5. CASE p = "snapshot"
  <2> DEFINE j == [job[p] EXCEPT !.at = "again", !.todo = Snap.windows \ pictures[Snap.name]]
  <2>1. Snap.windows \in SUBSET Windows
    BY <1>1, <1>5 DEF JobType, Snap
  <2>2. j \in JobType /\ SameJob(j, job[p]) /\ j.at = "again"
    BY <1>1, <2>1 DEF JobType, SameJob, SnapshotSteps
  <2>3. job' = [job EXCEPT ![p] = j] /\ UNCHANGED operations
    BY <1>1, <1>5 DEF CapturesEnd, JobType
  <2> HIDE DEF j
  <2>4. QED
    BY <1>2, <1>3, <1>4, <1>5, <2>2, <2>3, WindowTurn
<1>6. CASE p = "pass"
  <2> "pass" \in Jobs /\ "snapshot" \in Jobs /\ Jobs = {"pass", "snapshot"}
    BY DEF Jobs
  <2> USE DEF Surroundings
  <2>1. NoJob \in JobType /\ NoJob.at = "off" /\ NoJob.current = FALSE
    BY RecorderAssumption DEF NoJob, JobType, NoWindow
  <2>2. job' = [job EXCEPT !["pass"] = NoJob] /\ operations' = operations - 1
    BY <1>6 DEF CapturesEnd
  <2>3. /\ job' \in [Jobs -> JobType] /\ job'["pass"].at = "off" /\ ~job'["pass"].current
        /\ job'["snapshot"] = job["snapshot"]
    BY <1>1, <2>1, <2>2
  <2>4. RecorderTypeOK'
    BY <1>1, <1>3, <1>4, <2>2, <2>3 DEF RecorderTypeOK, JobType
  <2>5. ActivityCounted'
    <3>1. job["pass"].at # "off"
      BY <1>1, <1>6
    <3>2. operations = Number(job["pass"].at # "off") + Number(job["snapshot"].at # "off")
                          + Cardinality(finalizing) + Number(moment.saving)
      BY <1>1, Counted DEF RecorderIndInvariant, RecorderInvariant
    <3>3. Cardinality(finalizing) \in Nat
      BY <1>1, CountedAs, Typed
    <3>4. QED
      BY <1>4, <2>2, <2>3, <2>4, <3>1, <3>2, <3>3, CountedAfter DEF Number
  <2>6. OneCaptureAtATime' /\ JobShape' /\ UnheardIsClean' /\ ExclusionsHold' /\ CurrentIsWanted'
    <3>1. OneCaptureAtATime'
      BY <2>3 DEF OneCaptureAtATime, Busy
    <3>2. JobShape'
      BY <1>4, <2>3 DEF RecorderIndInvariant, JobShape, JobSteps, WithWindow, Busy
    <3>3. UnheardIsClean'
      BY <1>4, <2>3 DEF RecorderIndInvariant, UnheardIsClean, Unheard, Busy, Snap
    <3>4. ExclusionsHold'
      BY <1>4, <2>3 DEF RecorderIndInvariant, ExclusionsHold, WindowSteps
    <3>5. CurrentIsWanted'
      BY <1>4, <2>3 DEF RecorderIndInvariant, CurrentIsWanted, Snap, Allowed, Paused
    <3>6. QED
      BY <3>1, <3>2, <3>3, <3>4, <3>5
  <2>7. PlaintextIsHandled'
    BY <1>4, <2>3 DEF RecorderIndInvariant, PlaintextIsHandled, Busy, Snap
  <2>8. QED
    BY <1>3, <2>4, <2>5, <2>6, <2>7 DEF RecorderIndInvariant, RecorderInvariant
<1>7. QED
  BY <1>5, <1>6 DEF Jobs

(* The snapshot ends: the entry goes to the manager or is removed, or the  *)
(* recorder is gone and the images go.                                     *)
LEMMA SnapshotEnds ==
  ASSUME RecorderIndInvariant, UNCHANGED Surroundings, UNCHANGED previews, Busy("snapshot"),
         job' = [job EXCEPT !["snapshot"] = NoJob],
         NEW m \in Moments, m = Snap.name,
         record' \in [Moments -> {"none", "plain", "sealed"}],
         pictures' \in [Moments -> SUBSET (Windows \cup {"display"})],
         \A n \in Moments : n = m \/ (record'[n] = record[n] /\ pictures'[n] = pictures[n]),
         \/ finalizing' = finalizing \cup {m} /\ operations' = operations
         \/ /\ finalizing' = finalizing
            /\ operations' = operations - 1
            /\ pictures'[m] = {}
            /\ record'[m] = "plain" => ~alive
  PROVE  RecorderIndInvariant'
<1> "pass" \in Jobs /\ "snapshot" \in Jobs /\ Jobs = {"pass", "snapshot"}
  BY DEF Jobs
<1> USE DEF Surroundings
<1>1. NoJob \in JobType /\ NoJob.at = "off" /\ NoJob.current = FALSE
  BY RecorderAssumption DEF NoJob, JobType, NoWindow
<1>2. /\ RecorderTypeOK /\ job \in [Jobs -> JobType] /\ m \notin finalizing
      /\ CacheFollowsSettings
  BY JobFacts
<1>3. /\ job' \in [Jobs -> JobType] /\ job'["snapshot"].at = "off"
      /\ ~job'["snapshot"].current /\ job'["pass"] = job["pass"]
  BY <1>1, <1>2
<1>4. finalizing \subseteq Moments /\ finalizing' \subseteq Moments /\ operations \in Int
  BY <1>2, Typed
<1>5. RecorderTypeOK'
  BY <1>2, <1>3, <1>4 DEF RecorderTypeOK, JobType
<1>6. ActivityCounted'
  <2>1. operations = Number(job["pass"].at # "off") + 1
                       + Cardinality(finalizing) + Number(moment.saving)
    BY <1>2, Counted DEF RecorderIndInvariant, RecorderInvariant, Busy, Number
  <2>2. IsFiniteSet(finalizing) /\ Cardinality(finalizing) \in Nat
    BY <1>4, CountedAs
  <2>3. Cardinality(finalizing \cup {m}) = Cardinality(finalizing) + 1
    BY <1>2, <2>2, FS_AddElement
  <2>4. operations' = Number(job'["pass"].at # "off") + 0
                        + Cardinality(finalizing') + Number(moment'.saving)
    <3>1. job'["pass"] = job["pass"] /\ moment' = moment
      BY <1>3
    <3>2. CASE finalizing' = finalizing \cup {m} /\ operations' = operations
      BY <2>1, <2>3, <3>1, <3>2, <2>2 DEF Number
    <3>3. CASE finalizing' = finalizing /\ operations' = operations - 1
      BY <2>1, <2>2, <3>1, <3>3 DEF Number
    <3>4. QED
      BY <3>2, <3>3
  <2>5. QED
    BY <1>3, <1>5, <2>4, CountedAfter DEF Number
<1>7. OneCaptureAtATime'
  BY <1>3 DEF OneCaptureAtATime, Busy, Snap
<1>8. JobShape'
  BY <1>3 DEF RecorderIndInvariant, JobShape, JobSteps, WithWindow, Busy
<1>9. UnheardIsClean'
  <2>1. \A n \in Moments : Unheard(n)' => Unheard(n) /\ n # m
    BY DEF RecorderIndInvariant, UnheardIsClean, Unheard
  <2>2. QED
    BY <1>3, <2>1 DEF RecorderIndInvariant, UnheardIsClean, Busy
<1>10. ExclusionsHold' /\ CurrentIsWanted'
  BY <1>3 DEF RecorderIndInvariant, ExclusionsHold, CurrentIsWanted, WindowSteps, Snap
<1>11. PlaintextIsHandled'
  <2>1. \A n \in Moments : n # m /\ ((record[n] = "plain" /\ alive) \/ pictures[n] # {})
          => n \in finalizing
    BY DEF RecorderIndInvariant, PlaintextIsHandled
  <2>2. QED
    BY <2>1 DEF PlaintextIsHandled
<1>12. CacheFollowsSettings'
  BY <1>2 DEF CacheFollowsSettings
<1>13. QED
  BY <1>5, <1>6, <1>7, <1>8, <1>9, <1>10, <1>11, <1>12 DEF RecorderIndInvariant, RecorderInvariant

LEMMA EndingInv ==
  ASSUME RecorderIndInvariant, UNCHANGED Surroundings, UNCHANGED previews, Busy("snapshot"),
         job' = [job EXCEPT !["snapshot"] = NoJob],
         NEW records, records = record \/ records = [record EXCEPT ![Snap.name] = "plain"],
         NEW files \in SUBSET (Windows \cup {"display"}), alive \/ files = {},
         IF alive
         THEN Finalize(Snap.name, records, Shown(Snap.name, files), operations - 1)
         ELSE /\ pictures' = Shown(Snap.name, files)
              /\ record' = records
              /\ operations' = operations - 1
              /\ UNCHANGED finalizing
  PROVE  RecorderIndInvariant'
<1> DEFINE m == Snap.name
<1>1. /\ m \in Moments /\ RecorderTypeOK /\ operations \in Int
      /\ record \in [Moments -> {"none", "plain", "sealed"}]
      /\ pictures \in [Moments -> SUBSET (Windows \cup {"display"})]
  <2>1. "snapshot" \in Jobs
    BY DEF Jobs
  <2>2. QED
    BY <2>1, JobFacts, Typed
<1>2. /\ records \in [Moments -> {"none", "plain", "sealed"}]
      /\ \A n \in Moments : n = m \/ records[n] = record[n]
  BY <1>1
<1>3. /\ Shown(m, files) \in [Moments -> SUBSET (Windows \cup {"display"})]
      /\ Shown(m, files)[m] = files
      /\ \A n \in Moments : n = m \/ Shown(m, files)[n] = pictures[n]
  BY <1>1 DEF Shown
<1> HIDE DEF m
<1>4. CASE ~alive
  <2>1. record' = records /\ pictures' = Shown(m, files) /\ operations' = operations - 1
        /\ finalizing' = finalizing /\ files = {}
    BY <1>4 DEF m
  <2>2. QED
    BY <1>1, <1>2, <1>3, <1>4, <2>1, SnapshotEnds DEF m
<1>5. CASE alive /\ finalizing' = finalizing \cup {m} /\ operations' = operations - 1 + 1
           /\ record' = records /\ pictures' = Shown(m, files)
  <2>1. operations' = operations
    BY <1>1, <1>5
  <2>2. QED
    BY <1>1, <1>2, <1>3, <1>5, <2>1, SnapshotEnds DEF m
<1>6. CASE /\ alive /\ finalizing' = finalizing /\ operations' = operations - 1
           /\ record' = [records EXCEPT ![m] = "none"]
           /\ pictures' = [Shown(m, files) EXCEPT ![m] = {}]
  <2>1. /\ record' \in [Moments -> {"none", "plain", "sealed"}] /\ record'[m] = "none"
        /\ \A n \in Moments : n = m \/ record'[n] = record[n]
    BY <1>1, <1>2, <1>6
  <2>2. /\ pictures' \in [Moments -> SUBSET (Windows \cup {"display"})] /\ pictures'[m] = {}
        /\ \A n \in Moments : n = m \/ pictures'[n] = pictures[n]
    BY <1>1, <1>3, <1>6
  <2>3. QED
    BY <1>1, <1>6, <2>1, <2>2, SnapshotEnds DEF m
<1>7. QED
  BY <1>4, <1>5, <1>6 DEF Finalize, m

LEMMA EndSnapshotInv ==
  ASSUME RecorderIndInvariant, UNCHANGED Surroundings, Busy("snapshot"),
         NEW files \in SUBSET (Windows \cup {"display"}), alive \/ files = {},
         EndSnapshot(files)
  PROVE  RecorderIndInvariant'
<1>1. IF alive
      THEN Finalize(Snap.name, record, Shown(Snap.name, files), operations - 1)
      ELSE /\ pictures' = Shown(Snap.name, files)
           /\ record' = record
           /\ operations' = operations - 1
           /\ UNCHANGED finalizing
  BY DEF EndSnapshot
<1>2. UNCHANGED previews /\ job' = [job EXCEPT !["snapshot"] = NoJob]
  BY DEF EndSnapshot
<1>3. QED
  BY <1>1, <1>2, EndingInv

LEMMA SnapshotTurnInv ==
  ASSUME RecorderIndInvariant, SnapshotTurn
  PROVE  RecorderIndInvariant'
<1>1. UNCHANGED Surroundings /\ Busy("snapshot") /\ Snap.at = "waiting" /\ ~Busy("pass")
      /\ {} \in SUBSET (Windows \cup {"display"})
  BY DEF SnapshotTurn, Busy, Snap
<1>2. CASE EndSnapshot({})
  BY <1>1, <1>2, EndSnapshotInv
<1>3. CASE /\ Continues("snapshot")
           /\ job' = [job EXCEPT !["snapshot"].at = "reuse", !["snapshot"].todo = Snap.windows]
           /\ UNCHANGED <<previews, record, pictures, finalizing, operations>>
  BY <1>1, <1>3, TurnInv
<1>4. QED
  BY <1>2, <1>3 DEF SnapshotTurn

LEMMA PayloadWrittenInv ==
  ASSUME RecorderIndInvariant, PayloadWritten
  PROVE  RecorderIndInvariant'
<1>1. UNCHANGED Surroundings /\ Busy("snapshot") /\ Snap.at # "waiting"
      /\ {} \in SUBSET (Windows \cup {"display"})
  BY DEF PayloadWritten, Busy, Snap
<1>2. CASE EndSnapshot({})
  BY <1>1, <1>2, EndSnapshotInv
<1>3. CASE /\ record' = [record EXCEPT ![Snap.name] = "plain"]
           /\ \E hidden \in ExcludedVisible("snapshot") :
                job' = SnapAt(IF hidden THEN "compressWindows" ELSE "displayQueued")
           /\ UNCHANGED <<previews, pictures, finalizing, operations>>
  <2>1. PICK at \in {"compressWindows", "displayQueued"} : job' = SnapAt(at)
    BY <1>3
  <2>2. at \in SnapshotSteps \ {"reusing", "reusingAgain", "waiting"}
    BY DEF SnapshotSteps
  <2>3. QED
    BY <1>1, <1>3, <2>1, <2>2, SnapshotMoves
<1>4. CASE /\ job' = [job EXCEPT !["snapshot"] = NoJob]
           /\ UNCHANGED previews
           /\ IF alive
              THEN Finalize(Snap.name, [record EXCEPT ![Snap.name] = "plain"],
                            Shown(Snap.name, {}), operations - 1)
              ELSE /\ pictures' = Shown(Snap.name, {})
                   /\ record' = [record EXCEPT ![Snap.name] = "plain"]
                   /\ operations' = operations - 1
                   /\ UNCHANGED finalizing
  BY <1>1, <1>4, EndingInv
<1>5. QED
  BY <1>2, <1>3, <1>4 DEF PayloadWritten

LEMMA DisplayStartInv ==
  ASSUME RecorderIndInvariant, DisplayStart
  PROVE  RecorderIndInvariant'
<1>1. UNCHANGED Surroundings /\ Busy("snapshot") /\ Snap.at # "waiting"
      /\ {} \in SUBSET (Windows \cup {"display"})
  BY DEF DisplayStart, Busy, Snap
<1>2. CASE EndSnapshot({})
  BY <1>1, <1>2, EndSnapshotInv
<1>3. CASE /\ pictures' = [pictures EXCEPT ![Snap.name] = @ \cup {"display"}]
           /\ job' = SnapAt("display")
           /\ UNCHANGED <<previews, record, finalizing, operations>>
  <2>1. Snap.name \in Moments /\ pictures \in [Moments -> SUBSET (Windows \cup {"display"})]
    BY <1>1, JobFacts DEF Jobs
  <2>2. pictures[Snap.name] \cup {"display"} \in SUBSET (Windows \cup {"display"})
    BY <2>1
  <2>3. "display" \in SnapshotSteps \ {"reusing", "reusingAgain", "waiting"}
    BY DEF SnapshotSteps
  <2>4. QED
    BY <1>1, <1>3, <2>2, <2>3, SnapshotMoves
<1>4. QED
  BY <1>2, <1>3 DEF DisplayStart

LEMMA DisplayDoneInv ==
  ASSUME RecorderIndInvariant, DisplayDone
  PROVE  RecorderIndInvariant'
<1>1. UNCHANGED Surroundings /\ Busy("snapshot") /\ Snap.at # "waiting"
      /\ {} \in SUBSET (Windows \cup {"display"})
  BY DEF DisplayDone, Busy, Snap
<1>2. CASE EndSnapshot({})
  BY <1>1, <1>2, EndSnapshotInv
<1>3. CASE /\ job' = SnapAt("compress")
           /\ UNCHANGED <<previews, record, pictures, finalizing, operations>>
  <2>1. "compress" \in SnapshotSteps \ {"reusing", "reusingAgain", "waiting"}
    BY DEF SnapshotSteps
  <2>2. QED
    BY <1>1, <1>3, <2>1, SnapshotMoves
<1>4. QED
  BY <1>2, <1>3 DEF DisplayDone

(* What the compressor leaves are images of the moment.                    *)
LEMMA CompressedFiles ==
  ASSUME RecorderIndInvariant, Busy("snapshot"),
         NEW files \in {pictures[Snap.name], pictures[Snap.name] \cup Snap.windows}
  PROVE  files \in SUBSET (Windows \cup {"display"})
<1>1. /\ Snap.name \in Moments /\ pictures \in [Moments -> SUBSET (Windows \cup {"display"})]
      /\ Snap \in JobType
  BY JobFacts DEF Jobs, Snap
<1>2. Snap.windows \in SUBSET Windows /\ pictures[Snap.name] \in SUBSET (Windows \cup {"display"})
  BY <1>1 DEF JobType
<1>3. QED
  BY <1>2

LEMMA CompressedInv ==
  ASSUME RecorderIndInvariant, Compressed
  PROVE  RecorderIndInvariant'
<1>1. UNCHANGED Surroundings /\ Busy("snapshot") /\ {} \in SUBSET (Windows \cup {"display"})
  BY DEF Compressed, Busy, Snap
<1>2. CASE EndSnapshot({})
  BY <1>1, <1>2, EndSnapshotInv
<1>3. CASE /\ alive
           /\ \E seen \in ExcludedVisible("snapshot"),
                 files \in {pictures[Snap.name], pictures[Snap.name] \cup Snap.windows} :
                EndSnapshot(IF seen /\ Snap.at = "compress" THEN files \ {"display"} ELSE files)
  <2>1. PICK seen \in ExcludedVisible("snapshot"),
             files \in {pictures[Snap.name], pictures[Snap.name] \cup Snap.windows} :
               EndSnapshot(IF seen /\ Snap.at = "compress" THEN files \ {"display"} ELSE files)
    BY <1>3
  <2> DEFINE left == IF seen /\ Snap.at = "compress" THEN files \ {"display"} ELSE files
  <2>2. files \in SUBSET (Windows \cup {"display"})
    BY <1>1, CompressedFiles
  <2>3. left \in SUBSET (Windows \cup {"display"}) /\ EndSnapshot(left)
    BY <2>1, <2>2
  <2> HIDE DEF left
  <2>4. QED
    BY <1>1, <1>3, <2>3, EndSnapshotInv
<1>4. QED
  BY <1>2, <1>3 DEF Compressed

-----------------------------------------------------------------------------
(* Steps at which a moment, a pass or a manager process begins or ends     *)
LEMMA SaveNowInv ==
  ASSUME RecorderIndInvariant, SaveNow
  PROVE  RecorderIndInvariant'
<1> "pass" \in Jobs /\ "snapshot" \in Jobs /\ Jobs = {"pass", "snapshot"}
  BY DEF Jobs
<1>1. RecorderTypeOK /\ CacheFollowsSettings
  BY DEF RecorderIndInvariant, RecorderInvariant
<1>2. /\ config' = [config EXCEPT !.paused = "no"] /\ config' \in ConfigType
      /\ config \in ConfigType
  BY <1>1, Typed, SettingsChange DEF SaveNow
<1>3. /\ config'.enabled = config.enabled /\ config'.screenshots = config.screenshots
      /\ config'.excluded = config.excluded /\ config'.paused = "no"
  BY <1>2 DEF ConfigType
<1>4. job' \in {job, Invalidated(job)} /\ job' \in [Jobs -> JobType] /\ \A p \in Jobs : Dimmed(p)
  BY <1>1, DimmedJobs DEF SaveNow
<1>5. wanted' \subseteq Windows /\ timers' \in TimersType
  <2>1. CASE config.paused = "expired"
    BY <1>1, <2>1, Rescheduled DEF SaveNow
  <2>2. CASE config.paused # "expired"
    BY <1>1, <2>2, Typed DEF SaveNow
  <2>3. QED
    BY <2>1, <2>2
<1>6. /\ moment'.saving = TRUE /\ moment.saving = FALSE
      /\ moment' \in [saving: BOOLEAN, power: PowerLevels, windows: SUBSET Windows]
      /\ recorded' = recorded + 1 /\ recorded' \in 1..MaxMoments /\ operations' = operations + 1
      /\ recorded \in Nat /\ operations \in Int
  <2>1. world \in WorldType /\ operations \in Int /\ recorded \in 0..MaxMoments
        /\ moment \in [saving: BOOLEAN, power: PowerLevels, windows: SUBSET Windows]
    BY <1>1, Typed
  <2>2. world.power \in PowerLevels /\ ~moment.saving
    BY <2>1 DEF WorldType, SaveNow
  <2>3. recorded < MaxMoments /\ recorded' = recorded + 1 /\ operations' = operations + 1
    BY DEF SaveNow
  <2>4. moment' = [saving |-> TRUE, power |-> world.power,
                   windows |-> IF config.excluded THEN Windows \ {SecretWindow} ELSE Windows]
    BY DEF SaveNow
  <2>5. moment.saving = FALSE
    BY <2>1, <2>2
  <2>6. QED
    BY <2>1, <2>2, <2>3, <2>4, <2>5, RecorderAssumption
<1>7. UNCHANGED <<world, alive, previews, record, pictures, finalizing, deferredOcr, changes>>
  BY DEF SaveNow
<1>8. RecorderTypeOK'
  BY <1>1, <1>2, <1>4, <1>5, <1>6, <1>7 DEF RecorderTypeOK, ConfigType, TimersType, JobType
<1>9. ActivityCounted'
  <2>1. operations = Number(job["pass"].at # "off") + Number(job["snapshot"].at # "off")
                       + Cardinality(finalizing) + 0
    BY <1>1, <1>6, Counted DEF RecorderIndInvariant, RecorderInvariant, Number
  <2>2. Cardinality(finalizing) \in Nat
    BY <1>1, Typed, CountedAs
  <2>3. job'["pass"].at = job["pass"].at /\ job'["snapshot"].at = job["snapshot"].at
    BY <1>4 DEF Dimmed
  <2>4. QED
    BY <1>6, <1>7, <1>8, <2>1, <2>2, <2>3, CountedAfter DEF Number
<1>10. OneCaptureAtATime' /\ JobShape'
  <2>1. OneCaptureAtATime'
    BY <1>4 DEF RecorderIndInvariant, RecorderInvariant, OneCaptureAtATime, Busy, Snap, Dimmed
  <2>2. JobShape'
    BY <1>4, <1>7 DEF RecorderIndInvariant, JobShape, Busy, Dimmed
  <2>3. QED
    BY <2>1, <2>2
<1>11. UnheardIsClean'
  <2>1. \A m \in Moments : Unheard(m)' => Unheard(m)
    BY <1>6 DEF Unheard, Moments
  <2>2. recorded' \in Moments
    BY <1>6 DEF Moments
  <2>3. QED
    BY <1>4, <1>7, <2>1, <2>2 DEF RecorderIndInvariant, UnheardIsClean, Busy, Snap, Dimmed
<1>12. ExclusionsHold'
  BY <1>3, <1>4 DEF RecorderIndInvariant, ExclusionsHold, Dimmed
<1>13. CurrentIsWanted'
  BY <1>3, <1>4, <1>7 DEF RecorderIndInvariant, CurrentIsWanted, Snap, Dimmed, Allowed, Paused
<1>14. PlaintextIsHandled'
  BY <1>4, <1>7 DEF RecorderIndInvariant, PlaintextIsHandled, Busy, Snap, Dimmed
<1>15. CacheFollowsSettings'
  BY <1>1, <1>3, <1>7 DEF CacheFollowsSettings
<1>16. QED
  BY <1>8, <1>9, <1>10, <1>11, <1>12, <1>13, <1>14, <1>15
     DEF RecorderIndInvariant, RecorderInvariant

(* The moment is not saved any more: its type, and what becomes unheard.   *)
LEMMA SavingEnds ==
  ASSUME RecorderIndInvariant, moment.saving, moment' = [moment EXCEPT !.saving = FALSE],
         recorded' = recorded
  PROVE  /\ moment' \in [saving: BOOLEAN, power: PowerLevels, windows: SUBSET Windows]
         /\ moment.windows \in SUBSET Windows
         /\ ~moment'.saving
         /\ \A n \in Moments : Unheard(n)' => Unheard(n) /\ n # recorded
         /\ recorded \in Moments /\ Unheard(recorded)
<1>1. RecorderTypeOK /\ recorded \in Moments
  BY DEF RecorderIndInvariant, RecorderInvariant, UnheardIsClean
<1>2. moment \in [saving: BOOLEAN, power: PowerLevels, windows: SUBSET Windows]
  BY <1>1, Typed
<1>3. /\ moment' \in [saving: BOOLEAN, power: PowerLevels, windows: SUBSET Windows]
      /\ moment.windows \in SUBSET Windows /\ ~moment'.saving
  BY <1>2
<1>4. \A n \in Moments : Unheard(n)' => Unheard(n) /\ n # recorded
  BY <1>1, <1>3 DEF Unheard, Moments
<1>5. QED
  BY <1>1, <1>3, <1>4 DEF Unheard

LEMMA MetadataFailsInv ==
  ASSUME RecorderIndInvariant, MetadataFails
  PROVE  RecorderIndInvariant'
<1>1. /\ RecorderTypeOK /\ operations \in Int /\ operations' = operations - 1
      /\ finalizing \subseteq Moments
  BY Typed DEF RecorderIndInvariant, RecorderInvariant, MetadataFails
<1>2. /\ moment' \in [saving: BOOLEAN, power: PowerLevels, windows: SUBSET Windows]
      /\ moment.saving /\ ~moment'.saving
      /\ \A n \in Moments : Unheard(n)' => Unheard(n)
  BY SavingEnds DEF MetadataFails
<1>3. UNCHANGED <<config, world, alive, timers, wanted, job, previews, record, pictures,
                  finalizing, deferredOcr, recorded, changes>>
  BY DEF MetadataFails
<1>4. RecorderTypeOK'
  BY <1>1, <1>2, <1>3 DEF RecorderTypeOK
<1>5. ActivityCounted'
  <2>1. operations = Number(job["pass"].at # "off") + Number(job["snapshot"].at # "off")
                       + Cardinality(finalizing) + 1
    BY <1>1, <1>2, Counted DEF RecorderIndInvariant, RecorderInvariant, Number
  <2>2. Cardinality(finalizing) \in Nat
    BY <1>1, CountedAs
  <2>3. QED
    BY <1>1, <1>2, <1>3, <1>4, <2>1, <2>2, CountedAfter DEF Number
<1>6. UnheardIsClean'
  BY <1>2, <1>3 DEF RecorderIndInvariant, UnheardIsClean, Busy, Snap
<1>7. OneCaptureAtATime' /\ JobShape' /\ ExclusionsHold'
  BY <1>3 DEF RecorderIndInvariant, RecorderInvariant, OneCaptureAtATime, JobShape, ExclusionsHold,
              Busy, Snap
<1>8. CurrentIsWanted' /\ PlaintextIsHandled' /\ CacheFollowsSettings'
  BY <1>3 DEF RecorderIndInvariant, CurrentIsWanted, PlaintextIsHandled, CacheFollowsSettings,
              Busy, Snap, Allowed, Paused
<1>9. QED
  BY <1>4, <1>5, <1>6, <1>7, <1>8 DEF RecorderIndInvariant, RecorderInvariant

LEMMA FinalizeDoneInv ==
  ASSUME RecorderIndInvariant, NEW m \in Moments, FinalizeDone(m)
  PROVE  RecorderIndInvariant'
<1>1. /\ RecorderTypeOK /\ operations \in Int /\ operations' = operations - 1
      /\ finalizing \subseteq Moments /\ m \in finalizing /\ finalizing' = finalizing \ {m}
      /\ record \in [Moments -> {"none", "plain", "sealed"}]
      /\ pictures \in [Moments -> SUBSET (Windows \cup {"display"})]
  BY Typed DEF RecorderIndInvariant, RecorderInvariant, FinalizeDone
<1>2. UNCHANGED <<config, world, alive, timers, wanted, moment, job, previews, deferredOcr,
                  recorded, changes>>
  BY DEF FinalizeDone
<1>3. /\ pictures' \in [Moments -> SUBSET (Windows \cup {"display"})] /\ pictures'[m] = {}
      /\ \A n \in Moments : n # m => pictures'[n] = pictures[n]
  BY <1>1 DEF FinalizeDone
<1>4. /\ record' \in [Moments -> {"none", "plain", "sealed"}] /\ record'[m] # "plain"
      /\ \A n \in Moments : n # m => record'[n] = record[n]
  BY <1>1 DEF FinalizeDone
<1>5. RecorderTypeOK'
  BY <1>1, <1>2, <1>3, <1>4 DEF RecorderTypeOK
<1>6. ActivityCounted'
  <2>1. operations = Number(job["pass"].at # "off") + Number(job["snapshot"].at # "off")
                       + Cardinality(finalizing) + Number(moment.saving)
    BY <1>1, Counted DEF RecorderIndInvariant, RecorderInvariant
  <2>2. IsFiniteSet(finalizing) /\ Cardinality(finalizing) \in Nat
    BY <1>1, CountedAs
  <2>3. Cardinality(finalizing') = Cardinality(finalizing) - 1
    BY <1>1, <2>2, FS_RemoveElement
  <2>4. QED
    BY <1>1, <1>2, <1>5, <2>1, <2>2, <2>3, CountedAfter DEF Number
<1>7. UnheardIsClean'
  <2>1. ~Unheard(m)
    BY <1>1 DEF RecorderIndInvariant, UnheardIsClean
  <2>2. QED
    BY <1>1, <1>2, <1>3, <1>4, <2>1 DEF RecorderIndInvariant, UnheardIsClean, Unheard, Busy, Snap
<1>8. OneCaptureAtATime' /\ JobShape' /\ ExclusionsHold'
  BY <1>1, <1>2 DEF RecorderIndInvariant, RecorderInvariant, OneCaptureAtATime, JobShape,
                    ExclusionsHold, Busy, Snap
<1>9. CurrentIsWanted' /\ CacheFollowsSettings'
  BY <1>2 DEF RecorderIndInvariant, CurrentIsWanted, CacheFollowsSettings, Snap, Allowed, Paused
<1>10. PlaintextIsHandled'
  BY <1>1, <1>2, <1>3, <1>4 DEF RecorderIndInvariant, PlaintextIsHandled, Busy, Snap
<1>11. QED
  BY <1>5, <1>6, <1>7, <1>8, <1>9, <1>10 DEF RecorderIndInvariant, RecorderInvariant

LEMMA PassTickInv ==
  ASSUME RecorderIndInvariant, PassTick
  PROVE  RecorderIndInvariant'
<1> "pass" \in Jobs /\ "snapshot" \in Jobs /\ Jobs = {"pass", "snapshot"}
  BY DEF Jobs
<1>1. /\ RecorderTypeOK /\ job \in [Jobs -> JobType] /\ timers \in TimersType
      /\ wanted \subseteq Windows /\ operations \in Int /\ finalizing \subseteq Moments
      /\ world \in WorldType /\ config \in ConfigType
      /\ deferredOcr \in {"none", "running", "stopping"}
  BY Typed DEF RecorderIndInvariant, RecorderInvariant
<1>2. UNCHANGED <<config, world, alive, moment, previews, record, pictures, finalizing,
                  deferredOcr, recorded, changes>>
  BY DEF PassTick
<1>3. wanted' \subseteq Windows /\ timers' \in TimersType
  <2>1. CASE SchedulePass({}, timers)
    BY <1>1, <2>1, PassScheduled
  <2>2. CASE wanted' = {} /\ timers' = [timers EXCEPT !.pass = FALSE]
    BY <1>1, <2>2 DEF TimersType
  <2>3. QED
    BY <2>1, <2>2 DEF PassTick
<1>4. CASE UNCHANGED <<job, operations>>
  BY <1>1, <1>2, <1>3, <1>4, QuietHandler
<1> DEFINE j == [NoJob EXCEPT !.at = "loop", !.current = TRUE, !.excluded = config.excluded,
                              !.todo = IF config.excluded THEN wanted \ {SecretWindow} ELSE wanted]
<1>5. CASE /\ ~Busy("pass") /\ ~Busy("snapshot")
           /\ operations' = operations + 1
           /\ job' = [job EXCEPT !["pass"] = j]
  <2>1. /\ j \in JobType /\ j.at = "loop" /\ j.excluded = config.excluded
        /\ config.excluded => SecretWindow \notin j.todo
    <3> DEFINE todo == IF config.excluded THEN wanted \ {SecretWindow} ELSE wanted
    <3>1. todo \in SUBSET Windows /\ (config.excluded => SecretWindow \notin todo)
          /\ config.excluded \in BOOLEAN
      BY <1>1 DEF ConfigType
    <3> HIDE DEF todo
    <3>2. NoJob \in JobType
      BY RecorderAssumption DEF NoJob, JobType, NoWindow
    <3>3. j = [NoJob EXCEPT !.at = "loop", !.current = TRUE, !.excluded = config.excluded, !.todo = todo]
      BY DEF todo
    <3> HIDE DEF j
    <3>4. j \in JobType /\ j.at = "loop" /\ j.excluded = config.excluded /\ j.todo = todo
      BY <3>1, <3>2, <3>3 DEF JobType, WindowSteps
    <3>5. QED
      BY <3>1, <3>4
  <2>2. operations' = operations + 1 /\ job' = [job EXCEPT !["pass"] = j]
    BY <1>5
  <2> HIDE DEF j
  <2>3. /\ job' \in [Jobs -> JobType] /\ job'["pass"] = j /\ job'["snapshot"] = job["snapshot"]
    BY <1>1, <2>1, <2>2
  <2>4. RecorderTypeOK'
    BY <1>1, <1>2, <1>3, <2>2, <2>3 DEF RecorderTypeOK, JobType, TimersType
  <2>5. ActivityCounted'
    <3>1. operations = 0 + Number(job["snapshot"].at # "off")
                         + Cardinality(finalizing) + Number(moment.saving)
      BY <1>1, <1>5, Counted DEF RecorderIndInvariant, RecorderInvariant, Busy, Number
    <3>2. Cardinality(finalizing) \in Nat
      BY <1>1, CountedAs
    <3>3. QED
      BY <1>2, <2>1, <2>2, <2>3, <2>4, <3>1, <3>2, CountedAfter DEF Number
  <2>6. OneCaptureAtATime'
    BY <1>5, <2>3 DEF OneCaptureAtATime, Busy, Snap
  <2>7. JobShape'
    BY <1>2, <2>1, <2>3
       DEF RecorderIndInvariant, JobShape, JobSteps, WindowSteps, WithWindow, Busy
  <2>8. UnheardIsClean'
    BY <1>2, <2>3 DEF RecorderIndInvariant, UnheardIsClean, Unheard, Busy, Snap
  <2>9. ExclusionsHold'
    BY <1>2, <2>1, <2>3 DEF RecorderIndInvariant, ExclusionsHold
  <2>10. CurrentIsWanted' /\ PlaintextIsHandled' /\ CacheFollowsSettings'
    BY <1>2, <2>3 DEF RecorderIndInvariant, CurrentIsWanted, PlaintextIsHandled,
                      CacheFollowsSettings, Busy, Snap, Allowed, Paused
  <2>11. QED
    BY <2>4, <2>5, <2>6, <2>7, <2>8, <2>9, <2>10 DEF RecorderIndInvariant, RecorderInvariant
<1>6. QED
  BY <1>4, <1>5 DEF PassTick

(* The record is written, the oldest ones go, and the new entry waits for  *)
(* its snapshot, goes to the manager, is removed, or the recorder is gone. *)
LEMMA RecordIsWritten ==
  ASSUME RecorderIndInvariant, moment.saving, moment' = [moment EXCEPT !.saving = FALSE],
         UNCHANGED <<config, world, alive, timers, wanted, previews, deferredOcr, recorded, changes>>,
         NEW m, m = recorded,
         record' \in [Moments -> {"none", "plain", "sealed"}],
         pictures' \in [Moments -> SUBSET (Windows \cup {"display"})],
         \A n \in Moments : n # m => /\ record'[n] \in {record[n], "none"}
                                     /\ pictures'[n] \in {pictures[n], {}},
         pictures'[m] = {},
         \/ /\ job' = job /\ finalizing' = finalizing /\ operations' = operations - 1
            /\ record'[m] = "plain" => ~alive
         \/ job' = job /\ finalizing' = finalizing \cup {m} /\ operations' = operations
         \/ /\ finalizing' = finalizing /\ operations' = operations
            /\ ~Busy("snapshot")
            /\ \E j \in JobType : /\ job' = [job EXCEPT !["snapshot"] = j]
                                  /\ j.at = "waiting" /\ j.name = m
                                  /\ j.excluded = config.excluded
  PROVE  RecorderIndInvariant'
<1> "pass" \in Jobs /\ "snapshot" \in Jobs /\ Jobs = {"pass", "snapshot"}
  BY DEF Jobs
<1>1. /\ RecorderTypeOK /\ job \in [Jobs -> JobType] /\ operations \in Int
      /\ finalizing \subseteq Moments
  BY Typed DEF RecorderIndInvariant, RecorderInvariant
<1>2. /\ moment' \in [saving: BOOLEAN, power: PowerLevels, windows: SUBSET Windows]
      /\ ~moment'.saving
      /\ \A n \in Moments : Unheard(n)' => Unheard(n) /\ n # m
      /\ m \in Moments /\ Unheard(m)
  BY SavingEnds
<1>3. /\ record[m] = "none" /\ pictures[m] = {} /\ m \notin finalizing
      /\ Busy("snapshot") => Snap.name # m
  BY <1>2 DEF RecorderIndInvariant, UnheardIsClean
<1>4. \/ job' = job
      \/ /\ finalizing' = finalizing /\ job' \in [Jobs -> JobType] /\ job'["pass"] = job["pass"]
         /\ job["snapshot"].at = "off" /\ job'["snapshot"].at = "waiting"
         /\ job'["snapshot"].name = m /\ job'["snapshot"].excluded = config.excluded
  BY <1>1 DEF Busy
<1>5. /\ job' \in [Jobs -> JobType] /\ finalizing \subseteq finalizing' /\ finalizing' \subseteq Moments
      /\ finalizing' \subseteq finalizing \cup {m} /\ operations' \in Int
  BY <1>1, <1>2, <1>4
<1>6. RecorderTypeOK'
  BY <1>1, <1>2, <1>5 DEF RecorderTypeOK, JobType
<1>7. ActivityCounted'
  <2>1. operations = Number(job["pass"].at # "off") + Number(job["snapshot"].at # "off")
                       + Cardinality(finalizing) + 1
    BY <1>1, Counted DEF RecorderIndInvariant, RecorderInvariant, Number
  <2>2. IsFiniteSet(finalizing) /\ Cardinality(finalizing) \in Nat
    BY <1>1, CountedAs
  <2>3. Cardinality(finalizing \cup {m}) = Cardinality(finalizing) + 1
    BY <1>3, <2>2, FS_AddElement
  <2>4. CASE job' = job /\ finalizing' = finalizing /\ operations' = operations - 1
    BY <1>1, <1>2, <1>6, <2>1, <2>2, <2>4, CountedAfter DEF Number
  <2>5. CASE job' = job /\ finalizing' = finalizing \cup {m} /\ operations' = operations
    BY <1>1, <1>2, <1>6, <2>1, <2>2, <2>3, <2>5, CountedAfter DEF Number
  <2>6. CASE /\ finalizing' = finalizing /\ operations' = operations
             /\ job'["pass"] = job["pass"]
             /\ job["snapshot"].at = "off" /\ job'["snapshot"].at = "waiting"
    BY <1>1, <1>2, <1>6, <2>1, <2>2, <2>6, CountedAfter DEF Number
  <2>7. QED
    BY <1>1, <2>4, <2>5, <2>6 DEF Busy
<1>8. OneCaptureAtATime'
  BY <1>4 DEF RecorderIndInvariant, RecorderInvariant, OneCaptureAtATime, Busy, Snap
<1>9. JobShape'
  <2>1. CASE job' = job
    BY <1>3, <1>5, <2>1 DEF RecorderIndInvariant, JobShape, Busy, Snap
  <2>2. CASE /\ finalizing' = finalizing /\ job'["pass"] = job["pass"]
             /\ job'["snapshot"].at = "waiting" /\ job'["snapshot"].name = m
    BY <1>2, <1>3, <2>2 DEF RecorderIndInvariant, JobShape, Busy, JobSteps, SnapshotSteps, WithWindow
  <2>3. QED
    BY <1>4, <2>1, <2>2
<1>10. UnheardIsClean'
  <2>1. \A n \in Moments : Unheard(n)' =>
          /\ record'[n] = "none" /\ pictures'[n] = {} /\ n \notin finalizing'
          /\ Busy("snapshot")' => Snap'.name # n
    BY <1>2, <1>4, <1>5 DEF RecorderIndInvariant, UnheardIsClean, Busy, Snap
  <2>2. QED
    BY <1>2, <2>1 DEF UnheardIsClean
<1>11. ExclusionsHold'
  BY <1>4 DEF RecorderIndInvariant, ExclusionsHold, WindowSteps
<1>12. CurrentIsWanted' /\ CacheFollowsSettings'
  BY <1>4 DEF RecorderIndInvariant, CurrentIsWanted, CacheFollowsSettings, Snap, Allowed, Paused
<1>13. PlaintextIsHandled'
  <2>1. \A n \in Moments : n # m /\ ((record'[n] = "plain" /\ alive) \/ pictures'[n] # {}) =>
          n \in finalizing' \/ (Busy("snapshot") /\ Snap.name = n /\ job' = job)
    BY <1>4, <1>5 DEF RecorderIndInvariant, PlaintextIsHandled, Busy
  <2>2. record'[m] = "plain" /\ alive =>
          m \in finalizing' \/ (Busy("snapshot")' /\ Snap'.name = m)
    BY <1>1 DEF Busy, Snap
  <2>3. QED
    BY <2>1, <2>2 DEF PlaintextIsHandled, Busy, Snap
<1>14. QED
  BY <1>6, <1>7, <1>8, <1>9, <1>10, <1>11, <1>12, <1>13 DEF RecorderIndInvariant, RecorderInvariant

LEMMA MetadataSavedInv ==
  ASSUME RecorderIndInvariant, MetadataSaved
  PROVE  RecorderIndInvariant'
<1> DEFINE m == recorded
           written == [record EXCEPT ![m] = "plain"]
<1>1. /\ moment.saving /\ moment' = [moment EXCEPT !.saving = FALSE]
      /\ UNCHANGED <<config, world, alive, timers, wanted, previews, deferredOcr, recorded, changes>>
  BY DEF MetadataSaved
<1>2. /\ m \in Moments /\ Unheard(m) /\ moment.windows \in SUBSET Windows
      /\ record \in [Moments -> {"none", "plain", "sealed"}]
      /\ pictures \in [Moments -> SUBSET (Windows \cup {"display"})]
      /\ operations \in Int /\ config \in ConfigType
  BY <1>1, SavingEnds, Typed DEF RecorderIndInvariant, RecorderInvariant
<1>3. pictures[m] = {}
  BY <1>2 DEF RecorderIndInvariant, UnheardIsClean
<1>4. /\ written \in [Moments -> {"none", "plain", "sealed"}] /\ written[m] = "plain"
      /\ \A n \in Moments : n # m => written[n] = record[n]
  BY <1>2
<1>5. CASE /\ ~alive
           /\ record' = written
           /\ operations' = operations - 1
           /\ UNCHANGED <<job, pictures, finalizing>>
  <2>1. pictures' \in [Moments -> SUBSET (Windows \cup {"display"})] /\ pictures'[m] = {}
    BY <1>2, <1>3, <1>5
  <2>2. \A n \in Moments : n # m => record'[n] \in {record[n], "none"}
                                    /\ pictures'[n] \in {pictures[n], {}}
    BY <1>4, <1>5
  <2> HIDE DEF written
  <2>3. QED
    BY <1>1, <1>4, <1>5, <2>1, <2>2, RecordIsWritten
<1>6. ASSUME NEW gone \in Pruned(m),
             NEW records, NEW files,
             records = [n \in Moments |-> IF n \in gone THEN "none" ELSE written[n]],
             files = [n \in Moments |-> IF n \in gone THEN {} ELSE pictures[n]],
             \/ /\ ~Busy("snapshot")
                /\ job' = [job EXCEPT !["snapshot"] =
                             [NoJob EXCEPT !.at = "waiting", !.current = TRUE, !.name = m,
                                           !.excluded = config.excluded,
                                           !.windows = moment.windows]]
                /\ record' = records
                /\ pictures' = files
                /\ UNCHANGED <<finalizing, operations>>
             \/ Finalize(m, records, files, operations - 1) /\ UNCHANGED job
      PROVE  RecorderIndInvariant'
  <2>1. m \notin gone
    BY DEF Pruned
  <2>2. /\ records \in [Moments -> {"none", "plain", "sealed"}] /\ records[m] = "plain"
        /\ \A n \in Moments : n # m => records[n] \in {record[n], "none"}
    BY <1>2, <1>4, <1>6, <2>1
  <2>3. /\ files \in [Moments -> SUBSET (Windows \cup {"display"})] /\ files[m] = {}
        /\ \A n \in Moments : n # m => files[n] \in {pictures[n], {}}
    BY <1>2, <1>3, <1>6
  <2> HIDE DEF written
  <2>4. CASE /\ ~Busy("snapshot")
             /\ job' = [job EXCEPT !["snapshot"] =
                          [NoJob EXCEPT !.at = "waiting", !.current = TRUE, !.name = m,
                                        !.excluded = config.excluded,
                                        !.windows = moment.windows]]
             /\ record' = records
             /\ pictures' = files
             /\ UNCHANGED <<finalizing, operations>>
    <3> DEFINE j == [NoJob EXCEPT !.at = "waiting", !.current = TRUE, !.name = m,
                                  !.excluded = config.excluded, !.windows = moment.windows]
    <3>1. config.excluded \in BOOLEAN /\ m \in 0..MaxMoments
      BY <1>2 DEF ConfigType, Moments
    <3>2. NoJob \in JobType
      BY RecorderAssumption DEF NoJob, JobType, NoWindow
    <3>3. j \in JobType /\ j.at = "waiting" /\ j.name = m /\ j.excluded = config.excluded
      BY <1>2, <3>1, <3>2 DEF JobType, SnapshotSteps
    <3>4. job' = [job EXCEPT !["snapshot"] = j]
      BY <2>4
    <3> HIDE DEF j
    <3>5. QED
      BY <1>1, <2>2, <2>3, <2>4, <3>3, <3>4, RecordIsWritten
  <2>5. CASE /\ finalizing' = finalizing \cup {m} /\ operations' = operations - 1 + 1
             /\ record' = records /\ pictures' = files /\ job' = job
    <3>1. operations' = operations
      BY <1>2, <2>5
    <3>2. QED
      BY <1>1, <2>2, <2>3, <2>5, <3>1, RecordIsWritten
  <2>6. CASE /\ finalizing' = finalizing /\ operations' = operations - 1 /\ job' = job
             /\ record' = [records EXCEPT ![m] = "none"]
             /\ pictures' = [files EXCEPT ![m] = {}]
    <3>1. /\ record' \in [Moments -> {"none", "plain", "sealed"}] /\ record'[m] = "none"
          /\ \A n \in Moments : n # m => record'[n] \in {record[n], "none"}
      BY <1>2, <2>2, <2>6
    <3>2. /\ pictures' \in [Moments -> SUBSET (Windows \cup {"display"})] /\ pictures'[m] = {}
          /\ \A n \in Moments : n # m => pictures'[n] \in {pictures[n], {}}
      BY <1>2, <2>3, <2>6
    <3>3. QED
      BY <1>1, <2>6, <3>1, <3>2, RecordIsWritten
  <2>7. QED
    BY <1>6, <2>4, <2>5, <2>6 DEF Finalize
<1>7. CASE alive
  <2>1. PICK gone \in Pruned(m) :
          LET records == [n \in Moments |-> IF n \in gone THEN "none" ELSE written[n]]
              files == [n \in Moments |-> IF n \in gone THEN {} ELSE pictures[n]]
          IN \/ /\ ~Busy("snapshot")
                /\ job' = [job EXCEPT !["snapshot"] =
                             [NoJob EXCEPT !.at = "waiting", !.current = TRUE, !.name = m,
                                           !.excluded = config.excluded,
                                           !.windows = moment.windows]]
                /\ record' = records
                /\ pictures' = files
                /\ UNCHANGED <<finalizing, operations>>
             \/ Finalize(m, records, files, operations - 1) /\ UNCHANGED job
    BY <1>7 DEF MetadataSaved
  <2>2. QED
    BY <1>6, <2>1
<1>8. QED
  BY <1>5, <1>7 DEF MetadataSaved

-----------------------------------------------------------------------------
LEMMA RecorderNextInv ==
  ASSUME RecorderIndInvariant, RecorderNext
  PROVE  RecorderIndInvariant'
<1>1. ASSUME CaptureTick \/ CaptureNow PROVE RecorderIndInvariant'
  BY <1>1, SaveNowInv DEF CaptureTick, CaptureNow
<1>2. ASSUME PassTick \/ MetadataStep PROVE RecorderIndInvariant'
  BY <1>2, PassTickInv, MetadataFailsInv, MetadataSavedInv DEF MetadataStep
<1>3. ASSUME SnapshotStep PROVE RecorderIndInvariant'
  BY <1>3, SnapshotTurnInv, ReuseInv, ReusedInv, LiveJobsInv, ReuseEndsInv, PayloadWrittenInv,
     DisplayStartInv, DisplayDoneInv, CompressedInv DEF SnapshotStep
<1>4. ASSUME NEW p \in Jobs, WindowStep(p) PROVE RecorderIndInvariant'
  BY <1>4, CaptureStartInv, CaptureDoneInv, PreviewStoredInv, CapturesEndInv DEF WindowStep
<1>5. ASSUME NEW m \in Moments, FinalizeDone(m) PROVE RecorderIndInvariant'
  BY <1>5, FinalizeDoneInv
<1>6. ASSUME OcrDone \/ SettlingEnds \/ PauseExpires PROVE RecorderIndInvariant'
  BY <1>6, QuietHandlersInv, PauseExpiresInv
<1>7. ASSUME UserStep PROVE RecorderIndInvariant'
  BY <1>1, <1>7, SetEnabledInv, SetScreenshotsInv, SetExcludedInv, SetFiltersInv, SetPauseInv,
     QuietHandlersInv, DeleteRecallInv DEF UserStep
<1>8. ASSUME WorldStep PROVE RecorderIndInvariant'
  BY <1>8, QuietHandlersInv, DestroyInv DEF WorldStep
<1>9. QED
  BY <1>1, <1>2, <1>3, <1>4, <1>5, <1>6, <1>7, <1>8 DEF RecorderNext

LEMMA RecorderStutters ==
  ASSUME RecorderIndInvariant, UNCHANGED recorderVars
  PROVE  RecorderIndInvariant'
<1>1. RecorderInvariant'
  BY DEF recorderVars, RecorderIndInvariant, RecorderInvariant, RecorderTypeOK, ActivityCounted,
         Underway, OneCaptureAtATime, Busy, Snap
<1>2. JobShape' /\ UnheardIsClean' /\ ExclusionsHold'
  BY DEF recorderVars, RecorderIndInvariant, JobShape, UnheardIsClean, Unheard, ExclusionsHold,
         Busy, Snap
<1>3. CurrentIsWanted' /\ PlaintextIsHandled' /\ CacheFollowsSettings'
  BY DEF recorderVars, RecorderIndInvariant, CurrentIsWanted, PlaintextIsHandled,
         CacheFollowsSettings, Busy, Snap, Allowed, Paused
<1>4. QED
  BY <1>1, <1>2, <1>3 DEF RecorderIndInvariant

LEMMA RecorderAlways == RecorderInit /\ [][RecorderNext]_recorderVars => []RecorderIndInvariant
<1>1. RecorderIndInvariant /\ [RecorderNext]_recorderVars => RecorderIndInvariant'
  BY RecorderNextInv, RecorderStutters
<1>2. QED
  BY RecorderStartOk, <1>1, PTL

(* In every state of the recorder, whatever the user, the world and the    *)
(* asynchronous calls do and in whatever order: the activity counter is    *)
(* what is under way, captures never overlap, a moment nobody heard of has *)
(* left nothing, and a job that is current is one that is wanted.          *)
THEOREM RecorderStaysSound == RecorderSpec => []RecorderIndInvariant
<1>1. QED
  BY RecorderAlways, PTL DEF RecorderSpec

(* No plain text is orphaned, by an abort, a failure, deletion or destroy():*)
(* whatever lies there has somebody who will encrypt or remove it.         *)
THEOREM PlaintextGetsHandled == RecorderSpec => []PlaintextIsHandled
<1>1. RecorderIndInvariant => PlaintextIsHandled
  BY DEF RecorderIndInvariant
<1>2. QED
  BY <1>1, RecorderStaysSound, PTL

(* The preview cache holds nothing that the present settings forbid, also  *)
(* when a preview was being stored while they changed.                     *)
THEOREM CacheFollows == RecorderSpec => []CacheFollowsSettings
<1>1. RecorderIndInvariant => CacheFollowsSettings
  BY DEF RecorderIndInvariant
<1>2. QED
  BY <1>1, RecorderStaysSound, PTL

-----------------------------------------------------------------------------
(* A moment that is handed to the manager with images                      *)
Wanted(m) ==
  pictures'[m] # {} =>
    /\ config.enabled /\ config.screenshots /\ ~Paused
    /\ Snap.excluded = config.excluded
    /\ ~world.restoring /\ world.screen # "locked"

(* A snapshot that hands over images was invalidated by nothing.           *)
LEMMA HandedOver ==
  ASSUME RecorderIndInvariant, NEW files, EndSnapshot(files), NEW m \in finalizing' \ finalizing,
         Busy("snapshot"),
         files # {} => Snap.current /\ Snap.at # "waiting" /\ world.screen # "locked"
  PROVE  Wanted(m)
<1>1. m = Snap.name /\ pictures' = Shown(m, files)
  BY DEF EndSnapshot, Finalize
<1>2. Snap.name \in Moments /\ pictures \in [Moments -> SUBSET (Windows \cup {"display"})]
  BY JobFacts DEF Jobs
<1>3. pictures'[m] = files
  BY <1>1, <1>2 DEF Shown
<1>4. files # {} => Allowed /\ Snap.excluded = config.excluded
  BY DEF RecorderIndInvariant, CurrentIsWanted, ExclusionsHold, Busy, Snap, Jobs
<1>5. QED
  BY <1>3, <1>4 DEF Wanted, Allowed

LEMMA SnapshotHandsOver ==
  ASSUME RecorderIndInvariant, SnapshotStep, NEW m \in finalizing' \ finalizing
  PROVE  Wanted(m)
<1>1. ASSUME SnapshotTurn \/ DisplayStart \/ DisplayDone PROVE Wanted(m)
  <2>1. EndSnapshot({}) /\ Busy("snapshot")
    BY <1>1 DEF SnapshotTurn, DisplayStart, DisplayDone, Busy, Snap
  <2>2. QED
    BY <2>1, HandedOver
<1>2. ASSUME Compressed PROVE Wanted(m)
  <2>1. PICK files : /\ EndSnapshot(files)
                     /\ files # {} => Snap.current /\ Snap.at # "waiting" /\ world.screen # "locked"
    BY <1>2 DEF Compressed
  <2>2. Busy("snapshot")
    BY <1>2 DEF Compressed, Busy, Snap
  <2>3. QED
    BY <2>1, <2>2, HandedOver
<1>3. ASSUME PayloadWritten PROVE Wanted(m)
  <2>1. Busy("snapshot")
    BY <1>3 DEF PayloadWritten, Busy, Snap
  <2>2. CASE EndSnapshot({})
    BY <2>1, <2>2, HandedOver
  <2>3. CASE Finalize(Snap.name, [record EXCEPT ![Snap.name] = "plain"],
                      Shown(Snap.name, {}), operations - 1)
    <3>1. m = Snap.name /\ pictures' = Shown(m, {})
      BY <2>3 DEF Finalize
    <3>2. m \in Moments /\ pictures \in [Moments -> SUBSET (Windows \cup {"display"})]
      BY <2>1, <3>1, JobFacts DEF Jobs
    <3>3. pictures'[m] = {}
      BY <3>1, <3>2 DEF Shown
    <3>4. QED
      BY <3>3 DEF Wanted
  <2>4. QED
    BY <1>3, <2>2, <2>3 DEF PayloadWritten
<1>4. ASSUME \/ \E w \in Windows : Reuse(w)
             \/ Reused \/ ReuseEnds
             \/ \E windows \in SUBSET Windows : LiveJobs(windows)
      PROVE  FALSE
  BY <1>4 DEF Reuse, Reused, ReuseEnds, LiveJobs
<1>5. QED
  BY <1>1, <1>2, <1>3, <1>4 DEF SnapshotStep

(* A moment without a snapshot has no images.                              *)
LEMMA MetadataHandsOver ==
  ASSUME RecorderIndInvariant, MetadataSaved, NEW m \in finalizing' \ finalizing
  PROVE  Wanted(m)
<1>1. recorded \in Moments /\ pictures[recorded] = {}
  BY DEF MetadataSaved, RecorderIndInvariant, UnheardIsClean, Unheard
<1>2. PICK gone : /\ m = recorded
                  /\ pictures' = [n \in Moments |-> IF n \in gone THEN {} ELSE pictures[n]]
  BY DEF MetadataSaved, Finalize
<1>3. pictures'[m] = {}
  BY <1>1, <1>2
<1>4. QED
  BY <1>3 DEF Wanted

LEMMA NobodyElseHandsOver ==
  ASSUME RecorderNext, ~SnapshotStep, ~MetadataSaved
  PROVE  finalizing' \subseteq finalizing
<1>1. ASSUME \/ CaptureTick \/ PassTick \/ MetadataFails
             \/ \E m \in Moments : FinalizeDone(m)
             \/ OcrDone \/ SettlingEnds \/ PauseExpires
      PROVE  finalizing' \subseteq finalizing
  BY <1>1 DEF CaptureTick, SaveNow, PassTick, MetadataFails, FinalizeDone, OcrDone, SettlingEnds,
              PauseExpires
<1>2. ASSUME NEW p \in Jobs, WindowStep(p) PROVE finalizing' \subseteq finalizing
  BY <1>2 DEF WindowStep, CaptureStart, CaptureDone, PreviewStored, CapturesEnd
<1>3. ASSUME UserStep PROVE finalizing' \subseteq finalizing
  BY <1>3 DEF UserStep, SetEnabled, SetScreenshots, SetExcluded, SetFilters, SetInterval, SetOcr,
              SetPause, DeleteRecall, CaptureNow, SaveNow
<1>4. ASSUME WorldStep PROVE finalizing' \subseteq finalizing
  BY <1>4 DEF WorldStep, PowerChanges, ScreenChanges, WindowsChange, Disturbed, ShutdownChanges,
              Destroy
<1>5. QED
  BY <1>1, <1>2, <1>3, <1>4 DEF RecorderNext, MetadataStep

(* Images go to the vault only if nothing the user or the system did since *)
(* the snapshot began forbids them.                                        *)
THEOREM OnlyWantedIsSealed == RecorderSpec => SealedAreWanted
<1>1. ASSUME RecorderIndInvariant, [RecorderNext]_recorderVars, NEW m \in finalizing' \ finalizing
      PROVE  Wanted(m)
  <2>1. CASE UNCHANGED recorderVars
    BY <1>1, <2>1 DEF recorderVars
  <2>2. CASE RecorderNext
    BY <1>1, <2>2, SnapshotHandsOver, MetadataHandsOver, NobodyElseHandsOver
  <2>3. QED
    BY <1>1, <2>1, <2>2
<1>2. RecorderIndInvariant /\ [RecorderNext]_recorderVars =>
        [\A m \in finalizing' \ finalizing :
           pictures'[m] # {} =>
             /\ config.enabled /\ config.screenshots /\ ~Paused
             /\ Snap.excluded = config.excluded
             /\ ~world.restoring /\ world.screen # "locked"]_recorderVars
  BY <1>1 DEF Wanted
<1>3. QED
  BY <1>2, RecorderStaysSound, PTL DEF RecorderSpec, SealedAreWanted

-----------------------------------------------------------------------------
(* The three parts of Recall side by side: the parts that do not move keep *)
(* their invariants.                                                       *)
RecallIndInvariant == RecorderIndInvariant /\ VaultInvariant /\ KeyInvariant

LEMMA RecallStartOk == MCInit => RecallIndInvariant
BY RecorderStartOk, InitInvariant, KeyStartOk DEF MCInit, RecallIndInvariant

LEMMA RecallNextInv ==
  ASSUME RecallIndInvariant, [MCNext]_allVars
  PROVE  RecallIndInvariant'
<1>1. CASE RecorderNext /\ UNCHANGED <<vars, keyVars>>
  BY <1>1, RecorderNextInv, NextInvariant, KeyNextInvariant DEF RecallIndInvariant
<1>2. CASE Next /\ UNCHANGED <<recorderVars, keyVars>>
  BY <1>2, RecorderStutters, NextInvariant, KeyNextInvariant DEF RecallIndInvariant
<1>3. CASE KeyNext /\ UNCHANGED <<recorderVars, vars>>
  BY <1>3, RecorderStutters, NextInvariant, KeyNextInvariant DEF RecallIndInvariant
<1>4. CASE UNCHANGED <<recorderVars, vars, keyVars>>
  BY <1>4, RecorderStutters, NextInvariant, KeyNextInvariant DEF RecallIndInvariant
<1>5. QED
  BY <1>1, <1>2, <1>3, <1>4 DEF MCNext, allVars

(* The counter behind the spinner is what is under way, captures do not    *)
(* overlap, and recorder, vault and key keep their types.                  *)
THEOREM RecallStaysSound == MCSpec => []RecallInvariant
<1>1. RecallIndInvariant => RecallInvariant
  BY DEF RecallIndInvariant, RecallInvariant, RecorderIndInvariant, VaultInvariant, KeyInvariant
<1>2. RecallIndInvariant /\ [MCNext]_allVars => RecallIndInvariant'
  BY RecallNextInv
<1>3. QED
  BY RecallStartOk, <1>1, <1>2, PTL DEF MCSpec
=============================================================================
