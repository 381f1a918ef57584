---------------------------- MODULE RestoreQueue ----------------------------
(***************************************************************************)
(* Recovery of the previous desktop (restoreSession.js, restoreSafety.js): *)
(* one run reads the saved window records, launches their applications one *)
(* by one, restores their layouts and deletes the records it has handled.  *)
(*                                                                         *)
(* What makes it hard is everything that may happen between two of its     *)
(* awaits: GNOME Shell crashes (perhaps because of the very application    *)
(* being restored) and loses settings that were set but not yet synced;    *)
(* logout begins or is cancelled; the extension is disabled; the window    *)
(* tracker rewrites a record; a window of an application that was given up *)
(* appears and is laid out by the indicator's callbacks.                   *)
(*                                                                         *)
(* Compositor operations exclude one another (CompositorOperations).       *)
(***************************************************************************)
EXTENDS Integers, FiniteSets

CONSTANTS
  Apps, Files, Contents,      \* applications, record files, record bytes
  AppOf,                      \* the application a record is about
  Docs,                       \* records that name restorable documents
  InitialFiles,               \* the record files found at the first login
  None,
  Cooldown, Hold,             \* AUTOMATIC_RESTORE_COOLDOWN_SECONDS (10 min)
                              \* and INTERRUPTED_..._COOLDOWN_SECONDS (24 h),
                              \* in ticks of the model's clock
  PartialLoads,               \* reading the records may fail or be cut short
  MaxRuns, MaxClock,          \* bounds of the instance: runs, time, and
  MaxEvents                   \* what happens to them from outside

Archived == "manualRecovery"
Entry == [file : Files \cup {Archived}, content : Contents]

ASSUME AppOfAssumption == AppOf \in [Contents -> Apps]
ASSUME DocsAssumption == Docs \subseteq Contents
ASSUME InitialFilesAssumption ==
  /\ InitialFiles \in [Files -> Contents \cup {None}]
  /\ \A f, g \in Files : InitialFiles[f] = InitialFiles[g] => f = g \/ InitialFiles[f] = None
ASSUME NoneAssumption == None \notin Apps \cup Contents \cup Entry
ASSUME ArchivedAssumption == Archived \notin Files
ASSUME PartialLoadsAssumption == PartialLoads \in BOOLEAN
ASSUME BoundsAssumption == MaxRuns \in Nat /\ MaxEvents \in Nat /\ MaxClock \in Nat \ {0}
ASSUME HoldAssumption == /\ Cooldown \in Nat \ {0}
                         /\ Hold \in Nat /\ Cooldown <= Hold

VARIABLES
  files,      \* record files: bytes of each, None when there is no file
  archive,    \* contents kept in manualRecovery/, named by their hash
  conf,       \* GSettings as this process reads them
  disk,       \* the part of conf that would survive a crash of the Shell
  run,        \* the restorer that owns the queue, pc "idle" when none does
  pendingDocs,\* documentRequests: documents asked for, shared by all runs
  late,       \* application whose window a late callback is laying out
  shutdown,   \* runtimeSafety.shutdownInProgress
  clock,      \* time, starts at 1: a timestamp 0 means none
  barred,     \* history: contents requested or set aside as superseded
  suspect,    \* history: time of the marker that named the app at a crash
  spent       \* how much of each bound is used

vars == <<files, archive, conf, disk, run, pendingDocs, late, shutdown, clock,
          barred, suspect, spent>>
durable == <<files, archive>>
history == <<barred, suspect>>

App(e) == AppOf[e.content]

PCs == {"idle", "loading", "sparing", "next", "preserve", "turn", "native",
        "ready", "layout", "moving", "retire", "compared", "reconcile"}

NoRun == [pc |-> "idle", auto |-> FALSE, cancelled |-> FALSE, todo |-> {},
          surplus |-> {}, cur |-> None, group |-> None, deferred |-> {},
          round |-> {}, again |-> FALSE, moved |-> {},
          timedOut |-> {}, registered |-> {}, launched |-> {}, opened |-> {},
          previous |-> {}, manualKeys |-> {}, read |-> None]

RunType ==
  [pc : PCs, auto : BOOLEAN, cancelled : BOOLEAN, todo : SUBSET Entry,
   surplus : SUBSET Entry, cur : Entry \cup {None}, group : Apps \cup {None},
   deferred : SUBSET Entry, round : SUBSET Entry, again : BOOLEAN,
   moved : SUBSET Entry, timedOut : SUBSET Apps,
   registered : SUBSET Apps, launched : SUBSET Apps, opened : SUBSET Contents,
   previous : SUBSET Contents, manualKeys : SUBSET Contents,
   read : Contents \cup {None}]

Settings ==
  [ledger : SUBSET Contents,             \* restore-record-ledger, its keys
   held : [Apps -> 0..MaxClock],         \* restore-held-applications
   active : Apps \cup {None},            \* restore-active-application
   attempt : 0..MaxClock]                \* last-automatic-restore-attempt

TypeOK ==
  /\ files \in [Files -> Contents \cup {None}]
  /\ archive \subseteq Contents
  /\ conf \in Settings /\ disk \in Settings
  /\ run \in RunType
  /\ pendingDocs \subseteq Contents
  /\ late \in Apps \cup {None}
  /\ shutdown \in BOOLEAN
  /\ clock \in 1..MaxClock
  /\ barred \subseteq Contents
  /\ suspect \in [Apps -> 0..MaxClock]
  /\ spent \in [runs : 0..MaxRuns, events : 0..MaxEvents]

Init ==
  /\ files = InitialFiles
  /\ archive = {}
  /\ conf = [ledger |-> {}, held |-> [a \in Apps |-> 0], active |-> None, attempt |-> 0]
  /\ disk = conf
  /\ run = NoRun
  /\ pendingDocs = {}
  /\ late = None
  /\ shutdown = FALSE
  /\ clock = 1
  /\ barred = {}
  /\ suspect = [a \in Apps |-> 0]
  /\ spent = [runs |-> 0, events |-> 0]

-----------------------------------------------------------------------------
(* mayRestoreApplications() && !this._destroyed, checked after each await. *)
MayGo == ~shutdown /\ ~run.cancelled

(* Settings are set in memory first; Gio.Settings.sync() makes all of them *)
(* durable, and dconf does so by itself some time later (Flush).           *)
Synced(c) == conf' = c /\ disk' = c
NotSynced(c) == conf' = c /\ UNCHANGED disk

Marked(c, a) == [c EXCEPT !.active = a, !.attempt = clock]
Barring(c, x) == [c EXCEPT !.ledger = @ \cup {x}]

(* _checkpointApplication: durable unless it is the marker already set.    *)
Checkpoint(a) ==
  IF conf = Marked(conf, a) THEN UNCHANGED <<conf, disk>> ELSE Synced(Marked(conf, a))

(* Mutant of Holds: the pause between runs used as the length of a hold.   *)
HoldsTooShort ==
  LET young(t) == t > 0 /\ clock - t < Cooldown
  IN [a \in Apps |-> IF a = conf.active /\ young(conf.attempt) THEN conf.attempt
                     ELSE IF young(conf.held[a]) THEN conf.held[a] ELSE 0]

(* Mutant of Holds: the end of the hold kept where its start is expected.  *)
HoldsKeepEnd ==
  LET young(t) == t > 0 /\ clock - t < Hold
  IN [a \in Apps |-> IF a = conf.active /\ young(conf.attempt) THEN conf.attempt + Hold
                     ELSE IF young(conf.held[a]) THEN conf.held[a] ELSE 0]

(* interruptedRestoreApplications: holds younger than a day stay, and the  *)
(* application the old marker names is added.                              *)
Holds ==
  LET young(t) == t > 0 /\ clock - t < Hold
  IN [a \in Apps |-> IF a = conf.active /\ young(conf.attempt) THEN conf.attempt
                     ELSE IF young(conf.held[a]) THEN conf.held[a] ELSE 0]

AttemptAllowed ==
  conf.attempt = 0 \/ clock - conf.attempt >= Cooldown

Stored == {e \in Entry : IF e.file = Archived THEN e.content \in archive
                                              ELSE files[e.file] = e.content}
Keys(entries) == {e.content : e \in entries}

(* The entries of `from' that give way to a remaining one of the same      *)
(* application: duplicates of a window, older capture generations, and     *)
(* more records than its newest window count.                              *)
GiveWay(from) ==
  {gone \in SUBSET from : \A e \in gone : \E k \in from \ gone : App(k) = App(e)}

(* The next entry of the queue, or of the current round of layout retries. *)
Leave(r) == [r EXCEPT !.todo = @ \ {r.cur}, !.cur = None,
                      !.pc = IF r.again THEN "reconcile" ELSE "next"]

-----------------------------------------------------------------------------
(* _runRestore up to its first await: take the queue, convert the marker   *)
(* of an interrupted run into a hold, then clear the marker.  dconf may    *)
(* write the hold to disk before it sees the cleared marker.               *)
Begin(auto) ==
  /\ run.pc = "idle" /\ ~shutdown
  /\ spent.runs < MaxRuns
  /\ auto => AttemptAllowed
  /\ LET held == [conf EXCEPT !.held = Holds]
     IN /\ conf' = [held EXCEPT !.active = None, !.attempt = 0]
        /\ disk' \in {disk, held}
  /\ run' = [NoRun EXCEPT !.pc = "loading", !.auto = auto,
                         !.manualKeys = IF auto THEN {} ELSE conf.ledger]
  /\ spent' = [spent EXCEPT !.runs = @ + 1]
  /\ UNCHANGED <<durable, history, pendingDocs, late, shutdown, clock>>

(* An automatic run within ten minutes of the last attempt is refused, but *)
(* the interrupted application is held all the same.                       *)
BeginRefused ==
  /\ run.pc = "idle" /\ ~shutdown
  /\ spent.runs < MaxRuns
  /\ ~AttemptAllowed
  /\ conf.held # Holds
  /\ NotSynced([conf EXCEPT !.held = Holds])
  /\ UNCHANGED <<durable, history, run, pendingDocs, late, shutdown, clock, spent>>

(* The records are read, the ledger forgets keys that no record has, and   *)
(* the queue is planned, all in one turn.                                  *)
Load ==
  /\ run.pc = "loading"
  /\ \E got \in SUBSET Stored :
       /\ got # Stored => PartialLoads
       /\ Synced([conf EXCEPT !.ledger = @ \cap Keys(got)])
       /\ \E todo, surplus \in SUBSET got :
            /\ IF run.auto
               THEN LET candidates == {e \in got : e.file # Archived}
                    IN \E duplicates \in GiveWay(candidates) :
                         LET allowed == {e \in candidates \ duplicates :
                                           /\ e.content \notin conf'.ledger
                                           /\ conf.held[App(e)] = 0}
                         IN \E older \in GiveWay(allowed) :
                              /\ surplus = duplicates \cup older
                              /\ todo = allowed \ older
               ELSE /\ surplus = {}
                    /\ Keys(todo) = Keys(got)
                    /\ \A e, f \in todo : e.content = f.content => e = f
            /\ run' = [run EXCEPT !.pc = IF surplus = {} THEN "next" ELSE "sparing",
                                  !.todo = todo, !.surplus = surplus]
  /\ UNCHANGED <<durable, history, pendingDocs, late, shutdown, clock, spent>>

(* A superseded record is copied to the archive and barred from automatic  *)
(* recovery before anything newer may be consumed.                         *)
Spare(e) ==
  /\ run.pc = "sparing" /\ e \in run.surplus
  /\ archive' = archive \cup {e.content}
  /\ Synced(Barring(conf, e.content))
  /\ barred' = barred \cup {e.content}
  /\ run' = [run EXCEPT !.surplus = @ \ {e},
                        !.pc = IF run.surplus = {e} THEN "next" ELSE @]
  /\ UNCHANGED <<files, suspect, pendingDocs, late, shutdown, clock, spent>>

(* A superseded record cannot be archived, or the compositor queue rejects *)
(* a layout (it is unhealthy, or the move took longer than its watchdog    *)
(* allows): the whole run fails and leaves its marker.                     *)
RunFails ==
  /\ run.pc \in {"sparing", "layout", "moving"}
  /\ run' = NoRun
  /\ UNCHANGED <<durable, conf, disk, history, pendingDocs, late, shutdown, clock, spent>>

(* _restoreQueuedEntry: applications are taken one after the other.  An    *)
(* application that timed out before is skipped, otherwise it is marked.   *)
Pick(e) ==
  /\ run.pc = "next" /\ MayGo /\ e \in run.todo
  /\ \/ App(e) = run.group
     \/ \A f \in run.todo : App(f) # run.group
  /\ LET r == [run EXCEPT !.cur = e, !.group = App(e)]
     IN IF App(e) \in run.timedOut
        THEN run' = Leave(r) /\ UNCHANGED <<conf, disk>>
        ELSE /\ run' = [r EXCEPT !.pc = IF e.content \in Docs THEN "preserve" ELSE "turn",
                                 !.registered = @ \cup {App(e)}]
             /\ Checkpoint(App(e))
  /\ UNCHANGED <<durable, history, pendingDocs, late, shutdown, clock, spent>>

(* A record with documents is archived before its application is launched. *)
Preserve ==
  /\ run.pc = "preserve"
  /\ archive' = archive \cup {run.cur.content}
  /\ run' = [run EXCEPT !.pc = "turn"]
  /\ UNCHANGED <<files, conf, disk, history, pendingDocs, late, shutdown, clock, spent>>

(* Mutant of Ambiguous: barred although no copy was made.                  *)
AmbiguousNotKept ==
  /\ run.pc = "preserve"
  /\ Synced(Barring(conf, run.cur.content))
  /\ barred' = barred \cup {run.cur.content}
  /\ run' = Leave(run)
  /\ UNCHANGED <<durable, suspect, pendingDocs, late, shutdown, clock, spent>>

(* Its documents are ambiguous or gone: archived, barred, not launched.    *)
Ambiguous ==
  /\ run.pc = "preserve"
  /\ archive' = archive \cup {run.cur.content}
  /\ Synced(Barring(conf, run.cur.content))
  /\ barred' = barred \cup {run.cur.content}
  /\ run' = Leave(run)
  /\ UNCHANGED <<files, suspect, pendingDocs, late, shutdown, clock, spent>>

(* The archive cannot be written, or the compositor queue rejects the      *)
(* launch: this record is kept and not launched.                           *)
NotLaunched ==
  /\ run.pc \in {"preserve", "turn"}
  /\ run' = Leave(run)
  /\ UNCHANGED <<durable, conf, disk, history, pendingDocs, late, shutdown, clock, spent>>

AlreadyAsked(c) == c \in pendingDocs \cup run.opened

(* Mutant of Launch: the settings are set but not synced before the call.  *)
LaunchUnsynced ==
  /\ run.pc = "turn" /\ MayGo /\ late = None
  /\ LET c == run.cur.content
         marked == Marked(conf, App(run.cur))
     IN IF c \in Docs
        THEN ~AlreadyAsked(c) /\ NotSynced(Barring(marked, c))
        ELSE App(run.cur) \notin run.launched /\ NotSynced(marked)
  /\ run' = [run EXCEPT !.pc = "native", !.previous = conf.ledger]
  /\ UNCHANGED <<durable, history, pendingDocs, late, shutdown, clock, spent>>

(* Mutant of Launch: no ledger entry for the requested documents.          *)
LaunchUnrecorded ==
  /\ run.pc = "turn" /\ MayGo /\ late = None
  /\ IF run.cur.content \in Docs THEN ~AlreadyAsked(run.cur.content)
                                ELSE App(run.cur) \notin run.launched
  /\ Synced(Marked(conf, App(run.cur)))
  /\ run' = [run EXCEPT !.pc = "native", !.previous = conf.ledger]
  /\ UNCHANGED <<durable, history, pendingDocs, late, shutdown, clock, spent>>

(* The compositor queue gives the launch its turn.  Before the native call *)
(* the marker and, for documents, the ledger entry are durable.            *)
Launch ==
  /\ run.pc = "turn" /\ MayGo /\ late = None
  /\ LET c == run.cur.content
         marked == Marked(conf, App(run.cur))
     IN IF c \in Docs
        THEN /\ ~AlreadyAsked(c)
             /\ Synced(Barring(marked, c))
        ELSE /\ App(run.cur) \notin run.launched
             /\ Checkpoint(App(run.cur))
  /\ run' = [run EXCEPT !.pc = "native", !.previous = conf.ledger]
  /\ UNCHANGED <<durable, history, pendingDocs, late, shutdown, clock, spent>>

(* Nothing to launch: the documents were asked for before or are seen to   *)
(* be open, or the application was launched by this run or is running.  A  *)
(* running application's window is also tried at once; that is Ready and   *)
(* Move without a wait.                                                    *)
Reuse ==
  /\ run.pc = "turn" /\ MayGo /\ late = None
  /\ LET c == run.cur.content
         marked == Marked(conf, App(run.cur))
     IN /\ IF c \in Docs THEN Synced(Barring(marked, c)) ELSE Checkpoint(App(run.cur))
        /\ barred' = barred \cup ({c} \cap Docs)
  /\ run' = [run EXCEPT !.pc = "ready", !.launched = @ \cup {App(run.cur)}]
  /\ UNCHANGED <<durable, suspect, pendingDocs, late, shutdown, clock, spent>>

(* The native launch succeeds: its documents are requested from now on.    *)
Launched ==
  /\ run.pc = "native"
  /\ LET c == {run.cur.content} \cap Docs
     IN /\ run' = [run EXCEPT !.pc = "ready", !.opened = @ \cup c, !.previous = {},
                              !.launched = @ \cup {App(run.cur)}]
        /\ pendingDocs' = pendingDocs \cup c
        /\ barred' = barred \cup c
  /\ UNCHANGED <<durable, conf, disk, suspect, late, shutdown, clock, spent>>

(* The native launch fails or throws: the ledger entry is taken back.      *)
LaunchFails ==
  /\ run.pc = "native"
  /\ IF run.cur.content \in Docs
     THEN Synced([conf EXCEPT !.ledger = run.previous])
     ELSE UNCHANGED <<conf, disk>>
  /\ run' = [Leave(run) EXCEPT !.previous = {}]
  /\ UNCHANGED <<durable, history, pendingDocs, late, shutdown, clock, spent>>

(* The application shows a window, which then settles.                     *)
Ready ==
  /\ run.pc = "ready" /\ MayGo
  /\ run' = [run EXCEPT !.pc = IF run.cur \in run.moved THEN "retire" ELSE "layout"]
  /\ conf' = IF run.cur \in run.moved
             THEN [conf EXCEPT !.held[App(run.cur)] = 0] ELSE conf
  /\ suspect' = IF run.cur \in run.moved
                THEN [suspect EXCEPT ![App(run.cur)] = 0] ELSE suspect
  /\ UNCHANGED <<durable, disk, barred, pendingDocs, late, shutdown, clock, spent>>

(* Thirty seconds without a window: this application is given up.          *)
TimesOut ==
  /\ run.pc = "ready" /\ MayGo
  /\ run' = [Leave(run) EXCEPT !.timedOut = @ \cup {App(run.cur)},
                               !.registered = @ \ {App(run.cur)}]
  /\ UNCHANGED <<durable, conf, disk, history, pendingDocs, late, shutdown, clock, spent>>

(* The compositor queue gives the layout its turn; the move takes time.    *)
Move ==
  /\ run.pc = "layout" /\ MayGo /\ late = None
  /\ Checkpoint(App(run.cur))
  /\ run' = [run EXCEPT !.pc = "moving"]
  /\ UNCHANGED <<durable, history, pendingDocs, late, shutdown, clock, spent>>

(* The saved layout is applied: _markApplicationHandled ends the hold.     *)
Moved ==
  /\ run.pc = "moving" /\ (run.again => MayGo)
  /\ run' = [run EXCEPT !.pc = "retire", !.deferred = @ \ {run.cur}]
  /\ NotSynced([conf EXCEPT !.held[App(run.cur)] = 0])
  /\ suspect' = [suspect EXCEPT ![App(run.cur)] = 0]
  /\ UNCHANGED <<durable, barred, pendingDocs, late, shutdown, clock, spent>>

(* No window matches yet: one more try when the queue is through.          *)
NotMoved ==
  /\ run.pc = "moving"
  /\ run' = Leave([run EXCEPT !.deferred = @ \cup {run.cur}])
  /\ UNCHANGED <<durable, conf, disk, history, pendingDocs, late, shutdown, clock, spent>>

(* retire(): manual recovery consumes neither archives nor barred records. *)
MayRetire ==
  /\ MayGo
  /\ run.auto \/ /\ run.cur.file # Archived
                 /\ run.cur.content \notin run.manualKeys

(* _retireSessionEntry reads the record file again ...                     *)
RetireRead ==
  /\ run.pc = "retire"
  /\ run' = IF MayRetire
            THEN [run EXCEPT !.pc = "compared", !.read = files[run.cur.file]]
            ELSE Leave(run)
  /\ UNCHANGED <<durable, conf, disk, history, pendingDocs, late, shutdown, clock, spent>>

(* Mutant of RetireDelete: deletes the file whatever it was found to hold. *)
RetireUnread ==
  /\ run.pc = "compared"
  /\ files' = [files EXCEPT ![run.cur.file] = None]
  /\ run' = [Leave(run) EXCEPT !.read = None]
  /\ UNCHANGED <<archive, conf, disk, history, pendingDocs, late, shutdown, clock, spent>>

(* ... and deletes it if it still has the bytes that were restored.        *)
RetireDelete ==
  /\ run.pc = "compared"
  /\ files' = IF run.read = run.cur.content
              THEN [files EXCEPT ![run.cur.file] = None] ELSE files
  /\ run' = [Leave(run) EXCEPT !.read = None]
  /\ UNCHANGED <<archive, conf, disk, history, pendingDocs, late, shutdown, clock, spent>>

(* _reconcileDeferredLayouts: every deferred layout is retried in rounds   *)
(* for at most ten seconds.                                                *)
Reconcile ==
  /\ MayGo
  /\ \/ run.pc = "next" /\ run.todo = {}
     \/ run.pc = "reconcile" /\ run.round = {}
  /\ run.deferred # {}
  /\ run' = [run EXCEPT !.pc = "reconcile", !.again = TRUE, !.round = run.deferred]
  /\ UNCHANGED <<durable, conf, disk, history, pendingDocs, late, shutdown, clock, spent>>

(* The marker is set at once, whether or not the layout gets its turn.     *)
Retry(e) ==
  /\ run.pc = "reconcile" /\ MayGo /\ e \in run.round
  /\ LET a == App(e)
         r == [run EXCEPT !.cur = e, !.round = @ \ {e}]
         marked == Marked(conf, a)
     IN IF e \in run.moved
        THEN /\ run' = [r EXCEPT !.pc = "retire", !.deferred = @ \ {e}]
             /\ conf' = [marked EXCEPT !.held[a] = 0]
             /\ disk' = IF conf = marked THEN disk ELSE marked
             /\ suspect' = [suspect EXCEPT ![a] = 0]
        ELSE /\ run' = [r EXCEPT !.pc = "layout"]
             /\ Checkpoint(a)
             /\ UNCHANGED suspect
  /\ UNCHANGED <<durable, barred, pendingDocs, late, shutdown, clock, spent>>

(* Mutant of Finish: layouts are retried until the last one matches.       *)
FinishWhenAllMatch ==
  /\ MayGo
  /\ \/ run.pc = "next" /\ run.todo = {}
     \/ run.pc = "reconcile" /\ run.round = {}
  /\ run.deferred = {}
  /\ NotSynced([conf EXCEPT !.active = None, !.attempt = 0])
  /\ run' = NoRun
  /\ UNCHANGED <<durable, history, pendingDocs, late, shutdown, clock, spent>>

(* The queue is through, or the ten seconds for retries are over at the    *)
(* end of a round: the marker is cleared, not yet synced.                  *)
Finish ==
  /\ MayGo
  /\ \/ run.pc = "next" /\ run.todo = {} /\ run.deferred = {}
     \/ run.pc = "reconcile" /\ run.round = {}
  /\ NotSynced([conf EXCEPT !.active = None, !.attempt = 0])
  /\ run' = NoRun
  /\ UNCHANGED <<durable, history, pendingDocs, late, shutdown, clock, spent>>

(* Logout or cancel() while the run awaits something: it ends and leaves   *)
(* its marker, which the next run converts into a hold.                    *)
Interrupt ==
  /\ run.pc \in {"next", "turn", "ready", "layout", "reconcile"} /\ ~MayGo
  /\ run' = NoRun
  /\ UNCHANGED <<durable, conf, disk, history, pendingDocs, late, shutdown, clock, spent>>

-----------------------------------------------------------------------------
Event == /\ spent.events < MaxEvents
         /\ spent' = [spent EXCEPT !.events = @ + 1]

(* A window of a registered application appears and the indicator lays it  *)
(* out through the compositor queue, marking the application first.        *)
LateWindow(a) ==
  /\ late = None /\ a \in run.registered /\ MayGo
  /\ run.pc \notin {"native", "moving"}
  /\ Event
  /\ late' = a
  /\ Checkpoint(a)
  /\ UNCHANGED <<durable, history, run, pendingDocs, shutdown, clock>>

(* It matched one of the application's records that the run has taken up:  *)
(* deferred, current or still to come; or none of them.                    *)
LateDone ==
  /\ late # None
  /\ late' = None
  /\ \E matched \in SUBSET ((run.todo \cup run.deferred \cup {run.cur}) \ {None}) :
       /\ Cardinality(matched) <= 1
       /\ \A e \in matched : App(e) = late
       /\ run' = [run EXCEPT !.moved = @ \cup matched]
  /\ UNCHANGED <<durable, conf, disk, history, pendingDocs, shutdown, clock, spent>>

(* An application stops or its grace period ends: _documentPaths forgets.  *)
(* A run looks a document up once, so this may as well happen between runs.*)
Forget(c) ==
  /\ run.pc = "idle" /\ c \in pendingDocs
  /\ pendingDocs' = pendingDocs \ {c}
  /\ UNCHANGED <<durable, conf, disk, history, run, late, shutdown, clock, spent>>

(* The window tracker saves a window to a record file.  A record names its *)
(* window and the login it was saved in, so its bytes are new.             *)
Rewrite(f, c) ==
  /\ Event /\ ~shutdown
  /\ c \notin archive /\ \A g \in Files : files[g] # c
  /\ files' = [files EXCEPT ![f] = c]
  /\ UNCHANGED <<archive, conf, disk, history, run, pendingDocs, late, shutdown, clock>>

Undisturbed == run.pc = "loading" => PartialLoads

Shutdown ==
  /\ MayGo /\ Undisturbed /\ Event
  /\ shutdown' = TRUE
  /\ UNCHANGED <<durable, conf, disk, history, run, pendingDocs, late, clock>>

CancelShutdown ==
  /\ shutdown
  /\ shutdown' = FALSE
  /\ UNCHANGED <<durable, conf, disk, history, run, pendingDocs, late, clock, spent>>

(* The extension is disabled: disable() begins a shutdown and cancels the  *)
(* run, which stays cancelled when the extension is enabled again.         *)
Disable ==
  /\ run.pc # "idle" /\ MayGo /\ Undisturbed /\ Event
  /\ run' = [run EXCEPT !.cancelled = TRUE, !.registered = {}]
  /\ shutdown' = TRUE
  /\ UNCHANGED <<durable, conf, disk, history, pendingDocs, late, clock>>

Flush ==
  /\ disk # conf
  /\ disk' = conf
  /\ UNCHANGED <<durable, conf, history, run, pendingDocs, late, shutdown, clock, spent>>

Tick ==
  /\ clock < MaxClock
  /\ clock' = clock + 1
  /\ IF run.pc = "idle" THEN UNCHANGED spent ELSE Event
  /\ UNCHANGED <<durable, conf, disk, history, run, pendingDocs, late, shutdown>>

(* GNOME Shell dies and is started again: what was not synced is lost.     *)
Crash ==
  /\ Event
  /\ conf' = disk
  /\ suspect' = IF disk.active # None
                THEN [suspect EXCEPT ![disk.active] = disk.attempt] ELSE suspect
  /\ run' = NoRun /\ pendingDocs' = {} /\ late' = None /\ shutdown' = FALSE
  /\ UNCHANGED <<durable, disk, barred, clock>>

(* What the restorer does once begun; each of these steps is awaited and   *)
(* is followed by another.                                                 *)
RunStep ==
  \/ Load \/ RunFails \/ Preserve \/ Ambiguous \/ NotLaunched
  \/ Launch \/ Reuse \/ Launched \/ LaunchFails \/ Ready \/ TimesOut
  \/ Move \/ Moved \/ NotMoved \/ RetireRead \/ RetireDelete
  \/ Reconcile \/ Finish \/ Interrupt
  \/ \E e \in Entry : Spare(e) \/ Pick(e) \/ Retry(e)

Environment ==
  \/ \E a \in Apps : LateWindow(a)
  \/ \E c \in Contents : Forget(c) \/ \E f \in Files : Rewrite(f, c)
  \/ Shutdown \/ CancelShutdown \/ Disable \/ Flush \/ Tick \/ Crash

Next ==
  \/ \E auto \in BOOLEAN : Begin(auto)
  \/ BeginRefused
  \/ RunStep \/ LateDone \/ Environment

(* The Shell's main loop resolves every await: native operations return,   *)
(* the readiness wait has a timeout, and after ten seconds of retries the  *)
(* round that is under way is the last.                                    *)
Spec == /\ Init /\ [][Next]_vars
        /\ WF_vars(RunStep) /\ SF_vars(Finish) /\ WF_vars(LateDone)

-----------------------------------------------------------------------------
NativeWork(a) == run.pc \in {"native", "moving"} /\ App(run.cur) = a

Queued == run.todo \cup run.deferred \cup run.round \cup ({run.cur} \ {None})
Working == {"preserve", "turn", "native", "ready", "layout", "moving", "retire", "compared"}

(* What the fields of `run' mean at each point of the queue.               *)
RunShape ==
  /\ (run.cur # None) <=> (run.pc \in Working)
  /\ run.pc \in {"preserve", "turn", "native"} => run.cur \in run.todo /\ ~run.again
  /\ run.pc \in {"idle", "loading", "sparing", "next"} => ~run.again
  /\ run.pc \in {"idle", "loading"} =>
       Queued = {} /\ run.registered = {} /\ run.surplus = {}
  /\ run.auto => \A e \in Queued \cup run.surplus : e.file # Archived
  /\ run.pc = "compared" =>
       run.auto \/ (run.cur.file # Archived /\ run.cur.content \notin run.manualKeys)

Archiving ==
  /\ conf.ledger \cup disk.ledger \cup run.previous \cup barred \subseteq archive
  /\ run.pc \in {"turn", "native"} /\ run.cur.content \in Docs => run.cur.content \in archive

(* A marker that is set is on disk.                                        *)
MarkerOnDisk ==
  conf.active # None => disk.active = conf.active /\ disk.attempt = conf.attempt

(* Nothing but time passes between a native launch and its result.         *)
Durability ==
  /\ MarkerOnDisk
  /\ run.pc = "native" =>
       /\ conf.active = App(run.cur) /\ conf.attempt > 0
       /\ run.cur.content \in Docs => run.cur.content \in conf.ledger \cap disk.ledger

Safe(a) == suspect[a] = 0 \/ clock - suspect[a] >= Hold
Remembers(c, a) ==
  \/ c.held[a] >= suspect[a]
  \/ c.active = a /\ c.attempt >= suspect[a]

(* Each suspect application is remembered by a hold, or by the marker that *)
(* the next run turns into one.                                            *)
Keeps(c) ==
  /\ c.attempt <= clock
  /\ \A a \in Apps : /\ c.held[a] <= clock
                     /\ c.active = a => c.attempt >= c.held[a]
                     /\ Safe(a) \/ Remembers(c, a)

(* A run in progress needs the holds alone, for it moves the marker on.    *)
Holding ==
  /\ \A a \in Apps : suspect[a] <= clock
  /\ Keeps(conf) /\ Keeps(disk)
  /\ run.pc # "idle" => \A a \in Apps : Safe(a) \/ conf.held[a] >= suspect[a]
  /\ run.pc = "loading" => conf.active = None
  /\ run.auto => /\ \A e \in Queued : Safe(App(e))
                 /\ \A a \in run.registered : Safe(a)

(* As long as every record is read, barred records stay in the ledger, and *)
(* an automatic run has none of them before it.                            *)
Replaying ==
  /\ \A f, g \in Files : files[f] = files[g] => f = g \/ files[f] = None
  /\ ~PartialLoads =>
       /\ barred \subseteq conf.ledger \cap disk.ledger
       /\ run.pc = "native" => barred \subseteq run.previous
       /\ run.auto =>
            /\ \A e, f \in run.todo \cup run.surplus : e.content = f.content => e = f
            /\ run.todo \cap run.surplus = {}
            /\ \A e \in run.todo :
                 e.content \in barred =>
                   e = run.cur /\ run.pc \notin {"preserve", "turn", "native"}

(* The inductive invariant of the restore queue.                           *)
RestoreInvariant ==
  TypeOK /\ RunShape /\ Archiving /\ Durability /\ Holding /\ Replaying

(* A record that automatic recovery will not touch again has a copy in the *)
(* archive, so that the ledger never makes a record unrecoverable.         *)
BarredIsArchived == conf.ledger \cup disk.ledger \subseteq archive

(* What is known only in memory or on disk is never less than what native  *)
(* work needs after a crash: its marker and its ledger entry are durable.  *)
DurableBeforeNative ==
  run.pc = "native" =>
    /\ disk.active = App(run.cur) /\ disk.attempt > 0
    /\ run.cur.content \in Docs => run.cur.content \in disk.ledger \cap archive

(* The application whose marker a crash left behind is not touched by      *)
(* automatic recovery until its hold has expired, or until a manual run    *)
(* has restored it, whatever crashes, refusals and logouts intervene.      *)
CrashedAppIsHeld ==
  \A a \in Apps : run.auto /\ NativeWork(a)
                    => suspect[a] = 0 \/ clock - suspect[a] >= Hold

(* Documents that were requested once, and superseded records, never come  *)
(* back in an automatic run, in this login or a later one.                 *)
NoAutomaticReplay ==
  [][(run.pc # "native" /\ run'.pc = "native" /\ run.auto)
        => run.cur.content \notin barred]_vars

(* The only record file the restorer deletes is the one of the entry it    *)
(* has just laid out, and only after reading in it the bytes it restored.  *)
OnlyHandledIsDeleted ==
  [][\A f \in Files : files[f] # None /\ files'[f] = None
        => /\ run.cur = [file |-> f, content |-> run.read]
           /\ ~(run.cur.content \in run.manualKeys /\ ~run.auto)]_vars

(* Every run ends, and the queue can be used again.                        *)
RestoreEnds == (run.pc # "idle") ~> (run.pc = "idle")
=============================================================================
