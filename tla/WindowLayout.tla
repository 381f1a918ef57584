---------------------------- MODULE WindowLayout ----------------------------
(***************************************************************************)
(* Applying saved layouts to live windows: moveSession.js, composed with   *)
(* the tiled pairs and the layout generations.                             *)
(*                                                                         *)
(* A request is made by the indicator for a new window ("window") or by    *)
(* the restore queue for an application ("app"), waits in the compositor   *)
(* queue, and is then carried out by one operation at a time, which waits  *)
(* for Mutter between native calls: for a window to enter a monitor, to    *)
(* leave the maximized state, and between two windows of an application.   *)
(* Windows, monitors, the user and the session change all the while.       *)
(*                                                                         *)
(* JavaScript runs to completion, but a native call may emit signals       *)
(* before it returns: anything may happen where an operation waits or has  *)
(* just made a native call, and nothing between two other steps (Calm).    *)
(***************************************************************************)
EXTENDS WindowTiling, FiniteSetsExt

CONSTANTS
  Saved,            \* the fields of each saved record
  Match,            \* <<w, r>>: _matchesSavedWindow
  ReportedPrimary,  \* global.display.get_primary_monitor()
  MaxMonitors,
  MaxWorkspaces,    \* MAX_WORKSPACE_INDEX + 1
  Polls,            \* polls of 500 ms before the 2 s deadline
  MaxRequests,      \* bound: layout requests
  MaxEvents,        \* bound: events of the desktop and the session
  MaxDisturbances   \* bound: these and the raises, drags and resizes of windows

SavedType ==
  [monitor : {-1} \cup Nat,          \* monitor_number
   primary : BOOLEAN,                \* is_on_primary_monitor
   similar : BOOLEAN,                \* monitor_geometry was saved
   max : BOOLEAN, full : BOOLEAN, sticky : BOOLEAN,
   frame : {"valid", "invalid", "none"},  \* window_position
   ws : Nat,                         \* desktop_number
   tileApp : SUBSET Windows,         \* windows of window_tile_for's application
   tileTitle : Windows \cup {None}]  \* the one with window_tile_for's title

ASSUME LayoutAssumption ==
  /\ IsFiniteSet(Windows) /\ Windows \subseteq Nat \ {0}
  /\ IsFiniteSet(Records) /\ Records \subseteq Nat \ {0}
  /\ Saved \in [Records -> SavedType] /\ Match \subseteq Windows \X Records
  /\ {ReportedPrimary, MaxMonitors, MaxWorkspaces, Polls} \subseteq Nat
  /\ {MaxRequests, MaxEvents, MaxDisturbances} \subseteq Nat
  /\ MaxMonitors > 0 /\ MaxWorkspaces > 0
  /\ None \notin Nat

VARIABLES
  op,           \* the operation that owns the compositor queue
  moved,        \* the window each record was used for (saved.moved), or None
  workspaces,   \* global.workspace_manager.n_workspaces
  requests,     \* layout requests made so far
  events,       \* events of the desktop and the session so far
  touches       \* raises, drags and resizes by the user so far

session == <<safety, monitors, destroyed>>
results == <<moved, workspaces>>
bounds == <<requests, events, touches>>

layoutVars == <<session, win, tiling, queue, op, results, bounds>>

PCs == {"idle", "next", "monitor", "monitorWait", "state", "geometry",
        "unmaximizeWait", "tile", "workspaces", "change", "finish", "paced"}

(* target and polls belong to the waits monitorWait and unmaximizeWait.    *)
Idle == [pc |-> "idle", req |-> None, pairs |-> {}, w |-> None, r |-> None,
         target |-> None, polls |-> 0]

Frames == {None} \cup ({"saved"} \X Records) \cup ({"pair"} \X Windows)

Init ==
  /\ SafetyInit /\ TilingInit
  /\ monitors = MaxMonitors /\ queue = <<>> /\ destroyed = FALSE
  /\ win = [w \in Windows |->
       [monitor |-> 0, goal |-> None, ws |-> 0, max |-> w = Min(Windows), full |-> FALSE,
        leaving |-> FALSE, sticky |-> FALSE, frame |-> None, alive |-> TRUE]]
  /\ op = Idle /\ moved = [r \in Records |-> None] /\ workspaces = 1
  /\ requests = 0 /\ events = 0 /\ touches = 0

-----------------------------------------------------------------------------
(* Requests.                                                               *)

(* _canMove with the _layoutGuard taken when the request was made.  The    *)
(* windows of _cancelledWindows are gone, which IsWindowUsable covers.     *)
CanMove(w, req) == MayDispatch(req) /\ IsWindowUsable(w)

(* Mutant of Unused: the moved flag of the records is not looked at.       *)
UsedOrNot(recs) == recs

(* The first record in order that fits a window, and that is not used yet. *)
Unused(recs) == {r \in recs : moved[r] = None}
Fitting(w) == {r \in Unused(Records) : <<w, r>> \in Match}

(* _getAutoMoveInterestingWindows: each record in turn takes its first     *)
(* usable window that no earlier record took.                              *)
Free(pairs, r) ==
  {w \in Windows : /\ IsWindowUsable(w) /\ <<w, r>> \in Match
                   /\ \A p \in pairs : p[2] < r => p[1] # w}

IsAssignment(pairs) ==
  \A r \in Records :
    {p \in pairs : p[2] = r} =
      IF r \in Unused(Records) /\ Free(pairs, r) # {}
      THEN {<<Min(Free(pairs, r)), r>>} ELSE {}

Outstanding(kind) ==
  \/ \E i \in DOMAIN queue : queue[i].kind = kind
  \/ op.pc # "idle" /\ op.req.kind = kind

Ask(req) ==
  /\ ~destroyed /\ MayRestoreApplications /\ requests < MaxRequests
  /\ requests' = requests + 1
  /\ queue' = Append(queue, req)
  /\ UNCHANGED <<results, session, win, tiling, op, events, touches>>

(* The indicator asks for one window at a time (_windowRestoreQueue).      *)
AskForWindow(w) ==
  /\ win[w].alive /\ ~Outstanding("window")
  /\ Ask(Request("window", w, None))

(* The restore queue or a menu asks for the windows of an application.     *)
AskForApp == Ask(Request("app", None, None))

(* The queue reaches a layout request: it begins, or is dropped.           *)
Dispatch ==
  LET q == Head(queue)
      begun == [Idle EXCEPT !.req = q]
      fits == q.kind = "window" /\ CanMove(q.w, q) /\ Fitting(q.w) # {}
      runs == q.kind = "app" /\ MayDispatch(q)
  IN /\ op.pc = "idle" /\ queue # <<>> /\ q.kind \in {"window", "app"}
     /\ queue' = Tail(queue)
     /\ \/ fits /\ op' = [begun EXCEPT !.pc = "monitor", !.w = q.w, !.r = Min(Fitting(q.w))]
        \/ \E pairs \in SUBSET Match :
             runs /\ IsAssignment(pairs) /\ op' = [begun EXCEPT !.pc = "next", !.pairs = pairs]
        \/ ~fits /\ ~runs /\ op' = Idle
     /\ UNCHANGED <<results, session, bounds, win, tiling>>

(* _moveWindowsByShellApp: the next pair of a window and a record.         *)
NextPair ==
  LET r == Min({p[2] : p \in op.pairs})
      w == (CHOOSE p \in op.pairs : p[2] = r)[1]
      rest == [op EXCEPT !.pairs = {p \in @ : p[2] # r}]
  IN /\ op.pc = "next"
     /\ op' = IF op.pairs = {} THEN Idle
              ELSE IF CanMove(w, op.req) /\ moved[r] = None
              THEN [rest EXCEPT !.pc = "monitor", !.w = w, !.r = r, !.polls = 0]
              ELSE rest
     /\ UNCHANGED <<results, session, bounds, win, tiling, queue>>

-----------------------------------------------------------------------------
(* One window: its monitor, its state, its geometry, its tile, its         *)
(* workspace.  A window request ends at the first failure, an application  *)
(* goes on with its next window.                                           *)

Stopped == IF op.req.kind = "app" THEN [op EXCEPT !.pc = "next"] ELSE Idle
GoOn(pc) == [op EXCEPT !.pc = pc]

Primary(w) == IF ReportedPrimary < monitors THEN ReportedPrimary ELSE win[w].monitor

(* The saved index, or the monitor whose geometry is most like the saved.  *)
Wanted(r) ==
  IF Saved[r].similar /\ ~Saved[r].primary THEN 0..(monitors - 1) ELSE {Saved[r].monitor}

TargetMonitor(w, r, m) ==
  IF Saved[r].primary \/ m \notin 0..(monitors - 1) THEN Primary(w) ELSE m

RestoreMonitor ==
  /\ op.pc = "monitor"
  /\ \/ /\ ~CanMove(op.w, op.req)
        /\ op' = Stopped /\ UNCHANGED win
     \/ /\ CanMove(op.w, op.req)
        /\ \E m \in Wanted(op.r) :
             LET t == TargetMonitor(op.w, op.r, m)
             IN IF t = win[op.w].monitor
                THEN op' = GoOn("state") /\ UNCHANGED win
                ELSE /\ op' = [GoOn("monitorWait") EXCEPT !.target = t]
                     /\ win' = [win EXCEPT ![op.w].goal = t]
  /\ UNCHANGED <<results, session, bounds, tiling, queue>>

(* Mutant of MonitorTimeout: a window that never arrives is waited for.    *)
MonitorPatience ==
  /\ op.pc = "monitorWait" /\ win[op.w].monitor = op.target
  /\ op' = GoOn("state")
  /\ UNCHANGED <<results, session, bounds, win, tiling, queue>>

(* The 1 s timeout of the wait for window-entered-monitor.                 *)
MonitorTimeout ==
  /\ op.pc = "monitorWait"
  /\ op' = IF CanMove(op.w, op.req) /\ win[op.w].monitor = op.target
           THEN GoOn("state") ELSE Stopped
  /\ UNCHANGED <<results, session, bounds, win, tiling, queue>>

(* is_sticky and meta_maximized *)
RestoreWindowState ==
  LET s == Saved[op.r]
  IN /\ op.pc = "state"
     /\ IF CanMove(op.w, op.req)
        THEN /\ op' = GoOn("geometry")
             /\ win' = [win EXCEPT ![op.w].sticky = @ \/ s.sticky,
                                   ![op.w].max = @ \/ s.max,
                                   ![op.w].leaving = @ /\ ~s.max]
        ELSE op' = Stopped /\ UNCHANGED win
     /\ UNCHANGED <<results, session, bounds, tiling, queue>>

(* _moveResizeFrame: never a maximized or a fullscreen window.  Nothing is *)
(* to be done for a record without a position, nor for a window that does  *)
(* not let itself be moved and resized, whatever the record says.          *)
MoveResizeFrame ==
  LET s == Saved[op.r]
      may == CanMove(op.w, op.req) /\ ~win[op.w].max /\ ~win[op.w].full
  IN \/ may /\ s.frame = "valid" /\ op' = GoOn("tile")
        /\ win' = [win EXCEPT ![op.w].frame = <<"saved", op.r>>]
     \/ may /\ op' = GoOn("tile") /\ UNCHANGED win
     \/ (may => s.frame = "invalid") /\ op' = Stopped /\ UNCHANGED win

RestoreGeometry ==
  LET s == Saved[op.r]
      occupied == win[op.w].full \/ s.full \/ s.max
  IN /\ op.pc = "geometry"
     /\ \/ ~CanMove(op.w, op.req) /\ op' = Stopped /\ UNCHANGED win
        \/ CanMove(op.w, op.req) /\ occupied /\ op' = GoOn("tile") /\ UNCHANGED win
        \/ /\ CanMove(op.w, op.req) /\ ~occupied /\ win[op.w].max
           /\ op' = [GoOn("unmaximizeWait") EXCEPT !.polls = 0]
           /\ win' = [win EXCEPT ![op.w].leaving = TRUE]
        \/ CanMove(op.w, op.req) /\ ~occupied /\ ~win[op.w].max /\ MoveResizeFrame
     /\ UNCHANGED <<results, session, bounds, tiling, queue>>

(* Mutant of PollUnmaximize: the resize is forced at the deadline.         *)
PollForced ==
  /\ op.pc = "unmaximizeWait"
  /\ IF ~CanMove(op.w, op.req) \/ win[op.w].full THEN op' = Stopped /\ UNCHANGED win
     ELSE IF win[op.w].max /\ op.polls + 1 < Polls
     THEN op' = [op EXCEPT !.polls = @ + 1] /\ UNCHANGED win
     ELSE /\ op' = GoOn("tile")
          /\ win' = [win EXCEPT ![op.w].frame = <<"saved", op.r>>]
  /\ UNCHANGED <<results, session, bounds, tiling, queue>>

(* The 500 ms timer: resize once Mutter has unmaximized the window, give   *)
(* up at the deadline, otherwise look again.                               *)
PollUnmaximize ==
  LET mayWait == CanMove(op.w, op.req) /\ ~win[op.w].full /\ op.polls + 1 < Polls
  IN /\ op.pc = "unmaximizeWait"
     /\ \/ ~mayWait /\ op' = Stopped /\ UNCHANGED win
        \/ mayWait /\ win[op.w].max /\ op' = [op EXCEPT !.polls = @ + 1] /\ UNCHANGED win
        \/ mayWait /\ ~win[op.w].max /\ MoveResizeFrame
     /\ UNCHANGED <<results, session, bounds, tiling, queue>>

(* _getWindowAboutToResize: the only usable window of the application the  *)
(* record was tiled with, or among several the one with the saved title.   *)
Partner(w, r) ==
  LET usable == {v \in Saved[r].tileApp \ {w} : IsWindowUsable(v)}
  IN IF Cardinality(usable) = 1 THEN Min(usable)
     ELSE IF Saved[r].tileTitle \in usable THEN Saved[r].tileTitle ELSE None

RestoreTiling ==
  LET p == Partner(op.w, op.r)
  IN /\ op.pc = "tile"
     /\ IF CanMove(op.w, op.req)
        THEN /\ op' = GoOn("workspaces")
             /\ tiling' = IF p = None THEN tiling ELSE PrepareToTile(tiling, op.w, p)
        ELSE op' = Stopped /\ UNCHANGED tiling
     /\ UNCHANGED <<results, session, bounds, win, queue>>

IsValidWorkspaceIndex(i) == i < MaxWorkspaces

(* _createEnoughWorkspace *)
CreateWorkspaces ==
  LET ws == Saved[op.r].ws
  IN /\ op.pc = "workspaces"
     /\ IF CanMove(op.w, op.req) /\ IsValidWorkspaceIndex(ws)
        THEN op' = GoOn("change") /\ workspaces' = Max({workspaces, ws + 1})
        ELSE op' = Stopped /\ UNCHANGED workspaces
     /\ UNCHANGED <<session, bounds, win, tiling, queue, moved>>

(* _changeWorkspace; moving a sticky window would unstick it.              *)
ChangeWorkspace ==
  LET s == Saved[op.r]
      stays == s.sticky /\ win[op.w].sticky
      may == CanMove(op.w, op.req) /\ s.ws < workspaces
  IN /\ op.pc = "change"
     /\ \/ stays /\ op' = GoOn("finish") /\ UNCHANGED win
        \/ ~stays /\ may /\ op' = GoOn("finish") /\ win' = [win EXCEPT ![op.w].ws = s.ws]
        \/ ~stays /\ ~may /\ op' = Stopped /\ UNCHANGED win
     /\ UNCHANGED <<results, session, bounds, tiling, queue>>

(* saved.moved = true, and for an application the pause of 750 ms.         *)
FinishWindow ==
  /\ op.pc = "finish"
  /\ IF CanMove(op.w, op.req)
     THEN /\ moved' = [moved EXCEPT ![op.r] = op.w]
          /\ op' = IF op.req.kind = "app" /\ MayRestoreApplications
                   THEN GoOn("paced") ELSE Idle
     ELSE op' = Idle /\ UNCHANGED moved
  /\ UNCHANGED <<session, bounds, win, tiling, queue, workspaces>>

PaceEnds ==
  /\ op.pc = "paced"
  /\ op' = IF destroyed \/ ~MayRestoreApplications THEN Idle ELSE GoOn("next")
  /\ UNCHANGED <<results, session, bounds, win, tiling, queue>>

OpStep ==
  \/ Dispatch \/ NextPair \/ RestoreMonitor \/ MonitorTimeout \/ RestoreWindowState
  \/ RestoreGeometry \/ PollUnmaximize \/ RestoreTiling \/ CreateWorkspaces
  \/ ChangeWorkspace \/ FinishWindow \/ PaceEnds
  \/ /\ op.pc = "idle" /\ (RaisePartner \/ SkipPartner) /\ UNCHANGED win
     /\ UNCHANGED <<results, session, bounds, op>>
  \/ /\ op.pc = "idle" /\ ResizePartner
     /\ UNCHANGED <<results, session, bounds, op>>

-----------------------------------------------------------------------------
(* The desktop, the user and the session.                                  *)

(* The operation waits or has just called Mutter, or none is running.      *)
Calm == op.pc \notin {"next", "monitor", "state", "workspaces"}

Event ==
  /\ events < MaxEvents /\ events + touches < MaxDisturbances
  /\ events' = events + 1

Restale(which(_)) ==
  /\ queue' = [i \in DOMAIN queue |->
                 IF which(queue[i]) THEN [queue[i] EXCEPT !.stale = TRUE] ELSE queue[i]]
  /\ op' = IF op.pc # "idle" /\ which(op.req) THEN [op EXCEPT !.req.stale = TRUE] ELSE op

Every(req) == TRUE

MonitorsChanged(n) ==
  /\ Event /\ n # monitors /\ monitors' = n /\ ~destroyed
  /\ BeginMonitorChange /\ Restale(Every)
  /\ UNCHANGED <<results, win, tiling, destroyed, requests, touches>>

QuietEnds ==
  /\ QuietPeriodEnds
  /\ UNCHANGED <<results, bounds, monitors, win, tiling, queue, destroyed, op>>

SessionEnds ==
  /\ Event /\ ~shutdown /\ BeginShutdown /\ Restale(Every)
  /\ UNCHANGED <<results, monitors, win, tiling, destroyed, requests, touches>>

SessionContinues ==
  /\ ~destroyed /\ CancelShutdown
  /\ UNCHANGED <<results, bounds, monitors, win, tiling, queue, destroyed, op>>

(* The extension is disabled: shutdown is begun, every wait is resolved,   *)
(* and the pairs are dissolved.                                            *)
Disable ==
  /\ Event /\ ~destroyed /\ destroyed' = TRUE
  /\ BeginShutdown
  /\ tiling' = TilingDestroyed(tiling)
  /\ queue' = [i \in DOMAIN queue |-> [queue[i] EXCEPT !.stale = TRUE]]
  /\ op' = CASE op.pc = "idle" -> op
             [] op.pc \in {"monitorWait", "unmaximizeWait"} ->
                  [Stopped EXCEPT !.req = IF op.req.kind = "app"
                                          THEN [op.req EXCEPT !.stale = TRUE] ELSE None]
             [] op.pc = "paced" -> Idle
             [] OTHER -> [op EXCEPT !.req.stale = TRUE]
  /\ UNCHANGED <<results, monitors, win, requests, touches>>

(* The caller no longer wants it: isCurrent() is false from now on.        *)
Withdraw ==
  /\ Event
  /\ \/ /\ op.pc # "idle" /\ op.req.current
        /\ op' = [op EXCEPT !.req.current = FALSE, !.req.stale = TRUE]
        /\ UNCHANGED queue
     \/ \E i \in DOMAIN queue :
          /\ queue[i].kind \in {"window", "app"} /\ queue[i].current
          /\ queue' = [queue EXCEPT ![i].current = FALSE, ![i].stale = TRUE]
          /\ UNCHANGED op
  /\ UNCHANGED <<results, session, win, tiling, requests, touches>>

(* A window goes away; the handlers of unmanaging run.                     *)
Unmanage(w) ==
  LET concerns(req) == w \in {req.w, req.x}
      interrupted == \/ op.w = w /\ op.pc = "monitorWait"
                     \/ op.w = w /\ op.pc = "unmaximizeWait" /\ op.req.kind = "window"
  IN /\ Event /\ win[w].alive
     /\ win' = [win EXCEPT ![w].alive = FALSE, ![w].goal = None, ![w].leaving = FALSE]
     /\ tiling' = IF w \in tiling.connected THEN Detach(tiling, w) ELSE tiling
     /\ queue' = [i \in DOMAIN queue |->
                    IF concerns(queue[i]) THEN [queue[i] EXCEPT !.stale = TRUE] ELSE queue[i]]
     /\ op' = IF interrupted THEN Stopped
              ELSE IF op.w = w /\ op.req.kind = "window"
              THEN [op EXCEPT !.req.stale = TRUE] ELSE op
     /\ UNCHANGED <<results, session, requests, touches>>

(* window-entered-monitor: as asked, or because Mutter or the user moved   *)
(* the window, for instance off a monitor that is gone.                    *)
EntersMonitor(w, n) ==
  /\ win[w].alive /\ n < monitors /\ n # win[w].monitor
  /\ IF n = win[w].goal THEN events' = events ELSE Event
  /\ win' = [win EXCEPT ![w].monitor = n, ![w].goal = IF n = @ THEN None ELSE @]
  /\ op' = IF op.pc = "monitorWait" /\ op.w = w /\ n = op.target
           THEN IF MayDispatch(op.req) THEN GoOn("state") ELSE Stopped
           ELSE op
  /\ UNCHANGED <<results, session, tiling, queue, requests, touches>>

Unmaximized(w) ==
  /\ win[w].alive /\ win[w].leaving
  /\ win' = [win EXCEPT ![w].leaving = FALSE, ![w].max = FALSE]
  /\ UNCHANGED <<results, session, bounds, tiling, queue, op>>

(* The user or the application changes the state of a window.              *)
StateChanged(w) ==
  /\ Event /\ win[w].alive
  /\ \/ win' = [win EXCEPT ![w].max = TRUE, ![w].leaving = FALSE]
     \/ win' = [win EXCEPT ![w].full = ~@]
  /\ UNCHANGED <<results, session, tiling, queue, op, requests, touches>>

(* A workspace without windows disappears from the end of the list.        *)
WorkspaceRemoved ==
  /\ Event /\ workspaces > 1
  /\ \A w \in Windows : win[w].alive => win[w].ws < workspaces - 1
  /\ workspaces' = workspaces - 1
  /\ UNCHANGED <<session, win, tiling, queue, op, moved, requests, touches>>

TilingEvent ==
  /\ events + touches < MaxDisturbances /\ touches' = touches + 1 /\ ~destroyed
  /\ \E w \in {v \in Windows : win[v].alive} :
       \/ Raised(w) /\ UNCHANGED op
       \/ SizeChanged(w) /\ UNCHANGED op
       \/ \E b \in BOOLEAN : /\ GrabBegin(w, b) \/ GrabEnd(w, b)
                             /\ LET ofGrab(req) == req.kind = "resize" IN Restale(ofGrab)
  /\ UNCHANGED <<results, session, win, requests, events>>

Environment ==
  \/ AskForApp \/ QuietEnds \/ SessionEnds \/ SessionContinues \/ Disable
  \/ Withdraw \/ WorkspaceRemoved \/ TilingEvent
  \/ \E n \in 1..MaxMonitors : MonitorsChanged(n)
  \/ \E w \in Windows :
       \/ AskForWindow(w) \/ Unmanage(w) \/ Unmaximized(w) \/ StateChanged(w)
       \/ \E n \in 0..(MaxMonitors - 1) : EntersMonitor(w, n)

Next == OpStep \/ (Calm /\ Environment)

(* Timers fire and promise jobs run; nothing is assumed of the desktop.    *)
Fairness == WF_layoutVars(OpStep)

Spec == Init /\ [][Next]_layoutVars /\ Fairness

-----------------------------------------------------------------------------
(* Properties.                                                             *)

WindowType ==
  [monitor : Nat, goal : Nat \cup {None}, ws : Nat, max : BOOLEAN, full : BOOLEAN,
   leaving : BOOLEAN, sticky : BOOLEAN, frame : Frames, alive : BOOLEAN]

RequestType ==
  [kind : {"raise", "resize", "window", "app"}, w : Windows \cup {None},
   x : Windows \cup {None}, gen : Nat, resizeGen : Nat,
   current : BOOLEAN, stale : BOOLEAN]

(* Types; a window is only waited for at the step that waits for it.       *)
LayoutTypeOK ==
  /\ SafetyTypeOK /\ monitors \in 1..MaxMonitors /\ destroyed \in BOOLEAN
  /\ win \in [Windows -> WindowType] /\ tiling \in TilingType
  /\ \A i \in DOMAIN queue : queue[i] \in RequestType
  /\ op.pc \in PCs /\ (op.pc = "idle" <=> op = Idle)
  /\ op.pc # "idle" =>
       /\ op.req \in RequestType /\ op.req.kind \in {"window", "app"}
       /\ op.pairs \subseteq Match
       /\ op.pc # "next" => op.w \in Windows /\ op.r \in Records
  /\ moved \in [Records -> Windows \cup {None}]
  /\ workspaces \in 1..MaxWorkspaces

(* A pair is marked as pending only while its raise, or the resize of this *)
(* very grab, is in the compositor queue: _pendingRaises and               *)
(* _pendingResizeRequests never block a pair for good.                     *)
PendingIsQueued ==
  /\ \A w \in tiling.raises :
       \E i \in DOMAIN queue : queue[i].kind = "raise" /\ w \in {queue[i].w, queue[i].x}
  /\ \A p \in tiling.resizes :
       \E i \in DOMAIN queue :
          queue[i].kind = "resize" /\ queue[i].w = p[1] /\ queue[i].resizeGen = p[2]

(* The invariants of layouts: types and program counters, the pairs, and   *)
(* what is marked as pending.                                              *)
LayoutInvariant == LayoutTypeOK /\ PairsAreMutual /\ PendingIsQueued

(* The environment takes back what was asked; only SessionSifu asks.       *)
NothingAsked(w) ==
  /\ win[w].frame = win[w].frame' /\ win[w].ws = win[w].ws'
  /\ win[w].sticky = win[w].sticky'
  /\ win[w].goal' \in {win[w].goal, None}
  /\ win[w].leaving' => win[w].leaving

Obsolete ==
  \/ op.pc # "idle" /\ op.req.stale
  \/ op.pc = "idle" /\ queue # <<>> /\ Head(queue).stale

(* An obsolete request touches nothing: once the monitors have changed, a  *)
(* logout has begun, the caller has withdrawn, the window has gone or the  *)
(* grab has ended, no window, workspace or pair is changed for it, however *)
(* long after, and also when layout is allowed again (_layoutGuard and     *)
(* layoutSafety.generation).                                               *)
StaleTouchesNothing ==
  [][Obsolete => /\ \A w \in Windows : NothingAsked(w)
                 /\ workspaces' <= workspaces
                 /\ \A w \in Windows : tiling'.tile[w] \in {tiling.tile[w], None}
    ]_layoutVars

(* Mutter is asked to change only windows that exist and stand on a        *)
(* monitor that exists, to go to monitors and workspaces that exist, and   *)
(* not while the monitors are settling or the session ends.                *)
OnlyUsableTouched ==
  [][\A w \in Windows : ~NothingAsked(w) =>
       /\ win[w].alive /\ win[w].monitor < monitors
       /\ ~shutdown /\ ~blocked /\ ~destroyed
       /\ win[w].goal' # None => win[w].goal' < monitors \/ win[w].goal' = win[w].goal
       /\ win[w].ws' < workspaces \/ win[w].ws' = win[w].ws
    ]_layoutVars

(* No frame is set while a window is maximized or fullscreen, whatever the *)
(* user or Mutter did since unmaximize() was called: Mutter can crash on   *)
(* it (the comments in _restoreWindowGeometry).                            *)
NoResizeWhileMaximized ==
  [][\A w \in Windows :
       win'[w].frame # win[w].frame => ~win[w].max /\ ~win[w].full]_layoutVars

(* A record is used for one window, once, and is marked as used only when  *)
(* the window really is on the workspace it was saved on (or everywhere).  *)
RecordUsedOnce ==
  [][\A r \in Records : moved'[r] # moved[r] =>
       /\ moved[r] = None
       /\ LET w == win[moved'[r]]
          IN w.alive /\ (w.ws = Saved[r].ws \/ (w.sticky /\ Saved[r].sticky))
    ]_layoutVars

(* Whatever the desktop does or fails to do, an operation releases the     *)
(* compositor queue, and the queue drains: no raise or resize feeds itself *)
(* and no wait for Mutter is endless.                                      *)
QueueDrains == []<>(op.pc = "idle" /\ queue = <<>>)
=============================================================================
