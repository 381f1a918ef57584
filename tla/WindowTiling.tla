---------------------------- MODULE WindowTiling ----------------------------
(***************************************************************************)
(* Pairs of windows that were tiled side by side (windowTilingSupport.js). *)
(* A pair is raised together and resized together; it ends when a member   *)
(* is dragged away or unmanaged.  Raises and resizes go through the        *)
(* compositor queue, so they may run long after the event they answer.     *)
(*                                                                         *)
(* The settings restore-window-tiling and raise-windows-together are on.   *)
(***************************************************************************)
EXTENDS LayoutSafety, Sequences, FiniteSets

CONSTANTS Windows, Records, None

VARIABLES
  monitors,   \* global.display.get_n_monitors()
  win,        \* what Mutter knows of each window
  tiling,     \* the state of WindowTilingSupport
  queue,      \* requests waiting in the compositor queue, oldest first
  destroyed   \* the extension is disabled

TilingType ==
  [tile : [Windows -> Windows \cup {None}],  \* _tile_match_awsm
   connected : SUBSET Windows,               \* _signalsConnectedMap
   raises : SUBSET Windows,                  \* _pendingRaises
   resizes : SUBSET (Windows \X Nat),        \* _pendingResizeRequests
   sized : Windows \cup {None},              \* _sizeChangedWindow
   resizeGen : Nat,                          \* _resizeGeneration
   moving : SUBSET Windows]                  \* _grabbedWindowsAboutToUntileMap

TilingInit ==
  tiling = [tile |-> [w \in Windows |-> None], connected |-> {}, raises |-> {},
            resizes |-> {}, sized |-> None, resizeGen |-> 0, moving |-> {}]

(* A request remembers the generations it was made in.  stale is a history *)
(* variable: something has happened that makes the request obsolete.       *)
Request(kind, w, x) ==
  [kind |-> kind, w |-> w, x |-> x, gen |-> generation,
   resizeGen |-> tiling.resizeGen, current |-> TRUE, stale |-> FALSE]

(* Mutant of IsWindowUsable: a monitor that is gone is not noticed.        *)
IsWindowAlive(w) == win[w].alive

IsWindowUsable(w) == win[w].alive /\ win[w].monitor < monitors

Mutual(t, w) == t.tile[w] # None /\ t.tile[t.tile[w]] = w

PairIsUsable(w, p) ==
  /\ w # p /\ ~destroyed /\ MayRestoreLayout(generation)
  /\ IsWindowUsable(w) /\ IsWindowUsable(p)
  /\ win[w].monitor = win[p].monitor /\ win[w].ws = win[p].ws

StopResize(t) ==
  [t EXCEPT !.sized = None, !.resizes = {}, !.resizeGen = @ + 1]

Detach(t, w) ==
  LET p == t.tile[w]
      members == {w} \cup (IF Mutual(t, w) THEN {p} ELSE {})
      s == IF t.sized \in {w, p} \ {None} THEN StopResize(t) ELSE t
  IN [s EXCEPT !.tile = [v \in Windows |-> IF v \in members THEN None ELSE @[v]],
               !.connected = @ \ members, !.moving = @ \ members]

(* prepareToTile, called while a saved layout is applied to w.             *)
PrepareToTile(t, w, p) ==
  IF ~PairIsUsable(w, p) \/ (t.tile[w] = p /\ t.tile[p] = w) THEN t
  ELSE LET d == Detach(Detach(t, w), p)
       IN [d EXCEPT !.tile[w] = p, !.tile[p] = w, !.connected = @ \cup {w, p}]

-----------------------------------------------------------------------------
(* A window is raised by the user; its partner follows through the queue.  *)
Raised(w) ==
  LET p == tiling.tile[w]
  IN /\ w \in tiling.connected /\ p # None
     /\ PairIsUsable(w, p) /\ Mutual(tiling, w)
     /\ {w, p} \cap tiling.raises = {}
     /\ tiling' = [tiling EXCEPT !.raises = @ \cup {w, p}]
     /\ queue' = Append(queue, Request("raise", w, p))

GrabBegin(w, moving) ==
  LET t == StopResize(tiling)
      p == t.tile[w]
  IN tiling' = IF p # None /\ PairIsUsable(w, p) /\ Mutual(t, w)
               THEN IF moving THEN [t EXCEPT !.moving = @ \cup {w}]
                              ELSE [t EXCEPT !.sized = w]
               ELSE t

GrabEnd(w, changed) ==
  LET t == StopResize(tiling)
      ended == [t EXCEPT !.moving = @ \ {w}]
  IN tiling' = IF /\ w \in t.moving /\ changed
                  /\ ~destroyed /\ MayRestoreLayout(generation) /\ IsWindowUsable(w)
               THEN Detach(ended, w) ELSE ended

MayResize(w, p, rgen) ==
  /\ rgen = tiling.resizeGen /\ tiling.sized = w
  /\ p # None /\ PairIsUsable(w, p)
  /\ tiling.tile[w] = p /\ tiling.tile[p] = w
  /\ ~win[w].full /\ ~win[p].full
  /\ ~win[p].max           \* allows_resize()

(* The grabbed window changes size: one request at a time is queued.       *)
SizeChanged(w) ==
  LET p == tiling.tile[w]
  IN /\ MayResize(w, p, tiling.resizeGen)
     /\ \A r \in tiling.resizes : r[1] # w
     /\ tiling' = [tiling EXCEPT !.resizes = @ \cup {<<w, tiling.resizeGen>>}]
     /\ queue' = Append(queue, Request("resize", w, p))

(* Mutant of MayDispatch: the generation is read at the dispatch.          *)
MayDispatchNow(r) == r.current /\ ~destroyed /\ MayRestoreLayout(generation)

(* _queueOperation's dispatch check: the queue's turn has come.            *)
MayDispatch(r) == r.current /\ ~destroyed /\ MayRestoreLayout(r.gen)

MayRaise(r) ==
  /\ MayDispatch(r) /\ PairIsUsable(r.w, r.x)
  /\ tiling.tile[r.w] = r.x /\ tiling.tile[r.x] = r.w

(* Mutant of Settled: the pending marks outlive a skipped request.         *)
SettledIfRun(r) == IF MayRaise(r) THEN [tiling EXCEPT !.raises = @ \ {r.w, r.x}] ELSE tiling

Settled(r) ==
  IF r.kind = "raise" THEN [tiling EXCEPT !.raises = @ \ {r.w, r.x}]
                      ELSE [tiling EXCEPT !.resizes = @ \ {<<r.w, r.resizeGen>>}]

Waiting(kind) == queue # <<>> /\ Head(queue).kind = kind

(* The partner is raised.  raise() emits raised at once; the members are   *)
(* still listed as pending, so that this echo queues nothing.              *)
RaisePartner ==
  /\ Waiting("raise") /\ MayRaise(Head(queue))
  /\ tiling' = Settled(Head(queue))
  /\ queue' = Tail(queue)

ResizePartner ==
  LET r == Head(queue)
  IN /\ Waiting("resize") /\ MayDispatch(r) /\ MayResize(r.w, r.x, r.resizeGen)
     /\ tiling' = Settled(r)
     /\ queue' = Tail(queue)
     /\ win' = [win EXCEPT ![r.x].frame = <<"pair", r.w>>]

(* The pair is gone, the grab is over or the layout has changed meanwhile. *)
SkipPartner ==
  LET r == Head(queue)
  IN /\ \/ Waiting("raise") /\ ~MayRaise(r)
        \/ Waiting("resize") /\ ~(MayDispatch(r) /\ MayResize(r.w, r.x, r.resizeGen))
     /\ tiling' = Settled(r)
     /\ queue' = Tail(queue)

(* WindowTilingSupport.destroy *)
TilingDestroyed(t) ==
  [StopResize(t) EXCEPT
     !.tile = [v \in Windows |-> IF t.tile[v] \in t.connected \/ v \in t.connected
                                THEN None ELSE t.tile[v]],
     !.connected = {}, !.moving = {}]

(* The members of a pair know each other, are watched, and still exist; a  *)
(* drag or a resize is only followed for a window that has a partner.      *)
PairsAreMutual ==
  /\ \A w \in Windows : tiling.tile[w] # None =>
       /\ tiling.tile[w] # w /\ Mutual(tiling, w) /\ win[w].alive
  /\ tiling.connected = {w \in Windows : tiling.tile[w] # None}
  /\ tiling.sized # None => tiling.tile[tiling.sized] # None
  /\ tiling.moving \subseteq tiling.connected
=============================================================================
