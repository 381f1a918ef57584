------------------------- MODULE WindowLayoutProofs -------------------------
(***************************************************************************)
(* Proofs about WindowLayout, for any finite sets of windows and records,  *)
(* any saved fields and any bounds.                                        *)
(***************************************************************************)
EXTENDS WindowLayout, SequenceTheorems, FiniteSetTheorems, WellFoundedInduction, TLAPS

OpType ==
  [pc : PCs, req : RequestType \cup {None}, pairs : SUBSET Match, w : Windows \cup {None},
   r : Records \cup {None}, target : Nat \cup {None}, polls : Nat]

(* Which windows a request speaks of.                                      *)
RequestShape(q) ==
  /\ q \in RequestType
  /\ IF q.kind = "app" THEN q.w = None ELSE q.w \in Windows
  /\ IF q.kind \in {"raise", "resize"} THEN q.x \in Windows ELSE q.x = None

(* What an operation works with.  A request for one window ends where an   *)
(* application would go on with its next one.                              *)
OpShape(o) ==
  /\ o \in OpType
  /\ o.pc = "idle" <=> o = Idle
  /\ o.pc # "idle" =>
       /\ o.req \in RequestType /\ o.req.kind \in {"window", "app"}
       /\ o.pc # "next" => o.w \in Windows /\ o.r \in Records
       /\ o.req.kind = "window" => o.pc # "paced" /\ o.pc # "next"
       /\ o.pc = "monitorWait" => o.target \in Nat

LayoutShape ==
  /\ SafetyTypeOK /\ monitors \in 1..MaxMonitors /\ destroyed \in BOOLEAN
  /\ win \in [Windows -> WindowType] /\ tiling \in TilingType
  /\ queue \in Seq(RequestType) /\ \A i \in DOMAIN queue : RequestShape(queue[i])
  /\ OpShape(op)
  /\ moved \in [Records -> Windows \cup {None}]
  /\ workspaces \in 1..MaxWorkspaces

(* The guards of a request that became obsolete will always see why: what  *)
(* made it obsolete is never undone, since generations only grow and a     *)
(* window that is gone does not return.                                    *)
Refused(q) == ~q.current \/ destroyed \/ q.gen # generation

QueuedReason(q) ==
  \/ Refused(q)
  \/ q.kind # "app" /\ ~win[q.w].alive
  \/ q.kind \in {"raise", "resize"} /\ ~win[q.x].alive
  \/ q.kind = "resize" /\ q.resizeGen # tiling.resizeGen

QueuedRefusal(q) ==
  /\ q.gen <= generation /\ q.resizeGen <= tiling.resizeGen
  /\ q.stale => QueuedReason(q)

QueuedIsRefused == \A i \in DOMAIN queue : QueuedRefusal(queue[i])

RunningReason(q) == Refused(q) \/ (q.kind = "window" /\ ~win[op.w].alive)

RunningIsRefused ==
  op.pc # "idle" => op.req.gen <= generation /\ (op.req.stale => RunningReason(op.req))

(* The record in hand is not used up, and the window that will be marked   *)
(* with it is where it should be.                                          *)
Active == op.pc \notin {"idle", "next", "paced"}

RecordInHand ==
  /\ Active => moved[op.r] = None
  /\ op.pc = "finish" => \/ win[op.w].ws = Saved[op.r].ws
                         \/ win[op.w].sticky /\ Saved[op.r].sticky

LayoutIndInvariant ==
  /\ LayoutShape
  /\ PairsAreMutual
  /\ PendingIsQueued
  /\ QueuedIsRefused
  /\ RunningIsRefused
  /\ RecordInHand

-----------------------------------------------------------------------------
(* The least of some natural numbers, and the greater of two.              *)
LEMMA MinIsOne ==
  ASSUME NEW S \in SUBSET Nat, S # {}
  PROVE  Min(S) \in S
<1> DEFINE R == OpToRel(<, Nat)
<1>1. IsWellFoundedOn(R, Nat)
  BY NatLessThanWellFounded
<1>2. \A a, b \in Nat : a < b => <<a, b>> \in R
  BY DEF OpToRel
<1> HIDE DEF R
<1>3. PICK x \in S : \A y \in S : ~ (<<y, x>> \in R)
  BY <1>1, WFMin
<1>4. \A y \in S : x <= y
  <2> SUFFICES ASSUME NEW y \in S PROVE x <= y
    OBVIOUS
  <2>1. x \in Nat /\ y \in Nat /\ ~ (y < x)
    BY <1>2, <1>3
  <2>2. QED
    BY <2>1
<1>5. QED
  BY <1>4 DEF Min

LEMMA MaxOfTwo ==
  ASSUME NEW a \in Nat, NEW b \in Nat
  PROVE  Max({a, b}) = IF a < b THEN b ELSE a
<1> DEFINE c == IF a < b THEN b ELSE a
<1>1. c \in {a, b} /\ \A y \in {a, b} : c >= y
  OBVIOUS
<1>2. \A x \in {a, b} : (\A y \in {a, b} : x >= y) => x = c
  OBVIOUS
<1>3. QED
  BY <1>1, <1>2 DEF Max

-----------------------------------------------------------------------------
(* The operators on pairs.                                                 *)

(* PairsAreMutual of a state of the pairs, without what it says of windows *)
Paired(t) ==
  /\ \A w \in Windows : t.tile[w] # None => t.tile[w] # w /\ Mutual(t, w)
  /\ t.connected = {w \in Windows : t.tile[w] # None}
  /\ t.sized # None => t.tile[t.sized] # None
  /\ t.moving \subseteq t.connected

LEMMA NoneIsNoWindow == None \notin Windows /\ None \notin Records
BY LayoutAssumption

LEMMA PairsSplit ==
  PairsAreMutual <=> Paired(tiling) /\ \A w \in Windows : tiling.tile[w] # None => win[w].alive
BY DEF PairsAreMutual, Paired

LEMMA StopResizeEffect ==
  ASSUME NEW t \in TilingType
  PROVE  /\ StopResize(t) \in TilingType
         /\ StopResize(t).tile = t.tile /\ StopResize(t).connected = t.connected
         /\ StopResize(t).raises = t.raises /\ StopResize(t).moving = t.moving
         /\ StopResize(t).sized = None /\ StopResize(t).resizes = {}
         /\ StopResize(t).resizeGen = t.resizeGen + 1
         /\ Paired(t) => Paired(StopResize(t))
<1> DEFINE g == t.resizeGen + 1
           r == [t EXCEPT !.sized = None, !.resizes = {}, !.resizeGen = g]
<1>1. g \in Nat
  BY DEF TilingType
<1> HIDE DEF g
<1>2. r \in TilingType
  BY <1>1 DEF TilingType
<1>3. /\ r.tile = t.tile /\ r.connected = t.connected
      /\ r.raises = t.raises /\ r.moving = t.moving
      /\ r.sized = None /\ r.resizes = {} /\ r.resizeGen = g
  BY DEF TilingType
<1>4. StopResize(t) = r
  BY DEF StopResize, g
<1> HIDE DEF r
<1>5. QED
  BY <1>2, <1>3, <1>4 DEF Paired, Mutual, g

(* Detaching dissolves the pair of a window, if it has one, and else       *)
(* changes nothing but a resize in progress.                               *)
LEMMA DetachEffect ==
  ASSUME NEW t \in TilingType, NEW w \in Windows, Paired(t)
  PROVE  LET d == Detach(t, w) IN
         /\ d \in TilingType /\ Paired(d)
         /\ \A v \in Windows : d.tile[v] = IF v \in {w, t.tile[w]} THEN None ELSE t.tile[v]
         /\ d.raises = t.raises /\ d.resizes \subseteq t.resizes
         /\ d.resizeGen >= t.resizeGen
<1> DEFINE p == t.tile[w]
           members == {w} \cup (IF Mutual(t, w) THEN {p} ELSE {})
           s == IF t.sized \in {w, p} \ {None} THEN StopResize(t) ELSE t
           f == [v \in Windows |-> IF v \in members THEN None ELSE s.tile[v]]
           d == [s EXCEPT !.tile = f, !.connected = @ \ members, !.moving = @ \ members]
<1>1. p \in Windows \cup {None} /\ t.resizeGen \in Nat
  BY DEF TilingType
<1>2. /\ s \in TilingType /\ s.tile = t.tile /\ s.connected = t.connected
      /\ s.raises = t.raises /\ s.moving = t.moving
      /\ s.resizes \subseteq t.resizes /\ s.resizeGen >= t.resizeGen
      /\ s.sized # None => s.sized = t.sized /\ s.sized \notin {w, p}
  BY <1>1, StopResizeEffect
<1>3. members = IF p = None THEN {w} ELSE {w, p}
  BY <1>1 DEF Paired, Mutual
<1>4. f \in [Windows -> Windows \cup {None}]
      /\ \A v \in Windows : f[v] = IF v \in {w, p} THEN None ELSE t.tile[v]
  BY <1>1, <1>2, <1>3, NoneIsNoWindow DEF TilingType
<1> HIDE DEF s, f, members
<1>5. /\ d \in TilingType /\ d.tile = f /\ d.connected = t.connected \ members
      /\ d.moving = t.moving \ members /\ d.sized = s.sized
      /\ d.raises = t.raises /\ d.resizes = s.resizes /\ d.resizeGen = s.resizeGen
  BY <1>2, <1>4 DEF TilingType
<1>6. Detach(t, w) = d
  BY DEF Detach, s, f, members
<1> HIDE DEF d
<1>7. Paired(d)
  <2>1. \A v \in Windows : f[v] # None => f[v] # v /\ f[v] \in Windows /\ f[f[v]] = v
    BY <1>1, <1>4, NoneIsNoWindow DEF Paired, Mutual, TilingType
  <2>2. t.connected \ members = {v \in Windows : f[v] # None}
    BY <1>1, <1>3, <1>4, NoneIsNoWindow DEF Paired
  <2>3. s.sized # None => f[s.sized] # None
    BY <1>2, <1>4, NoneIsNoWindow DEF Paired, TilingType
  <2>4. QED
    BY <1>5, <2>1, <2>2, <2>3 DEF Paired, Mutual
<1>8. QED
  BY <1>2, <1>4, <1>5, <1>6, <1>7

(* Two windows become a pair once each has left its own.                   *)
LEMMA PrepareToTileEffect ==
  ASSUME NEW t \in TilingType, NEW w \in Windows, NEW p \in Windows, Paired(t),
         \A v \in Windows : t.tile[v] # None => win[v].alive
  PROVE  LET d == PrepareToTile(t, w, p) IN
         /\ d \in TilingType /\ Paired(d)
         /\ \A v \in Windows : d.tile[v] # None => win[v].alive
         /\ d.raises = t.raises /\ d.resizes \subseteq t.resizes
         /\ d.resizeGen >= t.resizeGen
<1> DEFINE a == Detach(t, w)
           b == Detach(a, p)
           f == [v \in Windows |-> IF v = w THEN p ELSE IF v = p THEN w ELSE b.tile[v]]
           d == [b EXCEPT !.tile = f, !.connected = @ \cup {w, p}]
<1>1. CASE ~PairIsUsable(w, p) \/ (t.tile[w] = p /\ t.tile[p] = w)
  <2>1. PrepareToTile(t, w, p) = t
    BY <1>1 DEF PrepareToTile
  <2>2. t.resizeGen \in Nat
    BY DEF TilingType
  <2>3. QED
    BY <2>1, <2>2
<1>2. CASE PairIsUsable(w, p) /\ ~(t.tile[w] = p /\ t.tile[p] = w)
  <2>1. /\ a \in TilingType /\ Paired(a)
        /\ \A v \in Windows : a.tile[v] = IF v \in {w, t.tile[w]} THEN None ELSE t.tile[v]
        /\ a.raises = t.raises /\ a.resizes \subseteq t.resizes
        /\ a.resizeGen >= t.resizeGen
    BY DetachEffect
  <2>2. /\ b \in TilingType /\ Paired(b)
        /\ \A v \in Windows : b.tile[v] = IF v \in {p, a.tile[p]} THEN None ELSE a.tile[v]
        /\ b.raises = a.raises /\ b.resizes \subseteq a.resizes
        /\ b.resizeGen >= a.resizeGen
    BY <2>1, DetachEffect DEF a
  <2>3. w # p /\ win[w].alive /\ win[p].alive
    BY <1>2 DEF PairIsUsable, IsWindowUsable
  <2>4. t.resizeGen \in Nat /\ a.resizeGen \in Nat /\ b.resizeGen \in Nat
    BY <2>1, <2>2 DEF TilingType
  <2>5. PrepareToTile(t, w, p) = d
    <3>1. b.tile \in [Windows -> Windows \cup {None}]
      BY <2>2 DEF TilingType
    <3>2. [[b.tile EXCEPT ![w] = p] EXCEPT ![p] = w] = f
      BY <3>1, <2>3
    <3>3. PrepareToTile(t, w, p)
            = [[[b EXCEPT !.tile[w] = p] EXCEPT !.tile[p] = w] EXCEPT !.connected = @ \cup {w, p}]
      BY <1>2 DEF PrepareToTile, a, b
    <3>4. [[b EXCEPT !.tile[w] = p] EXCEPT !.tile[p] = w] = [b EXCEPT !.tile = f]
      BY <3>1, <3>2, <2>2 DEF TilingType
    <3>5. QED
      BY <3>3, <3>4, <2>2 DEF TilingType
  <2>6. b.tile[w] = None /\ b.tile[p] = None
    BY <2>1, <2>2
  <2>7. \A v \in Windows \ {w, p} : b.tile[v] \notin {w, p} /\ b.tile[v] \in Windows \cup {None}
    BY <2>2, <2>6, NoneIsNoWindow DEF Paired, Mutual, TilingType
  <2> HIDE DEF a
  <2>8. f \in [Windows -> Windows \cup {None}]
    BY <2>7
  <2>9. \A v \in Windows : f[v] = IF v = w THEN p ELSE IF v = p THEN w ELSE b.tile[v]
    OBVIOUS
  <2> HIDE DEF b, f
  <2>10. /\ d \in TilingType /\ d.tile = f /\ d.connected = b.connected \cup {w, p}
         /\ d.moving = b.moving /\ d.sized = b.sized /\ d.raises = b.raises
         /\ d.resizes = b.resizes /\ d.resizeGen = b.resizeGen
    BY <2>2, <2>8 DEF TilingType
  <2> HIDE DEF d
  <2>11. Paired(d)
    <3>1. \A v \in Windows : f[v] # None => f[v] # v /\ f[v] \in Windows /\ f[f[v]] = v
      <4> SUFFICES ASSUME NEW v \in Windows, f[v] # None
                   PROVE  f[v] # v /\ f[v] \in Windows /\ f[f[v]] = v
        OBVIOUS
      <4>1. CASE v \in {w, p}
        BY <4>1, <2>9, <2>3
      <4>2. CASE v \notin {w, p}
        <5>1. f[v] = b.tile[v] /\ b.tile[v] \in Windows /\ b.tile[v] \notin {w, p}
          BY <4>2, <2>7, <2>9
        <5>2. b.tile[v] # v /\ b.tile[b.tile[v]] = v
          BY <5>1, <2>2, NoneIsNoWindow DEF Paired, Mutual
        <5>3. QED
          BY <5>1, <5>2, <2>9
      <4>3. QED
        BY <4>1, <4>2
    <3>2. b.connected \cup {w, p} = {v \in Windows : f[v] # None}
      BY <2>2, <2>9, NoneIsNoWindow DEF Paired
    <3>3. b.sized # None => f[b.sized] # None
      BY <2>2, <2>9, NoneIsNoWindow DEF Paired, TilingType
    <3>4. b.moving \subseteq b.connected
      BY <2>2 DEF Paired
    <3>5. QED
      BY <2>10, <3>1, <3>2, <3>3, <3>4 DEF Paired, Mutual
  <2>12. \A v \in Windows : f[v] # None => win[v].alive
    BY <2>1, <2>2, <2>3, <2>9
  <2>13. QED
    BY <2>1, <2>2, <2>4, <2>5, <2>10, <2>11, <2>12
<1>3. QED
  BY <1>1, <1>2

(* Disabling the extension dissolves every pair.                           *)
LEMMA TilingDestroyedEffect ==
  ASSUME NEW t \in TilingType, Paired(t)
  PROVE  LET d == TilingDestroyed(t) IN
         /\ d \in TilingType /\ Paired(d)
         /\ \A v \in Windows : d.tile[v] = None
         /\ d.raises = t.raises /\ d.resizes = {} /\ d.resizeGen = t.resizeGen + 1
<1> DEFINE s == StopResize(t)
           f == [v \in Windows |-> IF t.tile[v] \in t.connected \/ v \in t.connected
                                  THEN None ELSE t.tile[v]]
           d == [s EXCEPT !.tile = f, !.connected = {}, !.moving = {}]
<1>1. /\ s \in TilingType /\ s.raises = t.raises /\ s.sized = None
      /\ s.resizes = {} /\ s.resizeGen = t.resizeGen + 1
  BY StopResizeEffect
<1>2. \A v \in Windows : f[v] = None
  BY DEF Paired
<1>3. f \in [Windows -> Windows \cup {None}]
  BY <1>2
<1>4. TilingDestroyed(t) = d
  BY DEF TilingDestroyed
<1> HIDE DEF s, f
<1>5. /\ d \in TilingType /\ d.tile = f /\ d.connected = {} /\ d.moving = {}
      /\ d.sized = None /\ d.raises = t.raises /\ d.resizes = {}
      /\ d.resizeGen = t.resizeGen + 1
  BY <1>1, <1>3 DEF TilingType
<1> HIDE DEF d
<1>6. Paired(d)
  BY <1>2, <1>5 DEF Paired
<1>7. QED
  BY <1>2, <1>4, <1>5, <1>6

-----------------------------------------------------------------------------
(* The steps of an operation.                                              *)

(* The operation ends, or goes on with the same request.                   *)
OpStays ==
  \/ op' = Idle
  \/ /\ op.pc # "idle" /\ op'.pc # "idle" /\ OpShape(op')
     /\ op'.req = op.req
     /\ op.req.kind = "window" => op'.w = op.w

TilingStays ==
  /\ tiling' \in TilingType /\ Paired(tiling')
  /\ \A w \in Windows : tiling'.tile[w] # None => win[w].alive
  /\ tiling'.raises = tiling.raises /\ tiling'.resizes \subseteq tiling.resizes
  /\ tiling'.resizeGen >= tiling.resizeGen

WindowsStay ==
  /\ win' \in [Windows -> WindowType]
  /\ \A w \in Windows : win'[w].alive = win[w].alive

LEMMA IdleShape == OpShape(Idle) /\ Idle.pc = "idle"
BY LayoutAssumption DEF OpShape, OpType, Idle, PCs

LEMMA TilingUnchanged ==
  ASSUME LayoutIndInvariant, UNCHANGED tiling
  PROVE  TilingStays
<1>1. Paired(tiling) /\ \A w \in Windows : tiling.tile[w] # None => win[w].alive
  BY PairsSplit DEF LayoutIndInvariant
<1>2. tiling.resizeGen \in Nat
  BY DEF LayoutIndInvariant, LayoutShape, TilingType
<1>3. QED
  BY <1>1, <1>2 DEF TilingStays, LayoutIndInvariant, LayoutShape

(* The running request keeps its reason as it keeps its window.            *)
LEMMA RunningLasts ==
  ASSUME LayoutIndInvariant, op.pc # "idle",
         generation \in Nat, generation' \in Nat, generation' >= generation,
         destroyed => destroyed',
         \A w \in Windows : win'[w].alive => win[w].alive,
         op'.req = op.req, op.req.kind = "window" => op'.w = op.w
  PROVE  RunningIsRefused'
<1>1. PICK q : q = op.req
  OBVIOUS
<1>2. q \in RequestType /\ (q.kind = "window" => op.w \in Windows)
  BY <1>1 DEF LayoutIndInvariant, LayoutShape, OpShape
<1>3. q.gen <= generation /\ (q.stale => RunningReason(q))
  BY <1>1 DEF LayoutIndInvariant, RunningIsRefused
<1>4. q.gen <= generation'
  BY <1>2, <1>3 DEF RequestType
<1>5. Refused(q) => Refused(q)'
  BY <1>2, <1>3 DEF Refused, RequestType
<1>6. q.kind = "window" /\ ~win[op.w].alive => ~win'[op'.w].alive
  BY <1>1, <1>2
<1>7. RunningReason(q) => RunningReason(q)'
  BY <1>5, <1>6 DEF RunningReason
<1>8. q.gen <= generation' /\ (q.stale => RunningReason(q)')
  BY <1>3, <1>4, <1>7
<1>9. op'.req = q
  BY <1>1
<1>10. QED
  BY <1>8, <1>9 DEF RunningIsRefused, RunningReason, Refused

LEMMA OperationStep ==
  ASSUME LayoutIndInvariant, OpStays, TilingStays, WindowsStay,
         UNCHANGED <<session, queue>>,
         moved' \in [Records -> Windows \cup {None}],
         workspaces' \in 1..MaxWorkspaces,
         RecordInHand'
  PROVE  LayoutIndInvariant'
<1> USE DEF LayoutIndInvariant
<1>1. OpShape(op')
  BY IdleShape DEF OpStays, LayoutShape
<1>2. LayoutShape'
  BY <1>1 DEF LayoutShape, TilingStays, WindowsStay, session, safety, SafetyTypeOK
<1>3. PairsAreMutual'
  BY DEF TilingStays, WindowsStay, PairsAreMutual, Paired
<1>4. PendingIsQueued'
  BY DEF PendingIsQueued, TilingStays
<1>5. QueuedIsRefused'
  <2> SUFFICES ASSUME NEW i \in DOMAIN queue
               PROVE  QueuedRefusal(queue[i])'
    BY DEF QueuedIsRefused
  <2>1. QueuedRefusal(queue[i]) /\ RequestShape(queue[i])
    BY DEF QueuedIsRefused, LayoutShape
  <2>2. tiling.resizeGen \in Nat /\ tiling'.resizeGen \in Nat
    BY DEF LayoutShape, TilingStays, TilingType
  <2>3. UNCHANGED <<generation, destroyed, queue>>
    BY DEF session, safety
  <2>4. QED
    BY <2>1, <2>2, <2>3 DEF QueuedRefusal, QueuedReason, RequestShape, RequestType, Refused,
       TilingStays, WindowsStay
<1>6. RunningIsRefused'
  <2>1. UNCHANGED <<generation, destroyed>>
    BY DEF session, safety
  <2>2. CASE op' = Idle
    BY <2>2, IdleShape DEF RunningIsRefused
  <2>3. CASE op' # Idle
    <3>1. op.pc # "idle" /\ op'.req = op.req /\ (op.req.kind = "window" => op'.w = op.w)
      BY <2>3 DEF OpStays
    <3>2. generation \in Nat
      BY DEF LayoutShape, SafetyTypeOK
    <3>3. QED
      BY <2>1, <3>1, <3>2, RunningLasts DEF WindowsStay
  <2>4. QED
    BY <2>2, <2>3
<1>7. QED
  BY <1>2, <1>3, <1>4, <1>5, <1>6

(* Within a window: the operation takes its next step or stops.            *)
LEMMA GoOnShape ==
  ASSUME LayoutShape, op.pc # "idle", op.w \in Windows, op.r \in Records,
         NEW pc \in {"state", "geometry", "unmaximizeWait", "tile", "workspaces",
                     "change", "finish"}
  PROVE  /\ OpShape(GoOn(pc)) /\ GoOn(pc).pc = pc
         /\ GoOn(pc).req = op.req /\ GoOn(pc).w = op.w /\ GoOn(pc).r = op.r
<1> DEFINE o == [op EXCEPT !.pc = pc]
<1>1. op \in OpType /\ op.req \in RequestType /\ op.req.kind \in {"window", "app"}
  BY DEF LayoutShape, OpShape
<1>2. o \in OpType
  BY <1>1 DEF OpType, PCs
<1>3. o.pc = pc /\ o.req = op.req /\ o.w = op.w /\ o.r = op.r
  BY <1>1 DEF OpType
<1>4. GoOn(pc) = o
  BY DEF GoOn
<1> HIDE DEF o
<1>5. o # Idle
  BY <1>3, IdleShape
<1>6. QED
  BY <1>1, <1>2, <1>3, <1>4, <1>5 DEF OpShape

LEMMA StoppedShape ==
  ASSUME LayoutShape, op.pc # "idle"
  PROVE  \/ Stopped = Idle /\ op.req.kind = "window"
         \/ /\ OpShape(Stopped) /\ Stopped.pc = "next"
            /\ Stopped.req = op.req /\ op.req.kind = "app"
<1> DEFINE o == [op EXCEPT !.pc = "next"]
<1>1. op \in OpType /\ op.req \in RequestType /\ op.req.kind \in {"window", "app"}
  BY DEF LayoutShape, OpShape
<1>2. o \in OpType
  BY <1>1 DEF OpType, PCs
<1>3. o.pc = "next" /\ o.req = op.req
  BY <1>1 DEF OpType
<1>4. Stopped = IF op.req.kind = "app" THEN o ELSE Idle
  BY DEF Stopped
<1> HIDE DEF o
<1>5. o # Idle
  BY <1>3, IdleShape
<1>6. QED
  BY <1>1, <1>2, <1>3, <1>4, <1>5 DEF OpShape

LEMMA WithinWindow ==
  ASSUME LayoutIndInvariant, Active, UNCHANGED moved,
         \/ op' = Stopped
         \/ \E pc \in {"state", "geometry", "unmaximizeWait", "tile", "workspaces", "change"} :
              op' = GoOn(pc)
         \/ op' = GoOn("finish") /\ \/ win'[op.w].ws = Saved[op.r].ws
                                    \/ win'[op.w].sticky /\ Saved[op.r].sticky
  PROVE  OpStays /\ RecordInHand'
<1>1. LayoutShape /\ op.pc # "idle" /\ op.w \in Windows /\ op.r \in Records
  BY DEF LayoutIndInvariant, LayoutShape, OpShape, Active
<1>2. moved[op.r] = None
  BY DEF LayoutIndInvariant, RecordInHand
<1>3. CASE op' = Stopped
  BY <1>1, <1>3, StoppedShape, IdleShape DEF OpStays, RecordInHand, Active
<1>4. CASE \E pc \in {"state", "geometry", "unmaximizeWait", "tile", "workspaces", "change"} :
             op' = GoOn(pc)
  BY <1>1, <1>2, <1>4, GoOnShape DEF OpStays, RecordInHand, Active
<1>5. CASE op' = GoOn("finish") /\ \/ win'[op.w].ws = Saved[op.r].ws
                                   \/ win'[op.w].sticky /\ Saved[op.r].sticky
  <2> DEFINE o == GoOn("finish")
  <2>0. OpShape(o) /\ o.pc = "finish" /\ o.req = op.req /\ o.w = op.w /\ o.r = op.r
    BY <1>1, GoOnShape
  <2> HIDE DEF o
  <2>1. /\ OpShape(op') /\ op'.pc = "finish"
        /\ op'.req = op.req /\ op'.w = op.w /\ op'.r = op.r
    <3>1. op' = o
      BY <1>5 DEF o
    <3>2. QED
      BY <2>0, <3>1
  <2>2. OpStays
    BY <1>1, <2>1 DEF OpStays
  <2>3. RecordInHand'
    BY <1>2, <1>5, <2>1 DEF RecordInHand
  <2>4. QED
    BY <2>2, <2>3
<1>6. QED
  BY <1>3, <1>4, <1>5

LEMMA WindowsUnchanged ==
  ASSUME LayoutShape, UNCHANGED win
  PROVE  WindowsStay
BY DEF WindowsStay, LayoutShape

(* The monitors, saved or chosen, are numbers.                             *)
LEMMA TargetIsMonitor ==
  ASSUME LayoutShape, NEW w \in Windows, NEW r \in Records, NEW m \in Wanted(r)
  PROVE  TargetMonitor(w, r, m) \in Nat
<1>1. Primary(w) \in Nat
  BY LayoutAssumption DEF Primary, LayoutShape, WindowType
<1>2. m \in 0..(monitors - 1) => m \in Nat
  BY DEF LayoutShape
<1>3. QED
  BY <1>1, <1>2 DEF TargetMonitor

LEMMA RestoreMonitorStep ==
  ASSUME LayoutIndInvariant, RestoreMonitor
  PROVE  LayoutIndInvariant'
<1>1. LayoutShape /\ op.pc = "monitor" /\ Active /\ op.w \in Windows /\ op.r \in Records
  BY DEF RestoreMonitor, LayoutIndInvariant, LayoutShape, OpShape, Active
<1>2. UNCHANGED <<session, queue, tiling, moved, workspaces>>
  BY DEF RestoreMonitor, results
<1>3. WindowsStay /\ OpStays /\ RecordInHand'
  <2>1. CASE ~CanMove(op.w, op.req)
    BY <1>1, <1>2, <2>1, WithinWindow, WindowsUnchanged DEF RestoreMonitor
  <2>2. CASE CanMove(op.w, op.req)
    <3>1. PICK m \in Wanted(op.r) :
            LET t == TargetMonitor(op.w, op.r, m)
            IN IF t = win[op.w].monitor
               THEN op' = GoOn("state") /\ UNCHANGED win
               ELSE /\ op' = [GoOn("monitorWait") EXCEPT !.target = t]
                    /\ win' = [win EXCEPT ![op.w].goal = t]
      BY <2>2 DEF RestoreMonitor
    <3> DEFINE t == TargetMonitor(op.w, op.r, m)
    <3>2. t \in Nat
      BY <1>1, TargetIsMonitor
    <3> HIDE DEF t
    <3>3. CASE t = win[op.w].monitor
      BY <1>1, <1>2, <3>1, <3>3, WithinWindow, WindowsUnchanged DEF t
    <3>4. CASE t # win[op.w].monitor
      <4>1. win' = [win EXCEPT ![op.w].goal = t]
        BY <3>1, <3>4 DEF t
      <4>2. WindowsStay
        <5> DEFINE v == win[op.w]
                   u == [v EXCEPT !.goal = t]
        <5>1. v \in WindowType
          BY <1>1 DEF LayoutShape
        <5>2. u \in WindowType /\ u.alive = v.alive
          BY <3>2, <5>1 DEF WindowType
        <5>3. win' = [win EXCEPT ![op.w] = u]
          BY <4>1
        <5> HIDE DEF u
        <5>4. QED
          BY <1>1, <5>2, <5>3 DEF WindowsStay, LayoutShape
      <4> DEFINE o == [op EXCEPT !.pc = "monitorWait", !.target = t]
      <4>3. op \in OpType /\ op.req \in RequestType /\ op.req.kind \in {"window", "app"}
        BY <1>1 DEF LayoutShape, OpShape
      <4>4. o \in OpType
        BY <3>2, <4>3 DEF OpType, PCs
      <4>5. /\ o.pc = "monitorWait" /\ o.req = op.req /\ o.w = op.w
            /\ o.r = op.r /\ o.target = t
        BY <4>3 DEF OpType
      <4>6. op' = o
        BY <3>1, <3>4, <4>3 DEF t, GoOn, OpType
      <4> HIDE DEF o
      <4>7. OpShape(o)
        BY <1>1, <3>2, <4>3, <4>4, <4>5, IdleShape DEF OpShape
      <4>8. OpStays
        BY <1>1, <4>5, <4>6, <4>7 DEF OpStays
      <4>9. RecordInHand'
        BY <1>1, <1>2, <4>5, <4>6 DEF LayoutIndInvariant, RecordInHand, Active
      <4>10. QED
        BY <4>2, <4>8, <4>9
    <3>5. QED
      BY <3>3, <3>4
  <2>3. QED
    BY <2>1, <2>2
<1>4. QED
  BY <1>1, <1>2, <1>3, OperationStep, TilingUnchanged DEF LayoutShape

LEMMA MonitorTimeoutStep ==
  ASSUME LayoutIndInvariant, MonitorTimeout
  PROVE  LayoutIndInvariant'
<1>1. LayoutShape /\ Active
  BY DEF MonitorTimeout, LayoutIndInvariant, Active
<1>2. UNCHANGED <<session, queue, win, tiling, moved, workspaces>>
  BY DEF MonitorTimeout, results
<1>3. op' = Stopped \/ op' = GoOn("state")
  BY DEF MonitorTimeout
<1>4. QED
  BY <1>1, <1>2, <1>3, WithinWindow, OperationStep, TilingUnchanged, WindowsUnchanged
     DEF LayoutShape

LEMMA RestoreWindowStateStep ==
  ASSUME LayoutIndInvariant, RestoreWindowState
  PROVE  LayoutIndInvariant'
<1>1. LayoutShape /\ Active /\ op.w \in Windows /\ op.r \in Records
  BY DEF RestoreWindowState, LayoutIndInvariant, LayoutShape, OpShape, Active
<1>2. UNCHANGED <<session, queue, tiling, moved, workspaces>>
  BY DEF RestoreWindowState, results
<1>3. op' = Stopped \/ op' = GoOn("geometry")
  BY DEF RestoreWindowState
<1>4. WindowsStay
  <2>1. CASE UNCHANGED win
    BY <1>1, <2>1, WindowsUnchanged
  <2>2. CASE CanMove(op.w, op.req)
    <3> DEFINE st == Saved[op.r].sticky
               mx == Saved[op.r].max
               v == win[op.w]
               u == [v EXCEPT !.sticky = @ \/ st, !.max = @ \/ mx, !.leaving = @ /\ ~mx]
    <3>1. v \in WindowType
      BY <1>1 DEF LayoutShape
    <3>2. u \in WindowType /\ u.alive = v.alive
      <4>1. (v.sticky \/ st) \in BOOLEAN /\ (v.max \/ mx) \in BOOLEAN
            /\ (v.leaving /\ ~mx) \in BOOLEAN
        OBVIOUS
      <4>2. QED
        BY <3>1, <4>1 DEF WindowType
    <3>3. win' = [win EXCEPT ![op.w] = u]
      BY <1>1, <2>2 DEF RestoreWindowState, LayoutShape, WindowType
    <3> HIDE DEF u
    <3>4. QED
      BY <1>1, <3>2, <3>3 DEF WindowsStay, LayoutShape
  <2>3. QED
    BY <2>1, <2>2 DEF RestoreWindowState
<1>5. QED
  BY <1>1, <1>2, <1>3, <1>4, WithinWindow, OperationStep, TilingUnchanged DEF LayoutShape

(* One field of one window changes, never whether it exists.               *)
LEMMA FrameSet ==
  ASSUME LayoutShape, NEW w \in Windows, NEW f \in Frames,
         win' = [win EXCEPT ![w].frame = f]
  PROVE  WindowsStay
<1> DEFINE u == [win[w] EXCEPT !.frame = f]
<1>1. win[w] \in WindowType
  BY DEF LayoutShape
<1>2. u \in WindowType /\ u.alive = win[w].alive
  BY <1>1 DEF WindowType
<1> HIDE DEF u
<1>3. win' = [win EXCEPT ![w] = u]
  BY DEF u
<1>4. QED
  BY <1>2, <1>3 DEF WindowsStay, LayoutShape

LEMMA MoveResizeFrameEffect ==
  ASSUME LayoutShape, MoveResizeFrame, op.w \in Windows, op.r \in Records
  PROVE  WindowsStay /\ (op' = Stopped \/ op' = GoOn("tile"))
<1>1. <<"saved", op.r>> \in Frames
  BY DEF Frames
<1>2. QED
  BY <1>1, FrameSet, WindowsUnchanged DEF MoveResizeFrame

LEMMA RestoreGeometryStep ==
  ASSUME LayoutIndInvariant, RestoreGeometry
  PROVE  LayoutIndInvariant'
<1>1. LayoutShape /\ Active /\ op.w \in Windows /\ op.r \in Records
  BY DEF RestoreGeometry, LayoutIndInvariant, LayoutShape, OpShape, Active
<1>2. UNCHANGED <<session, queue, tiling, moved, workspaces>>
  BY DEF RestoreGeometry, results
<1>3. WindowsStay /\ OpStays /\ RecordInHand'
  <2>1. CASE UNCHANGED win /\ (op' = Stopped \/ op' = GoOn("tile"))
    BY <1>1, <1>2, <2>1, WithinWindow, WindowsUnchanged
  <2>2. CASE MoveResizeFrame
    BY <1>1, <1>2, <2>2, MoveResizeFrameEffect, WithinWindow
  <2>3. CASE /\ op' = [GoOn("unmaximizeWait") EXCEPT !.polls = 0]
             /\ win' = [win EXCEPT ![op.w].leaving = TRUE]
    <3>1. WindowsStay
      <4> DEFINE v == win[op.w]
                 u == [v EXCEPT !.leaving = TRUE]
      <4>1. v \in WindowType
        BY <1>1 DEF LayoutShape
      <4>2. u \in WindowType /\ u.alive = v.alive
        BY <4>1 DEF WindowType
      <4>3. win' = [win EXCEPT ![op.w] = u]
        BY <2>3
      <4> HIDE DEF u
      <4>4. QED
        BY <1>1, <4>2, <4>3 DEF WindowsStay, LayoutShape
    <3> DEFINE o == [op EXCEPT !.pc = "unmaximizeWait", !.polls = 0]
    <3>2. op \in OpType /\ op.req \in RequestType /\ op.req.kind \in {"window", "app"}
      BY <1>1 DEF LayoutShape, OpShape, Active
    <3>3. o \in OpType /\ o.pc = "unmaximizeWait" /\ o.req = op.req /\ o.w = op.w /\ o.r = op.r
      BY <3>2 DEF OpType, PCs
    <3>4. op' = o
      BY <2>3, <3>2 DEF GoOn, OpType
    <3> HIDE DEF o
    <3>5. OpShape(o)
      BY <1>1, <3>2, <3>3, IdleShape DEF OpShape
    <3>6. OpStays /\ RecordInHand'
      BY <1>1, <1>2, <3>3, <3>4, <3>5
         DEF OpStays, LayoutIndInvariant, RecordInHand, Active
    <3>7. QED
      BY <3>1, <3>6
  <2>4. QED
    BY <2>1, <2>2, <2>3 DEF RestoreGeometry
<1>4. QED
  BY <1>1, <1>2, <1>3, OperationStep, TilingUnchanged DEF LayoutShape

LEMMA PollUnmaximizeStep ==
  ASSUME LayoutIndInvariant, PollUnmaximize
  PROVE  LayoutIndInvariant'
<1>1. LayoutShape /\ Active /\ op.w \in Windows /\ op.r \in Records
  BY DEF PollUnmaximize, LayoutIndInvariant, LayoutShape, OpShape, Active
<1>2. UNCHANGED <<session, queue, tiling, moved, workspaces>>
  BY DEF PollUnmaximize, results
<1>3. WindowsStay /\ OpStays /\ RecordInHand'
  <2>1. CASE UNCHANGED win /\ op' = Stopped
    BY <1>1, <1>2, <2>1, WithinWindow, WindowsUnchanged
  <2>2. CASE MoveResizeFrame
    BY <1>1, <1>2, <2>2, MoveResizeFrameEffect, WithinWindow
  <2>3. CASE UNCHANGED win /\ op' = [op EXCEPT !.polls = @ + 1]
    <3>1. WindowsStay
      BY <1>1, <2>3, WindowsUnchanged
    <3>2. op \in OpType /\ op.req \in RequestType /\ op.req.kind \in {"window", "app"}
      BY <1>1 DEF LayoutShape, OpShape, Active
    <3> DEFINE n == op.polls + 1
               o == [op EXCEPT !.polls = n]
    <3>3. n \in Nat
      BY <3>2 DEF OpType
    <3> HIDE DEF n
    <3>4. /\ o \in OpType /\ o.pc = op.pc /\ o.req = op.req /\ o.w = op.w
          /\ o.r = op.r /\ o.target = op.target
      BY <3>2, <3>3 DEF OpType, PCs
    <3>5. op' = o
      BY <2>3 DEF n
    <3> HIDE DEF o
    <3>6. op.pc = "unmaximizeWait"
      BY DEF PollUnmaximize
    <3>7. OpShape(o)
      BY <1>1, <3>2, <3>4, <3>6, IdleShape DEF OpShape
    <3>8. OpStays
      BY <3>4, <3>5, <3>6, <3>7 DEF OpStays
    <3>9. RecordInHand'
      BY <1>1, <1>2, <3>4, <3>5, <3>6 DEF LayoutIndInvariant, RecordInHand, Active
    <3>10. QED
      BY <3>1, <3>8, <3>9
  <2>4. QED
    BY <2>1, <2>2, <2>3 DEF PollUnmaximize
<1>4. QED
  BY <1>1, <1>2, <1>3, OperationStep, TilingUnchanged DEF LayoutShape

LEMMA PartnerIsWindow ==
  ASSUME NEW w \in Windows, NEW r \in Records
  PROVE  Partner(w, r) \in Windows \cup {None}
<1> DEFINE usable == {v \in Saved[r].tileApp \ {w} : IsWindowUsable(v)}
<1>1. usable \subseteq Windows /\ Saved[r].tileTitle \in Windows \cup {None}
  BY LayoutAssumption DEF SavedType
<1>2. ASSUME Cardinality(usable) = 1
      PROVE  Min(usable) \in Windows
  <2>1. IsFiniteSet(usable)
    BY <1>1, LayoutAssumption, FS_Subset
  <2>2. usable # {}
    BY <1>2, FS_EmptySet
  <2>3. QED
    BY <1>1, <2>2, LayoutAssumption, MinIsOne
<1>3. QED
  BY <1>1, <1>2 DEF Partner

LEMMA RestoreTilingStep ==
  ASSUME LayoutIndInvariant, RestoreTiling
  PROVE  LayoutIndInvariant'
<1>1. LayoutShape /\ Active /\ op.w \in Windows /\ op.r \in Records
  BY DEF RestoreTiling, LayoutIndInvariant, LayoutShape, OpShape, Active
<1>2. UNCHANGED <<session, queue, win, moved, workspaces>>
  BY DEF RestoreTiling, results
<1>3. op' = Stopped \/ op' = GoOn("workspaces")
  BY DEF RestoreTiling
<1>4. TilingStays
  <2>1. CASE UNCHANGED tiling
    BY <2>1, TilingUnchanged
  <2>2. CASE ~UNCHANGED tiling
    <3> DEFINE p == Partner(op.w, op.r)
    <3>1. p # None /\ tiling' = PrepareToTile(tiling, op.w, p)
      BY <2>2 DEF RestoreTiling
    <3>2. p \in Windows
      BY <1>1, <3>1, PartnerIsWindow
    <3> HIDE DEF p
    <3>3. /\ tiling \in TilingType /\ Paired(tiling)
          /\ \A v \in Windows : tiling.tile[v] # None => win[v].alive
      BY <1>1, PairsSplit DEF LayoutIndInvariant, LayoutShape
    <3>4. QED
      BY <1>1, <3>1, <3>2, <3>3, PrepareToTileEffect DEF TilingStays
  <2>3. QED
    BY <2>1, <2>2
<1>5. QED
  BY <1>1, <1>2, <1>3, <1>4, WithinWindow, OperationStep, WindowsUnchanged DEF LayoutShape

LEMMA CreateWorkspacesStep ==
  ASSUME LayoutIndInvariant, CreateWorkspaces
  PROVE  LayoutIndInvariant'
<1>1. LayoutShape /\ Active /\ op.r \in Records
  BY DEF CreateWorkspaces, LayoutIndInvariant, LayoutShape, OpShape, Active
<1>2. UNCHANGED <<session, queue, win, tiling, moved>>
  BY DEF CreateWorkspaces
<1>3. op' = Stopped \/ op' = GoOn("change")
  BY DEF CreateWorkspaces
<1>4. workspaces' \in 1..MaxWorkspaces
  <2>1. CASE UNCHANGED workspaces
    BY <1>1, <2>1 DEF LayoutShape
  <2>2. CASE ~UNCHANGED workspaces
    <3> DEFINE n == Saved[op.r].ws
    <3>1. n < MaxWorkspaces /\ workspaces' = Max({workspaces, n + 1})
      BY <2>2 DEF CreateWorkspaces, IsValidWorkspaceIndex
    <3>2. n \in Nat /\ MaxWorkspaces \in Nat /\ workspaces \in 1..MaxWorkspaces
      BY <1>1, LayoutAssumption DEF SavedType, LayoutShape
    <3> HIDE DEF n
    <3>3. QED
      BY <3>1, <3>2, MaxOfTwo
  <2>3. QED
    BY <2>1, <2>2
<1>5. QED
  BY <1>1, <1>2, <1>3, <1>4, WithinWindow, OperationStep, TilingUnchanged, WindowsUnchanged
     DEF LayoutShape

LEMMA ChangeWorkspaceStep ==
  ASSUME LayoutIndInvariant, ChangeWorkspace
  PROVE  LayoutIndInvariant'
<1>1. LayoutShape /\ Active /\ op.w \in Windows /\ op.r \in Records
  BY DEF ChangeWorkspace, LayoutIndInvariant, LayoutShape, OpShape, Active
<1>2. UNCHANGED <<session, queue, tiling, moved, workspaces>>
  BY DEF ChangeWorkspace, results
<1>3. WindowsStay /\ OpStays /\ RecordInHand'
  <2>1. CASE UNCHANGED win /\ op' = Stopped
    BY <1>1, <1>2, <2>1, WithinWindow, WindowsUnchanged
  <2>2. CASE UNCHANGED win /\ op' = GoOn("finish") /\ win[op.w].sticky /\ Saved[op.r].sticky
    BY <1>1, <1>2, <2>2, WithinWindow, WindowsUnchanged
  <2>3. CASE op' = GoOn("finish") /\ win' = [win EXCEPT ![op.w].ws = Saved[op.r].ws]
    <3> DEFINE n == Saved[op.r].ws
               v == win[op.w]
               u == [v EXCEPT !.ws = n]
    <3>1. v \in WindowType /\ n \in Nat
      BY <1>1, LayoutAssumption DEF LayoutShape, SavedType
    <3>2. u \in WindowType /\ u.alive = v.alive /\ u.ws = n
      BY <3>1 DEF WindowType
    <3>3. win' = [win EXCEPT ![op.w] = u]
      BY <2>3
    <3>4. WindowsStay /\ win'[op.w].ws = n
      <4> HIDE DEF u, n
      <4>1. QED
        BY <1>1, <3>2, <3>3 DEF WindowsStay, LayoutShape
    <3>5. op' = GoOn("finish") /\ win'[op.w].ws = Saved[op.r].ws
      BY <2>3, <3>4
    <3>6. OpStays /\ RecordInHand'
      BY <1>1, <1>2, <3>5, WithinWindow
    <3>7. QED
      BY <3>4, <3>6
  <2>4. QED
    BY <2>1, <2>2, <2>3 DEF ChangeWorkspace
<1>4. QED
  BY <1>1, <1>2, <1>3, OperationStep, TilingUnchanged DEF LayoutShape

(* Between windows.                                                        *)
LEMMA FinishWindowStep ==
  ASSUME LayoutIndInvariant, FinishWindow
  PROVE  LayoutIndInvariant'
<1>1. LayoutShape /\ op.w \in Windows /\ op.r \in Records /\ op.pc = "finish"
  BY DEF FinishWindow, LayoutIndInvariant, LayoutShape, OpShape
<1>2. UNCHANGED <<session, queue, win, tiling, workspaces>>
  BY DEF FinishWindow
<1>3. moved' \in [Records -> Windows \cup {None}]
  BY <1>1 DEF FinishWindow, LayoutShape
<1>4. OpStays /\ RecordInHand'
  <2>1. CASE op' = Idle
    BY <2>1, IdleShape DEF OpStays, RecordInHand, Active
  <2>2. CASE op.req.kind = "app" /\ op' = GoOn("paced")
    <3> DEFINE o == [op EXCEPT !.pc = "paced"]
    <3>1. op \in OpType /\ op.req \in RequestType
      BY <1>1 DEF LayoutShape, OpShape
    <3>2. o \in OpType /\ o.pc = "paced" /\ o.req = op.req /\ o.w = op.w /\ o.r = op.r
      BY <3>1 DEF OpType, PCs
    <3>3. op' = o
      BY <2>2 DEF GoOn
    <3> HIDE DEF o
    <3>4. OpShape(o)
      BY <1>1, <2>2, <3>1, <3>2, IdleShape DEF OpShape
    <3>5. QED
      BY <1>1, <2>2, <3>2, <3>3, <3>4 DEF OpStays, RecordInHand, Active
  <2>3. QED
    BY <2>1, <2>2 DEF FinishWindow
<1>5. QED
  BY <1>1, <1>2, <1>3, <1>4, OperationStep, TilingUnchanged, WindowsUnchanged DEF LayoutShape

LEMMA PaceEndsStep ==
  ASSUME LayoutIndInvariant, PaceEnds
  PROVE  LayoutIndInvariant'
<1>1. LayoutShape /\ op.pc = "paced"
  BY DEF PaceEnds, LayoutIndInvariant
<1>2. UNCHANGED <<session, queue, win, tiling, moved, workspaces>>
  BY DEF PaceEnds, results
<1>3. op.req.kind = "app"
  BY <1>1 DEF LayoutShape, OpShape
<1>4. op' = Idle \/ op' = Stopped
  BY <1>3 DEF PaceEnds, GoOn, Stopped
<1>5. OpStays /\ RecordInHand'
  BY <1>1, <1>3, <1>4, StoppedShape, IdleShape DEF OpStays, RecordInHand, Active
<1>6. QED
  BY <1>1, <1>2, <1>5, OperationStep, TilingUnchanged, WindowsUnchanged DEF LayoutShape

(* The next pair of a window and a record that is not used yet.            *)
LEMMA NextPairStep ==
  ASSUME LayoutIndInvariant, NextPair
  PROVE  LayoutIndInvariant'
<1> DEFINE r == Min({p[2] : p \in op.pairs})
           w == (CHOOSE p \in op.pairs : p[2] = r)[1]
           left == {p \in op.pairs : p[2] # r}
           rest == [op EXCEPT !.pairs = left]
           o == [op EXCEPT !.pairs = left, !.pc = "monitor", !.w = w, !.r = r, !.polls = 0]
<1>1. LayoutShape /\ op.pc = "next"
  BY DEF NextPair, LayoutIndInvariant
<1>2. UNCHANGED <<session, queue, win, tiling, moved, workspaces>>
  BY DEF NextPair, results
<1>3. op \in OpType /\ op.req \in RequestType /\ op.req.kind = "app" /\ op.pairs \subseteq Match
  BY <1>1 DEF LayoutShape, OpShape, OpType
<1>4. \/ op' = Idle
      \/ op' = rest
      \/ op.pairs # {} /\ moved[r] = None /\ op' = o
  <2>1. o = [rest EXCEPT !.pc = "monitor", !.w = w, !.r = r, !.polls = 0]
    BY <1>3 DEF OpType
  <2>2. QED
    BY <2>1 DEF NextPair
<1>5. left \subseteq Match
  BY <1>3
<1>6. op.pairs # {} => w \in Windows /\ r \in Records
  <2> SUFFICES ASSUME op.pairs # {}
               PROVE  w \in Windows /\ r \in Records
    OBVIOUS
  <2>1. \A p \in op.pairs : p[1] \in Windows /\ p[2] \in Records
    BY <1>3, LayoutAssumption
  <2>2. {p[2] : p \in op.pairs} \subseteq Records /\ {p[2] : p \in op.pairs} # {}
    BY <2>1
  <2>3. r \in {p[2] : p \in op.pairs}
    BY <2>2, LayoutAssumption, MinIsOne
  <2>4. r \in Records /\ \E p \in op.pairs : p[2] = r
    BY <2>2, <2>3
  <2> HIDE DEF r
  <2>5. (CHOOSE p \in op.pairs : p[2] = r) \in op.pairs
    BY <2>4
  <2>6. QED
    BY <2>1, <2>4, <2>5
<1> HIDE DEF r, w, left
<1>7. OpStays /\ RecordInHand'
  <2>1. CASE op' = Idle
    BY <2>1, IdleShape DEF OpStays, RecordInHand, Active
  <2>2. CASE op' = rest
    <3>1. rest \in OpType /\ rest.pc = "next" /\ rest.req = op.req
      BY <1>1, <1>3, <1>5 DEF OpType, PCs
    <3> HIDE DEF rest
    <3>2. OpShape(rest)
      BY <1>3, <3>1, IdleShape DEF OpShape
    <3>3. QED
      BY <1>1, <1>3, <2>2, <3>1, <3>2 DEF OpStays, RecordInHand, Active
  <2>3. CASE op.pairs # {} /\ moved[r] = None /\ op' = o
    <3>1. w \in Windows /\ r \in Records
      BY <1>6, <2>3
    <3>2. o \in OpType /\ o.pc = "monitor" /\ o.req = op.req /\ o.w = w /\ o.r = r
      BY <1>1, <1>3, <1>5, <3>1 DEF OpType, PCs
    <3> HIDE DEF o
    <3>3. OpShape(o)
      BY <1>3, <3>1, <3>2, IdleShape DEF OpShape
    <3>4. QED
      BY <1>1, <1>2, <1>3, <2>3, <3>2, <3>3 DEF OpStays, RecordInHand, Active
  <2>4. QED
    BY <1>4, <2>1, <2>2, <2>3
<1>8. QED
  BY <1>1, <1>2, <1>7, OperationStep, TilingUnchanged, WindowsUnchanged DEF LayoutShape

-----------------------------------------------------------------------------
(* The queue's turn: a request begins, or is dropped.                      *)

(* What the head of the queue leaves behind.                               *)
LEMMA TailOfQueue ==
  ASSUME LayoutShape, queue # <<>>
  PROVE  /\ Head(queue) = queue[1] /\ 1 \in DOMAIN queue /\ RequestShape(Head(queue))
         /\ Tail(queue) \in Seq(RequestType)
         /\ \A i \in DOMAIN Tail(queue) : i + 1 \in DOMAIN queue /\ Tail(queue)[i] = queue[i + 1]
         /\ \A i \in DOMAIN queue : i # 1 => i - 1 \in DOMAIN Tail(queue)
<1>1. queue \in Seq(RequestType)
  BY DEF LayoutShape
<1>2. 1 \in DOMAIN queue /\ Head(queue) = queue[1]
  BY <1>1
<1>3. QED
  BY <1>1, <1>2 DEF LayoutShape

(* A request leaves the queue; its own pending mark goes with it.          *)
QueueShrinks ==
  /\ queue # <<>> /\ queue' = Tail(queue)
  /\ \/ /\ UNCHANGED tiling /\ Head(queue).kind \in {"window", "app"}
     \/ /\ tiling' = Settled(Head(queue)) /\ Head(queue).kind \in {"raise", "resize"}

LEMMA SettledEffect ==
  ASSUME NEW q \in RequestType, tiling \in TilingType, q.w \in Windows
  PROVE  /\ Settled(q) \in TilingType
         /\ Settled(q).tile = tiling.tile /\ Settled(q).connected = tiling.connected
         /\ Settled(q).sized = tiling.sized /\ Settled(q).resizeGen = tiling.resizeGen
         /\ Settled(q).moving = tiling.moving
         /\ Settled(q).raises =
              IF q.kind = "raise" THEN tiling.raises \ {q.w, q.x} ELSE tiling.raises
         /\ Settled(q).resizes =
              IF q.kind = "raise" THEN tiling.resizes
              ELSE tiling.resizes \ {<<q.w, q.resizeGen>>}
<1> DEFINE a == tiling.raises \ {q.w, q.x}
           b == tiling.resizes \ {<<q.w, q.resizeGen>>}
<1>1. a \subseteq Windows /\ b \subseteq Windows \X Nat
  BY DEF TilingType
<1>2. Settled(q) = IF q.kind = "raise" THEN [tiling EXCEPT !.raises = a]
                                       ELSE [tiling EXCEPT !.resizes = b]
  BY DEF Settled
<1> HIDE DEF a, b
<1>3. CASE q.kind = "raise"
  BY <1>1, <1>2, <1>3 DEF TilingType, a
<1>4. CASE q.kind # "raise"
  BY <1>1, <1>2, <1>4 DEF TilingType, b
<1>5. QED
  BY <1>3, <1>4

LEMMA QueueStep ==
  ASSUME LayoutIndInvariant, QueueShrinks, op.pc = "idle", WindowsStay,
         UNCHANGED <<session, results>>,
         OpShape(op'), RunningIsRefused', RecordInHand'
  PROVE  LayoutIndInvariant'
<1> DEFINE q == Head(queue)
<1>1. LayoutShape /\ tiling \in TilingType /\ RequestShape(q)
  BY TailOfQueue DEF LayoutIndInvariant, LayoutShape, QueueShrinks
<1>2. q.kind \in {"raise", "resize"} => q.w \in Windows /\ q.x \in Windows /\ q \in RequestType
  BY <1>1 DEF RequestShape
<1>3. /\ tiling' \in TilingType
      /\ tiling'.tile = tiling.tile /\ tiling'.connected = tiling.connected
      /\ tiling'.sized = tiling.sized /\ tiling'.resizeGen = tiling.resizeGen
      /\ tiling'.moving = tiling.moving
      /\ tiling'.raises = IF q.kind = "raise" THEN tiling.raises \ {q.w, q.x} ELSE tiling.raises
      /\ tiling'.resizes = IF q.kind = "resize" THEN tiling.resizes \ {<<q.w, q.resizeGen>>}
                                                ELSE tiling.resizes
  <2>1. CASE UNCHANGED tiling /\ q.kind \in {"window", "app"}
    BY <1>1, <2>1
  <2>2. CASE tiling' = Settled(q) /\ q.kind \in {"raise", "resize"}
    <3> HIDE DEF q
    <3>1. QED
      BY <1>1, <1>2, <2>2, SettledEffect
  <2>3. QED
    BY <2>1, <2>2 DEF QueueShrinks
<1>4. UNCHANGED <<generation, blocked, shutdown, monitors, destroyed, moved, workspaces>>
  BY DEF session, safety, results
<1>5. LayoutShape'
  BY <1>1, <1>3, <1>4, TailOfQueue DEF LayoutShape, QueueShrinks, WindowsStay, SafetyTypeOK
<1>6. PairsAreMutual'
  BY <1>3 DEF LayoutIndInvariant, PairsAreMutual, Mutual, WindowsStay
<1>7. PendingIsQueued'
  <2>1. ASSUME NEW w \in tiling'.raises
        PROVE  \E i \in DOMAIN queue' : queue'[i].kind = "raise" /\ w \in {queue'[i].w, queue'[i].x}
    <3>1. PICK i \in DOMAIN queue : queue[i].kind = "raise" /\ w \in {queue[i].w, queue[i].x}
      BY <1>3, <2>1 DEF LayoutIndInvariant, PendingIsQueued
    <3>2. i # 1
      BY <1>1, <1>3, <2>1, <3>1, TailOfQueue DEF QueueShrinks
    <3>3. i - 1 \in DOMAIN queue' /\ queue'[i - 1] = queue[i]
      <4>1. i \in Nat
        BY <1>1 DEF LayoutShape
      <4>2. QED
        BY <1>1, <3>2, <4>1, TailOfQueue DEF QueueShrinks
    <3>4. QED
      BY <3>1, <3>3
  <2>2. ASSUME NEW p \in tiling'.resizes
        PROVE  \E i \in DOMAIN queue' :
                 queue'[i].kind = "resize" /\ queue'[i].w = p[1] /\ queue'[i].resizeGen = p[2]
    <3>1. PICK i \in DOMAIN queue :
            queue[i].kind = "resize" /\ queue[i].w = p[1] /\ queue[i].resizeGen = p[2]
      BY <1>3, <2>2 DEF LayoutIndInvariant, PendingIsQueued
    <3>2. i # 1
      <4>1. p = <<p[1], p[2]>>
        BY <1>3, <2>2 DEF TilingType
      <4>2. QED
        BY <1>1, <1>3, <2>2, <3>1, <4>1, TailOfQueue DEF QueueShrinks
    <3>3. i - 1 \in DOMAIN queue' /\ queue'[i - 1] = queue[i]
      <4>1. i \in Nat
        BY <1>1 DEF LayoutShape
      <4>2. QED
        BY <1>1, <3>2, <4>1, TailOfQueue DEF QueueShrinks
    <3>4. QED
      BY <3>1, <3>3
  <2>3. QED
    BY <2>1, <2>2 DEF PendingIsQueued
<1>8. QueuedIsRefused'
  <2> SUFFICES ASSUME NEW i \in DOMAIN queue'
               PROVE  QueuedRefusal(queue[i])'
    BY DEF QueuedIsRefused
  <2>1. i + 1 \in DOMAIN queue /\ queue'[i] = queue[i + 1]
    BY <1>1, TailOfQueue DEF QueueShrinks
  <2>2. QueuedRefusal(queue[i + 1]) /\ RequestShape(queue[i + 1])
    BY <1>1, <2>1 DEF LayoutIndInvariant, QueuedIsRefused, LayoutShape
  <2>3. QED
    BY <1>3, <1>4, <2>1, <2>2 DEF QueuedRefusal, QueuedReason, RequestShape, Refused, WindowsStay
<1>9. QED
  BY <1>5, <1>6, <1>7, <1>8 DEF LayoutIndInvariant

LEMMA DispatchStep ==
  ASSUME LayoutIndInvariant, Dispatch
  PROVE  LayoutIndInvariant'
<1> DEFINE q == Head(queue)
<1>1. LayoutShape /\ op.pc = "idle" /\ queue # <<>> /\ q.kind \in {"window", "app"}
  BY DEF Dispatch, LayoutIndInvariant
<1>2. /\ RequestShape(q) /\ QueuedRefusal(q) /\ q \in RequestType
  BY <1>1, TailOfQueue DEF LayoutIndInvariant, QueuedIsRefused, RequestShape
<1>3. UNCHANGED <<session, results, win, tiling>> /\ queue' = Tail(queue)
  BY DEF Dispatch
<1>r. /\ q.gen <= generation
      /\ q.stale => Refused(q) \/ (q.kind = "window" /\ ~win[q.w].alive)
  BY <1>1, <1>2 DEF QueuedRefusal, QueuedReason
<1> HIDE DEF q
<1>g. op' # Idle /\ op'.req = q /\ (q.kind = "window" => op'.w = q.w) => RunningIsRefused'
  <2> SUFFICES ASSUME op'.req = q, q.kind = "window" => op'.w = q.w
               PROVE  RunningIsRefused'
    OBVIOUS
  <2>1. PICK p : p = q
    OBVIOUS
  <2>2. UNCHANGED <<generation, destroyed, win>>
    BY <1>3 DEF session, safety
  <2>3. p.gen <= generation' /\ (p.stale => RunningReason(p)')
    <3>1. Refused(p) => Refused(p)'
      BY <2>2 DEF Refused
    <3>2. p.kind = "window" => win'[op'.w].alive = win[q.w].alive
      BY <2>1, <2>2
    <3>3. p.stale => RunningReason(p)'
      BY <1>r, <2>1, <3>1, <3>2 DEF RunningReason
    <3>4. p.gen <= generation'
      BY <1>r, <2>1, <2>2
    <3>5. QED
      BY <3>3, <3>4
  <2>4. op'.req = p
    BY <2>1
  <2>5. QED
    BY <2>3, <2>4 DEF RunningIsRefused, RunningReason, Refused
<1>4. OpShape(op') /\ RunningIsRefused' /\ RecordInHand'
  <2>1. CASE op' = Idle
    BY <2>1, IdleShape DEF RunningIsRefused, RecordInHand, Active
  <2>2. CASE /\ q.kind = "window" /\ Fitting(q.w) # {}
             /\ op' = [[Idle EXCEPT !.req = q] EXCEPT !.pc = "monitor", !.w = q.w,
                                                     !.r = Min(Fitting(q.w))]
    <3> DEFINE r == Min(Fitting(q.w))
               o == [pc |-> "monitor", req |-> q, pairs |-> {}, w |-> q.w, r |-> r,
                     target |-> None, polls |-> 0]
    <3>1. r \in Fitting(q.w)
      <4>1. Fitting(q.w) \subseteq Records
        BY DEF Fitting, Unused
      <4>2. QED
        BY <2>2, <4>1, MinIsOne, LayoutAssumption
    <3>2. r \in Records /\ moved[r] = None
      BY <3>1 DEF Fitting, Unused
    <3> HIDE DEF r
    <3>3. op' = o
      BY <2>2 DEF Idle, r
    <3>4. q.w \in Windows
      BY <1>2, <2>2 DEF RequestShape
    <3>5. o \in OpType
      BY <1>2, <3>2, <3>4 DEF OpType, PCs
    <3>6. o # Idle
      BY DEF Idle
    <3>7. OpShape(o)
      BY <1>1, <1>2, <2>2, <3>2, <3>4, <3>5, <3>6 DEF OpShape
    <3>8. RunningIsRefused'
      BY <1>g, <3>3, <3>6
    <3>9. RecordInHand'
      BY <1>3, <3>2, <3>3 DEF RecordInHand, Active, results
    <3>10. QED
      BY <3>3, <3>7, <3>8, <3>9
  <2>3. CASE /\ q.kind = "app"
             /\ \E pairs \in SUBSET Match :
                  op' = [[Idle EXCEPT !.req = q] EXCEPT !.pc = "next", !.pairs = pairs]
    <3>1. PICK pairs \in SUBSET Match :
            op' = [[Idle EXCEPT !.req = q] EXCEPT !.pc = "next", !.pairs = pairs]
      BY <2>3
    <3> DEFINE o == [pc |-> "next", req |-> q, pairs |-> pairs, w |-> None, r |-> None,
                     target |-> None, polls |-> 0]
    <3>2. op' = o
      BY <3>1 DEF Idle
    <3>3. o \in OpType
      BY <1>2 DEF OpType, PCs
    <3>4. o # Idle
      BY DEF Idle
    <3>5. OpShape(o)
      BY <1>1, <1>2, <2>3, <3>3, <3>4 DEF OpShape
    <3>6. RunningIsRefused'
      BY <1>g, <2>3, <3>2, <3>4
    <3>7. QED
      BY <3>2, <3>5, <3>6 DEF RecordInHand, Active
  <2>4. QED
    BY <2>1, <2>2, <2>3 DEF Dispatch, q
<1>5. QueueShrinks
  BY <1>1, <1>3 DEF QueueShrinks, q
<1>6. QED
  BY <1>1, <1>3, <1>4, <1>5, QueueStep, WindowsUnchanged

(* The follow-up of a pair, carried out or skipped.                        *)
PartnerStep ==
  /\ op.pc = "idle" /\ UNCHANGED <<results, session, bounds, op>>
  /\ \/ (RaisePartner \/ SkipPartner) /\ UNCHANGED win
     \/ ResizePartner

LEMMA PartnerKeeps ==
  ASSUME LayoutIndInvariant, PartnerStep
  PROVE  LayoutIndInvariant'
<1> DEFINE q == Head(queue)
<1>1. LayoutShape /\ op.pc = "idle" /\ OpShape(op) /\ UNCHANGED op
  BY DEF PartnerStep, LayoutIndInvariant, LayoutShape
<1>2. /\ queue # <<>> /\ q.kind \in {"raise", "resize"}
      /\ queue' = Tail(queue) /\ tiling' = Settled(q)
  BY DEF PartnerStep, RaisePartner, SkipPartner, ResizePartner, Waiting
<1>3. QueueShrinks
  BY <1>2 DEF QueueShrinks
<1>4. WindowsStay
  <2>1. CASE UNCHANGED win
    BY <1>1, <2>1, WindowsUnchanged
  <2>2. CASE ResizePartner
    <3>1. RequestShape(q)
      BY <1>1, <1>2, TailOfQueue
    <3>2. q.x \in Windows /\ <<"pair", q.w>> \in Frames
      BY <1>2, <3>1 DEF RequestShape, Frames
    <3>3. QED
      BY <1>1, <2>2, <3>2, FrameSet DEF ResizePartner
  <2>3. QED
    BY <2>1, <2>2 DEF PartnerStep
<1>5. RunningIsRefused' /\ RecordInHand'
  BY <1>1 DEF RunningIsRefused, RecordInHand, Active
<1>6. QED
  BY <1>1, <1>3, <1>4, <1>5, QueueStep DEF PartnerStep

LEMMA OpStepKeeps ==
  ASSUME LayoutIndInvariant, OpStep
  PROVE  LayoutIndInvariant'
<1>1. CASE PartnerStep
  BY <1>1, PartnerKeeps
<1>2. CASE ~PartnerStep
  BY <1>2, DispatchStep, NextPairStep, RestoreMonitorStep, MonitorTimeoutStep,
     RestoreWindowStateStep, RestoreGeometryStep, PollUnmaximizeStep, RestoreTilingStep,
     CreateWorkspacesStep, ChangeWorkspaceStep, FinishWindowStep, PaceEndsStep
     DEF OpStep, PartnerStep
<1>3. QED
  BY <1>1, <1>2

-----------------------------------------------------------------------------
(* The desktop, the user and the session.                                  *)

Marked(q) == [q EXCEPT !.stale = TRUE]
Withdrawn(q) == [q EXCEPT !.current = FALSE, !.stale = TRUE]

(* Nothing but what SessionSifu asked of a window is taken back, windows   *)
(* only go away, and generations only grow.                                *)
Forward ==
  /\ SafetyTypeOK' /\ destroyed' \in BOOLEAN /\ monitors' \in 1..MaxMonitors
  /\ generation' >= generation /\ (destroyed => destroyed')
  /\ win' \in [Windows -> WindowType]
  /\ \A w \in Windows : /\ win'[w].alive => win[w].alive
                        /\ win'[w].ws = win[w].ws /\ win'[w].sticky = win[w].sticky
  /\ tiling' \in TilingType /\ Paired(tiling')
  /\ tiling'.resizeGen >= tiling.resizeGen
  /\ \A w \in Windows : tiling'.tile[w] # None => win'[w].alive
  /\ UNCHANGED moved /\ workspaces' \in 1..MaxWorkspaces

(* Some requests in the queue become obsolete, for a reason they will see. *)
QueueMarks ==
  /\ DOMAIN queue' = DOMAIN queue /\ queue' \in Seq(RequestType)
  /\ tiling'.raises \subseteq tiling.raises /\ tiling'.resizes \subseteq tiling.resizes
  /\ \A i \in DOMAIN queue :
       \/ queue'[i] = queue[i]
       \/ \E q \in {Marked(queue[i]), Withdrawn(queue[i])} :
            queue'[i] = q /\ QueuedReason(q)'

QueueGrows ==
  \E kind \in {"raise", "resize", "window", "app"}, w, x \in Windows \cup {None} :
    /\ RequestShape(Request(kind, w, x))
    /\ queue' = Append(queue, Request(kind, w, x))
    /\ tiling'.raises \subseteq
         IF kind = "raise" THEN tiling.raises \cup {w, x} ELSE tiling.raises
    /\ tiling'.resizes \subseteq
         IF kind = "resize" THEN tiling.resizes \cup {<<w, tiling.resizeGen>>}
                            ELSE tiling.resizes

OpMoves ==
  \/ op' = op \/ op' = Idle
  \/ /\ op.pc # "idle" /\ op'.pc # "idle" /\ OpShape(op')
     /\ op'.pc \in {op.pc, "next"} \/ (op.pc = "monitorWait" /\ op'.pc = "state")
     /\ op'.w = op.w /\ op'.r = op.r
     /\ \/ op'.req = op.req
        \/ \E q \in {Marked(op.req), Withdrawn(op.req)} : op'.req = q /\ RunningReason(q)'

LEMMA MarkedFields ==
  ASSUME NEW q \in RequestType
  PROVE  \A m \in {Marked(q), Withdrawn(q)} :
           /\ m \in RequestType /\ m.kind = q.kind /\ m.w = q.w /\ m.x = q.x
           /\ m.gen = q.gen /\ m.resizeGen = q.resizeGen /\ m.stale
           /\ RequestShape(q) => RequestShape(m)
<1> DEFINE a == Marked(q)
           b == Withdrawn(q)
<1>1. /\ a \in RequestType /\ a.kind = q.kind /\ a.w = q.w /\ a.x = q.x
      /\ a.gen = q.gen /\ a.resizeGen = q.resizeGen /\ a.stale
  BY DEF Marked, RequestType
<1>2. /\ b \in RequestType /\ b.kind = q.kind /\ b.w = q.w /\ b.x = q.x
      /\ b.gen = q.gen /\ b.resizeGen = q.resizeGen /\ b.stale
  BY DEF Withdrawn, RequestType
<1> HIDE DEF a, b
<1>3. \A m \in {a, b} :
           /\ m \in RequestType /\ m.kind = q.kind /\ m.w = q.w /\ m.x = q.x
           /\ m.gen = q.gen /\ m.resizeGen = q.resizeGen /\ m.stale
           /\ RequestShape(q) => RequestShape(m)
  BY <1>1, <1>2 DEF RequestShape
<1>4. QED
  BY <1>3 DEF a, b

(* A reason never goes away.                                               *)
LEMMA ReasonLasts ==
  ASSUME LayoutIndInvariant, Forward,
         NEW i \in DOMAIN queue
  PROVE  \A q : q = queue[i] => QueuedRefusal(q)'
<1> SUFFICES ASSUME NEW q, q = queue[i]
             PROVE  QueuedRefusal(q)'
  OBVIOUS
<1>1. QueuedRefusal(queue[i]) /\ RequestShape(queue[i])
  BY DEF LayoutIndInvariant, QueuedIsRefused, LayoutShape
<1>2. /\ q.gen \in Nat /\ q.resizeGen \in Nat /\ q.gen <= generation
      /\ q.resizeGen <= tiling.resizeGen /\ (q.stale => QueuedReason(q))
  BY <1>1 DEF QueuedRefusal, QueuedReason, RequestShape, RequestType
<1>3. /\ generation \in Nat /\ generation' \in Nat
      /\ tiling.resizeGen \in Nat /\ tiling'.resizeGen \in Nat
  BY DEF Forward, LayoutIndInvariant, LayoutShape, SafetyTypeOK, TilingType
<1>4. q.gen <= generation' /\ q.resizeGen <= tiling'.resizeGen
  BY <1>2, <1>3 DEF Forward
<1>5. QueuedReason(q) => QueuedReason(q)'
  BY <1>1, <1>2, <1>3 DEF QueuedReason, Refused, Forward, RequestShape
<1>6. QED
  BY <1>2, <1>4, <1>5 DEF QueuedRefusal

LEMMA QueueMarksKeeps ==
  ASSUME LayoutIndInvariant, Forward, QueueMarks
  PROVE  /\ PendingIsQueued' /\ QueuedIsRefused'
         /\ \A i \in DOMAIN queue' : RequestShape(queue'[i])
<1>1. ASSUME NEW i \in DOMAIN queue
      PROVE  /\ queue'[i].kind = queue[i].kind /\ queue'[i].w = queue[i].w
             /\ queue'[i].x = queue[i].x /\ queue'[i].resizeGen = queue[i].resizeGen
             /\ queue'[i].gen = queue[i].gen
             /\ RequestShape(queue'[i]) /\ QueuedRefusal(queue[i])'
  <2>1. RequestShape(queue[i]) /\ queue[i] \in RequestType
    BY DEF LayoutIndInvariant, LayoutShape, RequestShape
  <2>2. CASE queue'[i] = queue[i]
    <3>1. PICK q : q = queue[i]
      OBVIOUS
    <3>2. QueuedRefusal(q)'
      BY <3>1, ReasonLasts
    <3>3. QED
      BY <2>1, <2>2, <3>1, <3>2 DEF QueuedRefusal, QueuedReason, Refused
  <2>3. ASSUME NEW q \in {Marked(queue[i]), Withdrawn(queue[i])},
               queue'[i] = q, QueuedReason(q)'
        PROVE  /\ queue'[i].kind = queue[i].kind /\ queue'[i].w = queue[i].w
               /\ queue'[i].x = queue[i].x /\ queue'[i].resizeGen = queue[i].resizeGen
               /\ queue'[i].gen = queue[i].gen
               /\ RequestShape(queue'[i]) /\ QueuedRefusal(queue[i])'
    <3>1. PICK old : old = queue[i]
      OBVIOUS
    <3>2. QueuedRefusal(old)'
      BY <3>1, ReasonLasts
    <3>3. /\ q.kind = old.kind /\ q.w = old.w /\ q.x = old.x /\ q.resizeGen = old.resizeGen
          /\ q.gen = old.gen /\ RequestShape(q)
      BY <2>1, <3>1, MarkedFields
    <3>4. QueuedRefusal(q)'
      BY <2>3, <3>2, <3>3 DEF QueuedRefusal
    <3>5. QED
      BY <2>3, <3>1, <3>3, <3>4 DEF QueuedRefusal, QueuedReason, Refused
  <2>4. QED
    BY <2>2, <2>3 DEF QueueMarks
<1>2. DOMAIN queue' = DOMAIN queue
  BY DEF QueueMarks
<1>3. PendingIsQueued'
  BY <1>1, <1>2 DEF PendingIsQueued, QueueMarks, LayoutIndInvariant
<1>4. QueuedIsRefused'
  BY <1>1, <1>2 DEF QueuedIsRefused
<1>5. QED
  BY <1>1, <1>2, <1>3, <1>4

LEMMA QueueGrowsKeeps ==
  ASSUME LayoutIndInvariant, Forward, QueueGrows
  PROVE  /\ queue' \in Seq(RequestType)
         /\ PendingIsQueued' /\ QueuedIsRefused'
         /\ \A i \in DOMAIN queue' : RequestShape(queue'[i])
<1>1. PICK kind \in {"raise", "resize", "window", "app"}, w \in Windows \cup {None},
           x \in Windows \cup {None} :
        /\ RequestShape(Request(kind, w, x))
        /\ queue' = Append(queue, Request(kind, w, x))
        /\ tiling'.raises \subseteq
             IF kind = "raise" THEN tiling.raises \cup {w, x} ELSE tiling.raises
        /\ tiling'.resizes \subseteq
             IF kind = "resize" THEN tiling.resizes \cup {<<w, tiling.resizeGen>>}
                                ELSE tiling.resizes
  BY DEF QueueGrows
<1>2. PICK q : q = Request(kind, w, x)
  OBVIOUS
<1>3. /\ q \in RequestType /\ RequestShape(q) /\ q.kind = kind /\ q.w = w /\ q.x = x
      /\ q.gen = generation /\ q.resizeGen = tiling.resizeGen /\ ~q.stale
  BY <1>1, <1>2 DEF Request, RequestShape
<1>4. queue \in Seq(RequestType) /\ Len(queue) \in Nat /\ DOMAIN queue = 1..Len(queue)
  BY DEF LayoutIndInvariant, LayoutShape
<1>5. /\ queue' \in Seq(RequestType) /\ DOMAIN queue' = 1..(Len(queue) + 1)
      /\ queue'[Len(queue) + 1] = q /\ \A i \in DOMAIN queue : queue'[i] = queue[i]
  BY <1>1, <1>2, <1>3, <1>4
<1>6. \A i \in DOMAIN queue' : i = Len(queue) + 1 \/ i \in DOMAIN queue
  BY <1>4, <1>5
<1>7. DOMAIN queue \subseteq DOMAIN queue' /\ Len(queue) + 1 \in DOMAIN queue'
  BY <1>4, <1>5
<1>8. \A i \in DOMAIN queue' : RequestShape(queue'[i])
  BY <1>3, <1>5, <1>6 DEF LayoutIndInvariant, LayoutShape
<1>9. QueuedIsRefused'
  <2> SUFFICES ASSUME NEW i \in DOMAIN queue'
               PROVE  QueuedRefusal(queue[i])'
    BY DEF QueuedIsRefused
  <2>1. CASE i = Len(queue) + 1
    <3>1. QueuedRefusal(q)'
      BY <1>3 DEF QueuedRefusal, Forward
    <3>2. QED
      BY <1>5, <2>1, <3>1 DEF QueuedRefusal, QueuedReason, Refused
  <2>2. CASE i \in DOMAIN queue
    <3>1. PICK p : p = queue[i]
      OBVIOUS
    <3>2. QueuedRefusal(p)' /\ queue'[i] = p
      BY <1>5, <2>2, <3>1, ReasonLasts
    <3>3. QED
      BY <3>2 DEF QueuedRefusal, QueuedReason, Refused
  <2>3. QED
    BY <1>6, <2>1, <2>2
<1>10. PendingIsQueued'
  <2>1. ASSUME NEW v \in tiling'.raises
        PROVE  \E i \in DOMAIN queue' : queue'[i].kind = "raise" /\ v \in {queue'[i].w, queue'[i].x}
    <3>1. CASE v \in tiling.raises
      BY <1>5, <1>7, <3>1 DEF LayoutIndInvariant, PendingIsQueued
    <3>2. CASE v \notin tiling.raises
      BY <1>1, <1>3, <1>5, <1>7, <2>1, <3>2
    <3>3. QED
      BY <3>1, <3>2
  <2>2. ASSUME NEW p \in tiling'.resizes
        PROVE  \E i \in DOMAIN queue' :
                 queue'[i].kind = "resize" /\ queue'[i].w = p[1] /\ queue'[i].resizeGen = p[2]
    <3>1. CASE p \in tiling.resizes
      BY <1>5, <1>7, <3>1 DEF LayoutIndInvariant, PendingIsQueued
    <3>2. CASE p \notin tiling.resizes
      BY <1>1, <1>3, <1>5, <1>7, <2>2, <3>2
    <3>3. QED
      BY <3>1, <3>2
  <2>3. QED
    BY <2>1, <2>2 DEF PendingIsQueued
<1>11. QED
  BY <1>5, <1>8, <1>9, <1>10

LEMMA OpMovesKeeps ==
  ASSUME LayoutIndInvariant, Forward, OpMoves
  PROVE  OpShape(op') /\ RunningIsRefused' /\ RecordInHand'
<1>1. LayoutShape /\ OpShape(op) /\ RunningIsRefused /\ RecordInHand
  BY DEF LayoutIndInvariant, LayoutShape
<1>2. generation \in Nat /\ generation' \in Nat
  BY <1>1 DEF Forward, SafetyTypeOK, LayoutShape
<1>3. op.pc # "idle" => op.req \in RequestType /\ (op.req.kind = "window" => op.w \in Windows)
  BY <1>1 DEF OpShape
<1>4. op.pc \notin {"idle", "next"} => op.w \in Windows /\ op.r \in Records
  BY <1>1 DEF OpShape
<1>5. CASE op' = Idle
  BY <1>5, IdleShape DEF RunningIsRefused, RecordInHand, Active
<1>6. CASE op' = op
  <2>1. RecordInHand'
    BY <1>1, <1>4, <1>6 DEF RecordInHand, Active, Forward
  <2>2. RunningIsRefused'
    <3>1. CASE op.pc = "idle"
      BY <1>6, <3>1 DEF RunningIsRefused
    <3>2. CASE op.pc # "idle"
      BY <1>2, <1>6, <3>2, RunningLasts DEF Forward
    <3>3. QED
      BY <3>1, <3>2
  <2>3. QED
    BY <1>1, <1>6, <2>1, <2>2
<1>7. CASE /\ op.pc # "idle" /\ op'.pc # "idle" /\ OpShape(op')
           /\ op'.pc \in {op.pc, "next"} \/ (op.pc = "monitorWait" /\ op'.pc = "state")
           /\ op'.w = op.w /\ op'.r = op.r
           /\ \/ op'.req = op.req
              \/ \E q \in {Marked(op.req), Withdrawn(op.req)} : op'.req = q /\ RunningReason(q)'
  <2>1. RecordInHand'
    BY <1>1, <1>4, <1>7 DEF RecordInHand, Active, Forward
  <2>2. RunningIsRefused'
    <3>1. CASE op'.req = op.req
      BY <1>2, <1>7, <3>1, RunningLasts DEF Forward
    <3>2. ASSUME NEW q \in {Marked(op.req), Withdrawn(op.req)}, op'.req = q, RunningReason(q)'
          PROVE  RunningIsRefused'
      <4>1. q.gen = op.req.gen /\ op.req.gen \in Nat
        BY <1>3, <1>7, MarkedFields DEF RequestType
      <4>2. q.gen <= generation'
        BY <1>1, <1>2, <1>7, <4>1 DEF RunningIsRefused, Forward
      <4>3. QED
        BY <3>2, <4>2 DEF RunningIsRefused, RunningReason, Refused
    <3>3. QED
      BY <1>7, <3>1, <3>2
  <2>3. QED
    BY <1>7, <2>1, <2>2
<1>8. QED
  BY <1>5, <1>6, <1>7 DEF OpMoves

LEMMA EnvironmentStep ==
  ASSUME LayoutIndInvariant, Forward, OpMoves, QueueMarks \/ QueueGrows
  PROVE  LayoutIndInvariant'
<1>1. /\ queue' \in Seq(RequestType) /\ PendingIsQueued' /\ QueuedIsRefused'
      /\ \A i \in DOMAIN queue' : RequestShape(queue'[i])
  BY QueueMarksKeeps, QueueGrowsKeeps DEF QueueMarks
<1>2. OpShape(op') /\ RunningIsRefused' /\ RecordInHand'
  BY OpMovesKeeps
<1>3. LayoutShape'
  BY <1>1, <1>2 DEF LayoutShape, Forward, LayoutIndInvariant
<1>4. PairsAreMutual'
  BY DEF Forward, PairsAreMutual, Paired
<1>5. QED
  BY <1>1, <1>2, <1>3, <1>4 DEF LayoutIndInvariant

(* What is so of every state with the invariant, for the steps below.      *)
LEMMA Typed ==
  ASSUME LayoutIndInvariant
  PROVE  /\ LayoutShape /\ OpShape(op)
         /\ generation \in Nat /\ tiling \in TilingType /\ Paired(tiling)
         /\ tiling.resizeGen \in Nat
         /\ \A w \in Windows : tiling.tile[w] # None => win[w].alive
         /\ queue \in Seq(RequestType) /\ win \in [Windows -> WindowType]
BY PairsSplit DEF LayoutIndInvariant, LayoutShape, SafetyTypeOK, TilingType

(* A step that leaves the windows and the pairs alone.                     *)
LEMMA ForwardSafety ==
  ASSUME LayoutIndInvariant, UNCHANGED <<win, tiling, moved>>, SafetyTypeOK',
         generation' >= generation, destroyed' \in BOOLEAN, destroyed => destroyed',
         monitors' \in 1..MaxMonitors, workspaces' \in 1..MaxWorkspaces
  PROVE  Forward
BY Typed DEF Forward

(* A step that changes the pairs only.                                     *)
LEMMA ForwardTiling ==
  ASSUME LayoutIndInvariant, UNCHANGED <<session, results, win>>,
         tiling' \in TilingType, Paired(tiling'), tiling'.resizeGen >= tiling.resizeGen,
         \A w \in Windows : tiling'.tile[w] # None => win[w].alive
  PROVE  Forward
<1>1. UNCHANGED <<generation, blocked, shutdown, monitors, destroyed, moved, workspaces>>
  BY DEF session, safety, results
<1>2. QED
  BY <1>1, Typed DEF Forward, LayoutShape, SafetyTypeOK

LEMMA QueueUnchanged ==
  ASSUME LayoutIndInvariant, UNCHANGED queue,
         tiling'.raises \subseteq tiling.raises, tiling'.resizes \subseteq tiling.resizes
  PROVE  QueueMarks
BY Typed DEF QueueMarks

(* Requests.                                                               *)
LEMMA AskStep ==
  ASSUME LayoutIndInvariant, AskForApp \/ \E w \in Windows : AskForWindow(w)
  PROVE  LayoutIndInvariant'
<1>1. UNCHANGED <<results, session, win, tiling, op>>
  BY DEF AskForApp, AskForWindow, Ask
<1>2. PICK kind \in {"window", "app"}, w \in Windows \cup {None} :
        /\ IF kind = "app" THEN w = None ELSE w \in Windows
        /\ queue' = Append(queue, Request(kind, w, None))
  <2>1. CASE AskForApp
    BY <2>1 DEF AskForApp, Ask
  <2>2. CASE \E w \in Windows : AskForWindow(w)
    BY <2>2 DEF AskForWindow, Ask
  <2>3. QED
    BY <2>1, <2>2
<1>3. RequestShape(Request(kind, w, None))
  BY <1>2, Typed DEF RequestShape, Request, RequestType
<1>4. QueueGrows
  BY <1>1, <1>2, <1>3 DEF QueueGrows
<1>5. Forward
  BY <1>1, Typed, ForwardTiling
<1>6. QED
  BY <1>1, <1>4, <1>5, EnvironmentStep DEF OpMoves

LEMMA FlagsStep ==
  ASSUME LayoutIndInvariant, QuietEnds \/ SessionContinues
  PROVE  LayoutIndInvariant'
<1>1. UNCHANGED <<win, tiling, op, queue, generation, destroyed, monitors, moved, workspaces>>
  BY DEF QuietEnds, SessionContinues, QuietPeriodEnds, CancelShutdown, results
<1>2. SafetyTypeOK'
  BY Typed DEF LayoutShape, SafetyTypeOK, QuietEnds, SessionContinues, QuietPeriodEnds,
     CancelShutdown
<1>3. Forward
  BY <1>1, <1>2, Typed, ForwardSafety DEF LayoutShape
<1>4. QueueMarks
  BY <1>1, QueueUnchanged
<1>5. QED
  BY <1>1, <1>3, <1>4, EnvironmentStep DEF OpMoves

LEMMA WorkspaceRemovedStep ==
  ASSUME LayoutIndInvariant, WorkspaceRemoved
  PROVE  LayoutIndInvariant'
<1>1. UNCHANGED <<win, tiling, op, queue, generation, blocked, shutdown, destroyed,
                  monitors, moved>>
  BY DEF WorkspaceRemoved, session, safety
<1>2. workspaces' \in 1..MaxWorkspaces
  <2>1. workspaces \in 1..MaxWorkspaces /\ MaxWorkspaces \in Nat
    BY Typed, LayoutAssumption DEF LayoutShape
  <2>2. workspaces' = workspaces - 1 /\ workspaces > 1
    BY DEF WorkspaceRemoved
  <2>3. QED
    BY <2>1, <2>2
<1>3. Forward
  BY <1>1, <1>2, Typed, ForwardSafety DEF LayoutShape, SafetyTypeOK
<1>4. QueueMarks
  BY <1>1, QueueUnchanged
<1>5. QED
  BY <1>1, <1>3, <1>4, EnvironmentStep DEF OpMoves

(* The request in hand is marked as obsolete.                              *)
LEMMA RequestReplaced ==
  ASSUME LayoutIndInvariant, op.pc # "idle",
         NEW q \in {Marked(op.req), Withdrawn(op.req)},
         op' = [op EXCEPT !.req = q], RunningReason(q)'
  PROVE  OpMoves
<1> DEFINE o == [op EXCEPT !.req = q]
<1>1. op \in OpType /\ op.req \in RequestType /\ op.req.kind \in {"window", "app"}
  BY Typed DEF OpShape
<1>2. q \in RequestType /\ q.kind = op.req.kind
  BY <1>1, MarkedFields
<1>3. /\ o \in OpType /\ o.pc = op.pc /\ o.w = op.w /\ o.r = op.r
      /\ o.target = op.target /\ o.req = q
  BY <1>1, <1>2 DEF OpType
<1> HIDE DEF o
<1>4. OpShape(o)
  BY <1>2, <1>3, Typed, IdleShape DEF OpShape
<1>5. op' = o
  BY DEF o
<1>6. QED
  BY <1>3, <1>4, <1>5 DEF OpMoves

LEMMA Regenerated ==
  ASSUME LayoutIndInvariant, Restale(Every), UNCHANGED <<win, tiling>>,
         generation' = generation + 1
  PROVE  QueueMarks /\ OpMoves
<1>1. QueueMarks
  <2>1. queue' = [i \in DOMAIN queue |-> [queue[i] EXCEPT !.stale = TRUE]]
    BY DEF Restale, Every
  <2>2. ASSUME NEW i \in DOMAIN queue
        PROVE  /\ queue'[i] \in RequestType
               /\ \E q \in {Marked(queue[i]), Withdrawn(queue[i])} :
                    queue'[i] = q /\ QueuedReason(q)'
    <3>1. queue[i] \in RequestType /\ queue[i].gen <= generation
      BY Typed DEF LayoutIndInvariant, QueuedIsRefused, QueuedRefusal
    <3>2. PICK q : q = Marked(queue[i])
      OBVIOUS
    <3>3. q \in RequestType /\ q.gen = queue[i].gen
      BY <3>1, <3>2, MarkedFields
    <3>4. q.gen # generation'
      BY <3>1, <3>3, Typed DEF RequestType
    <3>5. queue'[i] = q
      BY <2>1, <3>2 DEF Marked
    <3>6. QED
      BY <3>2, <3>3, <3>4, <3>5 DEF QueuedReason, Refused
  <2>3. queue' \in Seq(RequestType) /\ DOMAIN queue' = DOMAIN queue
    <3>1. DOMAIN queue' = 1..Len(queue) /\ Len(queue) \in Nat /\ DOMAIN queue = 1..Len(queue)
      BY <2>1, Typed
    <3>2. queue' \in [1..Len(queue) -> RequestType]
      BY <2>1, <2>2, <3>1
    <3>3. QED
      BY <3>1, <3>2, SeqDef
  <2>4. QED
    BY <2>2, <2>3 DEF QueueMarks
<1>2. OpMoves
  <2>1. CASE op.pc = "idle"
    BY <2>1 DEF Restale, OpMoves
  <2>2. CASE op.pc # "idle"
    <3>1. op.req \in RequestType /\ op.req.gen <= generation
      BY <2>2, Typed DEF OpShape, LayoutIndInvariant, RunningIsRefused
    <3>2. PICK q : q = Marked(op.req)
      OBVIOUS
    <3>3. q.gen = op.req.gen /\ q.gen # generation'
      BY <3>1, <3>2, MarkedFields, Typed DEF RequestType
    <3>4. op' = [op EXCEPT !.req = q]
      BY <2>2, <3>2, Typed DEF Restale, Every, Marked, OpShape, OpType
    <3>5. QED
      BY <2>2, <3>2, <3>3, <3>4, RequestReplaced DEF RunningReason, Refused
  <2>3. QED
    BY <2>1, <2>2
<1>3. QED
  BY <1>1, <1>2

LEMMA RegenerationStep ==
  ASSUME LayoutIndInvariant, SessionEnds \/ \E n \in 1..MaxMonitors : MonitorsChanged(n)
  PROVE  LayoutIndInvariant'
<1>1. /\ UNCHANGED <<win, tiling, destroyed, moved, workspaces>>
      /\ generation' = generation + 1 /\ Restale(Every)
  BY DEF SessionEnds, MonitorsChanged, BeginShutdown, BeginMonitorChange, results
<1>2. SafetyTypeOK' /\ monitors' \in 1..MaxMonitors
  <2>1. SafetyTypeOK /\ monitors \in 1..MaxMonitors
    BY Typed DEF LayoutShape
  <2>2. CASE SessionEnds
    BY <2>1, <2>2 DEF SafetyTypeOK, SessionEnds, BeginShutdown
  <2>3. CASE \E n \in 1..MaxMonitors : MonitorsChanged(n)
    BY <2>1, <2>3 DEF SafetyTypeOK, MonitorsChanged, BeginMonitorChange
  <2>4. QED
    BY <2>2, <2>3
<1>3. Forward
  BY <1>1, <1>2, Typed, ForwardSafety DEF LayoutShape
<1>4. QED
  BY <1>1, <1>3, Regenerated, EnvironmentStep

(* Marks on some of the requests, each with a reason.                      *)
LEMMA SomeMarked ==
  ASSUME LayoutIndInvariant,
         queue' = [i \in DOMAIN queue |-> queue'[i]],
         tiling'.raises \subseteq tiling.raises, tiling'.resizes \subseteq tiling.resizes,
         \A i \in DOMAIN queue :
           \/ queue'[i] = queue[i]
           \/ \E q \in {Marked(queue[i]), Withdrawn(queue[i])} :
                queue'[i] = q /\ QueuedReason(q)'
  PROVE  QueueMarks
<1>1. \A i \in DOMAIN queue : queue'[i] \in RequestType
  BY Typed, MarkedFields
<1>2. DOMAIN queue' = 1..Len(queue) /\ Len(queue) \in Nat /\ DOMAIN queue = 1..Len(queue)
  BY Typed
<1>3. queue' \in [1..Len(queue) -> RequestType]
  BY <1>1, <1>2
<1>4. queue' \in Seq(RequestType)
  BY <1>2, <1>3, SeqDef
<1>5. QED
  BY <1>2, <1>4 DEF QueueMarks

LEMMA DisableStep ==
  ASSUME LayoutIndInvariant, Disable
  PROVE  LayoutIndInvariant'
<1>1. /\ UNCHANGED <<win, monitors, moved, workspaces>> /\ destroyed' = TRUE
      /\ generation' = generation + 1 /\ tiling' = TilingDestroyed(tiling)
      /\ queue' = [i \in DOMAIN queue |-> [queue[i] EXCEPT !.stale = TRUE]]
  BY DEF Disable, BeginShutdown, results
<1>2. /\ tiling' \in TilingType /\ Paired(tiling')
      /\ \A v \in Windows : tiling'.tile[v] = None
      /\ tiling'.raises = tiling.raises /\ tiling'.resizes = {}
      /\ tiling'.resizeGen >= tiling.resizeGen
  BY <1>1, Typed, TilingDestroyedEffect
<1>3. SafetyTypeOK'
  BY Typed DEF LayoutShape, SafetyTypeOK, Disable, BeginShutdown
<1>4. Forward
  BY <1>1, <1>2, <1>3, Typed DEF Forward, LayoutShape
<1>5. QueueMarks
  <2>1. ASSUME NEW i \in DOMAIN queue
        PROVE  \E q \in {Marked(queue[i]), Withdrawn(queue[i])} :
                 queue'[i] = q /\ QueuedReason(q)'
    <3>1. PICK q : q = Marked(queue[i])
      OBVIOUS
    <3>2. queue'[i] = q
      BY <1>1, <3>1 DEF Marked
    <3>3. QueuedReason(q)'
      BY <1>1 DEF QueuedReason, Refused
    <3>4. QED
      BY <3>1, <3>2, <3>3
  <2>2. queue' = [i \in DOMAIN queue |-> queue'[i]]
    BY <1>1
  <2>3. QED
    BY <1>2, <2>1, <2>2, SomeMarked
<1>6. OpMoves
  <2>1. CASE op' = op \/ op' = Idle
    BY <2>1 DEF OpMoves
  <2>2. CASE op.pc # "idle" /\ op' = [op EXCEPT !.req.stale = TRUE]
    <3>1. PICK q : q = Marked(op.req)
      OBVIOUS
    <3>2. op' = [op EXCEPT !.req = q]
      BY <2>2, <3>1, Typed DEF Marked, OpShape, OpType
    <3>3. RunningReason(q)'
      BY <1>1 DEF RunningReason, Refused
    <3>4. QED
      BY <2>2, <3>1, <3>2, <3>3, RequestReplaced
  <2>3. CASE /\ op.pc # "idle" /\ op.req.kind = "app"
             /\ op' = [[op EXCEPT !.pc = "next"] EXCEPT !.req = [op.req EXCEPT !.stale = TRUE]]
    <3>1. PICK q : q = Marked(op.req)
      OBVIOUS
    <3> DEFINE o == [op EXCEPT !.pc = "next", !.req = q]
    <3>2. op \in OpType /\ op.req \in RequestType
      BY <2>3, Typed DEF OpShape
    <3>3. q \in RequestType /\ q.kind = "app"
      BY <2>3, <3>1, <3>2, MarkedFields
    <3>4. /\ o \in OpType /\ o.pc = "next" /\ o.w = op.w /\ o.r = op.r /\ o.req = q
      BY <3>2, <3>3 DEF OpType, PCs
    <3>5. op' = o
      BY <2>3, <3>1, <3>2 DEF Marked, OpType
    <3> HIDE DEF o
    <3>6. OpShape(o)
      BY <3>3, <3>4, IdleShape DEF OpShape
    <3>7. RunningReason(q)'
      BY <1>1 DEF RunningReason, Refused
    <3>8. QED
      BY <2>3, <3>1, <3>4, <3>5, <3>6, <3>7 DEF OpMoves
  <2>4. CASE /\ op.pc \in {"monitorWait", "unmaximizeWait"} /\ op.req.kind # "app"
             /\ op' = [Idle EXCEPT !.req = None]
    BY <2>4 DEF OpMoves, Idle
  <2>5. QED
    BY <2>1, <2>2, <2>3, <2>4 DEF Disable, Stopped
<1>7. QED
  BY <1>4, <1>5, <1>6, EnvironmentStep

LEMMA WithdrawStep ==
  ASSUME LayoutIndInvariant, Withdraw
  PROVE  LayoutIndInvariant'
<1>1. UNCHANGED <<session, results, win, tiling>>
  BY DEF Withdraw
<1>2. Forward
  BY <1>1, Typed, ForwardTiling
<1>3. CASE op.pc # "idle" /\ UNCHANGED queue
           /\ op' = [op EXCEPT !.req.current = FALSE, !.req.stale = TRUE]
  <2>1. PICK q : q = Withdrawn(op.req)
    OBVIOUS
  <2>2. op \in OpType /\ op.req \in RequestType
    BY <1>3, Typed DEF OpShape
  <2>3. op' = [op EXCEPT !.req = q]
    BY <1>3, <2>1, <2>2 DEF Withdrawn, OpType, RequestType
  <2>4. ~q.current
    BY <2>1, <2>2 DEF Withdrawn, RequestType
  <2>5. OpMoves
    BY <1>3, <2>1, <2>3, <2>4, RequestReplaced DEF RunningReason, Refused
  <2>6. QED
    BY <1>1, <1>2, <1>3, <2>5, QueueUnchanged, EnvironmentStep
<1>4. ASSUME NEW i \in DOMAIN queue, UNCHANGED op,
             queue' = [queue EXCEPT ![i].current = FALSE, ![i].stale = TRUE]
      PROVE  LayoutIndInvariant'
  <2>1. PICK q : q = Withdrawn(queue[i])
    OBVIOUS
  <2>2. queue[i] \in RequestType
    BY Typed
  <2>3. queue' = [queue EXCEPT ![i] = q]
    BY <1>4, <2>1, <2>2, Typed DEF Withdrawn, RequestType
  <2>4. ~q.current
    BY <2>1, <2>2 DEF Withdrawn, RequestType
  <2>5. QueuedReason(q)'
    BY <2>4 DEF QueuedReason, Refused
  <2>6. \A j \in DOMAIN queue :
           \/ queue'[j] = queue[j]
           \/ \E p \in {Marked(queue[j]), Withdrawn(queue[j])} :
                queue'[j] = p /\ QueuedReason(p)'
    BY <2>1, <2>3, <2>5
  <2>7. queue' = [j \in DOMAIN queue |-> queue'[j]]
    BY <2>3
  <2>8. QueueMarks
    BY <1>1, <2>6, <2>7, SomeMarked
  <2>9. QED
    BY <1>2, <1>4, <2>8, EnvironmentStep DEF OpMoves
<1>5. QED
  BY <1>3, <1>4 DEF Withdraw

(* A window goes away, with its pair and with the requests for it.         *)
LEMMA UnmanageStep ==
  ASSUME LayoutIndInvariant, NEW w \in Windows, Unmanage(w)
  PROVE  LayoutIndInvariant'
<1>1. UNCHANGED <<results, session>>
  BY DEF Unmanage
<1>2. UNCHANGED <<generation, blocked, shutdown, monitors, destroyed, moved, workspaces>>
  BY <1>1 DEF session, safety, results
<1>3. /\ win' \in [Windows -> WindowType] /\ ~win'[w].alive
      /\ \A v \in Windows : /\ win'[v].alive => win[v].alive /\ v # w
                            /\ v # w => win'[v] = win[v]
                            /\ win'[v].ws = win[v].ws /\ win'[v].sticky = win[v].sticky
  <2> DEFINE u == [win[w] EXCEPT !.alive = FALSE, !.goal = None, !.leaving = FALSE]
  <2>1. win[w] \in WindowType
    BY Typed
  <2>2. u \in WindowType /\ ~u.alive /\ u.ws = win[w].ws /\ u.sticky = win[w].sticky
    BY <2>1 DEF WindowType
  <2>3. win' = [win EXCEPT ![w] = u]
    BY <2>1, Typed DEF Unmanage, WindowType
  <2> HIDE DEF u
  <2>4. QED
    BY <2>2, <2>3, Typed
<1>4. /\ tiling' \in TilingType /\ Paired(tiling')
      /\ \A v \in Windows : tiling'.tile[v] # None => win'[v].alive
      /\ tiling'.raises = tiling.raises /\ tiling'.resizes \subseteq tiling.resizes
      /\ tiling'.resizeGen >= tiling.resizeGen
  <2>1. CASE w \in tiling.connected
    <3>1. tiling' = Detach(tiling, w)
      BY <2>1 DEF Unmanage
    <3>2. /\ tiling' \in TilingType /\ Paired(tiling')
          /\ \A v \in Windows : tiling'.tile[v] = IF v \in {w, tiling.tile[w]} THEN None
                                                                        ELSE tiling.tile[v]
          /\ tiling'.raises = tiling.raises /\ tiling'.resizes \subseteq tiling.resizes
          /\ tiling'.resizeGen >= tiling.resizeGen
      BY <3>1, Typed, DetachEffect
    <3>3. \A v \in Windows : tiling'.tile[v] # None => win'[v].alive
      BY <1>3, <3>2, Typed
    <3>4. QED
      BY <3>2, <3>3
  <2>2. CASE w \notin tiling.connected
    <3>1. UNCHANGED tiling
      BY <2>2 DEF Unmanage
    <3>2. tiling.tile[w] = None
      BY <2>2, Typed DEF Paired
    <3>3. QED
      BY <1>3, <3>1, <3>2, Typed
  <2>3. QED
    BY <2>1, <2>2
<1>5. Forward
  BY <1>2, <1>3, <1>4, Typed DEF Forward, LayoutShape, SafetyTypeOK
<1>6. QueueMarks
  <2>1. queue' = [i \in DOMAIN queue |->
                    IF w \in {queue[i].w, queue[i].x} THEN [queue[i] EXCEPT !.stale = TRUE]
                                                     ELSE queue[i]]
    BY DEF Unmanage
  <2>2. ASSUME NEW i \in DOMAIN queue, w \in {queue[i].w, queue[i].x}
        PROVE  \E q \in {Marked(queue[i]), Withdrawn(queue[i])} :
                 queue'[i] = q /\ QueuedReason(q)'
    <3>1. PICK q : q = Marked(queue[i])
      OBVIOUS
    <3>2. queue[i] \in RequestType /\ RequestShape(queue[i])
      BY Typed DEF LayoutShape
    <3>3. q.kind = queue[i].kind /\ q.w = queue[i].w /\ q.x = queue[i].x
      BY <3>1, <3>2, MarkedFields
    <3>4. QueuedReason(q)'
      BY <1>3, <2>2, <3>2, <3>3, NoneIsNoWindow DEF QueuedReason, RequestShape
    <3>5. queue'[i] = q
      BY <2>1, <2>2, <3>1 DEF Marked
    <3>6. QED
      BY <3>1, <3>4, <3>5
  <2>3. \A i \in DOMAIN queue : w \notin {queue[i].w, queue[i].x} => queue'[i] = queue[i]
    BY <2>1
  <2>4. queue' = [i \in DOMAIN queue |-> queue'[i]]
    BY <2>1
  <2>5. QED
    BY <1>4, <2>2, <2>3, <2>4, SomeMarked
<1>7. OpMoves
  <2>1. CASE op' = op
    BY <2>1 DEF OpMoves
  <2>2. CASE op.pc # "idle" /\ op' = Stopped
    BY <2>2, Typed, StoppedShape DEF OpMoves, Stopped, OpShape, OpType
  <2>3. CASE op.w = w /\ op.req.kind = "window" /\ op' = [op EXCEPT !.req.stale = TRUE]
    <3>1. op.pc # "idle"
      BY <2>3, Typed, NoneIsNoWindow DEF OpShape, Idle
    <3>2. op \in OpType /\ op.req \in RequestType
      BY <3>1, Typed DEF OpShape
    <3>3. PICK q : q = Marked(op.req)
      OBVIOUS
    <3>4. op' = [op EXCEPT !.req = q] /\ q.kind = "window"
      BY <2>3, <3>2, <3>3, MarkedFields DEF Marked, OpType, RequestType
    <3>5. op'.w = w
      BY <2>3, <3>2, <3>4 DEF OpType
    <3>6. RunningReason(q)'
      BY <1>3, <3>4, <3>5 DEF RunningReason
    <3>7. QED
      BY <3>1, <3>3, <3>4, <3>6, RequestReplaced
  <2>4. QED
    BY <2>1, <2>2, <2>3 DEF Unmanage
<1>8. QED
  BY <1>5, <1>6, <1>7, EnvironmentStep

(* A window changes its state or its monitor.                              *)
LEMMA WindowChanges ==
  ASSUME LayoutIndInvariant, UNCHANGED <<results, session, tiling, queue>>,
         NEW w \in Windows, NEW u \in WindowType, win' = [win EXCEPT ![w] = u],
         u.alive = win[w].alive, u.ws = win[w].ws, u.sticky = win[w].sticky
  PROVE  Forward /\ QueueMarks
<1>1. UNCHANGED <<generation, blocked, shutdown, monitors, destroyed, moved, workspaces>>
  BY DEF session, safety, results
<1>2. /\ win' \in [Windows -> WindowType]
      /\ \A v \in Windows : /\ win'[v].alive = win[v].alive
                            /\ win'[v].ws = win[v].ws /\ win'[v].sticky = win[v].sticky
  BY Typed
<1>3. Forward
  BY <1>1, <1>2, Typed DEF Forward, LayoutShape, SafetyTypeOK
<1>4. QED
  BY <1>3, QueueUnchanged

LEMMA UnmaximizedStep ==
  ASSUME LayoutIndInvariant, NEW w \in Windows, Unmaximized(w)
  PROVE  LayoutIndInvariant'
<1> DEFINE u == [win[w] EXCEPT !.leaving = FALSE, !.max = FALSE]
<1>1. win[w] \in WindowType
  BY Typed
<1>2. u \in WindowType /\ u.alive = win[w].alive /\ u.ws = win[w].ws /\ u.sticky = win[w].sticky
  BY <1>1 DEF WindowType
<1>3. win' = [win EXCEPT ![w] = u] /\ UNCHANGED <<results, session, tiling, queue, op>>
  BY <1>1, Typed DEF Unmaximized, WindowType
<1> HIDE DEF u
<1>4. QED
  BY <1>2, <1>3, WindowChanges, EnvironmentStep DEF OpMoves

LEMMA StateChangedStep ==
  ASSUME LayoutIndInvariant, NEW w \in Windows, StateChanged(w)
  PROVE  LayoutIndInvariant'
<1> DEFINE u == [win[w] EXCEPT !.max = TRUE, !.leaving = FALSE]
           f == ~win[w].full
           v == [win[w] EXCEPT !.full = f]
<1>1. win[w] \in WindowType /\ f \in BOOLEAN
  BY Typed
<1>2. u \in WindowType /\ u.alive = win[w].alive /\ u.ws = win[w].ws /\ u.sticky = win[w].sticky
  BY <1>1 DEF WindowType
<1>3. v \in WindowType /\ v.alive = win[w].alive /\ v.ws = win[w].ws /\ v.sticky = win[w].sticky
  <2> HIDE DEF f
  <2>1. QED
    BY <1>1 DEF WindowType
<1>4. win' = [win EXCEPT ![w] = u] \/ win' = [win EXCEPT ![w] = v]
  BY <1>1, Typed DEF StateChanged, WindowType
<1>5. UNCHANGED <<results, session, tiling, queue, op>>
  BY DEF StateChanged
<1> HIDE DEF u, v
<1>6. Forward /\ QueueMarks
  BY <1>2, <1>3, <1>4, <1>5, WindowChanges
<1>7. QED
  BY <1>5, <1>6, EnvironmentStep DEF OpMoves

LEMMA EntersMonitorStep ==
  ASSUME LayoutIndInvariant, NEW w \in Windows, NEW n \in 0..(MaxMonitors - 1),
         EntersMonitor(w, n)
  PROVE  LayoutIndInvariant'
<1> DEFINE g == IF n = win[w].goal THEN None ELSE win[w].goal
           u == [win[w] EXCEPT !.monitor = n, !.goal = g]
<1>1. win[w] \in WindowType /\ n \in Nat /\ g \in Nat \cup {None}
  BY Typed, LayoutAssumption DEF WindowType
<1>2. u \in WindowType /\ u.alive = win[w].alive /\ u.ws = win[w].ws /\ u.sticky = win[w].sticky
  <2> HIDE DEF g
  <2>1. QED
    BY <1>1 DEF WindowType
<1>3. win' = [win EXCEPT ![w] = u]
  BY <1>1, Typed DEF EntersMonitor, WindowType
<1>4. UNCHANGED <<results, session, tiling, queue>>
  BY DEF EntersMonitor
<1> HIDE DEF u
<1>5. Forward /\ QueueMarks
  BY <1>2, <1>3, <1>4, WindowChanges
<1>6. OpMoves
  <2>1. CASE op' = op
    BY <2>1 DEF OpMoves
  <2>2. CASE op.pc = "monitorWait" /\ op' = Stopped
    BY <2>2, Typed, StoppedShape DEF OpMoves, Stopped, OpShape, OpType
  <2>3. CASE op.pc = "monitorWait" /\ op' = GoOn("state")
    <3>1. op.w \in Windows /\ op.r \in Records
      BY <2>3, Typed DEF OpShape
    <3> DEFINE o == GoOn("state")
    <3>2. OpShape(o) /\ o.pc = "state" /\ o.req = op.req /\ o.w = op.w /\ o.r = op.r
      BY <2>3, <3>1, Typed, GoOnShape
    <3>3. op' = o
      BY <2>3
    <3> HIDE DEF o
    <3>4. QED
      BY <2>3, <3>2, <3>3 DEF OpMoves
  <2>4. QED
    BY <2>1, <2>2, <2>3 DEF EntersMonitor
<1>7. QED
  BY <1>5, <1>6, EnvironmentStep

(* The user raises, drags or resizes a window of a pair.                   *)
LEMMA RaisedStep ==
  ASSUME LayoutIndInvariant, NEW w \in Windows, Raised(w),
         UNCHANGED <<results, session, win, op>>
  PROVE  LayoutIndInvariant'
<1> DEFINE p == tiling.tile[w]
           more == tiling.raises \cup {w, p}
<1>1. p \in Windows /\ more \subseteq Windows
  BY Typed DEF Raised, TilingType
<1> HIDE DEF p
<1>2. tiling' = [tiling EXCEPT !.raises = more] /\ queue' = Append(queue, Request("raise", w, p))
  BY DEF Raised, p
<1>3. /\ tiling' \in TilingType /\ tiling'.tile = tiling.tile
      /\ tiling'.connected = tiling.connected /\ tiling'.sized = tiling.sized
      /\ tiling'.moving = tiling.moving /\ tiling'.resizes = tiling.resizes
      /\ tiling'.resizeGen = tiling.resizeGen /\ tiling'.raises = tiling.raises \cup {w, p}
  <2> HIDE DEF more
  <2>1. /\ tiling' \in TilingType /\ tiling'.tile = tiling.tile
        /\ tiling'.connected = tiling.connected /\ tiling'.sized = tiling.sized
        /\ tiling'.moving = tiling.moving /\ tiling'.resizes = tiling.resizes
        /\ tiling'.resizeGen = tiling.resizeGen /\ tiling'.raises = more
    BY <1>1, <1>2, Typed DEF TilingType
  <2>2. QED
    BY <2>1 DEF more
<1>4. Forward
  BY <1>3, Typed, ForwardTiling DEF Paired, Mutual
<1>5. RequestShape(Request("raise", w, p))
  BY <1>1, Typed DEF RequestShape, Request, RequestType
<1>6. QueueGrows
  BY <1>1, <1>2, <1>3, <1>5 DEF QueueGrows
<1>7. QED
  BY <1>4, <1>6, EnvironmentStep DEF OpMoves

LEMMA SizeChangedStep ==
  ASSUME LayoutIndInvariant, NEW w \in Windows, SizeChanged(w),
         UNCHANGED <<results, session, win, op>>
  PROVE  LayoutIndInvariant'
<1> DEFINE p == tiling.tile[w]
           more == tiling.resizes \cup {<<w, tiling.resizeGen>>}
<1>1. p \in Windows /\ more \subseteq Windows \X Nat
  BY Typed DEF SizeChanged, MayResize, TilingType
<1> HIDE DEF p
<1>2. tiling' = [tiling EXCEPT !.resizes = more] /\ queue' = Append(queue, Request("resize", w, p))
  BY DEF SizeChanged, p
<1>3. /\ tiling' \in TilingType /\ tiling'.tile = tiling.tile
      /\ tiling'.connected = tiling.connected /\ tiling'.sized = tiling.sized
      /\ tiling'.moving = tiling.moving /\ tiling'.raises = tiling.raises
      /\ tiling'.resizeGen = tiling.resizeGen
      /\ tiling'.resizes = tiling.resizes \cup {<<w, tiling.resizeGen>>}
  <2> HIDE DEF more
  <2>1. /\ tiling' \in TilingType /\ tiling'.tile = tiling.tile
        /\ tiling'.connected = tiling.connected /\ tiling'.sized = tiling.sized
        /\ tiling'.moving = tiling.moving /\ tiling'.raises = tiling.raises
        /\ tiling'.resizeGen = tiling.resizeGen /\ tiling'.resizes = more
    BY <1>1, <1>2, Typed DEF TilingType
  <2>2. QED
    BY <2>1 DEF more
<1>4. Forward
  BY <1>3, Typed, ForwardTiling DEF Paired, Mutual
<1>5. RequestShape(Request("resize", w, p))
  BY <1>1, Typed DEF RequestShape, Request, RequestType
<1>6. QueueGrows
  BY <1>1, <1>2, <1>3, <1>5 DEF QueueGrows
<1>7. QED
  BY <1>4, <1>6, EnvironmentStep DEF OpMoves

(* A grab that begins or ends makes every resize of the last one obsolete. *)
LEMMA GrabBeginEffect ==
  ASSUME LayoutIndInvariant, NEW w \in Windows, NEW b \in BOOLEAN, GrabBegin(w, b)
  PROVE  /\ tiling' \in TilingType /\ Paired(tiling') /\ tiling'.tile = tiling.tile
         /\ tiling'.raises = tiling.raises /\ tiling'.resizes = {}
         /\ tiling'.resizeGen = tiling.resizeGen + 1
<1> DEFINE t == StopResize(tiling)
           more == t.moving \cup {w}
<1>1. /\ t \in TilingType /\ Paired(t) /\ t.tile = tiling.tile /\ t.raises = tiling.raises
      /\ t.sized = None /\ t.resizes = {} /\ t.resizeGen = tiling.resizeGen + 1
  BY Typed, StopResizeEffect
<1>2. \/ tiling' = t
      \/ t.tile[w] # None /\ tiling' = [t EXCEPT !.moving = more]
      \/ t.tile[w] # None /\ tiling' = [t EXCEPT !.sized = w]
  BY DEF GrabBegin
<1>3. more \subseteq Windows
  BY <1>1 DEF TilingType
<1> HIDE DEF t
<1>4. CASE tiling' = t
  BY <1>1, <1>4
<1>5. CASE t.tile[w] # None /\ tiling' = [t EXCEPT !.moving = more]
  <2>1. more \subseteq t.connected
    BY <1>1, <1>5 DEF Paired
  <2> HIDE DEF more
  <2>2. /\ tiling' \in TilingType /\ tiling'.tile = t.tile /\ tiling'.raises = t.raises
        /\ tiling'.resizes = t.resizes /\ tiling'.resizeGen = t.resizeGen
        /\ tiling'.connected = t.connected /\ tiling'.sized = t.sized /\ tiling'.moving = more
    BY <1>1, <1>3, <1>5 DEF TilingType
  <2>3. QED
    BY <1>1, <2>1, <2>2 DEF Paired, Mutual
<1>6. CASE t.tile[w] # None /\ tiling' = [t EXCEPT !.sized = w]
  <2>1. /\ tiling' \in TilingType /\ tiling'.tile = t.tile /\ tiling'.raises = t.raises
        /\ tiling'.resizes = t.resizes /\ tiling'.resizeGen = t.resizeGen
        /\ tiling'.connected = t.connected /\ tiling'.sized = w /\ tiling'.moving = t.moving
    BY <1>1, <1>6 DEF TilingType
  <2>2. QED
    BY <1>1, <1>6, <2>1 DEF Paired, Mutual
<1>7. QED
  BY <1>2, <1>4, <1>5, <1>6

LEMMA GrabEndEffect ==
  ASSUME LayoutIndInvariant, NEW w \in Windows, NEW b \in BOOLEAN, GrabEnd(w, b)
  PROVE  /\ tiling' \in TilingType /\ Paired(tiling')
         /\ \A v \in Windows : tiling'.tile[v] \in {tiling.tile[v], None}
         /\ tiling'.raises = tiling.raises /\ tiling'.resizes = {}
         /\ tiling'.resizeGen > tiling.resizeGen
<1> DEFINE t == StopResize(tiling)
           less == t.moving \ {w}
           ended == [t EXCEPT !.moving = less]
<1>1. /\ t \in TilingType /\ Paired(t) /\ t.tile = tiling.tile /\ t.raises = tiling.raises
      /\ t.resizes = {} /\ t.resizeGen = tiling.resizeGen + 1
  BY Typed, StopResizeEffect
<1>2. tiling' = Detach(ended, w) \/ tiling' = ended
  BY DEF GrabEnd
<1>3. less \subseteq Windows /\ (less \subseteq t.connected)
  BY <1>1 DEF TilingType, Paired
<1> HIDE DEF t, less
<1>4. /\ ended \in TilingType /\ ended.tile = t.tile /\ ended.raises = t.raises
      /\ ended.resizes = t.resizes /\ ended.resizeGen = t.resizeGen
      /\ ended.connected = t.connected /\ ended.sized = t.sized /\ ended.moving = less
  BY <1>1, <1>3 DEF TilingType
<1> HIDE DEF ended
<1>5. Paired(ended)
  BY <1>1, <1>3, <1>4 DEF Paired, Mutual
<1>6. CASE tiling' = ended
  BY <1>1, <1>4, <1>5, <1>6, Typed
<1>7. CASE tiling' = Detach(ended, w)
  <2>1. /\ tiling' \in TilingType /\ Paired(tiling')
        /\ \A v \in Windows : tiling'.tile[v] = IF v \in {w, ended.tile[w]} THEN None
                                                                    ELSE ended.tile[v]
        /\ tiling'.raises = ended.raises /\ tiling'.resizes \subseteq ended.resizes
        /\ tiling'.resizeGen >= ended.resizeGen
    BY <1>4, <1>5, <1>7, DetachEffect
  <2>2. tiling'.resizeGen \in Nat
    BY <2>1 DEF TilingType
  <2>3. QED
    BY <1>1, <1>4, <2>1, <2>2, Typed
<1>8. QED
  BY <1>2, <1>6, <1>7

ResizesMarked ==
  /\ queue' = [i \in DOMAIN queue |->
                 IF queue[i].kind = "resize" THEN [queue[i] EXCEPT !.stale = TRUE] ELSE queue[i]]
  /\ UNCHANGED op

LEMMA RestaleOfGrab ==
  ASSUME LayoutIndInvariant,
         queue' = [i \in DOMAIN queue |-> IF queue[i].kind = "resize"
                                         THEN [queue[i] EXCEPT !.stale = TRUE] ELSE queue[i]],
         op' = IF op.pc # "idle" /\ op.req.kind = "resize"
               THEN [op EXCEPT !.req.stale = TRUE] ELSE op
  PROVE  ResizesMarked
BY Typed DEF ResizesMarked, OpShape

LEMMA GrabStep ==
  ASSUME LayoutIndInvariant, NEW w \in Windows, NEW b \in BOOLEAN,
         GrabBegin(w, b) \/ GrabEnd(w, b), ResizesMarked,
         UNCHANGED <<results, session, win>>
  PROVE  LayoutIndInvariant'
<1>1. /\ tiling' \in TilingType /\ Paired(tiling')
      /\ \A v \in Windows : tiling'.tile[v] \in {tiling.tile[v], None}
      /\ tiling'.raises = tiling.raises /\ tiling'.resizes = {}
      /\ tiling'.resizeGen > tiling.resizeGen
  BY Typed, GrabBeginEffect, GrabEndEffect
<1>2. Forward
  BY <1>1, Typed, ForwardTiling DEF TilingType
<1>3. QueueMarks
  <2>1. ASSUME NEW i \in DOMAIN queue, queue[i].kind = "resize"
        PROVE  \E q \in {Marked(queue[i]), Withdrawn(queue[i])} :
                 queue'[i] = q /\ QueuedReason(q)'
    <3>1. PICK q : q = Marked(queue[i])
      OBVIOUS
    <3>2. queue[i] \in RequestType /\ queue[i].resizeGen <= tiling.resizeGen
      BY Typed DEF LayoutIndInvariant, QueuedIsRefused, QueuedRefusal
    <3>3. q.kind = "resize" /\ q.resizeGen = queue[i].resizeGen /\ q.resizeGen \in Nat
      BY <2>1, <3>1, <3>2, MarkedFields DEF RequestType
    <3>4. q.resizeGen # tiling'.resizeGen
      BY <1>1, <3>2, <3>3, Typed DEF TilingType
    <3>5. queue'[i] = q
      BY <2>1, <3>1 DEF Marked, ResizesMarked
    <3>6. QED
      BY <3>1, <3>3, <3>4, <3>5 DEF QueuedReason
  <2>2. \A i \in DOMAIN queue : queue[i].kind # "resize" => queue'[i] = queue[i]
    BY DEF ResizesMarked
  <2>3. queue' = [i \in DOMAIN queue |-> queue'[i]]
    BY DEF ResizesMarked
  <2>4. QED
    BY <1>1, <2>1, <2>2, <2>3, SomeMarked
<1>4. QED
  BY <1>2, <1>3, EnvironmentStep DEF OpMoves, ResizesMarked

LEMMA TilingEventStep ==
  ASSUME LayoutIndInvariant, TilingEvent
  PROVE  LayoutIndInvariant'
<1>1. UNCHANGED <<results, session, win>>
  BY DEF TilingEvent
<1>2. PICK w \in Windows :
        \/ Raised(w) /\ UNCHANGED op
        \/ SizeChanged(w) /\ UNCHANGED op
        \/ \E b \in BOOLEAN : (GrabBegin(w, b) \/ GrabEnd(w, b)) /\ ResizesMarked
  <2>1. PICK w \in Windows :
          \/ Raised(w) /\ UNCHANGED op
          \/ SizeChanged(w) /\ UNCHANGED op
          \/ \E b \in BOOLEAN :
               /\ GrabBegin(w, b) \/ GrabEnd(w, b)
               /\ queue' = [i \in DOMAIN queue |->
                              IF queue[i].kind = "resize"
                              THEN [queue[i] EXCEPT !.stale = TRUE] ELSE queue[i]]
               /\ op' = IF op.pc # "idle" /\ op.req.kind = "resize"
                        THEN [op EXCEPT !.req.stale = TRUE] ELSE op
    BY DEF TilingEvent, Restale
  <2>2. QED
    BY <2>1, RestaleOfGrab
<1>3. QED
  BY <1>1, <1>2, RaisedStep, SizeChangedStep, GrabStep

-----------------------------------------------------------------------------
LEMMA LayoutInit ==
  ASSUME Init
  PROVE  LayoutIndInvariant
<1>1. OpShape(op)
  BY IdleShape DEF Init
<1>2. win \in [Windows -> WindowType]
  BY DEF Init, WindowType, Frames
<1>3. tiling \in TilingType
  BY DEF Init, TilingInit, TilingType
<1>4. MaxMonitors \in Nat /\ MaxMonitors > 0 /\ MaxWorkspaces \in Nat /\ MaxWorkspaces > 0
  BY LayoutAssumption
<1>5. queue \in Seq(RequestType) /\ DOMAIN queue = {}
  BY DEF Init
<1>6. LayoutShape
  <2>1. SafetyTypeOK /\ destroyed \in BOOLEAN
    BY DEF Init, SafetyInit, SafetyTypeOK
  <2>2. monitors \in 1..MaxMonitors /\ workspaces \in 1..MaxWorkspaces
    BY <1>4 DEF Init
  <2>3. moved \in [Records -> Windows \cup {None}]
    BY DEF Init
  <2>4. QED
    BY <1>1, <1>2, <1>3, <1>5, <2>1, <2>2, <2>3 DEF LayoutShape
<1>7. PairsAreMutual
  BY DEF Init, TilingInit, PairsAreMutual
<1>8. PendingIsQueued
  BY DEF Init, TilingInit, PendingIsQueued
<1>9. QueuedIsRefused
  BY <1>5 DEF QueuedIsRefused
<1>10. RunningIsRefused /\ RecordInHand
  BY IdleShape DEF Init, RunningIsRefused, RecordInHand, Active
<1>11. QED
  BY <1>6, <1>7, <1>8, <1>9, <1>10 DEF LayoutIndInvariant

LEMMA LayoutNext ==
  ASSUME LayoutIndInvariant, [Next]_layoutVars
  PROVE  LayoutIndInvariant'
<1>1. CASE OpStep
  BY <1>1, OpStepKeeps
<1>2. CASE Environment
  BY <1>2, AskStep, FlagsStep, RegenerationStep, DisableStep, WithdrawStep,
     WorkspaceRemovedStep, TilingEventStep, UnmanageStep, UnmaximizedStep, StateChangedStep,
     EntersMonitorStep
     DEF Environment
<1>3. CASE UNCHANGED layoutVars
  <2>1. UNCHANGED <<generation, blocked, shutdown, monitors, destroyed, win, tiling, queue,
                    op, moved, workspaces>>
    BY <1>3 DEF layoutVars, session, safety, results
  <2>2. OpMoves
    BY <2>1 DEF OpMoves
  <2>3. Forward
    BY <2>1, Typed, ForwardSafety DEF LayoutShape, SafetyTypeOK
  <2>4. QED
    BY <2>1, <2>2, <2>3, QueueUnchanged, EnvironmentStep
<1>4. QED
  BY <1>1, <1>2, <1>3 DEF Next

LEMMA LayoutAlways == Spec => []LayoutIndInvariant
<1>1. Init => LayoutIndInvariant
  BY LayoutInit
<1>2. LayoutIndInvariant /\ [Next]_layoutVars => LayoutIndInvariant'
  BY LayoutNext
<1>3. QED
  BY <1>1, <1>2, PTL DEF Spec

(* Whatever the desktop and the session do, every window is where its      *)
(* operation believes it is, the members of a pair know each other and     *)
(* exist, and no raise or resize is marked as pending but while it is in   *)
(* the queue, so that none blocks its pair for good.                       *)
THEOREM LayoutKept == Spec => []LayoutInvariant
<1>1. LayoutIndInvariant => LayoutInvariant
  <2> SUFFICES ASSUME LayoutIndInvariant
               PROVE  LayoutInvariant
    OBVIOUS
  <2>1. LayoutShape /\ OpShape(op) /\ PairsAreMutual /\ PendingIsQueued
    BY DEF LayoutIndInvariant, LayoutShape
  <2>2. \A i \in DOMAIN queue : queue[i] \in RequestType
    BY <2>1 DEF LayoutShape
  <2>3. op.pc \in PCs /\ (op.pc # "idle" => op.pairs \subseteq Match)
    BY <2>1 DEF OpShape, OpType
  <2>4. LayoutTypeOK
    BY <2>1, <2>2, <2>3 DEF LayoutShape, LayoutTypeOK, OpShape
  <2>5. QED
    BY <2>1, <2>4 DEF LayoutInvariant
<1>2. QED
  BY <1>1, LayoutAlways, PTL

-----------------------------------------------------------------------------
(* What a step may touch.                                                  *)

(* The world takes back what was asked, and never asks anything itself.    *)
TakesBack ==
  /\ \A w \in Windows : NothingAsked(w)
  /\ UNCHANGED moved /\ workspaces' <= workspaces
  /\ \A w \in Windows : tiling'.tile[w] \in {tiling.tile[w], None}

(* One window, for which the request may still be carried out.             *)
TouchesOne ==
  /\ op.pc # "idle" /\ op.w \in Windows /\ CanMove(op.w, op.req)
  /\ \A v \in Windows \ {op.w} : win'[v] = win[v]
  /\ win'[op.w].frame # win[op.w].frame => ~win[op.w].max /\ ~win[op.w].full
  /\ \/ win'[op.w].goal \in {win[op.w].goal, None}
     \/ win'[op.w].goal \in Nat /\ win'[op.w].goal < monitors
  /\ win'[op.w].ws = win[op.w].ws \/ win'[op.w].ws < workspaces
  /\ UNCHANGED moved

(* The second window of a pair.                                            *)
TouchesPartner ==
  /\ op.pc = "idle" /\ ResizePartner /\ UNCHANGED <<moved, workspaces>>
  /\ tiling'.tile = tiling.tile

(* A record is used up: the window it was used for is touched no more.     *)
UsesRecord ==
  /\ op.pc = "finish" /\ CanMove(op.w, op.req) /\ UNCHANGED <<win, workspaces, tiling>>
  /\ moved' = [moved EXCEPT ![op.r] = op.w]

LEMMA NothingTouched ==
  ASSUME LayoutIndInvariant, UNCHANGED <<win, workspaces, moved>>, tiling'.tile = tiling.tile
  PROVE  TakesBack
BY Typed DEF TakesBack, NothingAsked, LayoutShape

LEMMA EnvironmentTakesBack ==
  ASSUME LayoutIndInvariant, Environment
  PROVE  TakesBack
<1>1. CASE \/ AskForApp \/ QuietEnds \/ SessionEnds \/ SessionContinues \/ Withdraw
           \/ \E n \in 1..MaxMonitors : MonitorsChanged(n)
           \/ \E w \in Windows : AskForWindow(w)
  BY <1>1, NothingTouched
     DEF AskForApp, AskForWindow, Ask, QuietEnds, SessionEnds, SessionContinues, Withdraw,
         MonitorsChanged, results
<1>2. CASE Disable
  <2>1. UNCHANGED <<win, moved, workspaces>> /\ tiling' = TilingDestroyed(tiling)
    BY <1>2 DEF Disable, results
  <2>2. \A v \in Windows : tiling'.tile[v] = None
    BY <2>1, Typed, TilingDestroyedEffect
  <2>3. QED
    BY <2>1, <2>2, Typed DEF TakesBack, NothingAsked, LayoutShape
<1>3. CASE WorkspaceRemoved
  BY <1>3, Typed DEF WorkspaceRemoved, TakesBack, NothingAsked, LayoutShape
<1>4. CASE TilingEvent
  <2>1. UNCHANGED <<win, moved, workspaces>>
    BY <1>4 DEF TilingEvent, results
  <2>2. PICK w \in Windows : \/ Raised(w) \/ SizeChanged(w)
                             \/ \E b \in BOOLEAN : GrabBegin(w, b) \/ GrabEnd(w, b)
    BY <1>4 DEF TilingEvent
  <2>3. CASE Raised(w) \/ SizeChanged(w)
    BY <2>1, <2>3, Typed, NothingTouched DEF Raised, SizeChanged, TilingType
  <2>4. CASE \E b \in BOOLEAN : GrabBegin(w, b) \/ GrabEnd(w, b)
    <3>1. \A v \in Windows : tiling'.tile[v] \in {tiling.tile[v], None}
      BY <2>4, GrabBeginEffect, GrabEndEffect
    <3>2. QED
      BY <2>1, <3>1, Typed DEF TakesBack, NothingAsked, LayoutShape
  <2>5. QED
    BY <2>2, <2>3, <2>4
<1>5. ASSUME NEW w \in Windows, Unmanage(w)
      PROVE  TakesBack
  <2>1. UNCHANGED <<moved, workspaces>>
    BY <1>5 DEF Unmanage, results
  <2>2. \A v \in Windows : NothingAsked(v)
    BY <1>5, Typed DEF Unmanage, NothingAsked, WindowType
  <2>3. \A v \in Windows : tiling'.tile[v] \in {tiling.tile[v], None}
    <3>1. CASE UNCHANGED tiling
      BY <3>1
    <3>2. CASE tiling' = Detach(tiling, w)
      BY <3>2, Typed, DetachEffect
    <3>3. QED
      BY <1>5, <3>1, <3>2 DEF Unmanage
  <2>4. QED
    BY <2>1, <2>2, <2>3, Typed DEF TakesBack, LayoutShape
<1>6. ASSUME NEW w \in Windows,
             \/ Unmaximized(w) \/ StateChanged(w)
             \/ \E n \in 0..(MaxMonitors - 1) : EntersMonitor(w, n)
      PROVE  TakesBack
  <2>1. UNCHANGED <<moved, workspaces, tiling>>
    BY <1>6 DEF Unmaximized, StateChanged, EntersMonitor, results
  <2>2. \A v \in Windows : NothingAsked(v)
    <3>1. CASE Unmaximized(w)
      BY <3>1, Typed DEF Unmaximized, NothingAsked, WindowType
    <3>2. CASE StateChanged(w)
      <4> DEFINE f == ~win[w].full
      <4>1. \/ win' = [win EXCEPT ![w].max = TRUE, ![w].leaving = FALSE]
            \/ win' = [win EXCEPT ![w].full = f]
        BY <3>2 DEF StateChanged
      <4> HIDE DEF f
      <4>2. CASE win' = [win EXCEPT ![w].max = TRUE, ![w].leaving = FALSE]
        BY <4>2, Typed DEF NothingAsked, WindowType
      <4>3. CASE win' = [win EXCEPT ![w].full = f]
        BY <4>3, Typed DEF NothingAsked, WindowType
      <4>4. QED
        BY <4>1, <4>2, <4>3
    <3>3. CASE \E n \in 0..(MaxMonitors - 1) : EntersMonitor(w, n)
      BY <3>3, Typed DEF EntersMonitor, NothingAsked, WindowType
    <3>4. QED
      BY <1>6, <3>1, <3>2, <3>3
  <2>3. QED
    BY <2>1, <2>2, Typed DEF TakesBack, LayoutShape
<1>7. QED
  BY <1>1, <1>2, <1>3, <1>4, <1>5, <1>6 DEF Environment

(* A target that is asked for exists.                                      *)
LEMMA TargetExists ==
  ASSUME LayoutShape, NEW w \in Windows, NEW r \in Records, NEW m \in Wanted(r),
         IsWindowUsable(w)
  PROVE  TargetMonitor(w, r, m) \in Nat /\ TargetMonitor(w, r, m) < monitors
<1>1. Primary(w) < monitors /\ monitors \in Nat
  BY DEF Primary, IsWindowUsable, LayoutShape
<1>2. m \in 0..(monitors - 1) => m < monitors
  BY <1>1
<1>3. TargetMonitor(w, r, m) < monitors
  BY <1>1, <1>2 DEF TargetMonitor
<1>4. QED
  BY <1>3, TargetIsMonitor

(* A frame is set only by these two, on a window that is not occupied.     *)
LEMMA MoveResizeFrameTouches ==
  ASSUME LayoutIndInvariant, MoveResizeFrame, op.pc # "idle", op.w \in Windows,
         UNCHANGED <<moved, workspaces, tiling>>
  PROVE  TakesBack \/ TouchesOne
<1>1. CASE UNCHANGED win
  BY <1>1, NothingTouched
<1>2. CASE ~UNCHANGED win
  <2>1. /\ CanMove(op.w, op.req) /\ ~win[op.w].max /\ ~win[op.w].full
        /\ win' = [win EXCEPT ![op.w].frame = <<"saved", op.r>>]
    BY <1>2 DEF MoveResizeFrame
  <2>2. /\ \A v \in Windows \ {op.w} : win'[v] = win[v]
        /\ win'[op.w].goal = win[op.w].goal /\ win'[op.w].ws = win[op.w].ws
    BY <2>1, Typed DEF WindowType
  <2>3. QED
    BY <2>1, <2>2 DEF TouchesOne
<1>3. QED
  BY <1>1, <1>2

LEMMA OpTouches ==
  ASSUME LayoutIndInvariant, OpStep
  PROVE  TakesBack \/ TouchesOne \/ TouchesPartner \/ UsesRecord
<1>0. op.pc \notin {"idle", "next"} => op.w \in Windows /\ op.r \in Records
  BY Typed DEF OpShape
<1>1. CASE Dispatch \/ NextPair \/ MonitorTimeout \/ PaceEnds
  BY <1>1, NothingTouched DEF Dispatch, NextPair, MonitorTimeout, PaceEnds, results
<1>2. CASE RestoreMonitor
  <2>1. op.pc # "idle" /\ op.w \in Windows /\ op.r \in Records /\ UNCHANGED <<moved, workspaces, tiling>>
    BY <1>0, <1>2 DEF RestoreMonitor, results
  <2>2. CASE UNCHANGED win
    BY <2>1, <2>2, NothingTouched
  <2>3. CASE ~UNCHANGED win
    <3>1. CanMove(op.w, op.req)
      BY <1>2, <2>3 DEF RestoreMonitor
    <3>2. PICK m \in Wanted(op.r) :
            win' = [win EXCEPT ![op.w].goal = TargetMonitor(op.w, op.r, m)]
      BY <1>2, <2>3 DEF RestoreMonitor
    <3> DEFINE t == TargetMonitor(op.w, op.r, m)
    <3>3. t \in Nat /\ t < monitors
      BY <2>1, <3>1, Typed, TargetExists DEF CanMove
    <3> HIDE DEF t
    <3>4. win' = [win EXCEPT ![op.w].goal = t]
      BY <3>2 DEF t
    <3>5. /\ \A v \in Windows \ {op.w} : win'[v] = win[v]
          /\ win'[op.w].frame = win[op.w].frame /\ win'[op.w].ws = win[op.w].ws
          /\ win'[op.w].goal = t
      BY <2>1, <3>4, Typed DEF WindowType
    <3>6. QED
      BY <2>1, <3>1, <3>3, <3>5 DEF TouchesOne
  <2>4. QED
    BY <2>2, <2>3
<1>3. CASE RestoreWindowState
  <2>1. op.pc # "idle" /\ op.w \in Windows /\ UNCHANGED <<moved, workspaces, tiling>>
    BY <1>0, <1>3 DEF RestoreWindowState, results
  <2>2. CASE UNCHANGED win
    BY <2>1, <2>2, NothingTouched
  <2>3. CASE ~UNCHANGED win
    <3>1. CanMove(op.w, op.req)
      BY <1>3, <2>3 DEF RestoreWindowState
    <3> DEFINE a == win[op.w].sticky \/ Saved[op.r].sticky
               b == win[op.w].max \/ Saved[op.r].max
               c == win[op.w].leaving /\ ~Saved[op.r].max
               u == [win[op.w] EXCEPT !.sticky = a, !.max = b, !.leaving = c]
    <3>2. win' = [win EXCEPT ![op.w] = u]
      BY <1>3, <2>1, <3>1, Typed DEF RestoreWindowState, WindowType
    <3> HIDE DEF a, b, c
    <3>3. u.frame = win[op.w].frame /\ u.goal = win[op.w].goal /\ u.ws = win[op.w].ws
      BY <2>1, Typed DEF WindowType
    <3> HIDE DEF u
    <3>4. (\A v \in Windows \ {op.w} : win'[v] = win[v]) /\ win'[op.w] = u
      BY <2>1, <3>2, Typed
    <3>5. QED
      BY <2>1, <3>1, <3>3, <3>4 DEF TouchesOne
  <2>4. QED
    BY <2>2, <2>3
<1>4. CASE RestoreGeometry
  <2>1. op.pc # "idle" /\ op.w \in Windows /\ UNCHANGED <<moved, workspaces, tiling>>
    BY <1>0, <1>4 DEF RestoreGeometry, results
  <2>2. CASE UNCHANGED win
    BY <2>1, <2>2, NothingTouched
  <2>3. CASE MoveResizeFrame
    BY <2>1, <2>3, MoveResizeFrameTouches
  <2>4. CASE CanMove(op.w, op.req) /\ win' = [win EXCEPT ![op.w].leaving = TRUE]
    <3>1. /\ \A v \in Windows \ {op.w} : win'[v] = win[v]
          /\ win'[op.w].frame = win[op.w].frame /\ win'[op.w].ws = win[op.w].ws
          /\ win'[op.w].goal = win[op.w].goal
      BY <2>1, <2>4, Typed DEF WindowType
    <3>2. QED
      BY <2>1, <2>4, <3>1 DEF TouchesOne
  <2>5. QED
    BY <1>4, <2>2, <2>3, <2>4 DEF RestoreGeometry
<1>5. CASE PollUnmaximize
  <2>1. op.pc # "idle" /\ op.w \in Windows /\ UNCHANGED <<moved, workspaces, tiling>>
    BY <1>0, <1>5 DEF PollUnmaximize, results
  <2>2. UNCHANGED win \/ MoveResizeFrame
    BY <1>5 DEF PollUnmaximize
  <2>3. QED
    BY <2>1, <2>2, NothingTouched, MoveResizeFrameTouches
<1>6. CASE RestoreTiling
  <2>1. op.pc # "idle" /\ op.w \in Windows /\ UNCHANGED <<moved, workspaces, win>>
    BY <1>0, <1>6 DEF RestoreTiling, results
  <2>2. UNCHANGED tiling \/ CanMove(op.w, op.req)
    BY <1>6 DEF RestoreTiling
  <2>3. QED
    BY <2>1, <2>2, NothingTouched DEF TouchesOne
<1>7. CASE CreateWorkspaces
  <2>1. op.pc # "idle" /\ op.w \in Windows /\ UNCHANGED <<moved, tiling, win>>
    BY <1>0, <1>7 DEF CreateWorkspaces
  <2>2. UNCHANGED workspaces \/ CanMove(op.w, op.req)
    BY <1>7 DEF CreateWorkspaces
  <2>3. QED
    BY <2>1, <2>2, NothingTouched DEF TouchesOne
<1>8. CASE ChangeWorkspace
  <2>1. op.pc # "idle" /\ op.w \in Windows /\ UNCHANGED <<moved, workspaces, tiling>>
    BY <1>0, <1>8 DEF ChangeWorkspace, results
  <2>2. CASE UNCHANGED win
    BY <2>1, <2>2, NothingTouched
  <2>3. CASE ~UNCHANGED win
    <3> DEFINE n == Saved[op.r].ws
    <3>1. CanMove(op.w, op.req) /\ n < workspaces /\ win' = [win EXCEPT ![op.w].ws = n]
      BY <1>8, <2>3 DEF ChangeWorkspace
    <3> HIDE DEF n
    <3>2. /\ \A v \in Windows \ {op.w} : win'[v] = win[v]
          /\ win'[op.w].frame = win[op.w].frame /\ win'[op.w].goal = win[op.w].goal
          /\ win'[op.w].ws = n
      BY <2>1, <3>1, Typed DEF WindowType
    <3>3. QED
      BY <2>1, <3>1, <3>2 DEF TouchesOne
  <2>4. QED
    BY <2>2, <2>3
<1>9. CASE FinishWindow
  <2>1. UNCHANGED <<win, workspaces, tiling>> /\ op.pc = "finish"
    BY <1>9 DEF FinishWindow
  <2>2. UNCHANGED moved \/ (CanMove(op.w, op.req) /\ moved' = [moved EXCEPT ![op.r] = op.w])
    BY <1>9 DEF FinishWindow
  <2>3. QED
    BY <2>1, <2>2, NothingTouched DEF UsesRecord
<1>10. CASE PartnerStep
  <2>1. UNCHANGED <<moved, workspaces>> /\ op.pc = "idle"
    BY <1>10 DEF PartnerStep, results
  <2>2. tiling' = Settled(Head(queue))
    BY <1>10 DEF PartnerStep, RaisePartner, SkipPartner, ResizePartner
  <2>3. Head(queue) \in RequestType /\ Head(queue).w \in Windows
    <3>1. queue # <<>> /\ Head(queue).kind \in {"raise", "resize"}
      BY <1>10 DEF PartnerStep, RaisePartner, SkipPartner, ResizePartner, Waiting
    <3>2. QED
      BY <3>1, Typed, TailOfQueue DEF RequestShape
  <2>4. tiling'.tile = tiling.tile
    BY <2>2, <2>3, Typed, SettledEffect
  <2>5. QED
    BY <1>10, <2>1, <2>4, NothingTouched DEF PartnerStep, TouchesPartner
<1>11. QED
  BY <1>1, <1>2, <1>3, <1>4, <1>5, <1>6, <1>7, <1>8, <1>9, <1>10 DEF OpStep, PartnerStep

LEMMA StepTouches ==
  ASSUME LayoutIndInvariant, Next
  PROVE  TakesBack \/ TouchesOne \/ TouchesPartner \/ UsesRecord
BY OpTouches, EnvironmentTakesBack DEF Next

(* The partner is resized only if it may be.                               *)
LEMMA PartnerTouched ==
  ASSUME LayoutIndInvariant, TouchesPartner
  PROVE  LET q == Head(queue) IN
         /\ q.x \in Windows /\ q.w \in Windows /\ MayDispatch(q) /\ q.kind = "resize"
         /\ q.resizeGen = tiling.resizeGen /\ PairIsUsable(q.w, q.x)
         /\ ~win[q.x].max /\ ~win[q.x].full
         /\ \A v \in Windows \ {q.x} : win'[v] = win[v]
         /\ win'[q.x].goal = win[q.x].goal /\ win'[q.x].ws = win[q.x].ws
<1> DEFINE q == Head(queue)
<1>1. /\ queue # <<>> /\ q.kind = "resize" /\ MayDispatch(q) /\ MayResize(q.w, q.x, q.resizeGen)
      /\ win' = [win EXCEPT ![q.x].frame = <<"pair", q.w>>]
  BY DEF TouchesPartner, ResizePartner, Waiting
<1>2. RequestShape(q)
  BY <1>1, Typed, TailOfQueue
<1> HIDE DEF q
<1>3. q.x \in Windows /\ q.w \in Windows
  BY <1>1, <1>2 DEF RequestShape
<1>4. /\ \A v \in Windows \ {q.x} : win'[v] = win[v]
      /\ win'[q.x].goal = win[q.x].goal /\ win'[q.x].ws = win[q.x].ws
  BY <1>1, <1>3, Typed DEF WindowType
<1>5. QED
  BY <1>1, <1>3, <1>4 DEF MayResize, q

(* A record of the session is used for one window, once, and is marked as  *)
(* used only when that window exists and is on the workspace it was saved  *)
(* on, or everywhere as it was saved (FinishWindow sets saved.moved).      *)
THEOREM RecordsAreUsedOnce == Spec => RecordUsedOnce
<1>1. LayoutIndInvariant /\ [Next]_layoutVars =>
        [\A r \in Records : moved'[r] # moved[r] =>
           /\ moved[r] = None
           /\ LET w == win[moved'[r]]
              IN w.alive /\ (w.ws = Saved[r].ws \/ (w.sticky /\ Saved[r].sticky))]_layoutVars
  <2> SUFFICES ASSUME LayoutIndInvariant, Next,
                      NEW r \in Records, moved'[r] # moved[r]
               PROVE  /\ moved[r] = None
                      /\ LET w == win[moved'[r]]
                         IN w.alive /\ (w.ws = Saved[r].ws \/ (w.sticky /\ Saved[r].sticky))
    OBVIOUS
  <2>1. UsesRecord
    BY StepTouches DEF TakesBack, TouchesOne, TouchesPartner
  <2>2. op.r \in Records /\ op.w \in Windows /\ moved[op.r] = None
        /\ (win[op.w].ws = Saved[op.r].ws \/ (win[op.w].sticky /\ Saved[op.r].sticky))
    BY <2>1, Typed DEF UsesRecord, LayoutIndInvariant, RecordInHand, Active, OpShape
  <2>3. r = op.r /\ moved'[r] = op.w /\ win[op.w].alive
    BY <2>1, <2>2, Typed DEF UsesRecord, LayoutShape, CanMove, IsWindowUsable
  <2>4. QED
    BY <2>2, <2>3
<1>2. QED
  BY <1>1, LayoutAlways, PTL DEF Spec, RecordUsedOnce

(* No frame is set while a window is maximized or fullscreen, neither for  *)
(* a saved layout nor for a pair, whatever became of the window since      *)
(* unmaximize() was called or the resize was queued.                       *)
THEOREM OccupiedIsNotResized == Spec => NoResizeWhileMaximized
<1>1. LayoutIndInvariant /\ [Next]_layoutVars =>
        [\A w \in Windows :
           win'[w].frame # win[w].frame => ~win[w].max /\ ~win[w].full]_layoutVars
  <2> SUFFICES ASSUME LayoutIndInvariant, Next,
                      NEW w \in Windows, win'[w].frame # win[w].frame
               PROVE  ~win[w].max /\ ~win[w].full
    OBVIOUS
  <2>1. ~TakesBack /\ ~UsesRecord
    BY DEF TakesBack, NothingAsked, UsesRecord
  <2>2. CASE TouchesOne
    BY <2>2 DEF TouchesOne
  <2>3. CASE TouchesPartner
    BY <2>3, PartnerTouched
  <2>4. QED
    BY <2>1, <2>2, <2>3, StepTouches
<1>2. QED
  BY <1>1, LayoutAlways, PTL DEF Spec, NoResizeWhileMaximized

(* Mutter is asked to change only windows that exist and stand on a        *)
(* monitor that exists, to go to monitors and workspaces that exist, and   *)
(* not while the monitors are settling, the session ends or the extension  *)
(* is disabled (_canMove before every native call).                        *)
THEOREM TouchesOnlyUsable == Spec => OnlyUsableTouched
<1>1. LayoutIndInvariant /\ [Next]_layoutVars =>
        [\A w \in Windows : ~NothingAsked(w) =>
           /\ win[w].alive /\ win[w].monitor < monitors
           /\ ~shutdown /\ ~blocked /\ ~destroyed
           /\ win[w].goal' # None => win[w].goal' < monitors \/ win[w].goal' = win[w].goal
           /\ win[w].ws' < workspaces \/ win[w].ws' = win[w].ws]_layoutVars
  <2> SUFFICES ASSUME LayoutIndInvariant, Next,
                      NEW w \in Windows, ~NothingAsked(w)
               PROVE  /\ win[w].alive /\ win[w].monitor < monitors
                      /\ ~shutdown /\ ~blocked /\ ~destroyed
                      /\ win[w].goal' # None =>
                           win[w].goal' < monitors \/ win[w].goal' = win[w].goal
                      /\ win[w].ws' < workspaces \/ win[w].ws' = win[w].ws
    OBVIOUS
  <2>1. ~TakesBack /\ ~UsesRecord
    BY Typed DEF TakesBack, NothingAsked, UsesRecord
  <2>2. CASE TouchesOne
    <3>1. w = op.w
      BY <2>2 DEF TouchesOne, NothingAsked
    <3>2. CanMove(w, op.req)
      BY <2>2, <3>1 DEF TouchesOne
    <3>3. QED
      BY <2>2, <3>1, <3>2
         DEF TouchesOne, CanMove, MayDispatch, MayRestoreLayout, MayRestoreApplications,
             IsWindowUsable
  <2>3. CASE TouchesPartner
    <3> DEFINE q == Head(queue)
    <3>1. /\ q.x \in Windows /\ MayDispatch(q) /\ PairIsUsable(q.w, q.x)
          /\ \A v \in Windows \ {q.x} : win'[v] = win[v]
          /\ win'[q.x].goal = win[q.x].goal /\ win'[q.x].ws = win[q.x].ws
      BY <2>3, PartnerTouched
    <3> HIDE DEF q
    <3>2. w = q.x
      BY <3>1 DEF NothingAsked
    <3>3. QED
      BY <3>1, <3>2
         DEF PairIsUsable, MayDispatch, MayRestoreLayout, MayRestoreApplications,
             IsWindowUsable
  <2>4. QED
    BY <2>1, <2>2, <2>3, StepTouches
<1>2. QED
  BY <1>1, LayoutAlways, PTL DEF Spec, OnlyUsableTouched

(* An obsolete request touches nothing, however long after it was made     *)
(* obsolete and whatever is allowed again by then (_layoutGuard).          *)
THEOREM StaleIsInert == Spec => StaleTouchesNothing
<1>1. LayoutIndInvariant /\ [Next]_layoutVars =>
        [Obsolete => /\ \A w \in Windows : NothingAsked(w)
                     /\ workspaces' <= workspaces
                     /\ \A w \in Windows : tiling'.tile[w] \in {tiling.tile[w], None}]_layoutVars
  <2> SUFFICES ASSUME LayoutIndInvariant, Next, Obsolete
               PROVE  /\ \A w \in Windows : NothingAsked(w)
                      /\ workspaces' <= workspaces
                      /\ \A w \in Windows : tiling'.tile[w] \in {tiling.tile[w], None}
    OBVIOUS
  <2>1. ~TouchesOne
    <3> SUFFICES ASSUME op.pc # "idle", op.req.stale, CanMove(op.w, op.req)
                 PROVE  FALSE
      BY DEF Obsolete, TouchesOne
    <3>1. PICK q : q = op.req
      OBVIOUS
    <3>2. RunningReason(q)
      BY <3>1 DEF LayoutIndInvariant, RunningIsRefused
    <3>3. MayDispatch(q) /\ win[op.w].alive
      BY <3>1 DEF CanMove, IsWindowUsable
    <3>4. QED
      BY <3>2, <3>3 DEF RunningReason, Refused, MayDispatch, MayRestoreLayout
  <2>2. ~TouchesPartner
    <3> SUFFICES ASSUME TouchesPartner
                 PROVE  FALSE
      OBVIOUS
    <3>1. PICK q : q = Head(queue)
      OBVIOUS
    <3>2. /\ MayDispatch(q) /\ q.kind = "resize" /\ q.resizeGen = tiling.resizeGen
          /\ PairIsUsable(q.w, q.x)
      BY <3>1, PartnerTouched
    <3>3. queue # <<>> /\ q.stale
      BY <3>1 DEF Obsolete, TouchesPartner, ResizePartner, Waiting
    <3>4. QueuedReason(q)
      BY <3>1, <3>3, Typed, TailOfQueue DEF LayoutIndInvariant, QueuedIsRefused, QueuedRefusal
    <3>5. QED
      BY <3>2, <3>4
         DEF QueuedReason, Refused, MayDispatch, MayRestoreLayout, PairIsUsable, IsWindowUsable
  <2>3. CASE TakesBack
    BY <2>3 DEF TakesBack
  <2>4. CASE UsesRecord
    BY <2>4, Typed DEF UsesRecord, NothingAsked, LayoutShape
  <2>5. QED
    BY <2>1, <2>2, <2>3, <2>4, StepTouches
<1>2. QED
  BY <1>1, LayoutAlways, PTL DEF Spec, StaleTouchesNothing
=============================================================================
