--------------------------- MODULE ClosingProofs ---------------------------
(***************************************************************************)
(* Proofs about Closing, for any applications, any number of closings at a *)
(* time and any bounds.                                                    *)
(***************************************************************************)
EXTENDS Closing, TLAPS

(* Why the session is ended once: the only state in which it was ended is  *)
(* `confirmed', and from there Cancel, which would leave that state, is    *)
(* out of reach.                                                           *)
ConfirmedOnce ==
  /\ automatic \in {0, 1}
  /\ automatic = 1 => list.state = "confirmed"
  /\ list.state = "confirmed" => ~list.cancel

(* A closing keeps account only of applications that still run.            *)
SinceRuns == \A r \in Closings : closing[r].since \subseteq RunningApps

(* Processes are watched, and idle calls wait, only with GTop.             *)
WatchedWithGTop == ~gtop => checking = "no" /\ idles = 0

EndInvariant ==
  /\ ClosingTypeOK
  /\ ConfirmedOnce
  /\ SinceRuns
  /\ WorkspacesStay
  /\ WatchedWithGTop

-----------------------------------------------------------------------------
(* The operators several actions call.                                     *)

LEMMA EndEventCounted ==
  ASSUME EndInvariant, Event
  PROVE  events' \in 0..MaxEvents
BY ClosingAssumption DEF EndInvariant, ClosingTypeOK, Event

(* _confirm() keeps the types, and is without effect once confirmed.       *)
LEMMA AutoConfirmEffect ==
  ASSUME EndInvariant, AutoConfirm
  PROVE  /\ list' \in ListType
         /\ dialog' \in [open: BOOLEAN, opening: BOOLEAN]
         /\ asked' \in BOOLEAN
         /\ ConfirmedOnce'
<1>1. CASE list.state = "confirmed"
  BY <1>1 DEF EndInvariant, ClosingTypeOK, ConfirmedOnce, AutoConfirm
<1>2. CASE list.state # "confirmed"
  <2>1. /\ list' = [list EXCEPT !.state = "confirmed", !.retry = TRUE, !.cancel = FALSE]
        /\ dialog' = [dialog EXCEPT !.opening = FALSE]
        /\ asked' = FALSE /\ automatic' = 1
    BY <1>2 DEF EndInvariant, ConfirmedOnce, AutoConfirm
  <2>2. list' \in ListType /\ list'.state = "confirmed" /\ list'.cancel = FALSE
    BY <2>1 DEF EndInvariant, ClosingTypeOK, ListType
  <2>3. dialog' \in [open: BOOLEAN, opening: BOOLEAN]
    BY <2>1 DEF EndInvariant, ClosingTypeOK
  <2>4. QED
    BY <2>1, <2>2, <2>3 DEF ConfirmedOnce
<1>3. QED
  BY <1>1, <1>2

(* _prepareToConfirm() confirms at once only without GTop.                 *)
LEMMA PrepareEffect ==
  ASSUME EndInvariant, Prepare, UNCHANGED <<gtop, idles>>
  PROVE  /\ list' \in ListType
         /\ dialog' \in [open: BOOLEAN, opening: BOOLEAN]
         /\ asked' \in BOOLEAN /\ checking' \in {"no", "armed", "dead"}
         /\ ConfirmedOnce' /\ WatchedWithGTop'
<1>1. CASE gtop
  BY <1>1 DEF Prepare, EndInvariant, ClosingTypeOK, ConfirmedOnce, WatchedWithGTop
<1>2. CASE ~gtop
  BY <1>2, AutoConfirmEffect DEF Prepare, EndInvariant, ClosingTypeOK, WatchedWithGTop
<1>3. QED
  BY <1>1, <1>2

(* updateRunningPids() notes applications.                                 *)
LEMMA PidsAreApps == EndInvariant => PidsNow \subseteq Apps
BY DEF EndInvariant, ClosingTypeOK, PidsNow, RunningApps

(* A new closing makes every workspace stay, or claims none.               *)
LEMMA BeginEffect ==
  ASSUME EndInvariant, NEW kind \in {"logout", "retry", "menu"}, BeginClosing(kind),
         UNCHANGED open
  PROVE  /\ closing' \in [Closings -> ClosingCall]
         /\ kept' \subseteq Apps
         /\ SinceRuns' /\ WorkspacesStay'
<1> DEFINE r == CHOOSE r \in Closings : closing[r].at = "off"
           new == [at |-> IF ClosingByRules = {} THEN "all" ELSE "starting", kind |-> kind,
                   since |-> IF kind = "menu" THEN {} ELSE RunningApps,
                   ruled |-> ClosingByRules, plain |-> NewRunningApps,
                   step |-> [a \in Apps |-> IF ClosingByRules = {} /\ a \in NewRunningApps
                                            THEN "asking" ELSE "off"],
                   left |-> [a \in Apps |-> IF open[a] > 1 THEN open[a] ELSE 0]]
<1>1. r \in Closings
  BY DEF BeginClosing
<1>2. closing' = [closing EXCEPT ![r] = new] /\ kept' = IF kind = "menu" THEN kept ELSE Apps
  BY DEF BeginClosing
<1>3. RunningApps \subseteq Apps /\ ClosingByRules \subseteq Apps /\ NewRunningApps \subseteq Apps
  BY DEF RunningApps, ClosingByRules, NewRunningApps
<1>4. new.left \in [Apps -> 0..MaxWindows] /\ new.step \in [Apps -> Steps]
  BY ClosingAssumption DEF EndInvariant, ClosingTypeOK, Steps
<1>5. new \in ClosingCall
  <2>1. new.at \in {"starting", "all"} /\ new.since \subseteq Apps
    BY <1>3
  <2>2. QED
    BY <1>3, <1>4, <2>1 DEF ClosingCall
<1> HIDE DEF r
<1>6. closing' \in [Closings -> ClosingCall] /\ kept' \subseteq Apps
  <2> HIDE DEF new
  <2>1. QED
    BY <1>1, <1>2, <1>5 DEF EndInvariant, ClosingTypeOK
<1>7. RunningApps' = RunningApps
  BY DEF RunningApps
<1>8. new.since \subseteq RunningApps /\ (kind = "menu" => new.since = {})
  OBVIOUS
<1>9. \A s \in Closings : closing'[s] = IF s = r THEN new ELSE closing[s]
  <2> HIDE DEF new
  <2>1. QED
    BY <1>1, <1>2 DEF EndInvariant, ClosingTypeOK
<1> HIDE DEF new
<1>10. SinceRuns'
  BY <1>7, <1>8, <1>9 DEF SinceRuns, EndInvariant
<1>11. WorkspacesStay'
  BY <1>2, <1>8, <1>9 DEF WorkspacesStay, EndInvariant
<1>12. QED
  BY <1>6, <1>10, <1>11

-----------------------------------------------------------------------------
(* Most actions leave the calls of closeWindows(), or the window of        *)
(* running applications, alone.                                            *)

LEMMA SameClosings ==
  ASSUME EndInvariant, UNCHANGED <<open, closing, kept>>
  PROVE  SinceRuns' /\ WorkspacesStay'
BY DEF EndInvariant, SinceRuns, WorkspacesStay, RunningApps

(* A step of one closing keeps the types and what it keeps account of.     *)
LEMMA StepEffect ==
  ASSUME EndInvariant, NEW r \in Closings, NEW c \in ClosingCall,
         closing' = [closing EXCEPT ![r] = c], c.since = closing[r].since,
         UNCHANGED <<open, kept>>
  PROVE  closing' \in [Closings -> ClosingCall] /\ SinceRuns' /\ WorkspacesStay'
<1>1. /\ closing' \in [Closings -> ClosingCall]
      /\ \A s \in Closings : closing'[s].since = closing[s].since
  BY DEF EndInvariant, ClosingTypeOK
<1>2. QED
  BY <1>1 DEF EndInvariant, SinceRuns, WorkspacesStay, RunningApps

LEMMA YdotoolInv ==
  ASSUME EndInvariant, NEW r \in Closings, YdotoolStarted(r)
  PROVE  EndInvariant'
<1> DEFINE c == [closing[r] EXCEPT !.at = "rules"]
<1>1. c \in ClosingCall /\ c.since = closing[r].since
  BY DEF EndInvariant, ClosingTypeOK, ClosingCall
<1>2. closing' = [closing EXCEPT ![r] = c] /\ UNCHANGED <<open, kept>>
  BY DEF YdotoolStarted, EndInvariant, ClosingTypeOK
<1>3. closing' \in [Closings -> ClosingCall] /\ SinceRuns' /\ WorkspacesStay'
  BY <1>1, <1>2, StepEffect
<1>4. QED
  BY <1>3 DEF YdotoolStarted, EndInvariant, ClosingTypeOK, ConfirmedOnce, WatchedWithGTop

LEMMA NextRuleInv ==
  ASSUME EndInvariant, NEW r \in Closings, NextRule(r)
  PROVE  EndInvariant'
<1>1. /\ closing[r] \in ClosingCall
      /\ \A a \in Apps : (IF open[a] > 1 THEN open[a] ELSE 0) \in 0..MaxWindows
  BY ClosingAssumption DEF EndInvariant, ClosingTypeOK
<1>2. PICK c \in ClosingCall : closing' = [closing EXCEPT ![r] = c] /\ c.since = closing[r].since
  <2>1. CASE closing[r].ruled = {}
    <3> DEFINE c == [closing[r] EXCEPT !.at = "all",
            !.step = [a \in Apps |-> IF a \in closing[r].plain THEN "asking" ELSE "off"],
            !.left = [a \in Apps |-> IF open[a] > 1 THEN open[a] ELSE 0]]
    <3>1. c \in ClosingCall /\ c.since = closing[r].since
      BY <1>1 DEF ClosingCall, Steps
    <3>2. closing' = [closing EXCEPT ![r] = c]
      BY <2>1 DEF NextRule, EndInvariant, ClosingTypeOK
    <3>3. QED
      BY <3>1, <3>2
  <2>2. CASE closing[r].ruled # {}
    <3>1. PICK a \in closing[r].ruled :
            closing' = [closing EXCEPT ![r].ruled = @ \ {a}, ![r].step[a] = "asking",
                                       ![r].left[a] = IF open[a] > 1 THEN open[a] ELSE 0]
      BY <2>2 DEF NextRule
    <3> DEFINE c == [closing[r] EXCEPT !.ruled = @ \ {a}, !.step[a] = "asking",
                                       !.left[a] = IF open[a] > 1 THEN open[a] ELSE 0]
    <3>2. a \in Apps
      BY <1>1 DEF ClosingCall
    <3>3. c \in ClosingCall /\ c.since = closing[r].since
      BY <1>1, <3>2 DEF ClosingCall, Steps
    <3>4. closing' = [closing EXCEPT ![r] = c]
      BY <3>1 DEF EndInvariant, ClosingTypeOK
    <3>5. QED
      BY <3>3, <3>4
  <2>3. QED
    BY <2>1, <2>2
<1>3. closing' \in [Closings -> ClosingCall] /\ SinceRuns' /\ WorkspacesStay'
  BY <1>2, StepEffect DEF NextRule
<1>4. QED
  BY <1>3 DEF NextRule, EndInvariant, ClosingTypeOK, ConfirmedOnce, WatchedWithGTop

LEMMA AskInv ==
  ASSUME EndInvariant, NEW r \in Closings, NEW a \in Apps, AskToClose(r, a)
  PROVE  EndInvariant'
<1>1. closing[r] \in ClosingCall /\ closing[r].left[a] \in 0..MaxWindows /\ MaxWindows \in Nat
  BY ClosingAssumption DEF EndInvariant, ClosingTypeOK, ClosingCall
<1>2. \A s \in Steps, k \in 0..MaxWindows :
        [closing[r] EXCEPT !.step[a] = s, !.left[a] = k] \in ClosingCall
  BY <1>1 DEF ClosingCall
<1>3. PICK c \in ClosingCall : closing' = [closing EXCEPT ![r] = c] /\ c.since = closing[r].since
  <2>1. CASE \E k \in 0..(closing[r].left[a] - 1) :
               closing' = [closing EXCEPT ![r].step[a] = "deleting", ![r].left[a] = k]
    <3>0. 0..(closing[r].left[a] - 1) \subseteq 0..MaxWindows
      BY <1>1
    <3>1. PICK k \in 0..MaxWindows :
               closing' = [closing EXCEPT ![r].step[a] = "deleting", ![r].left[a] = k]
      BY <2>1, <3>0
    <3> DEFINE c == [closing[r] EXCEPT !.step[a] = "deleting", !.left[a] = k]
    <3>2. c \in ClosingCall /\ c.since = closing[r].since
      BY <1>1, <1>2 DEF Steps, ClosingCall
    <3>3. closing' = [closing EXCEPT ![r] = c]
      BY <3>1 DEF EndInvariant, ClosingTypeOK
    <3>4. QED
      BY <3>2, <3>3
  <2>2. ASSUME NEW s \in Steps, closing' = [closing EXCEPT ![r].step[a] = s, ![r].left[a] = 0]
        PROVE  \E c \in ClosingCall :
                 closing' = [closing EXCEPT ![r] = c] /\ c.since = closing[r].since
    <3> DEFINE c == [closing[r] EXCEPT !.step[a] = s, !.left[a] = 0]
    <3>0. 0 \in 0..MaxWindows /\ c.since = closing[r].since
      BY <1>1 DEF ClosingCall
    <3>1. c \in ClosingCall /\ c.since = closing[r].since
      BY <1>2, <3>0
    <3>2. closing' = [closing EXCEPT ![r] = c]
      BY <2>2 DEF EndInvariant, ClosingTypeOK
    <3>3. QED
      BY <3>1, <3>2
  <2>3. CASE closing' = [closing EXCEPT ![r].step[a] = "closed"]
    <3> DEFINE c == [closing[r] EXCEPT !.step[a] = "closed"]
    <3>1. c \in ClosingCall /\ c.since = closing[r].since
      BY <1>1 DEF ClosingCall, Steps
    <3>2. closing' = [closing EXCEPT ![r] = c]
      BY <2>3 DEF EndInvariant, ClosingTypeOK
    <3>3. QED
      BY <3>1, <3>2
  <2>4. "quitting" \in Steps /\ "left" \in Steps
    BY DEF Steps
  <2>5. QED
    BY <2>1, <2>2, <2>3, <2>4 DEF AskToClose
<1>4. closing' \in [Closings -> ClosingCall] /\ SinceRuns' /\ WorkspacesStay'
  BY <1>3, StepEffect DEF AskToClose
<1>5. QED
  BY <1>4 DEF AskToClose, EndInvariant, ClosingTypeOK, ConfirmedOnce, WatchedWithGTop

LEMMA KeysInv ==
  ASSUME EndInvariant, NEW r \in Closings, NEW a \in Apps, KeysSent(r, a)
  PROVE  EndInvariant'
<1> DEFINE c == [closing[r] EXCEPT !.step[a] = "off"]
<1>1. c \in ClosingCall /\ c.since = closing[r].since
  BY DEF EndInvariant, ClosingTypeOK, ClosingCall, Steps
<1>2. closing' = [closing EXCEPT ![r] = c] /\ UNCHANGED <<open, kept>>
  BY DEF KeysSent, EndInvariant, ClosingTypeOK
<1>3. closing' \in [Closings -> ClosingCall] /\ SinceRuns' /\ WorkspacesStay'
  BY <1>1, <1>2, StepEffect
<1>4. QED
  BY <1>3 DEF KeysSent, EndInvariant, ClosingTypeOK, ConfirmedOnce, WatchedWithGTop

(* The end of a closing gives up no workspace left of a running            *)
(* application, hence none that another closing keeps account of.          *)
LEMMA ClosingEndsInv ==
  ASSUME EndInvariant, NEW r \in Closings, ClosingEnds(r)
  PROVE  EndInvariant'
<1>1. closing' = [closing EXCEPT ![r] = NoClosing] /\ kept' = Released /\ UNCHANGED open
  BY DEF ClosingEnds
<1>2. NoClosing \in ClosingCall
  BY ClosingAssumption DEF NoClosing, ClosingCall, Steps
<1>3. closing' \in [Closings -> ClosingCall] /\ kept' \subseteq Apps
  BY <1>1, <1>2 DEF EndInvariant, ClosingTypeOK, Released
<1>4. \A s \in Closings : closing'[s].since \subseteq closing[s].since
  BY <1>1 DEF NoClosing, EndInvariant, ClosingTypeOK
<1>5. SinceRuns'
  BY <1>1, <1>4 DEF EndInvariant, SinceRuns, RunningApps
<1>6. WorkspacesStay'
  <2> SUFFICES ASSUME NEW s \in Closings, NEW a \in Apps, NEW b \in Apps,
                      a \in closing'[s].since, b < a
               PROVE  b \in kept'
    BY DEF WorkspacesStay
  <2>1. a \in RunningApps /\ b \in kept
    BY <1>4 DEF EndInvariant, SinceRuns, WorkspacesStay
  <2>2. ~(a < b) /\ b \notin Trailing
    BY <2>1, ClosingAssumption DEF Trailing
  <2>3. QED
    BY <1>1, <2>1, <2>2 DEF Released
<1>7. CASE Prepare
  BY <1>3, <1>5, <1>6, <1>7, PrepareEffect
     DEF ClosingEnds, EndInvariant, ClosingTypeOK, ConfirmedOnce
<1>8. CASE list' = [list EXCEPT !.retry = TRUE] /\ UNCHANGED <<dialog, checking, asked, automatic>>
  BY <1>3, <1>5, <1>6, <1>8
     DEF ClosingEnds, EndInvariant, ClosingTypeOK, ListType, ConfirmedOnce, WatchedWithGTop
<1>9. CASE UNCHANGED <<dialog, list, checking, asked, automatic>>
  BY <1>3, <1>5, <1>6, <1>9
     DEF ClosingEnds, EndInvariant, ClosingTypeOK, ConfirmedOnce, WatchedWithGTop
<1>10. QED
  BY <1>7, <1>8, <1>9 DEF ClosingEnds

(* An application whose last window closes is taken off every account.     *)
LEMMA AppChangesInv ==
  ASSUME EndInvariant, NEW a \in Apps, NEW n \in 0..MaxWindows, AppChanges(a, n)
  PROVE  EndInvariant'
<1> DEFINE since(r) == IF n = 0 THEN closing[r].since \ {a} ELSE closing[r].since
           step(r) == IF closing[r].step[a] = "deleting" THEN "asking"
                      ELSE IF closing[r].step[a] # "quitting" THEN closing[r].step[a]
                      ELSE IF n = 0 THEN "closed" ELSE "left"
           call(r) == [closing[r] EXCEPT !.since = since(r), !.step[a] = step(r)]
<1>1. open' = [open EXCEPT ![a] = n] /\ closing' = [r \in Closings |-> call(r)]
  BY DEF AppChanges
<1>2. ASSUME NEW r \in Closings
      PROVE  call(r) \in ClosingCall /\ call(r).since = since(r)
  <2>1. closing[r] \in ClosingCall
    BY DEF EndInvariant, ClosingTypeOK
  <2>2. step(r) \in Steps /\ since(r) \subseteq Apps
    BY <2>1 DEF ClosingCall, Steps
  <2> HIDE DEF step, since
  <2>3. QED
    BY <2>1, <2>2 DEF ClosingCall
<1> HIDE DEF call
<1>3. closing' \in [Closings -> ClosingCall] /\ open' \in [Apps -> 0..MaxWindows]
  BY <1>1, <1>2 DEF EndInvariant, ClosingTypeOK
<1>4. \A r \in Closings : closing'[r].since = since(r)
  BY <1>1, <1>2
<1>5. SinceRuns'
  <2> SUFFICES ASSUME NEW r \in Closings, NEW b \in since(r)
               PROVE  b \in RunningApps'
    BY <1>4 DEF SinceRuns
  <2>1. b \in Apps /\ open[b] > 0
    BY DEF EndInvariant, SinceRuns, RunningApps
  <2>2. b # a \/ n > 0
    BY ClosingAssumption
  <2>3. open'[b] > 0
    BY <1>1, <2>1, <2>2 DEF EndInvariant, ClosingTypeOK
  <2>4. QED
    BY <2>1, <2>3 DEF RunningApps
<1>6. WorkspacesStay'
  <2> SUFFICES ASSUME NEW r \in Closings, NEW b \in Apps, NEW c \in Apps,
                      b \in since(r), c < b
               PROVE  c \in kept
    BY <1>4 DEF WorkspacesStay, AppChanges
  <2>1. b \in closing[r].since
    OBVIOUS
  <2>2. QED
    BY <2>1 DEF EndInvariant, WorkspacesStay
<1>7. /\ UNCHANGED <<gtop, pids, idles, retrying, kept, enabled>>
      /\ Prepare \/ UNCHANGED <<checking, list, dialog, asked, automatic>>
      /\ events' \in 0..MaxEvents
  BY EndEventCounted DEF AppChanges
<1>8. CASE Prepare
  BY <1>3, <1>5, <1>6, <1>7, <1>8, PrepareEffect DEF EndInvariant, ClosingTypeOK, ConfirmedOnce
<1>9. CASE UNCHANGED <<checking, list, dialog, asked, automatic>>
  BY <1>3, <1>5, <1>6, <1>7, <1>9 DEF EndInvariant, ClosingTypeOK, ConfirmedOnce, WatchedWithGTop
<1>10. QED
  BY <1>7, <1>8, <1>9

(* The dialog, the menu and Retry begin closings.                          *)
LEMMA BeginningsInv ==
  ASSUME EndInvariant, ConfirmDialog \/ MenuClose \/ RetryIdle
  PROVE  EndInvariant'
<1>1. CASE ConfirmDialog
  <2>1. closing' \in [Closings -> ClosingCall] /\ kept' \subseteq Apps /\ SinceRuns' /\ WorkspacesStay'
    BY <1>1, BeginEffect DEF ConfirmDialog
  <2>2. dialog' \in [open: BOOLEAN, opening: BOOLEAN] /\ list' \in ListType
    <3>1. CASE list.state = "opened"
      BY <1>1, <3>1 DEF ConfirmDialog, EndInvariant, ClosingTypeOK
    <3>2. CASE list.state # "opened"
      <4>1. list' = [list EXCEPT !.state = "opened"] /\ list \in ListType
        BY <1>1, <3>2 DEF ConfirmDialog, EndInvariant, ClosingTypeOK
      <4>2. list' \in ListType
        BY <4>1 DEF ListType
      <4>3. dialog' = [open |-> FALSE, opening |-> TRUE]
        BY <1>1, <3>2 DEF ConfirmDialog
      <4>4. QED
        BY <4>2, <4>3
    <3>3. QED
      BY <3>1, <3>2
  <2>3. ConfirmedOnce'
    BY <1>1 DEF ConfirmDialog, EndInvariant, ClosingTypeOK, ConfirmedOnce, ListType
  <2>4. QED
    BY <1>1, <2>1, <2>2, <2>3, PidsAreApps
       DEF ConfirmDialog, EndInvariant, ClosingTypeOK, WatchedWithGTop
<1>2. CASE MenuClose
  <2>1. closing' \in [Closings -> ClosingCall] /\ kept' \subseteq Apps /\ SinceRuns' /\ WorkspacesStay'
    BY <1>2, BeginEffect DEF MenuClose
  <2>2. events' \in 0..MaxEvents
    BY <1>2, EndEventCounted DEF MenuClose
  <2>3. QED
    BY <1>2, <2>1, <2>2 DEF MenuClose, EndInvariant, ClosingTypeOK, ConfirmedOnce, WatchedWithGTop
<1>3. CASE RetryIdle
  <2>1. closing' \in [Closings -> ClosingCall] /\ kept' \subseteq Apps /\ SinceRuns' /\ WorkspacesStay'
    BY <1>3, BeginEffect DEF RetryIdle
  <2>2. QED
    BY <1>3, <2>1 DEF RetryIdle, EndInvariant, ClosingTypeOK, ConfirmedOnce, WatchedWithGTop
<1>4. QED
  BY <1>1, <1>2, <1>3

(* Timers, idle calls and the buttons of the window touch no closing.      *)
LEMMA WindowInv ==
  ASSUME EndInvariant,
         \/ ProcessTick \/ ConfirmIdle \/ ConfirmNow \/ CancelList \/ Retry
         \/ OverviewShows \/ OverviewHides \/ OpenDialog \/ DialogEnds \/ DestroyAutoclose
  PROVE  EndInvariant'
<1>1. UNCHANGED <<open, closing, kept>> /\ SinceRuns' /\ WorkspacesStay'
  BY SameClosings DEF ProcessTick, ConfirmIdle, ConfirmNow, CancelList, Retry, OverviewShows,
     OverviewHides, OpenDialog, DialogEnds, DestroyAutoclose
<1>2. events' \in 0..MaxEvents
  BY EndEventCounted DEF ProcessTick, ConfirmIdle, ConfirmNow, CancelList, Retry, OverviewShows,
     OverviewHides, OpenDialog, DialogEnds, DestroyAutoclose, EndInvariant, ClosingTypeOK
<1>3. CASE ProcessTick
  <2>1. idles' \in 0..2 /\ gtop /\ pids' \subseteq Apps /\ checking' \in {"no", "armed", "dead"}
    BY <1>3, PidsAreApps DEF ProcessTick, EndInvariant, ClosingTypeOK, WatchedWithGTop
  <2>2. QED
    BY <1>1, <1>2, <1>3, <2>1
       DEF ProcessTick, EndInvariant, ClosingTypeOK, ConfirmedOnce, WatchedWithGTop
<1>4. CASE ConfirmIdle
  <2>1. list' \in ListType /\ dialog' \in [open: BOOLEAN, opening: BOOLEAN] /\ asked' \in BOOLEAN
        /\ ConfirmedOnce'
    BY <1>4, AutoConfirmEffect DEF ConfirmIdle, EndInvariant, ClosingTypeOK, ConfirmedOnce
  <2>2. QED
    BY <1>1, <1>2, <1>4, <2>1 DEF ConfirmIdle, EndInvariant, ClosingTypeOK, ConfirmedOnce, WatchedWithGTop
<1>5. CASE ConfirmNow
  BY <1>1, <1>2, <1>5 DEF ConfirmNow, EndInvariant, ClosingTypeOK, ConfirmedOnce, WatchedWithGTop
<1>6. CASE CancelList
  BY <1>1, <1>2, <1>6
     DEF CancelList, EndInvariant, ClosingTypeOK, ListType, ConfirmedOnce, WatchedWithGTop
<1>7. CASE Retry
  BY <1>1, <1>2, <1>7 DEF Retry, EndInvariant, ClosingTypeOK, ConfirmedOnce, WatchedWithGTop
<1>8. CASE OverviewShows \/ OverviewHides
  BY <1>1, <1>2, <1>8 DEF OverviewShows, OverviewHides, EndInvariant, ClosingTypeOK, ListType,
     ConfirmedOnce, WatchedWithGTop
<1>9. CASE OpenDialog \/ DialogEnds
  <2>1. dialog' \in [open: BOOLEAN, opening: BOOLEAN]
    BY <1>9 DEF OpenDialog, DialogEnds, EndInvariant, ClosingTypeOK
  <2>2. QED
    BY <1>1, <1>2, <1>9, <2>1
       DEF OpenDialog, DialogEnds, EndInvariant, ClosingTypeOK, ConfirmedOnce, WatchedWithGTop
<1>10. CASE DestroyAutoclose
  <2>1. idles' \in 0..2 /\ (~gtop => idles' = 0)
    BY <1>10 DEF DestroyAutoclose, EndInvariant, ClosingTypeOK, WatchedWithGTop
  <2>2. QED
    BY <1>1, <1>2, <1>10, <2>1
       DEF DestroyAutoclose, EndInvariant, ClosingTypeOK, ConfirmedOnce, WatchedWithGTop
<1>11. QED
  BY <1>3, <1>4, <1>5, <1>6, <1>7, <1>8, <1>9, <1>10

-----------------------------------------------------------------------------
LEMMA StartOk == ClosingInit => EndInvariant
<1> SUFFICES ASSUME ClosingInit
             PROVE  EndInvariant
  OBVIOUS
<1>1. NoClosing \in ClosingCall
  BY ClosingAssumption DEF NoClosing, ClosingCall, Steps
<1>2. closing \in [Closings -> ClosingCall] /\ \A r \in Closings : closing[r].since = {}
  BY <1>1 DEF ClosingInit, NoClosing
<1>3. ClosingTypeOK
  <2>1. open \in [Apps -> 0..MaxWindows] /\ events \in 0..MaxEvents
    BY ClosingAssumption DEF ClosingInit
  <2>2. QED
    <3>1. list \in ListType /\ dialog \in [open: BOOLEAN, opening: BOOLEAN]
      BY DEF ClosingInit, ListType, NewList
    <3>2. idles \in 0..2 /\ automatic \in Nat /\ kept \subseteq Apps
      BY DEF ClosingInit
    <3>3. QED
      BY <1>2, <2>1, <3>1, <3>2 DEF ClosingInit, ClosingTypeOK
<1>4. QED
  BY <1>2, <1>3
     DEF ClosingInit, EndInvariant, ConfirmedOnce, SinceRuns, WorkspacesStay, WatchedWithGTop, NewList

LEMMA EndNextInvariant ==
  ASSUME EndInvariant, [ClosingNext]_closingVars
  PROVE  EndInvariant'
<1>1. CASE UNCHANGED closingVars
  BY <1>1 DEF closingVars, EndInvariant, ClosingTypeOK, ConfirmedOnce, SinceRuns,
     WorkspacesStay, WatchedWithGTop, RunningApps
<1>2. ASSUME NEW r \in Closings, ClosingStep(r)
      PROVE  EndInvariant'
  BY <1>2, YdotoolInv, NextRuleInv, AskInv, KeysInv, ClosingEndsInv DEF ClosingStep
<1>3. QED
  BY <1>1, <1>2, WindowInv, BeginningsInv, AppChangesInv DEF ClosingNext

(* The invariant holds for any applications and closings.                  *)
THEOREM EndIsInvariant == ClosingSpec => []EndInvariant
<1>1. QED
  BY StartOk, EndNextInvariant, PTL DEF ClosingSpec

(* Workspaces stay as long as a closing claims them, and a confirmation    *)
(* ends the session once (the part of ShellInvariant about closings).      *)
THEOREM EndIsSafe == ClosingSpec => []ClosingInvariant
<1>1. EndInvariant => ClosingInvariant
  BY DEF EndInvariant, ConfirmedOnce, ClosingInvariant, EndedOnce
<1>2. QED
  BY EndIsInvariant, <1>1, PTL

(* Without GTop the session is ended automatically only when no            *)
(* application runs.                                                       *)
THEOREM EndsWhenAllEnded == ClosingSpec => EndsWhenIdle
<1> DEFINE Idle == automatic' > automatic => gtop \/ \A a \in Apps : open'[a] = 0
<1>1. ASSUME EndInvariant, [ClosingNext]_closingVars
      PROVE  Idle
  <2> SUFFICES ASSUME automatic' > automatic, ~gtop
               PROVE  \A a \in Apps : open'[a] = 0
    OBVIOUS
  <2>0. automatic' # automatic /\ idles = 0 /\ automatic \in {0, 1}
    BY <1>1 DEF EndInvariant, ConfirmedOnce, WatchedWithGTop
  <2>1. ASSUME NEW r \in Closings, ClosingEnds(r)
        PROVE  \A a \in Apps : open'[a] = 0
    BY <1>1, <2>0, <2>1 DEF ClosingEnds, RunningApps, EndInvariant, ClosingTypeOK
  <2>2. ASSUME NEW a \in Apps, NEW n \in 0..MaxWindows, AppChanges(a, n)
        PROVE  \A b \in Apps : open'[b] = 0
    <3>1. n = 0 /\ RunningApps = {a} /\ open' = [open EXCEPT ![a] = n]
      BY <2>0, <2>2 DEF AppChanges
    <3>2. QED
      BY <1>1, <3>1 DEF RunningApps, EndInvariant, ClosingTypeOK
  <2>3. ~ConfirmIdle /\ ~ConfirmDialog
    BY <1>1, <2>0 DEF ConfirmIdle, ConfirmDialog, EndInvariant
  <2>4. QED
    BY <1>1, <2>0, <2>1, <2>2, <2>3 DEF ClosingNext, ClosingStep, closingVars, ProcessTick, RetryIdle,
       ConfirmNow, CancelList, Retry, OverviewShows, OverviewHides, MenuClose, OpenDialog,
       DialogEnds, DestroyAutoclose, YdotoolStarted, NextRule, AskToClose, KeysSent
<1>2. QED
  BY EndIsInvariant, <1>1, PTL DEF ClosingSpec, EndsWhenIdle
=============================================================================
