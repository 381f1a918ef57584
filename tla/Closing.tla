------------------------------ MODULE Closing ------------------------------
(***************************************************************************)
(* The end of a session with Autoclose on (ui/autoclose.js): the confirm   *)
(* of GNOME's end-session dialog closes every application first            *)
(* (closeSession.js), shows what still runs in a window of its own, and    *)
(* passes the confirmation on when nothing runs any more.                  *)
(*                                                                         *)
(* A closing is one call of closeWindows(); several may be under way: the  *)
(* one of the dialog, a retry, one of the menu.  An `await' ends an        *)
(* action.  An application is the number of its workspace: all its windows *)
(* are there.  Which window is a dialog, on the whitelist or closable is a *)
(* choice.  sessionClosedByUser is a variable of SessionTracker, the kind  *)
(* of end (log out, power off) is left out.                                *)
(***************************************************************************)
EXTENDS Integers, FiniteSets

CONSTANTS Apps,          \* applications, by the number of their workspace
          MaxWindows,    \* windows of one application
          Ruled,         \* applications closed by a rule, and by no rule: one for
          Plain,         \* which a keyword rule fails after another matched is both
          Watched,       \* those on the list of applications with slow processes
          Closings,      \* calls of closeWindows() under way at once
          MaxEvents      \* bound on what users and applications do

ASSUME ClosingAssumption ==
  /\ IsFiniteSet(Apps) /\ Apps \subseteq Nat
  /\ MaxWindows \in Nat \ {0}
  /\ Ruled \cup Plain = Apps /\ Watched \subseteq Apps
  /\ MaxEvents \in Nat

VARIABLES
  open,       \* open[a]: windows of application a, which runs when it has one
  dialog,     \* EndSessionDialog is open; _openingByAWSM
  list,       \* RunningApplicationListWindow: state, Cancel and Retry button reactive
  gtop,       \* GTop is installed
  pids,       \* _pidsMap: applications whose processes are to be waited for
  checking,   \* _checkProcessStateId: not set, of a running timer, of a dead one
  idles,      \* pending idle calls of _confirm()
  retrying,   \* _retryIdleId
  closing,    \* the calls of closeWindows()
  kept,       \* workspaces with _keepAliveId
  enabled,    \* destroy() was not called
  asked,      \* a confirmed dialog was neither cancelled nor passed on
  automatic,  \* automatic confirmations since the dialog was confirmed
  events      \* events so far

closingVars == <<open, dialog, list, gtop, pids, checking, idles, retrying, closing, kept,
                 enabled, asked, automatic, events>>

ListType == [state: {"none", "opened", "closed", "cancelled", "confirmed"},
             cancel: BOOLEAN, retry: BOOLEAN]

Steps == {"off", "asking", "deleting", "quitting", "closed", "left"}

ClosingCall ==
  [at: {"off", "starting", "rules", "all"}, kind: {"logout", "retry", "menu"},
   since: SUBSET Apps, ruled: SUBSET Apps, plain: SUBSET Apps,
   step: [Apps -> Steps], left: [Apps -> 0..MaxWindows]]

ClosingTypeOK ==
  /\ open \in [Apps -> 0..MaxWindows]
  /\ dialog \in [open: BOOLEAN, opening: BOOLEAN]
  /\ list \in ListType
  /\ gtop \in BOOLEAN /\ retrying \in BOOLEAN
  /\ pids \subseteq Apps /\ checking \in {"no", "armed", "dead"}
  /\ idles \in 0..2
  /\ closing \in [Closings -> ClosingCall]
  /\ kept \subseteq Apps
  /\ enabled \in BOOLEAN /\ asked \in BOOLEAN
  /\ automatic \in Nat
  /\ events \in 0..MaxEvents

NoClosing == [at |-> "off", kind |-> "menu", since |-> {}, ruled |-> {}, plain |-> {},
              step |-> [a \in Apps |-> "off"], left |-> [a \in Apps |-> 0]]

(* A new RunningApplicationListWindow                                      *)
NewList == [state |-> "none", cancel |-> TRUE, retry |-> FALSE]

RunningApps == {a \in Apps : open[a] > 0}

(* _getRunningAppsClosingByRules()                                         *)
ClosingByRules == RunningApps \cap Ruled
NewRunningApps == RunningApps \cap Plain

Event == events < MaxEvents /\ events' = events + 1

(* The end-session dialog is up for the first time.                        *)
ClosingInit ==
  /\ open \in [Apps -> 1..MaxWindows]
  /\ dialog = [open |-> TRUE, opening |-> FALSE]
  /\ list = NewList
  /\ gtop \in BOOLEAN
  /\ pids = {} /\ checking = "no" /\ retrying = FALSE
  /\ idles = 0
  /\ closing = [r \in Closings |-> NoClosing]
  /\ kept = {}
  /\ enabled = TRUE /\ asked = FALSE
  /\ automatic = 0
  /\ events = 0

-----------------------------------------------------------------------------
(* RunningApplicationListWindow                                            *)

(* _confirm(): passed on once, after which Cancel is of no use any more.   *)
AutoConfirm ==
  IF list.state = "confirmed" THEN UNCHANGED <<list, dialog, asked, automatic>>
  ELSE /\ list' = [list EXCEPT !.state = "confirmed", !.retry = TRUE, !.cancel = FALSE]
       /\ dialog' = [dialog EXCEPT !.opening = FALSE]
       /\ asked' = FALSE
       /\ automatic' = automatic + 1

(* _prepareToConfirm(): with GTop, processes are watched first; nothing    *)
(* happens while _checkProcessStateId is set.                              *)
Prepare ==
  IF gtop
  THEN /\ checking' = IF checking = "no" THEN "armed" ELSE checking
       /\ UNCHANGED <<list, dialog, asked, automatic>>
  ELSE AutoConfirm /\ UNCHANGED checking

(* updateRunningPids()                                                     *)
PidsNow == pids \cup (RunningApps \cap Watched)

(* The 200 ms timer of _prepareToConfirm() ticks for the first time.  With *)
(* no process to wait for it is done.  Otherwise it dies: GTop has no such *)
(* constructor, _checkRunningPidState() returns nothing, _showProcesses()  *)
(* throws, and neither _pidsMap nor _checkProcessStateId is ever cleared.  *)
ProcessTick ==
  /\ checking = "armed" /\ idles < 2
  /\ pids' = PidsNow
  /\ \/ pids' = {} /\ checking' = "no" /\ idles' = idles + 1
     \/ pids' # {} /\ checking' = "dead" /\ UNCHANGED idles
  /\ UNCHANGED <<open, dialog, list, gtop, retrying, closing, kept, enabled, asked,
                 automatic, events>>

(* The idle call of _confirm().  After destroy() nothing is passed on.     *)
ConfirmIdle ==
  /\ idles > 0
  /\ idles' = idles - 1
  /\ IF enabled THEN AutoConfirm ELSE UNCHANGED <<list, dialog, asked, automatic>>
  /\ UNCHANGED <<open, gtop, pids, checking, retrying, closing, kept, enabled, events>>

(* The button `... now' passes the confirmation on in any state.           *)
ConfirmNow ==
  /\ Event /\ enabled /\ list.state \in {"opened", "confirmed"}
  /\ dialog' = [dialog EXCEPT !.opening = FALSE]
  /\ asked' = FALSE
  /\ UNCHANGED <<open, list, gtop, pids, checking, idles, retrying, closing, kept, enabled, automatic>>

(* _cancel(): the process timer, also a dead one, is forgotten; a pending  *)
(* idle call is not.                                                       *)
CancelList ==
  /\ Event /\ enabled /\ list.state \in {"opened", "confirmed"} /\ list.cancel
  /\ list' = [list EXCEPT !.state = "cancelled"]
  /\ checking' = "no"
  /\ dialog' = [open |-> FALSE, opening |-> FALSE]
  /\ asked' = FALSE
  /\ UNCHANGED <<open, gtop, pids, idles, retrying, closing, kept, enabled, automatic>>

(* The overview hides the window and shows it again.                       *)
OverviewShows ==
  /\ Event /\ enabled /\ list.state = "opened"
  /\ list' = [list EXCEPT !.state = "closed"]
  /\ UNCHANGED <<open, dialog, gtop, pids, checking, idles, retrying, closing, kept, enabled, asked,
                 automatic>>

OverviewHides ==
  /\ enabled /\ list.state = "closed"
  /\ list' = [list EXCEPT !.state = "opened"]
  /\ UNCHANGED <<open, dialog, gtop, pids, checking, idles, retrying, closing, kept, enabled, asked,
                 automatic, events>>

Retry ==
  /\ Event /\ enabled /\ list.state \in {"opened", "confirmed"} /\ list.retry
  /\ retrying' = TRUE
  /\ UNCHANGED <<open, dialog, list, gtop, pids, checking, idles, closing, kept, enabled, asked, automatic>>

-----------------------------------------------------------------------------
(* closeWindows()                                                          *)

(* _updateWorkspacePersistent(false) gives up empty workspaces from the    *)
(* right, up to the first one with windows.                                *)
Trailing == {b \in Apps : \A c \in RunningApps : c < b}

(* Mutant of Released: it does not stop at a workspace with windows.       *)
ReleasedAll == kept \cap RunningApps

Released == kept \ Trailing

(* closeWindows(workspacePersistent) up to its first await                 *)
BeginClosing(kind) ==
  /\ \E r \in Closings : closing[r].at = "off"
  /\ kept' = IF kind = "menu" THEN kept ELSE Apps
  /\ LET r == CHOOSE r \in Closings : closing[r].at = "off" IN
     closing' = [closing EXCEPT ![r] =
         [at |-> IF ClosingByRules = {} THEN "all" ELSE "starting", kind |-> kind,
          since |-> IF kind = "menu" THEN {} ELSE RunningApps,
          ruled |-> ClosingByRules, plain |-> NewRunningApps,
          step |-> [a \in Apps |-> IF ClosingByRules = {} /\ a \in NewRunningApps
                                   THEN "asking" ELSE "off"],
          left |-> [a \in Apps |-> IF open[a] > 1 THEN open[a] ELSE 0]]]

(* ydotool.service runs, or does not.                                      *)
YdotoolStarted(r) ==
  /\ closing[r].at = "starting"
  /\ closing' = [closing EXCEPT ![r].at = "rules"]
  /\ UNCHANGED <<open, dialog, list, gtop, pids, checking, idles, retrying, kept, enabled, asked,
                 automatic, events>>

(* Applications with rules one after the other, then all the others.       *)
NextRule(r) ==
  /\ closing[r].at = "rules"
  /\ \A a \in Apps : closing[r].step[a] \in {"off", "closed"}
  /\ IF closing[r].ruled = {}
     THEN closing' = [closing EXCEPT ![r].at = "all",
            ![r].step = [a \in Apps |-> IF a \in closing[r].plain THEN "asking" ELSE "off"],
            ![r].left = [a \in Apps |-> IF open[a] > 1 THEN open[a] ELSE 0]]
     ELSE \E a \in closing[r].ruled :
            closing' = [closing EXCEPT ![r].ruled = @ \ {a}, ![r].step[a] = "asking",
                                       ![r].left[a] = IF open[a] > 1 THEN open[a] ELSE 0]
  /\ UNCHANGED <<open, dialog, list, gtop, pids, checking, idles, retrying, kept, enabled, asked,
                 automatic, events>>

(* _closeOneApp(): of the windows not looked at yet some are left alone    *)
(* and the next is asked to close; at the end a single window is asked to  *)
(* quit.  It gives up on an error.                                         *)
AskToClose(r, a) ==
  /\ closing[r].step[a] = "asking"
  /\ \/ \E k \in 0..(closing[r].left[a] - 1) :
          closing' = [closing EXCEPT ![r].step[a] = "deleting", ![r].left[a] = k]
     \/ /\ open[a] = 1
        /\ closing' = [closing EXCEPT ![r].step[a] = "quitting", ![r].left[a] = 0]
     \/ /\ open[a] = 0 /\ closing[r].left[a] = 0
        /\ closing' = [closing EXCEPT ![r].step[a] = "closed"]
     \/ closing' = [closing EXCEPT ![r].step[a] = "left", ![r].left[a] = 0]
  /\ UNCHANGED <<open, dialog, list, gtop, pids, checking, idles, retrying, kept, enabled, asked,
                 automatic, events>>

(* An application with a rule is still there: its keys were sent, or the   *)
(* rule has none.                                                          *)
KeysSent(r, a) ==
  /\ closing[r].at = "rules" /\ closing[r].step[a] = "left"
  /\ closing' = [closing EXCEPT ![r].step[a] = "off"]
  /\ UNCHANGED <<open, dialog, list, gtop, pids, checking, idles, retrying, kept, enabled, asked,
                 automatic, events>>

(* Mutant of ClosingEnds: it goes on to confirm although applications run. *)
ClosingEndsAnyway(r) ==
  /\ closing[r].at = "all"
  /\ \A a \in closing[r].plain : closing[r].step[a] \in {"closed", "left"}
  /\ closing' = [closing EXCEPT ![r] = NoClosing]
  /\ kept' = Released
  /\ UNCHANGED <<open, gtop, pids, idles, retrying, enabled, events>>
  /\ IF ~enabled \/ closing[r].kind # "logout"
     THEN UNCHANGED <<dialog, list, checking, asked, automatic>>
     ELSE Prepare

(* Every application answered.  The dialog's closing offers a retry or     *)
(* goes on to confirm; of the others nobody waits for the result.          *)
ClosingEnds(r) ==
  /\ closing[r].at = "all"
  /\ \A a \in closing[r].plain : closing[r].step[a] \in {"closed", "left"}
  /\ closing' = [closing EXCEPT ![r] = NoClosing]
  /\ kept' = Released
  /\ UNCHANGED <<open, gtop, pids, idles, retrying, enabled, events>>
  /\ IF ~enabled \/ closing[r].kind # "logout"
     THEN UNCHANGED <<dialog, list, checking, asked, automatic>>
     ELSE IF RunningApps # {}
     THEN list' = [list EXCEPT !.retry = TRUE] /\ UNCHANGED <<dialog, checking, asked, automatic>>
     ELSE Prepare

RetryIdle ==
  /\ retrying
  /\ retrying' = FALSE
  /\ BeginClosing("retry")
  /\ UNCHANGED <<open, dialog, list, gtop, pids, checking, idles, enabled, asked, automatic, events>>

(* `Close open windows' of the menu and of a saved session                 *)
MenuClose ==
  /\ Event
  /\ BeginClosing("menu")
  /\ UNCHANGED <<open, dialog, list, gtop, pids, checking, idles, retrying, enabled, asked, automatic>>

-----------------------------------------------------------------------------
(* EndSessionDialog                                                        *)

(* OpenAsync(): not while the window of running applications is up.        *)
OpenDialog ==
  /\ Event /\ ~dialog.open /\ ~dialog.opening
  /\ dialog' = [dialog EXCEPT !.open = TRUE]
  /\ UNCHANGED <<open, list, gtop, pids, checking, idles, retrying, closing, kept, enabled, asked, automatic>>

(* Cancelled, or confirmed while Autoclose is off or gone.                 *)
DialogEnds ==
  /\ dialog.open
  /\ dialog' = [dialog EXCEPT !.open = FALSE]
  /\ UNCHANGED <<open, list, gtop, pids, checking, idles, retrying, closing, kept, enabled, asked,
                 automatic, events>>

(* _confirm(signal) with Autoclose on: the dialog closes, the window of    *)
(* running applications opens, the processes to wait for are noted and all *)
(* applications are asked to close.                                        *)
ConfirmDialog ==
  /\ enabled /\ dialog.open
  /\ IF list.state = "opened"
     THEN /\ dialog' = [dialog EXCEPT !.open = FALSE]
          /\ UNCHANGED list
     ELSE /\ dialog' = [open |-> FALSE, opening |-> TRUE]
          /\ list' = [list EXCEPT !.state = "opened"]
  /\ asked' = TRUE
  /\ automatic' = 0
  /\ pids' = PidsNow
  /\ BeginClosing("logout")
  /\ UNCHANGED <<open, gtop, checking, idles, retrying, enabled, events>>

-----------------------------------------------------------------------------
(* What applications do                                                    *)

(* Mutant of AppChanges: the end of the last application goes unnoticed.   *)
AppChangesUnseen(a, n) ==
  /\ Event
  /\ n # open[a]
  /\ open' = [open EXCEPT ![a] = n]
  /\ closing' = [r \in Closings |-> [closing[r] EXCEPT
       !.since = IF n = 0 THEN @ \ {a} ELSE @,
       !.step[a] = IF @ = "deleting" THEN "asking"
                   ELSE IF @ # "quitting" THEN @
                   ELSE IF n = 0 THEN "closed" ELSE "left"]]
  /\ UNCHANGED <<gtop, pids, idles, retrying, kept, enabled, checking, list, dialog, asked, automatic>>

(* windows-changed wakes every closing that waits for the application,     *)
(* whichever window changed, and app-state-changed tells when the last     *)
(* application stopped (_appStateChanged), also after a Cancel.            *)
AppChanges(a, n) ==
  /\ Event
  /\ n # open[a]
  /\ open' = [open EXCEPT ![a] = n]
  /\ closing' = [r \in Closings |-> [closing[r] EXCEPT
       !.since = IF n = 0 THEN @ \ {a} ELSE @,
       !.step[a] = IF @ = "deleting" THEN "asking"
                   ELSE IF @ # "quitting" THEN @
                   ELSE IF n = 0 THEN "closed" ELSE "left"]]
  /\ UNCHANGED <<gtop, pids, idles, retrying, kept, enabled>>
  /\ IF enabled /\ list.state # "none" /\ n = 0 /\ RunningApps = {a}
     THEN Prepare
     ELSE UNCHANGED <<checking, list, dialog, asked, automatic>>

(* destroy() of Autoclose: one idle call and the timers are removed.       *)
DestroyAutoclose ==
  /\ Event /\ enabled
  /\ enabled' = FALSE
  /\ checking' = "no" /\ retrying' = FALSE
  /\ idles' = IF idles > 0 THEN idles - 1 ELSE 0
  /\ UNCHANGED <<open, dialog, list, gtop, pids, closing, kept, asked, automatic>>

-----------------------------------------------------------------------------
ClosingStep(r) ==
  \/ YdotoolStarted(r)
  \/ NextRule(r)
  \/ \E a \in Apps : AskToClose(r, a)
  \/ \E a \in Apps : KeysSent(r, a)
  \/ ClosingEnds(r)

ClosingNext ==
  \/ ProcessTick \/ ConfirmIdle \/ RetryIdle
  \/ ConfirmNow \/ CancelList \/ Retry
  \/ OverviewShows \/ OverviewHides
  \/ MenuClose
  \/ OpenDialog \/ DialogEnds \/ ConfirmDialog
  \/ \E a \in Apps, n \in 0..MaxWindows : AppChanges(a, n)
  \/ DestroyAutoclose
  \/ \E r \in Closings : ClosingStep(r)

(* Timers and idle calls run, and asynchronous calls other than the wait   *)
(* for a window return.  Nobody owes to close a window or end a process.   *)
ClosingFairness ==
  /\ WF_closingVars(ProcessTick)
  /\ WF_closingVars(ConfirmIdle)
  /\ \A r \in Closings : WF_closingVars(ClosingStep(r))

ClosingSpec == ClosingInit /\ [][ClosingNext]_closingVars /\ ClosingFairness

-----------------------------------------------------------------------------
(* No workspace left of a window that was there when a closing began is    *)
(* given up before it ends, whatever other closings end meanwhile: the     *)
(* number of the workspace of an unclosed window does not change           *)
(* (_updateWorkspacePersistent).                                           *)
WorkspacesStay ==
  \A r \in Closings, a \in Apps, b \in Apps :
    a \in closing[r].since /\ b < a => b \in kept

(* The session is ended automatically at most once for a confirmation of   *)
(* the user, although the end of a closing, the end of an application, the *)
(* process timer and an idle call may all ask for it.                      *)
EndedOnce == automatic <= 1

ClosingInvariant == ClosingTypeOK /\ WorkspacesStay /\ EndedOnce

(* Without GTop the session is ended automatically only when no            *)
(* application runs at that moment.                                        *)
EndsWhenIdle ==
  [][automatic' > automatic => gtop \/ \A a \in Apps : open'[a] = 0]_closingVars

(* When the user confirmed and the last application has gone, the session  *)
(* is ended, even if a closing waits for a window for ever; unless the     *)
(* user cancels, an application starts or the extension stops.  With GTop  *)
(* it needs more: no application of Watched ran when the user confirmed or *)
(* since the timer was set, for the check of its processes fails (the TODO *)
(* at autoclose.js:606) and the end never comes.                           *)
EndFollows ==
  (asked /\ enabled /\ RunningApps = {} /\ (gtop => pids = {})) ~>
    (~asked \/ ~enabled \/ RunningApps # {})

(* "canceling the end-session dialog reopens the gate"                     *)
(* (docs/ARCHITECTURE.md:110-112): after Cancel the end of the session is  *)
(* not confirmed automatically.  The window hears of the end of            *)
(* applications also after Cancel (_appStateChanged).                      *)
CancelIsFinal == [][automatic' > automatic => list.state # "cancelled"]_closingVars
=============================================================================
