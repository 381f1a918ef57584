--------------------------- MODULE ControlService ---------------------------
(***************************************************************************)
(* The D-Bus service of the extension (ui/autostart.js): calls that only   *)
(* the manager may make (managerCalls.js, callerGate.js), the saver of     *)
(* automatic history (continuousSaver.js, saveSession.js), and the         *)
(* restores a login asks for, with the dialog that counts down.            *)
(*                                                                         *)
(* One life of the service, from its creation to disable().  An `await',   *)
(* a D-Bus reply, a timer and an animation each end an action.  A call is  *)
(* answered within 500 ms, before the 1 s rate limit of its sender ends;   *)
(* every other delay is a choice.  A restore is only when it is accepted   *)
(* and over (RestoreQueue has the rest), the history is only the number of *)
(* its files.                                                              *)
(***************************************************************************)
EXTENDS Integers, Sequences, FiniteSets, SequencesExt

CONSTANTS Clients,       \* unique names of connections to the bus
          Operations,    \* operations of ManagerCalls, each with a gate
          CallSlots,     \* calls under way at once
          PendingLimit,  \* calls a gate lets wait for the owner of the name: 4
          LastLimit,     \* callers a gate remembers: 64
          HistoryLimit,  \* FileUtils.history_limit: 5
          Dialogs,       \* dialogs of RestoreSelectedSession()
          MaxInputs      \* bound on what clients, user and desktop do

ASSUME ServiceAssumption ==
  /\ IsFiniteSet(Clients) /\ IsFiniteSet(CallSlots)
  /\ "nobody" \notin Clients
  /\ PendingLimit \in Nat \ {0} /\ LastLimit \in Nat \ {0}
  /\ HistoryLimit \in Nat \ {0}
  /\ Dialogs \subseteq Nat \ {0}
  /\ MaxInputs \in Nat

VARIABLES
  up,         \* the service was not disabled
  runtime,    \* runtimeSafety.shutdownInProgress, restoreActivity.saving,
              \* layoutManager._startingUp
  manager,    \* owner of org.gnome.SessionSifu
  calls,      \* calls of manager operations
  last,       \* CallerGate._last: callers in the order of the map
  limited,    \* those of them whose second is not over
  lately,     \* _lastOperationUs: operations whose interval is not over
  saver,      \* ContinuousSaver: continuous-save-enabled, timers and the save
  history,    \* the number of files in the history
  previous,   \* RestorePreviousSession(): a handler waits, its timer runs
  dialogs,    \* AutostartDialog
  latest,     \* _autostartDialog
  opening,    \* startup-complete handlers, and the idle call, of the dialogs
  used        \* events so far

serviceVars == <<up, runtime, manager, calls, last, limited, lately, saver, history,
                 previous, dialogs, latest, opening, used>>

NoOwner == "nobody"
NoCall == [at |-> "off", sender |-> NoOwner, op |-> "none", owner |-> NoOwner, seen |-> {}]
NoDialog == [at |-> "none", timer |-> "off", confirms |-> FALSE]
NoSave == [at |-> "idle", forced |-> FALSE]

RuntimeType == [shutdown: BOOLEAN, restoring: BOOLEAN, starting: BOOLEAN]
CallType ==
  [at: {"off", "asking", "replied", "worked"}, sender: Clients \cup {NoOwner},
   op: Operations \cup {"none"}, owner: Clients \cup {NoOwner},
   seen: SUBSET (Clients \cup {NoOwner})]
SaveType == [at: {"idle", "building", "writing"}, forced: BOOLEAN]
SaverType == [enabled: BOOLEAN, initial: BOOLEAN, periodic: BOOLEAN, save: SaveType]
DialogType == [at: {"none", "waiting", "open", "closing", "closed"},
               timer: {"off", "running", "stopped"}, confirms: BOOLEAN]

ServiceTypeOK ==
  /\ up \in BOOLEAN
  /\ runtime \in RuntimeType
  /\ manager \in Clients \cup {NoOwner}
  /\ calls \in [CallSlots -> CallType]
  /\ last \in [Operations -> Seq(Clients)]
  /\ \A op \in Operations : IsInjective(last[op])
  /\ limited \in [Operations -> SUBSET Clients]
  /\ lately \subseteq Operations \cup {"save-history", "restore", "restore-history"}
  /\ saver \in SaverType
  /\ history \in 0..(HistoryLimit + 1)
  /\ previous \in [required: BOOLEAN, handler: BOOLEAN, timer: BOOLEAN]
  /\ dialogs \in [Dialogs -> DialogType]
  /\ latest \in Dialogs \cup {0}
  /\ opening \in [handlers: Nat, idle: BOOLEAN]
  /\ used \in 0..MaxInputs

ServiceEvent == used < MaxInputs /\ used' = used + 1

ServiceInit ==
  /\ up = TRUE
  /\ \E starting \in BOOLEAN :
       runtime = [shutdown |-> FALSE, restoring |-> FALSE, starting |-> starting]
  /\ manager \in Clients \cup {NoOwner}
  /\ calls = [k \in CallSlots |-> NoCall]
  /\ last = [op \in Operations |-> <<>>]
  /\ limited = [op \in Operations |-> {}]
  /\ lately = {}
  /\ \E enabled \in BOOLEAN :
       saver = [enabled |-> enabled, initial |-> enabled, periodic |-> enabled, save |-> NoSave]
  /\ history = 0
  /\ previous = [required |-> FALSE, handler |-> FALSE, timer |-> FALSE]
  /\ dialogs = [d \in Dialogs |-> NoDialog]
  /\ latest = 0
  /\ opening = [handlers |-> 0, idle |-> FALSE]
  /\ used = 0

-----------------------------------------------------------------------------
(* Calls of the manager                                                    *)

Asking(op) == {k \in CallSlots : calls[k].op = op /\ calls[k].at \in {"asking", "replied"}}

(* _last.set(key, now), after the oldest key gave way at the limit         *)
Remembered(op, c) ==
  IF c \in Range(last[op]) THEN last[op]
  ELSE Append(IF Len(last[op]) >= LastLimit THEN Tail(last[op]) ELSE last[op], c)

(* A client calls: refused at once, or the gate asks who owns the name.    *)
ManagerCall(c, op) ==
  /\ ServiceEvent /\ up
  /\ \E k \in CallSlots : calls[k].at = "off"
  /\ LET k == CHOOSE k \in CallSlots : calls[k].at = "off" IN
     IF Cardinality(Asking(op)) >= PendingLimit \/ c \in limited[op]
     THEN UNCHANGED <<calls, last, limited>>
     ELSE /\ calls' = [calls EXCEPT ![k] = [NoCall EXCEPT !.at = "asking", !.sender = c,
                                                         !.op = op, !.seen = {manager}]]
          /\ last' = [last EXCEPT ![op] = Remembered(op, c)]
          /\ limited' = [limited EXCEPT ![op] = (@ \cup {c}) \cap Range(Remembered(op, c))]
  /\ UNCHANGED <<up, runtime, manager, lately, saver, history, previous, dialogs, latest, opening>>

(* The second of a caller is over: its last call was answered by then.     *)
LimitEnds(c, op) ==
  /\ c \in limited[op]
  /\ \A k \in Asking(op) : calls[k].sender # c
  /\ limited' = [limited EXCEPT ![op] = @ \ {c}]
  /\ UNCHANGED <<up, runtime, manager, calls, last, lately, saver, history, previous, dialogs,
                 latest, opening, used>>

(* The bus answers GetNameOwner, with an error when nobody owns the name   *)
(* or after 500 ms.                                                        *)
OwnerReplies(k) ==
  /\ calls[k].at = "asking"
  /\ \E owner \in {manager, NoOwner} :
       calls' = [calls EXCEPT ![k].at = "replied", ![k].owner = owner]
  /\ UNCHANGED <<up, runtime, manager, last, limited, lately, saver, history, previous, dialogs,
                 latest, opening, used>>

(* _captureRecallNow(), _deleteRecall(): limited once more for all callers *)
OperationWorks(op) ==
  \/ lately' = lately \cup {op}
  \/ op \in lately /\ UNCHANGED lately

(* Mutant of Answered: the reply is not compared with the caller.          *)
AnsweredAnyOwner(k) ==
  IF up /\ calls[k].owner # NoOwner
  THEN calls' = [calls EXCEPT ![k].at = "worked"] /\ OperationWorks(calls[k].op)
  ELSE calls' = [calls EXCEPT ![k] = NoCall] /\ UNCHANGED lately

(* Mutant of Answered: a gate closed meanwhile does not answer.            *)
AnsweredWhileOpen(k) ==
  IF ~up THEN calls' = [calls EXCEPT ![k].at = "replied"] /\ UNCHANGED lately
  ELSE IF calls[k].owner = calls[k].sender
  THEN calls' = [calls EXCEPT ![k].at = "worked"] /\ OperationWorks(calls[k].op)
  ELSE calls' = [calls EXCEPT ![k] = NoCall] /\ UNCHANGED lately

(* The rest of allow() and the answer to the caller                        *)
Answered(k) ==
  IF up /\ calls[k].owner = calls[k].sender
  THEN calls' = [calls EXCEPT ![k].at = "worked"] /\ OperationWorks(calls[k].op)
  ELSE calls' = [calls EXCEPT ![k] = NoCall] /\ UNCHANGED lately

ReplyArrives(k) ==
  /\ calls[k].at = "replied"
  /\ Answered(k)
  /\ UNCHANGED <<up, runtime, manager, last, limited, saver, history, previous, dialogs, latest,
                 opening, used>>

(* The caller of an operation that was carried out has its answer.         *)
CallEnds(k) ==
  /\ calls[k].at = "worked"
  /\ calls' = [calls EXCEPT ![k] = NoCall]
  /\ UNCHANGED <<up, runtime, manager, last, limited, lately, saver, history, previous, dialogs,
                 latest, opening, used>>

(* The manager starts, ends, or another process takes its name.            *)
ManagerChanges ==
  /\ ServiceEvent
  /\ \E owner \in (Clients \cup {NoOwner}) \ {manager} :
       /\ manager' = owner
       /\ calls' = [k \in CallSlots |-> IF calls[k].at = "asking"
                      THEN [calls[k] EXCEPT !.seen = @ \cup {owner}] ELSE calls[k]]
  /\ UNCHANGED <<up, runtime, last, limited, lately, saver, history, previous, dialogs, latest,
                 opening>>

(* The interval of an operation is over (_allowOperation).                 *)
IntervalEnds(op) ==
  /\ op \in lately
  /\ lately' = lately \ {op}
  /\ UNCHANGED <<up, runtime, manager, calls, last, limited, saver, history, previous, dialogs,
                 latest, opening, used>>

-----------------------------------------------------------------------------
(* Automatic history                                                       *)

(* saveNow() up to the first await of the saver; one that may not save     *)
(* changes nothing.                                                        *)
BeginSnapshot(forced) ==
  IF /\ ~runtime.shutdown /\ (forced \/ ~runtime.restoring)
     /\ saver.save.at = "idle" /\ (forced \/ saver.enabled)
  THEN [at |-> "building", forced |-> forced]
  ELSE saver.save

InitialSave ==
  /\ saver.initial
  /\ saver' = [saver EXCEPT !.initial = FALSE, !.save = BeginSnapshot(FALSE)]
  /\ UNCHANGED <<up, runtime, manager, calls, last, limited, lately, history, previous, dialogs,
                 latest, opening, used>>

PeriodicSave ==
  /\ saver.periodic
  /\ saver' = [saver EXCEPT !.save = BeginSnapshot(FALSE)]
  /\ UNCHANGED <<up, runtime, manager, calls, last, limited, lately, history, previous, dialogs,
                 latest, opening, used>>

SaveHistoryNow ==
  /\ ServiceEvent /\ up /\ "save-history" \notin lately
  /\ lately' = lately \cup {"save-history"}
  /\ saver' = [saver EXCEPT !.save = BeginSnapshot(TRUE)]
  /\ UNCHANGED <<up, runtime, manager, calls, last, limited, history, previous, dialogs, latest,
                 opening>>

(* changed::continuous-save-*, and the energy state: timers start afresh.  *)
RescheduleSaves ==
  /\ ServiceEvent /\ up
  /\ \E enabled \in BOOLEAN :
       saver' = [saver EXCEPT !.enabled = enabled, !.initial = enabled, !.periodic = enabled]
  /\ UNCHANGED <<up, runtime, manager, calls, last, limited, lately, history, previous, dialogs,
                 latest, opening>>

(* _prune()                                                                *)
Trimmed(files) == IF files <= HistoryLimit THEN files ELSE HistoryLimit

(* Mutant of SaveEnds: the flag stays set when nothing was written.        *)
SaveEndsSavedOnly(saved, files) ==
  /\ saver' = [saver EXCEPT !.save = IF saved THEN NoSave ELSE @]
  /\ history' = IF saved /\ ~runtime.shutdown /\ ~runtime.restoring THEN Trimmed(files) ELSE files

(* The rest of saveNow()                                                   *)
SaveEnds(saved, files) ==
  /\ saver' = [saver EXCEPT !.save = NoSave]
  /\ history' = IF saved /\ ~runtime.shutdown /\ ~runtime.restoring THEN Trimmed(files) ELSE files

(* The process information is there and the windows are read.  After       *)
(* destroy() there is no _openFileResolver, and each window fails by       *)
(* itself.  An unchanged desktop counts as saved (skipUnchanged).          *)
BuildEnds ==
  /\ saver.save.at = "building"
  /\ \/ saver' = [saver EXCEPT !.save.at = "writing"] /\ UNCHANGED history
     \/ ~saver.save.forced /\ history > 0 /\ SaveEnds(TRUE, history)
     \/ SaveEnds(FALSE, history)
  /\ UNCHANGED <<up, runtime, manager, calls, last, limited, lately, previous, dialogs, latest,
                 opening, used>>

WriteEnds ==
  /\ saver.save.at = "writing"
  /\ \/ history <= HistoryLimit /\ SaveEnds(TRUE, history + 1)      \* bound
     \/ SaveEnds(FALSE, history)
  /\ UNCHANGED <<up, runtime, manager, calls, last, limited, lately, previous, dialogs, latest,
                 opening, used>>

-----------------------------------------------------------------------------
(* Restores                                                                *)

(* Mutant of Restores: the end of the desktop session is not looked at.    *)
RestoresAlways == {runtime.restoring, TRUE}

(* A restore is asked for: refused while another runs or the desktop ends, *)
(* and one without a file, or barred after a crash, never begins.          *)
Restores == {runtime.restoring, runtime.restoring \/ ~runtime.shutdown}

StartRestore == \E restoring \in Restores : runtime' = [runtime EXCEPT !.restoring = restoring]

RestoreEnds ==
  /\ runtime.restoring
  /\ runtime' = [runtime EXCEPT !.restoring = FALSE]
  /\ UNCHANGED <<up, manager, calls, last, limited, lately, saver, history, previous, dialogs,
                 latest, opening, used>>

(* RestoreSession(), RestoreHistory() and the selections of both, each     *)
(* with an interval of its own                                             *)
ManualRestore ==
  /\ ServiceEvent /\ up
  /\ \E op \in {"restore", "restore-history"} \ lately : lately' = lately \cup {op}
  /\ StartRestore
  /\ UNCHANGED <<up, manager, calls, last, limited, saver, history, previous, dialogs, latest,
                 opening>>

(* _restorePreviousSession(): at once, or once startup is complete         *)
RestorePrevious ==
  /\ ServiceEvent /\ up
  /\ \/ ~runtime.starting /\ previous' = [previous EXCEPT !.timer = TRUE]
     \/ /\ runtime.starting /\ ~previous.required
        /\ previous' = [previous EXCEPT !.required = TRUE, !.handler = TRUE]
  /\ UNCHANGED <<up, runtime, manager, calls, last, limited, lately, saver, history, dialogs,
                 latest, opening>>

PreviousTimer ==
  /\ previous.timer
  /\ previous' = [previous EXCEPT !.timer = FALSE]
  /\ StartRestore
  /\ UNCHANGED <<up, manager, calls, last, limited, lately, saver, history, dialogs, latest,
                 opening, used>>

(* startup-complete: the handlers of a disabled service are still called.  *)
StartupComplete ==
  /\ runtime.starting
  /\ runtime' = [runtime EXCEPT !.starting = FALSE]
  /\ previous' = [previous EXCEPT !.handler = FALSE, !.timer = @ \/ previous.handler]
  /\ opening' = [handlers |-> 0, idle |-> opening.handlers > 0]
  /\ UNCHANGED <<up, manager, calls, last, limited, lately, saver, history, dialogs, latest, used>>

(* RestoreSelectedSession(): a new dialog takes the place of the last one. *)
(* It restores without asking, or it opens, which fails during startup.    *)
RestoreSelected ==
  /\ ServiceEvent /\ up
  /\ UNCHANGED <<up, manager, calls, last, limited, lately, saver, history, previous>>
  /\ \E d \in Dialogs, exists \in BOOLEAN :
       /\ d = latest + 1
       /\ latest' = d
       /\ \/ /\ StartRestore
             /\ dialogs' = [dialogs EXCEPT ![d] = [NoDialog EXCEPT !.at = "waiting"]]
             /\ UNCHANGED opening
          \/ /\ dialogs' = [dialogs EXCEPT ![d] =
                  [at |-> IF runtime.starting THEN "waiting" ELSE "open",
                   timer |-> IF exists /\ ~runtime.starting THEN "running" ELSE "off",
                   confirms |-> FALSE]]
             /\ opening' = [opening EXCEPT !.handlers = IF runtime.starting THEN @ + 1 ELSE @]
             /\ UNCHANGED runtime

(* The idle call opens the dialog of the last call, if the service has it. *)
OpenIdle ==
  /\ opening.idle
  /\ opening' = [opening EXCEPT !.idle = FALSE]
  /\ \E exists \in BOOLEAN :
       dialogs' = IF up /\ latest # 0 /\ dialogs[latest].at = "waiting"
                  THEN [dialogs EXCEPT ![latest].at = "open", ![latest].timer = IF exists THEN "running" ELSE "off"]
                  ELSE dialogs
  /\ UNCHANGED <<up, runtime, manager, calls, last, limited, lately, saver, history, previous,
                 latest, used>>

(* The countdown is over; it also ends while the dialog fades out.         *)
DialogTick(d) ==
  /\ dialogs[d].timer = "running"
  /\ dialogs' = [dialogs EXCEPT ![d].timer = "off", ![d].at = "closing"]
  /\ StartRestore
  /\ UNCHANGED <<up, manager, calls, last, limited, lately, saver, history, previous, latest,
                 opening, used>>

(* Cancel or Confirm is pressed; Confirm needs a session that exists.      *)
DialogButton(d) ==
  /\ dialogs[d].at = "open"
  /\ \E confirms \in {FALSE, dialogs[d].timer # "off"} :
       dialogs' = [dialogs EXCEPT ![d].at = "closing", ![d].confirms = confirms]
  /\ UNCHANGED <<up, runtime, manager, calls, last, limited, lately, saver, history, previous,
                 latest, opening, used>>

(* The dialog has faded out: a confirmed one restores, its timer ends.     *)
DialogClosed(d) ==
  /\ dialogs[d].at = "closing"
  /\ dialogs' = [dialogs EXCEPT ![d] = [NoDialog EXCEPT !.at = "closed"]]
  /\ IF dialogs[d].confirms THEN StartRestore ELSE UNCHANGED runtime
  /\ UNCHANGED <<up, manager, calls, last, limited, lately, saver, history, previous, latest,
                 opening, used>>

-----------------------------------------------------------------------------
(* The desktop session ends, or its end is called off.                     *)
SessionEnds ==
  /\ ServiceEvent /\ up
  /\ runtime' = [runtime EXCEPT !.shutdown = ~@]
  /\ UNCHANGED <<up, manager, calls, last, limited, lately, saver, history, previous, dialogs,
                 latest, opening>>

(* disable() of the extension: the shutdown flag first, then the service.  *)
(* What waits for a reply, a file, startup or an animation goes on, and so *)
(* does the timer of a dialog other than the last.                         *)
Disable ==
  /\ up
  /\ up' = FALSE
  /\ runtime' = [runtime EXCEPT !.shutdown = TRUE]
  /\ last' = [op \in Operations |-> <<>>]
  /\ limited' = [op \in Operations |-> {}]
  /\ saver' = [saver EXCEPT !.initial = FALSE, !.periodic = FALSE]
  /\ dialogs' = IF latest = 0 THEN dialogs ELSE [dialogs EXCEPT ![latest].timer = IF @ = "running" THEN "stopped" ELSE @]
  /\ latest' = 0
  /\ previous' = [previous EXCEPT !.timer = FALSE]
  /\ opening' = [opening EXCEPT !.idle = FALSE]
  /\ UNCHANGED <<manager, calls, lately, history, used>>

-----------------------------------------------------------------------------
ServiceNext ==
  \/ \E c \in Clients, op \in Operations : ManagerCall(c, op)
  \/ \E c \in Clients, op \in Operations : LimitEnds(c, op)
  \/ \E k \in CallSlots : OwnerReplies(k)
  \/ \E k \in CallSlots : ReplyArrives(k)
  \/ \E k \in CallSlots : CallEnds(k)
  \/ ManagerChanges
  \/ \E op \in lately : IntervalEnds(op)
  \/ InitialSave \/ PeriodicSave \/ SaveHistoryNow \/ RescheduleSaves
  \/ BuildEnds \/ WriteEnds
  \/ RestoreEnds \/ ManualRestore
  \/ RestorePrevious \/ PreviousTimer \/ StartupComplete
  \/ RestoreSelected \/ OpenIdle
  \/ \E d \in Dialogs : DialogTick(d)
  \/ \E d \in Dialogs : DialogButton(d)
  \/ \E d \in Dialogs : DialogClosed(d)
  \/ SessionEnds \/ Disable

(* The bus answers or times out, replies are dispatched, processes and     *)
(* files answer the saver, and its periodic timer runs.                    *)
ServiceFairness ==
  /\ \A k \in CallSlots : WF_serviceVars(OwnerReplies(k) \/ ReplyArrives(k) \/ CallEnds(k))
  /\ WF_serviceVars(PeriodicSave)
  /\ WF_serviceVars(BuildEnds) /\ WF_serviceVars(WriteEnds)

ServiceSpec == ServiceInit /\ [][ServiceNext]_serviceVars /\ ServiceFairness

-----------------------------------------------------------------------------
(* RestoreSelectedSession() was called again after dialog d.               *)
Replaced(d) == d + 1 \in Dialogs /\ dialogs[d + 1].at # "none"

(* Callers of one gate wait for the bus at most PendingLimit at a time.    *)
(* After disable() the end of the session counts as begun, the timers of   *)
(* the saver are gone, and the countdown of a dialog still runs only if a  *)
(* later dialog took its place.  Until startup is complete neither the     *)
(* timer of the previous session nor the idle call is there; its handlers  *)
(* may set both off later, also in a disabled service: that they change    *)
(* nothing then is NothingAfterDisable.                                    *)
ServiceInvariant ==
  /\ ServiceTypeOK
  /\ \A op \in Operations : Cardinality(Asking(op)) <= PendingLimit
  /\ runtime.starting => ~previous.timer /\ ~opening.idle
  /\ ~up => /\ runtime.shutdown
            /\ ~saver.initial /\ ~saver.periodic
            /\ \A d \in Dialogs : dialogs[d].timer = "running" => Replaced(d)

(* A manager operation is carried out only for a caller that owned the     *)
(* name of the manager at some moment since it called, and only while the  *)
(* service is there, whoever owns the name by now.                         *)
WorkIsAuthorised ==
  [][\A k \in CallSlots : calls'[k].at = "worked" /\ calls[k].at # "worked" =>
       up /\ calls[k].sender \in calls[k].seen]_serviceVars

(* After disable() nothing more of the service takes effect on the desktop *)
(* but a write that was under way: no restore begins, no save begins, no   *)
(* file of the history is pruned and no dialog opens, although handlers of *)
(* startup-complete, dialogs that fade out and the timer of a replaced     *)
(* dialog are left behind.                                                 *)
NothingAfterDisable ==
  [][~up => /\ runtime'.restoring => runtime.restoring
            /\ saver'.save.at = "building" => saver.save.at = "building"
            /\ history' >= history
            /\ \A d \in Dialogs : dialogs'[d].at = "open" => dialogs[d].at = "open"]_serviceVars

(* Every call of a manager operation is answered: when the bus fails, when *)
(* the manager goes away, and when the service is disabled meanwhile.      *)
EveryCallAnswered ==
  \A k \in CallSlots : (calls[k].at # "off") ~> (calls[k].at = "off")

(* While saving is on and neither a restore nor the end of the session is  *)
(* in the way, saves go on for ever, however many of them fail.            *)
SavingResumes ==
  <>[](up /\ saver.enabled /\ ~runtime.shutdown /\ ~runtime.restoring) =>
    []<>(saver.save.at = "idle") /\ []<>(saver.save.at = "building")
=============================================================================
