--------------------------- MODULE SessionTracker ---------------------------
(***************************************************************************)
(* Continuous recording of open windows (openWindowsTracker.js, with       *)
(* saveWindowsSessionAsync of saveSession.js).  A changed window waits for *)
(* a one-shot timer; the timer starts a batch, which saves its windows one *)
(* after the other while other batches may be under way; the record of a   *)
(* closed window is removed, at once or after the restore in progress.     *)
(*                                                                         *)
(* A step is a stretch of code between two awaits.  Record bytes are the   *)
(* version of the window they describe.  The settings that enable          *)
(* recording are on, and all windows belong to one application.            *)
(***************************************************************************)
EXTENDS Naturals, FiniteSets, SequencesExt

CONSTANTS
  Windows, Classes,
  NoClass,          \* no record has been registered for a window
  MaxChanges,       \* bound: windows opened or changed
  MaxDisturbances   \* bound: logouts and restores begun, writes that fail

ASSUME TrackerAssumption ==
  /\ IsFiniteSet(Windows) /\ NoClass \notin Classes
  /\ MaxChanges \in Nat /\ MaxDisturbances \in Nat

VARIABLES
  win,        \* what Mutter knows of each window
  running,    \* the application is not in the state STOPPED
  toSave,     \* _windowsAboutToSaveSet; its order is left open
  armed,      \* _saveSessionByBatchTimeoutId
  token,      \* _runningSaveCancelableMap: the batch a cancellable was made for
  cancelled,  \* cancellables that were cancelled
  batch,      \* calls of saveWindowsSessionAsync, by number
  fires,      \* batches begun
  books,      \* record files, registrations and pending clean-ups
  closed,     \* _closedWindows
  shutdown,   \* runtimeSafety.shutdownInProgress
  leaving,    \* sessionClosedByUser
  restorer,   \* restoreSessionObject.activeRestorer
  changes,    \* windows opened or changed so far
  disturbances,
  excused,    \* history: the last change of the window was given up
  spared      \* history: closed while its record was protected

saving == <<toSave, armed, token, cancelled, batch, fires>>
session == <<shutdown, leaving, restorer>>
counters == <<changes, disturbances>>
vars == <<win, running, saving, books, closed, session, counters, excused, spared>>

Paths == Classes \X Windows
Versions == 0..MaxChanges      \* 0: there is no file
Batches == 1..MaxChanges

Idle == [phase |-> "idle", queue |-> <<>>, path |-> <<>>, version |-> 0, token |-> 0,
         results |-> {}]

Init ==
  /\ win = [w \in Windows |-> [is |-> "new", class |-> NoClass, version |-> 0, migrated |-> FALSE]]
  /\ running = FALSE
  /\ toSave = {} /\ armed = FALSE /\ fires = 0
  /\ token = [w \in Windows |-> 0] /\ cancelled = {}
  /\ batch = [n \in Batches |-> Idle]
  /\ books = [files |-> [p \in Paths |-> 0], pending |-> [p \in Paths |-> 0],
              record |-> [w \in Windows |-> NoClass], listening |-> {}]
  /\ closed = {} /\ shutdown = FALSE /\ leaving = FALSE /\ restorer = FALSE
  /\ changes = 0 /\ disturbances = 0 /\ excused = {} /\ spared = {}

-----------------------------------------------------------------------------
(* Waiting for the timer.                                                  *)

Prepare(w) ==
  IF shutdown \/ w \in closed
  THEN excused' = excused \cup {w} /\ UNCHANGED <<toSave, armed>>
  ELSE /\ toSave' = toSave \cup {w}
       /\ armed' = TRUE
       /\ excused' = excused \ {w}

(* Mutant of Cancel: a new save does not stop the one in progress.         *)
CancelNone(ws) == cancelled

(* Cancelled cancellables, after those of the windows ws were cancelled.   *)
Cancel(ws) == cancelled \cup {<<w, token[w]>> : w \in {v \in ws : token[v] # 0}}

Live(w, t) == <<w, t>> \notin cancelled

-----------------------------------------------------------------------------
(* Files and registrations.                                                *)

(* Mutant of Protected: a restore in progress is the only protection.      *)
ProtectedNever == FALSE

Protected == shutdown \/ leaving

(* _cleanUpSessionFileByWindow for the records at the paths ps.            *)
CleanUp(b, ps) ==
  LET exist == {p \in ps : b.files[p] # 0} IN
  IF Protected THEN b
  ELSE IF restorer
       THEN [b EXCEPT !.pending = [p \in Paths |-> IF p \in exist THEN b.files[p] ELSE @[p]]]
       ELSE [b EXCEPT !.files = [p \in Paths |-> IF p \in exist THEN 0 ELSE @[p]]]

(* What is registered once the records at the paths results were saved, no *)
(* two of one window: clean-up for a window that was closed meanwhile,     *)
(* migration from another class, or the first registration, whose handlers *)
(* only help a window that still exists.                                   *)
Register(b, results) ==
  LET late == {p \in results : p[2] \in closed}
      saved(w) == \E p \in results \ late : p[2] = w
      class(w) == IF saved(w) THEN (CHOOSE p \in results \ late : p[2] = w)[1] ELSE b.record[w]
      left == {p \in Paths : b.record[p[2]] = p[1] /\ class(p[2]) # p[1]}
      new == {w \in Windows : saved(w) /\ b.record[w] = NoClass /\ win[w].is = "open"}
  IN CleanUp([b EXCEPT !.record = [w \in Windows |-> class(w)], !.listening = @ \cup new],
             late \cup left)

(* Mutant of RecordsOf: only the registrations of live windows matter.     *)
RecordsOfNone(ws) == {}

RecordsOf(ws) == {p \in Paths : p[2] \in ws /\ books.record[p[2]] = p[1]}

(* The end of a restore, restoreActivity's signal.                         *)
Flush(b) ==
  LET current(p) == p[2] \notin closed /\ b.record[p[2]] = p[1]
      goes(p) == b.pending[p] # 0 /\ ~current(p) /\ b.files[p] = b.pending[p]
  IN IF Protected THEN b
     ELSE [b EXCEPT !.files = [p \in Paths |-> IF goes(p) THEN 0 ELSE @[p]],
                    !.pending = [p \in Paths |-> 0]]

-----------------------------------------------------------------------------
(* One batch.                                                              *)

(* The loop passes over windows that are gone or whose save was cancelled. *)
Skips(w) == win[w].is # "open" \/ ~Live(w, token[w])

(* The batch ends; a change that arrived meanwhile re-arms the timer.      *)
EndBatch(n, results) ==
  /\ batch' = [batch EXCEPT ![n] = Idle]
  /\ books' = Register(books, results)
  /\ armed' = (armed \/ (toSave # {} /\ ~shutdown))
  /\ spared' = IF Protected THEN spared \cup {w \in closed : \E p \in results : p[2] = w}
               ELSE spared

(* Window w is described and its file is being replaced.                   *)
BeginWrite(n, w, t, queue, results) ==
  /\ batch' = [batch EXCEPT ![n] =
       [phase |-> "writing", queue |-> queue, path |-> <<win[w].class, w>>,
        version |-> win[w].version, token |-> t, results |-> results]]
  /\ UNCHANGED <<armed, books, spared>>

(* Windows whose save failed, but for those a later batch has taken up.    *)
GivenUp(n, ws) == excused \cup {w \in ws : token[w] \in {0, n}}

After(queue, k) == SubSeq(queue, k + 1, Len(queue))

(* On to the next window that is not passed over.                          *)
Advance(n, queue, results) ==
  \/ /\ \A k \in DOMAIN queue : Skips(queue[k])
     /\ EndBatch(n, results)
  \/ \E k \in DOMAIN queue :
       /\ \A i \in 1..(k - 1) : Skips(queue[i])
       /\ ~Skips(queue[k])
       /\ BeginWrite(n, queue[k], token[queue[k]], After(queue, k), results)

(* The timer: the waiting windows become a batch, their saves in progress  *)
(* are cancelled.  The loop stops at its first window, to wait for ps.     *)
StartBatch ==
  /\ armed /\ toSave # {}        \* otherwise see FireIdle
  /\ fires' = fires + 1
  /\ cancelled' = Cancel(toSave)
  /\ token' = [w \in Windows |-> IF w \in toSave THEN fires' ELSE token[w]]
  /\ \/ /\ \A w \in toSave : win[w].is # "open"
        /\ UNCHANGED batch
     \/ \E queue \in SetToSeqs(toSave) : \E k \in DOMAIN queue :
          /\ \A i \in 1..(k - 1) : win[queue[i]].is # "open"
          /\ win[queue[k]].is = "open"
          /\ batch' = [batch EXCEPT ![fires'] =
               [phase |-> "info", queue |-> After(queue, k), path |-> <<win[queue[k]].class, queue[k]>>,
                version |-> 0, token |-> fires', results |-> {}]]
  /\ armed' = FALSE
  /\ UNCHANGED <<win, running, books, closed, session, counters, excused, spared>>

(* Mutant of Fire: the windows of the batch go on waiting.                 *)
FireKeep == StartBatch /\ UNCHANGED toSave

Fire == StartBatch /\ toSave' = {}

(* The windows that waited were closed.                                    *)
FireIdle ==
  /\ armed /\ toSave = {}
  /\ armed' = FALSE
  /\ UNCHANGED <<win, running, toSave, token, cancelled, batch, fires, books, closed, session,
                 counters, excused, spared>>

(* ps has answered.  A window that is gone has no workspace: the whole     *)
(* batch is given up.                                                      *)
InfoArrives(n) ==
  LET b == batch[n]
      w == b.path[2]
  IN /\ b.phase = "info"
     /\ IF ~Live(w, b.token)
        THEN Advance(n, b.queue, {}) /\ UNCHANGED excused
        ELSE IF win[w].is # "open"
        THEN EndBatch(n, {}) /\ excused' = GivenUp(n, ToSet(b.queue))
        ELSE BeginWrite(n, w, b.token, b.queue, {}) /\ UNCHANGED excused
     /\ UNCHANGED <<win, running, toSave, token, cancelled, fires, closed, session, counters>>

(* Without an answer of ps every window of the batch fails.                *)
InfoFails(n) ==
  LET b == batch[n] IN
  /\ b.phase = "info" /\ disturbances < MaxDisturbances
  /\ EndBatch(n, {})
  /\ excused' = GivenUp(n, {b.path[2]} \cup ToSet(b.queue))
  /\ disturbances' = disturbances + 1
  /\ UNCHANGED <<win, running, toSave, token, cancelled, fires, closed, session, changes>>

(* Mutant of Written: a cancelled replacement still replaces the file.     *)
WrittenAnyway(n) ==
  /\ batch[n].phase = "writing"
  /\ batch' = [batch EXCEPT ![n].phase = "written"]
  /\ books' = [books EXCEPT !.files[batch[n].path] = batch[n].version]
  /\ excused' = IF batch[n].token = 0 THEN excused \cup {batch[n].path[2]} ELSE excused
  /\ UNCHANGED <<win, running, toSave, armed, token, cancelled, fires, closed, session, counters,
                 spared>>

(* The new bytes replace the file.                                         *)
Written(n) ==
  /\ batch[n].phase = "writing" /\ Live(batch[n].path[2], batch[n].token)
  /\ batch' = [batch EXCEPT ![n].phase = "written"]
  /\ books' = [books EXCEPT !.files[batch[n].path] = batch[n].version]
  /\ excused' = IF batch[n].token = 0 THEN excused \cup {batch[n].path[2]} ELSE excused
  /\ UNCHANGED <<win, running, toSave, armed, token, cancelled, fires, closed, session, counters,
                 spared>>

(* The replacement is reported: done, or cancelled.                        *)
Reported(n) ==
  LET b == batch[n]
      live == Live(b.path[2], b.token)
  IN /\ b.phase = "written" \/ (b.phase = "writing" /\ ~live)
     /\ Advance(n, b.queue, IF live THEN b.results \cup {b.path} ELSE b.results)
     /\ UNCHANGED <<win, running, toSave, token, cancelled, fires, closed, session, counters,
                    excused>>

(* The file could not be written; the next window has its turn.            *)
WriteFails(n) ==
  LET b == batch[n] IN
  /\ b.phase = "writing" /\ disturbances < MaxDisturbances
  /\ Advance(n, b.queue, b.results)
  /\ excused' = GivenUp(n, {b.path[2]})
  /\ disturbances' = disturbances + 1
  /\ UNCHANGED <<win, running, toSave, token, cancelled, fires, closed, session, changes>>

BatchStep(n) == InfoArrives(n) \/ InfoFails(n) \/ Written(n) \/ Reported(n) \/ WriteFails(n)

-----------------------------------------------------------------------------
(* The desktop.                                                            *)

Change == changes < MaxChanges /\ changes' = changes + 1

Open(w) ==
  /\ win[w].is = "new" /\ Change
  /\ \E c \in Classes :
       win' = [win EXCEPT ![w] = [is |-> "open", class |-> c, version |-> 1, migrated |-> FALSE]]
  /\ running' = TRUE
  /\ Prepare(w)
  /\ UNCHANGED <<token, cancelled, batch, fires, books, closed, session, disturbances, spared>>

(* Any of the interesting signals: moved, renamed, minimized, tiled, ...   *)
Alter(w) ==
  /\ win[w].is = "open" /\ Change
  /\ win' = [win EXCEPT ![w].version = @ + 1]
  /\ Prepare(w)
  /\ UNCHANGED <<running, token, cancelled, batch, fires, books, closed, session, disturbances, spared>>

(* notify::wm-class.                                                       *)
Migrate(w) ==
  /\ win[w].is = "open" /\ Change
  /\ \E c \in Classes \ {win[w].class} :
       win' = [win EXCEPT ![w] = [is |-> "open", class |-> c, version |-> @.version + 1,
                                  migrated |-> TRUE]]
  /\ Prepare(w)
  /\ UNCHANGED <<running, token, cancelled, batch, fires, books, closed, session, disturbances, spared>>

(* What the handlers of unmanaging and of STOPPED do for the windows ws.   *)
Retire(ws) ==
  /\ closed' = closed \cup ws
  /\ toSave' = toSave \ ws
  /\ UNCHANGED armed
  /\ cancelled' = Cancel(ws)
  /\ books' = [CleanUp(books, RecordsOf(ws)) EXCEPT !.listening = @ \ {w \in ws : ~running'}]
  /\ spared' = IF Protected THEN spared \cup ws ELSE spared \ ws

(* unmanaging: only a window whose record was registered is listened to.   *)
Close(w) ==
  /\ win[w].is = "open"
  /\ win' = [win EXCEPT ![w].is = "gone"]
  /\ UNCHANGED running
  /\ Retire({w} \cap books.listening)
  /\ UNCHANGED <<token, batch, fires, session, counters, excused>>

(* notify::state: the application has stopped after its last window.       *)
AppStops ==
  /\ running /\ \A w \in Windows : win[w].is # "open"
  /\ running' = FALSE
  /\ Retire(books.listening)
  /\ UNCHANGED <<win, token, batch, fires, session, counters, excused>>

Disturb == disturbances < MaxDisturbances /\ disturbances' = disturbances + 1

(* Mutant of BeginShutdown: waiting windows are kept for later.            *)
BeginShutdownOnly ==
  /\ ~shutdown /\ Disturb /\ shutdown' = TRUE
  /\ cancelled' = Cancel(Windows) /\ token' = [w \in Windows |-> 0]
  /\ armed' = FALSE
  /\ excused' = Windows
  /\ UNCHANGED <<win, running, toSave, batch, fires, books, closed, leaving, restorer, changes, spared>>

(* _beginShutdown, after a confirmed dialog or a message of logind.  The   *)
(* cancellables are cancelled and then forgotten.                          *)
BeginShutdown ==
  /\ ~shutdown /\ Disturb /\ shutdown' = TRUE
  /\ cancelled' = Cancel(Windows) /\ token' = [w \in Windows |-> 0]
  /\ toSave' = {} /\ armed' = FALSE
  /\ excused' = Windows
  /\ UNCHANGED <<win, running, batch, fires, books, closed, leaving, restorer, changes, spared>>

CancelShutdown ==
  /\ shutdown /\ shutdown' = FALSE
  /\ UNCHANGED <<win, running, saving, books, closed, leaving, restorer, counters, excused, spared>>

(* The dialog is confirmed: closing windows is no longer the user's wish.  *)
Confirm ==
  /\ ~leaving /\ Disturb /\ leaving' = TRUE
  /\ UNCHANGED <<win, running, saving, books, closed, shutdown, restorer, changes, excused, spared>>

BeginRestore ==
  /\ ~restorer /\ ~shutdown /\ Disturb
  /\ restorer' = TRUE
  /\ leaving' \in {leaving, FALSE}
  /\ UNCHANGED <<win, running, saving, books, closed, shutdown, changes, excused, spared>>

EndRestore ==
  /\ restorer /\ restorer' = FALSE
  /\ books' = Flush(books)
  /\ UNCHANGED <<win, running, saving, closed, shutdown, leaving, counters, excused, spared>>

Environment ==
  \/ \E w \in Windows : Open(w) \/ Alter(w) \/ Migrate(w) \/ Close(w)
  \/ AppStops \/ BeginShutdown \/ CancelShutdown \/ Confirm \/ BeginRestore \/ EndRestore

Next == Fire \/ FireIdle \/ (\E n \in Batches : BatchStep(n)) \/ Environment

Spec == Init /\ [][Next]_vars

-----------------------------------------------------------------------------
(* Every variable stays in its type; a call that waits for something waits *)
(* for a window, with a cancellable made for that window.                  *)
BatchType ==
  [phase : {"idle", "info", "writing", "written"}, queue : Seq(Windows),
   path : Paths \cup {<<>>}, version : Versions, token : Nat, results : SUBSET Paths]

BooksType ==
  [files : [Paths -> Versions], pending : [Paths -> Versions],
   record : [Windows -> Classes \cup {NoClass}], listening : SUBSET Windows]

WindowType ==
  [is : {"new", "open", "gone"}, class : Classes \cup {NoClass}, version : Versions,
   migrated : BOOLEAN]

TrackerTypeOK ==
  /\ win \in [Windows -> WindowType]
  /\ \A w \in Windows : win[w].is # "new" => win[w].class \in Classes
  /\ toSave \subseteq Windows
  /\ token \in [Windows -> Nat] /\ cancelled \subseteq Windows \X Nat
  /\ fires \in 0..changes /\ changes \in 0..MaxChanges /\ disturbances \in 0..MaxDisturbances
  /\ batch \in [Batches -> BatchType]
  /\ \A n \in Batches : batch[n].phase # "idle" => batch[n].path \in Paths
  /\ books \in BooksType
  /\ closed \subseteq Windows /\ excused \subseteq Windows /\ spared \subseteq Windows
  /\ armed \in BOOLEAN /\ running \in BOOLEAN
  /\ shutdown \in BOOLEAN /\ leaving \in BOOLEAN /\ restorer \in BOOLEAN

(* A window that waits to be saved has a timer that will come for it: the  *)
(* debounce is never left disarmed by a batch, a closed window or a logout *)
(* that was called off.                                                    *)
QueueIsArmed == toSave # {} => armed

Quiet == toSave = {} /\ ~shutdown /\ \A n \in Batches : batch[n].phase = "idle"

(* When all is saved, each open window has a record of its latest state,   *)
(* whatever the order in which overlapping batches wrote and were          *)
(* cancelled.  Only excused windows may not: their last save failed, fell  *)
(* into a logout, was dropped with its batch, or raced one whose           *)
(* cancellable was lost.  For a change of class see MigratedIsRecorded.    *)
StillRecorded ==
  Quiet => \A w \in Windows \ excused :
    win[w].is = "open" /\ ~win[w].migrated =>
      books.files[<<win[w].class, w>>] = win[w].version

(* When all is saved and no restore or clean-up is pending, the registered *)
(* record of a closed window is gone, also if a save or a restore was      *)
(* under way when it closed; unless a logout protected it.                 *)
ClosedRecordsGone ==
  (Quiet /\ ~restorer) =>
    \A w \in closed \ spared : LET p == <<books.record[w], w>>
                              IN p \in Paths => books.files[p] = 0 \/ books.pending[p] # 0

KeepsRecords ==
  (shutdown \/ leaving \/ restorer') =>
     \A p \in Paths : books.files[p] # 0 => books.files'[p] # 0

(* While the session ends or a restore reads the records, the tracker      *)
(* removes none of them, not even those whose windows close meanwhile.     *)
KeptWhileProtected == [][KeepsRecords]_vars

BringsNoneBack ==
  \A w \in closed, c \in Classes :
    \/ books.files'[<<c, w>>] \in {0, books.files[<<c, w>>]}
    \/ \E n \in Batches : batch[n].path = <<c, w>> /\ batch[n].token = 0

(* The handlers of a closing window reach every save of it that is in      *)
(* progress, in whichever batch: none brings its record back.  (A save     *)
(* whose cancellable a logout took away is the exception.)                 *)
ClosedStaysClosed == [][BringsNoneBack]_vars

(* What the changelog says of changes of class (CHANGELOG.md:105-106): the *)
(* record of a window moves with it and is deleted only when it closes.  A *)
(* window that is open and once registered has a record under some class.  *)
MigratedIsRecorded ==
  \A w \in Windows : win[w].is = "open" /\ books.record[w] # NoClass =>
    \E c \in Classes : books.files[<<c, w>>] # 0
=============================================================================
