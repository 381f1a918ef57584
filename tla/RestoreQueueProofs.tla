------------------------- MODULE RestoreQueueProofs -------------------------
(***************************************************************************)
(* RestoreInvariant is an invariant of RestoreQueue for all applications,  *)
(* records, documents and bounds, and with it the safety properties.       *)
(* One lemma per conjunct of the invariant, with one case per action.      *)
(***************************************************************************)
EXTENDS RestoreQueue, TLAPS

(* An entry names a record's bytes, hence an application.                  *)
LEMMA EntryType ==
  /\ \A e \in Entry : App(e) \in Apps /\ e.content \in Contents /\ e # None
  /\ \A e \in Entry : e.file # Archived => e.file \in Files
BY AppOfAssumption, NoneAssumption DEF App, Entry

(* The type of each field of a run.                                        *)
LEMMA RunFields ==
  \A r \in RunType :
    /\ r.pc \in PCs /\ r.auto \in BOOLEAN /\ r.cancelled \in BOOLEAN
    /\ r.todo \subseteq Entry /\ r.surplus \subseteq Entry /\ r.deferred \subseteq Entry
    /\ r.round \subseteq Entry /\ r.moved \subseteq Entry /\ r.cur \in Entry \cup {None}
    /\ r.again \in BOOLEAN /\ r.timedOut \subseteq Apps /\ r.registered \subseteq Apps
    /\ r.launched \subseteq Apps /\ r.opened \subseteq Contents
    /\ r.previous \subseteq Contents /\ r.manualKeys \subseteq Contents
    /\ r.group \in Apps \cup {None} /\ r.read \in Contents \cup {None}
BY DEF RunType

(* A run stays a run when one of its fields is given a value of its type.  *)
LEMMA RunUpdates ==
  \A r \in RunType :
    /\ \A p \in PCs : [r EXCEPT !.pc = p] \in RunType
    /\ \A b \in BOOLEAN : /\ [r EXCEPT !.auto = b] \in RunType
                          /\ [r EXCEPT !.cancelled = b] \in RunType
                          /\ [r EXCEPT !.again = b] \in RunType
    /\ \A q \in SUBSET Entry : /\ [r EXCEPT !.todo = q] \in RunType
                               /\ [r EXCEPT !.surplus = q] \in RunType
                               /\ [r EXCEPT !.deferred = q] \in RunType
                               /\ [r EXCEPT !.round = q] \in RunType
                               /\ [r EXCEPT !.moved = q] \in RunType
    /\ \A e \in Entry \cup {None} : [r EXCEPT !.cur = e] \in RunType
    /\ \A a \in Apps \cup {None} : [r EXCEPT !.group = a] \in RunType
    /\ \A q \in SUBSET Apps : /\ [r EXCEPT !.timedOut = q] \in RunType
                              /\ [r EXCEPT !.registered = q] \in RunType
                              /\ [r EXCEPT !.launched = q] \in RunType
    /\ \A q \in SUBSET Contents : /\ [r EXCEPT !.opened = q] \in RunType
                                  /\ [r EXCEPT !.previous = q] \in RunType
                                  /\ [r EXCEPT !.manualKeys = q] \in RunType
    /\ \A x \in Contents \cup {None} : [r EXCEPT !.read = x] \in RunType
<1> TAKE r \in RunType
<1>1. /\ \A p \in PCs : [r EXCEPT !.pc = p] \in RunType
      /\ \A b \in BOOLEAN : [r EXCEPT !.auto = b] \in RunType
      /\ \A b \in BOOLEAN : [r EXCEPT !.cancelled = b] \in RunType
      /\ \A b \in BOOLEAN : [r EXCEPT !.again = b] \in RunType
  BY DEF RunType
<1>2. /\ \A q \in SUBSET Entry : [r EXCEPT !.todo = q] \in RunType
      /\ \A q \in SUBSET Entry : [r EXCEPT !.surplus = q] \in RunType
      /\ \A q \in SUBSET Entry : [r EXCEPT !.deferred = q] \in RunType
      /\ \A q \in SUBSET Entry : [r EXCEPT !.round = q] \in RunType
      /\ \A q \in SUBSET Entry : [r EXCEPT !.moved = q] \in RunType
  BY DEF RunType
<1>3. /\ \A e \in Entry \cup {None} : [r EXCEPT !.cur = e] \in RunType
      /\ \A a \in Apps \cup {None} : [r EXCEPT !.group = a] \in RunType
      /\ \A q \in SUBSET Apps : [r EXCEPT !.timedOut = q] \in RunType
      /\ \A q \in SUBSET Apps : [r EXCEPT !.registered = q] \in RunType
      /\ \A q \in SUBSET Apps : [r EXCEPT !.launched = q] \in RunType
  BY DEF RunType
<1>4. /\ \A q \in SUBSET Contents : [r EXCEPT !.opened = q] \in RunType
      /\ \A q \in SUBSET Contents : [r EXCEPT !.previous = q] \in RunType
      /\ \A q \in SUBSET Contents : [r EXCEPT !.manualKeys = q] \in RunType
      /\ \A x \in Contents \cup {None} : [r EXCEPT !.read = x] \in RunType
  BY DEF RunType
<1> QED
  BY <1>1, <1>2, <1>3, <1>4

(* Going on to the next entry (_restoreQueuedEntry returns).               *)
LEMMA LeaveType ==
  \A r \in RunType :
    /\ Leave(r) \in RunType
    /\ Leave(r).todo = r.todo \ {r.cur} /\ Leave(r).cur = None
    /\ Leave(r).pc = (IF r.again THEN "reconcile" ELSE "next")
    /\ Leave(r).auto = r.auto /\ Leave(r).again = r.again
    /\ Leave(r).surplus = r.surplus /\ Leave(r).deferred = r.deferred
    /\ Leave(r).round = r.round /\ Leave(r).registered = r.registered
    /\ Leave(r).previous = r.previous /\ Leave(r).manualKeys = r.manualKeys
    /\ Leave(r).timedOut = r.timedOut
<1> TAKE r \in RunType
<1> QED BY DEF Leave, RunType, PCs

(* The state without a restorer.                                           *)
LEMMA NoRunType == NoRun \in RunType
BY DEF NoRun, RunType, PCs

(* interruptedRestoreApplications returns a table of timestamps.           *)
LEMMA HoldsType ==
  ASSUME conf \in Settings
  PROVE  Holds \in [Apps -> 0..MaxClock]
BY BoundsAssumption DEF Holds, Settings

(* What the code sets in GSettings keeps its type.                         *)
LEMMA SettingsUpdates ==
  ASSUME clock \in 1..MaxClock
  PROVE  \A c \in Settings :
         /\ \A a \in Apps : Marked(c, a) \in Settings
         /\ \A x \in Contents : Barring(c, x) \in Settings
         /\ \A l \in SUBSET Contents : [c EXCEPT !.ledger = l] \in Settings
         /\ \A l : [c EXCEPT !.ledger = @ \cap l] \in Settings
         /\ \A h \in [Apps -> 0..MaxClock] : [c EXCEPT !.held = h] \in Settings
         /\ \A a \in Apps : [c EXCEPT !.held[a] = 0] \in Settings
         /\ [c EXCEPT !.active = None, !.attempt = 0] \in Settings
<1> TAKE c \in Settings
<1>1. 0 \in 0..MaxClock /\ clock \in 0..MaxClock
  BY BoundsAssumption
<1>2. \A d \in Settings, a \in Apps \cup {None} : [d EXCEPT !.active = a] \in Settings
  BY DEF Settings
<1>3. \A d \in Settings, t \in 0..MaxClock : [d EXCEPT !.attempt = t] \in Settings
  BY DEF Settings
<1>4. \A a \in Apps : Marked(c, a) \in Settings
  BY <1>1, <1>2, <1>3 DEF Marked
<1>5. [c EXCEPT !.active = None, !.attempt = 0] \in Settings
  BY <1>1, <1>2, <1>3
<1>6. \A a \in Apps : [c EXCEPT !.held[a] = 0] \in Settings
  BY <1>1 DEF Settings
<1> QED
  BY <1>4, <1>5, <1>6 DEF Settings, Barring

(* Each setting that the code writes leaves the other keys alone.          *)
LEMMA SettingsFields ==
  \A c \in Settings :
    /\ c.ledger \subseteq Contents /\ c.held \in [Apps -> 0..MaxClock]
    /\ c.active \in Apps \cup {None} /\ c.attempt \in 0..MaxClock
    /\ \A a : /\ Marked(c, a).ledger = c.ledger /\ Marked(c, a).held = c.held
              /\ Marked(c, a).active = a /\ Marked(c, a).attempt = clock
    /\ \A x : /\ Barring(c, x).ledger = c.ledger \cup {x} /\ Barring(c, x).held = c.held
              /\ Barring(c, x).active = c.active /\ Barring(c, x).attempt = c.attempt
    /\ \A h : LET d == [c EXCEPT !.held = h]
              IN /\ d.ledger = c.ledger /\ d.held = h
                 /\ d.active = c.active /\ d.attempt = c.attempt
    /\ \A l : LET d == [c EXCEPT !.ledger = l]
              IN /\ d.ledger = l /\ d.held = c.held
                 /\ d.active = c.active /\ d.attempt = c.attempt
    /\ \A a \in Apps : LET d == [c EXCEPT !.held[a] = 0]
              IN /\ d.ledger = c.ledger /\ d.held = [c.held EXCEPT ![a] = 0]
                 /\ d.active = c.active /\ d.attempt = c.attempt
    /\ LET d == [c EXCEPT !.active = None, !.attempt = 0]
       IN /\ d.ledger = c.ledger /\ d.held = c.held
          /\ d.active = None /\ d.attempt = 0
<1> TAKE c \in Settings
<1>1. /\ c.ledger \subseteq Contents /\ c.held \in [Apps -> 0..MaxClock]
      /\ c.active \in Apps \cup {None} /\ c.attempt \in 0..MaxClock
  BY DEF Settings
<1>2. \A a : /\ Marked(c, a).ledger = c.ledger /\ Marked(c, a).held = c.held
             /\ Marked(c, a).active = a /\ Marked(c, a).attempt = clock
  BY DEF Settings, Marked
<1>3. \A x : /\ Barring(c, x).ledger = c.ledger \cup {x} /\ Barring(c, x).held = c.held
             /\ Barring(c, x).active = c.active /\ Barring(c, x).attempt = c.attempt
  BY DEF Settings, Barring
<1>4. \A h : LET d == [c EXCEPT !.held = h]
             IN /\ d.ledger = c.ledger /\ d.held = h
                /\ d.active = c.active /\ d.attempt = c.attempt
  BY DEF Settings
<1>5. \A l : LET d == [c EXCEPT !.ledger = l]
             IN /\ d.ledger = l /\ d.held = c.held
                /\ d.active = c.active /\ d.attempt = c.attempt
  BY DEF Settings
<1>6. \A a \in Apps : LET d == [c EXCEPT !.held[a] = 0]
             IN /\ d.ledger = c.ledger /\ d.held = [c.held EXCEPT ![a] = 0]
                /\ d.active = c.active /\ d.attempt = c.attempt
  BY DEF Settings
<1>7. LET d == [c EXCEPT !.active = None, !.attempt = 0]
      IN /\ d.ledger = c.ledger /\ d.held = c.held
         /\ d.active = None /\ d.attempt = 0
  BY DEF Settings
<1> QED
  BY <1>1, <1>2, <1>3, <1>4, <1>5, <1>6, <1>7

(* Type correctness, one case per action.                                  *)
LEMMA TypeStep == TypeOK /\ RunShape /\ Next => TypeOK'
<1> SUFFICES ASSUME TypeOK, RunShape, Next PROVE TypeOK' OBVIOUS
<1>a. /\ conf \in Settings /\ disk \in Settings /\ run \in RunType
      /\ clock \in 1..MaxClock
      /\ conf.ledger \subseteq Contents
      /\ disk.active \in Apps \cup {None} /\ disk.attempt \in 0..MaxClock
  BY DEF TypeOK, Settings
<1>b. run.pc \in Working => /\ run.cur \in Entry /\ App(run.cur) \in Apps
                            /\ run.cur.content \in Contents
  BY <1>a, RunFields, EntryType DEF RunShape
<1>1. ASSUME NEW auto \in BOOLEAN, Begin(auto) PROVE TypeOK'
  <2>1. conf' \in Settings /\ disk' \in Settings
    BY <1>1, <1>a, <1>b, SettingsUpdates, HoldsType, EntryType DEF Begin,
       Synced, NotSynced, Checkpoint, Working
  <2>2. run' \in RunType
    BY <1>1, <1>a, <1>b, LeaveType, NoRunType, EntryType, RunUpdates, RunFields
       DEF Begin, PCs, Working
  <2> QED
    BY <1>1, <1>b, <2>1, <2>2, EntryType, BoundsAssumption DEF Begin, TypeOK,
       Working, durable, history, Event
<1>2. ASSUME BeginRefused PROVE TypeOK'
  <2>1. conf' \in Settings /\ disk' \in Settings
    BY <1>2, <1>a, <1>b, SettingsUpdates, HoldsType, EntryType DEF BeginRefused,
       Synced, NotSynced, Checkpoint, Working
  <2>2. run' \in RunType
    BY <1>2, <1>a, <1>b, LeaveType, NoRunType, EntryType, RunUpdates, RunFields
       DEF BeginRefused, PCs, Working
  <2> QED
    BY <1>2, <1>b, <2>1, <2>2, EntryType, BoundsAssumption DEF BeginRefused,
       TypeOK, Working, durable, history, Event
<1>3. ASSUME Load PROVE TypeOK'
  <2> PICK got \in SUBSET Stored :
        /\ Synced([conf EXCEPT !.ledger = @ \cap Keys(got)])
        /\ \E todo, surplus \in SUBSET got :
             run' = [run EXCEPT !.pc = IF surplus = {} THEN "next" ELSE "sparing",
                                !.todo = todo, !.surplus = surplus]
    BY <1>3 DEF Load
  <2>1. conf' \in Settings /\ disk' \in Settings
    BY <1>a, SettingsUpdates DEF Synced
  <2>2. run' \in RunType
    <3> PICK todo, surplus \in SUBSET got :
          run' = [run EXCEPT !.pc = IF surplus = {} THEN "next" ELSE "sparing",
                             !.todo = todo, !.surplus = surplus]
      OBVIOUS
    <3>1. todo \in SUBSET Entry /\ surplus \in SUBSET Entry
      BY DEF Stored
    <3> QED
      BY <1>a, <3>1, RunUpdates DEF PCs
  <2> QED
    BY <1>3, <1>b, <2>1, <2>2, EntryType, BoundsAssumption DEF Load, TypeOK,
       Working, durable, history, Event
<1>4. ASSUME RunFails PROVE TypeOK'
  <2>1. conf' \in Settings /\ disk' \in Settings
    BY <1>4, <1>a, <1>b, SettingsUpdates, HoldsType, EntryType DEF RunFails,
       Synced, NotSynced, Checkpoint, Working
  <2>2. run' \in RunType
    BY <1>4, <1>a, <1>b, LeaveType, NoRunType, EntryType, RunUpdates, RunFields
       DEF RunFails, PCs, Working
  <2> QED
    BY <1>4, <1>b, <2>1, <2>2, EntryType, BoundsAssumption DEF RunFails,
       TypeOK, Working, durable, history, Event
<1>5. ASSUME Preserve PROVE TypeOK'
  <2>1. conf' \in Settings /\ disk' \in Settings
    BY <1>5, <1>a, <1>b, SettingsUpdates, HoldsType, EntryType DEF Preserve,
       Synced, NotSynced, Checkpoint, Working
  <2>2. run' \in RunType
    BY <1>5, <1>a, <1>b, LeaveType, NoRunType, EntryType, RunUpdates, RunFields
       DEF Preserve, PCs, Working
  <2> QED
    BY <1>5, <1>b, <2>1, <2>2, EntryType, BoundsAssumption DEF Preserve, TypeOK,
       Working, durable, history, Event
<1>6. ASSUME Ambiguous PROVE TypeOK'
  <2>1. conf' \in Settings /\ disk' \in Settings
    BY <1>6, <1>a, <1>b, SettingsUpdates, HoldsType, EntryType DEF Ambiguous,
       Synced, NotSynced, Checkpoint, Working
  <2>2. run' \in RunType
    BY <1>6, <1>a, <1>b, LeaveType, NoRunType, EntryType, RunUpdates, RunFields
       DEF Ambiguous, PCs, Working
  <2> QED
    BY <1>6, <1>b, <2>1, <2>2, EntryType, BoundsAssumption DEF Ambiguous,
       TypeOK, Working, durable, history, Event
<1>7. ASSUME NotLaunched PROVE TypeOK'
  <2>1. conf' \in Settings /\ disk' \in Settings
    BY <1>7, <1>a, <1>b, SettingsUpdates, HoldsType, EntryType DEF
       NotLaunched, Synced, NotSynced, Checkpoint, Working
  <2>2. run' \in RunType
    BY <1>7, <1>a, <1>b, LeaveType, NoRunType, EntryType, RunUpdates, RunFields
       DEF NotLaunched, PCs, Working
  <2> QED
    BY <1>7, <1>b, <2>1, <2>2, EntryType, BoundsAssumption DEF NotLaunched,
       TypeOK, Working, durable, history, Event
<1>8. ASSUME Launch PROVE TypeOK'
  <2>a. Marked(conf, App(run.cur)) \in Settings
    BY <1>8, <1>a, <1>b, SettingsUpdates DEF Launch, Working
  <2>1. conf' \in Settings /\ disk' \in Settings
    BY <1>8, <1>a, <1>b, <2>a, SettingsUpdates DEF Launch, Synced, Checkpoint, Working
  <2>2. run' \in RunType
    BY <1>8, <1>a, RunUpdates DEF Launch, PCs
  <2> QED
    BY <1>8, <1>b, <2>1, <2>2, EntryType, BoundsAssumption DEF Launch, TypeOK,
       Working, durable, history, Event
<1>9. ASSUME Reuse PROVE TypeOK'
  <2>a. Marked(conf, App(run.cur)) \in Settings
    BY <1>9, <1>a, <1>b, SettingsUpdates DEF Reuse, Working
  <2>1. conf' \in Settings /\ disk' \in Settings
    BY <1>9, <1>a, <1>b, <2>a, SettingsUpdates DEF Reuse, Synced, Checkpoint, Working
  <2>b. run.launched \cup {App(run.cur)} \in SUBSET Apps
    BY <1>9, <1>a, <1>b, RunFields DEF Reuse, Working
  <2>2. run' \in RunType
    BY <1>9, <1>a, <2>b, RunUpdates DEF Reuse, PCs
  <2> QED
    BY <1>9, <1>b, <2>1, <2>2, EntryType, BoundsAssumption DEF Reuse, TypeOK,
       Working, durable, history, Event
<1>10. ASSUME Launched PROVE TypeOK'
  <2>1. conf' \in Settings /\ disk' \in Settings
    BY <1>10, <1>a DEF Launched
  <2>a. /\ run.launched \cup {App(run.cur)} \in SUBSET Apps
        /\ run.opened \cup ({run.cur.content} \cap Docs) \in SUBSET Contents
    BY <1>10, <1>a, <1>b, RunFields DEF Launched, Working
  <2>2. run' \in RunType
    BY <1>10, <1>a, <2>a, RunUpdates DEF Launched, PCs
  <2> QED
    BY <1>10, <1>b, <2>1, <2>2, EntryType, BoundsAssumption DEF Launched,
       TypeOK, Working, durable, history, Event
<1>11. ASSUME LaunchFails PROVE TypeOK'
  <2>a. run.previous \in SUBSET Contents
    BY <1>a, RunFields
  <2>1. conf' \in Settings /\ disk' \in Settings
    BY <1>11, <1>a, <2>a, SettingsUpdates DEF LaunchFails, Synced
  <2>2. run' \in RunType
    BY <1>11, <1>a, LeaveType, RunUpdates DEF LaunchFails
  <2> QED
    BY <1>11, <1>b, <2>1, <2>2, EntryType, BoundsAssumption DEF LaunchFails,
       TypeOK, Working, durable, history, Event
<1>12. ASSUME Ready PROVE TypeOK'
  <2>1. conf' \in Settings /\ disk' \in Settings
    BY <1>12, <1>a, <1>b, SettingsUpdates, HoldsType, EntryType DEF Ready,
       Synced, NotSynced, Checkpoint, Working
  <2>2. run' \in RunType
    BY <1>12, <1>a, <1>b, LeaveType, NoRunType, EntryType, RunUpdates, RunFields
       DEF Ready, PCs, Working
  <2> QED
    BY <1>12, <1>b, <2>1, <2>2, EntryType, BoundsAssumption DEF Ready, TypeOK,
       Working, durable, history, Event
<1>13. ASSUME TimesOut PROVE TypeOK'
  <2>1. conf' \in Settings /\ disk' \in Settings
    BY <1>13, <1>a DEF TimesOut
  <2>a. /\ run.timedOut \cup {App(run.cur)} \in SUBSET Apps
        /\ run.registered \ {App(run.cur)} \in SUBSET Apps
    BY <1>13, <1>a, <1>b, RunFields DEF TimesOut, Working
  <2>2. run' \in RunType
    BY <1>13, <1>a, <2>a, LeaveType, RunUpdates DEF TimesOut
  <2> QED
    BY <1>13, <1>b, <2>1, <2>2, EntryType, BoundsAssumption DEF TimesOut,
       TypeOK, Working, durable, history, Event
<1>14. ASSUME Move PROVE TypeOK'
  <2>1. conf' \in Settings /\ disk' \in Settings
    BY <1>14, <1>a, <1>b, SettingsUpdates, HoldsType, EntryType DEF Move,
       Synced, NotSynced, Checkpoint, Working
  <2>2. run' \in RunType
    BY <1>14, <1>a, <1>b, LeaveType, NoRunType, EntryType, RunUpdates, RunFields
       DEF Move, PCs, Working
  <2> QED
    BY <1>14, <1>b, <2>1, <2>2, EntryType, BoundsAssumption DEF Move, TypeOK,
       Working, durable, history, Event
<1>15. ASSUME Moved PROVE TypeOK'
  <2>1. conf' \in Settings /\ disk' \in Settings
    BY <1>15, <1>a, <1>b, SettingsUpdates, HoldsType, EntryType DEF Moved,
       Synced, NotSynced, Checkpoint, Working
  <2>2. run' \in RunType
    BY <1>15, <1>a, <1>b, LeaveType, NoRunType, EntryType, RunUpdates, RunFields
       DEF Moved, PCs, Working
  <2> QED
    BY <1>15, <1>b, <2>1, <2>2, EntryType, BoundsAssumption DEF Moved, TypeOK,
       Working, durable, history, Event
<1>16. ASSUME NotMoved PROVE TypeOK'
  <2>1. conf' \in Settings /\ disk' \in Settings
    BY <1>16, <1>a DEF NotMoved
  <2>a. run.deferred \cup {run.cur} \in SUBSET Entry
    BY <1>16, <1>a, <1>b, RunFields DEF NotMoved, Working
  <2>2. run' \in RunType
    BY <1>16, <1>a, <2>a, LeaveType, RunUpdates DEF NotMoved
  <2> QED
    BY <1>16, <1>b, <2>1, <2>2, EntryType, BoundsAssumption DEF NotMoved,
       TypeOK, Working, durable, history, Event
<1>17. ASSUME RetireRead PROVE TypeOK'
  <2>1. conf' \in Settings /\ disk' \in Settings
    BY <1>17, <1>a DEF RetireRead
  <2>a. MayRetire => files[run.cur.file] \in Contents \cup {None}
    BY <1>17, <1>b, EntryType DEF RetireRead, MayRetire, TypeOK, RunShape,
       Queued, Working
  <2>2. run' \in RunType
    BY <1>17, <1>a, <2>a, LeaveType, RunUpdates DEF RetireRead, PCs
  <2> QED
    BY <1>17, <1>b, <2>1, <2>2, EntryType, BoundsAssumption DEF RetireRead,
       TypeOK, Working, durable, history, Event
<1>18. ASSUME RetireDelete PROVE TypeOK'
  <2>1. conf' \in Settings /\ disk' \in Settings
    BY <1>18, <1>a, <1>b, SettingsUpdates, HoldsType, EntryType DEF
       RetireDelete, Synced, NotSynced, Checkpoint, Working
  <2>2. run' \in RunType
    BY <1>18, <1>a, <1>b, LeaveType, NoRunType, EntryType, RunUpdates, RunFields
       DEF RetireDelete, PCs, Working
  <2> QED
    BY <1>18, <1>b, <2>1, <2>2, EntryType, BoundsAssumption DEF RetireDelete,
       TypeOK, Working, durable, history, Event
<1>19. ASSUME Reconcile PROVE TypeOK'
  <2>1. conf' \in Settings /\ disk' \in Settings
    BY <1>19, <1>a, <1>b, SettingsUpdates, HoldsType, EntryType DEF Reconcile,
       Synced, NotSynced, Checkpoint, Working
  <2>2. run' \in RunType
    BY <1>19, <1>a, <1>b, LeaveType, NoRunType, EntryType, RunUpdates, RunFields
       DEF Reconcile, PCs, Working
  <2> QED
    BY <1>19, <1>b, <2>1, <2>2, EntryType, BoundsAssumption DEF Reconcile,
       TypeOK, Working, durable, history, Event
<1>20. ASSUME Finish PROVE TypeOK'
  <2>1. conf' \in Settings /\ disk' \in Settings
    BY <1>20, <1>a, <1>b, SettingsUpdates, HoldsType, EntryType DEF Finish,
       Synced, NotSynced, Checkpoint, Working
  <2>2. run' \in RunType
    BY <1>20, <1>a, <1>b, LeaveType, NoRunType, EntryType, RunUpdates, RunFields
       DEF Finish, PCs, Working
  <2> QED
    BY <1>20, <1>b, <2>1, <2>2, EntryType, BoundsAssumption DEF Finish, TypeOK,
       Working, durable, history, Event
<1>21. ASSUME Interrupt PROVE TypeOK'
  <2>1. conf' \in Settings /\ disk' \in Settings
    BY <1>21, <1>a, <1>b, SettingsUpdates, HoldsType, EntryType DEF Interrupt,
       Synced, NotSynced, Checkpoint, Working
  <2>2. run' \in RunType
    BY <1>21, <1>a, <1>b, LeaveType, NoRunType, EntryType, RunUpdates, RunFields
       DEF Interrupt, PCs, Working
  <2> QED
    BY <1>21, <1>b, <2>1, <2>2, EntryType, BoundsAssumption DEF Interrupt,
       TypeOK, Working, durable, history, Event
<1>22. ASSUME NEW e \in Entry, Spare(e) PROVE TypeOK'
  <2>1. conf' \in Settings /\ disk' \in Settings
    BY <1>22, <1>a, <1>b, SettingsUpdates, HoldsType, EntryType DEF Spare,
       Synced, NotSynced, Checkpoint, Working
  <2>2. run' \in RunType
    BY <1>22, <1>a, <1>b, LeaveType, NoRunType, EntryType, RunUpdates, RunFields
       DEF Spare, PCs, Working
  <2> QED
    BY <1>22, <1>b, <2>1, <2>2, EntryType, BoundsAssumption DEF Spare, TypeOK,
       Working, durable, history, Event
<1>23. ASSUME NEW e \in Entry, Pick(e) PROVE TypeOK'
  <2>1. conf' \in Settings /\ disk' \in Settings
    <3>1. Marked(conf, App(e)) \in Settings
      BY <1>a, EntryType, SettingsUpdates
    <3> QED
      BY <1>23, <1>a, <3>1 DEF Pick, Checkpoint, Synced
  <2> DEFINE r == [run EXCEPT !.cur = e, !.group = App(e)]
  <2>a. r \in RunType
    BY <1>a, EntryType, RunUpdates
  <2>b. r.registered \cup {App(e)} \in SUBSET Apps
    BY <2>a, EntryType, RunFields
  <2>c. [r EXCEPT !.pc = IF e.content \in Docs THEN "preserve" ELSE "turn",
                  !.registered = @ \cup {App(e)}] \in RunType
    BY <2>a, <2>b, RunUpdates DEF PCs
  <2>2. run' \in RunType
    BY <1>23, <2>a, <2>c, LeaveType DEF Pick
  <2> QED
    BY <1>23, <1>b, <2>1, <2>2, EntryType, BoundsAssumption DEF Pick, TypeOK,
       Working, durable, history, Event
<1>24. ASSUME NEW e \in Entry, Retry(e) PROVE TypeOK'
  <2>a. /\ Marked(conf, App(e)) \in Settings
        /\ [Marked(conf, App(e)) EXCEPT !.held[App(e)] = 0] \in Settings
    BY <1>a, EntryType, SettingsUpdates
  <2>1. conf' \in Settings /\ disk' \in Settings
    BY <1>24, <1>a, <2>a DEF Retry, Checkpoint, Synced
  <2> DEFINE r == [run EXCEPT !.cur = e, !.round = @ \ {e}]
  <2>c. run.round \ {e} \in SUBSET Entry
    BY <1>a, RunFields
  <2>d. r \in RunType
    BY <1>a, <2>c, RunUpdates
  <2>b. r.deferred \ {e} \in SUBSET Entry
    BY <2>d, RunFields
  <2>e. [r EXCEPT !.pc = "retire", !.deferred = @ \ {e}] \in RunType
    BY <2>b, <2>d, RunUpdates DEF PCs
  <2>f. [r EXCEPT !.pc = "layout"] \in RunType
    BY <2>d, RunUpdates DEF PCs
  <2>g. \/ run' = [r EXCEPT !.pc = "retire", !.deferred = @ \ {e}]
        \/ run' = [r EXCEPT !.pc = "layout"]
    BY <1>24, Zenon DEF Retry
  <2>2. run' \in RunType
    BY <2>e, <2>f, <2>g
  <2> QED
    BY <1>24, <1>b, <2>1, <2>2, EntryType, BoundsAssumption DEF Retry, TypeOK,
       Working, durable, history, Event
<1>25. ASSUME LateDone PROVE TypeOK'
  <2>1. conf' \in Settings /\ disk' \in Settings
    BY <1>25, <1>a DEF LateDone
  <2>2. run' \in RunType
    <3> PICK matched \in SUBSET ((run.todo \cup run.deferred \cup {run.cur}) \ {None}) :
          run' = [run EXCEPT !.moved = @ \cup matched]
      BY <1>25 DEF LateDone
    <3>1. run.moved \cup matched \in SUBSET Entry
      BY <1>a, RunFields
    <3> QED
      BY <1>a, <3>1, RunUpdates
  <2> QED
    BY <1>25, <1>b, <2>1, <2>2, EntryType, BoundsAssumption DEF LateDone,
       TypeOK, Working, durable, history, Event
<1>26. ASSUME NEW a \in Apps, LateWindow(a) PROVE TypeOK'
  <2>1. conf' \in Settings /\ disk' \in Settings
    BY <1>26, <1>a, <1>b, SettingsUpdates, HoldsType, EntryType DEF LateWindow,
       Synced, NotSynced, Checkpoint, Working
  <2>2. run' \in RunType
    BY <1>26, <1>a, <1>b, LeaveType, NoRunType, EntryType, RunUpdates, RunFields
       DEF LateWindow, PCs, Working
  <2> QED
    BY <1>26, <1>b, <2>1, <2>2, EntryType, BoundsAssumption DEF LateWindow,
       TypeOK, Working, durable, history, Event
<1>27. ASSUME NEW c \in Contents, Forget(c) PROVE TypeOK'
  <2>1. conf' \in Settings /\ disk' \in Settings
    BY <1>27, <1>a, <1>b, SettingsUpdates, HoldsType, EntryType DEF Forget,
       Synced, NotSynced, Checkpoint, Working
  <2>2. run' \in RunType
    BY <1>27, <1>a, <1>b, LeaveType, NoRunType, EntryType, RunUpdates, RunFields
       DEF Forget, PCs, Working
  <2> QED
    BY <1>27, <1>b, <2>1, <2>2, EntryType, BoundsAssumption DEF Forget, TypeOK,
       Working, durable, history, Event
<1>28. ASSUME NEW f \in Files, NEW c \in Contents, Rewrite(f, c) PROVE TypeOK'
  <2>1. conf' \in Settings /\ disk' \in Settings
    BY <1>28, <1>a, <1>b, SettingsUpdates, HoldsType, EntryType DEF Rewrite,
       Synced, NotSynced, Checkpoint, Working
  <2>2. run' \in RunType
    BY <1>28, <1>a, <1>b, LeaveType, NoRunType, EntryType, RunUpdates, RunFields
       DEF Rewrite, PCs, Working
  <2> QED
    BY <1>28, <1>b, <2>1, <2>2, EntryType, BoundsAssumption DEF Rewrite, TypeOK,
       Working, durable, history, Event
<1>29. ASSUME Shutdown PROVE TypeOK'
  <2>1. conf' \in Settings /\ disk' \in Settings
    BY <1>29, <1>a, <1>b, SettingsUpdates, HoldsType, EntryType DEF Shutdown,
       Synced, NotSynced, Checkpoint, Working
  <2>2. run' \in RunType
    BY <1>29, <1>a, <1>b, LeaveType, NoRunType, EntryType, RunUpdates, RunFields
       DEF Shutdown, PCs, Working
  <2> QED
    BY <1>29, <1>b, <2>1, <2>2, EntryType, BoundsAssumption DEF Shutdown,
       TypeOK, Working, durable, history, Event
<1>30. ASSUME CancelShutdown PROVE TypeOK'
  <2>1. conf' \in Settings /\ disk' \in Settings
    BY <1>30, <1>a, <1>b, SettingsUpdates, HoldsType, EntryType DEF
       CancelShutdown, Synced, NotSynced, Checkpoint, Working
  <2>2. run' \in RunType
    BY <1>30, <1>a, <1>b, LeaveType, NoRunType, EntryType, RunUpdates, RunFields
       DEF CancelShutdown, PCs, Working
  <2> QED
    BY <1>30, <1>b, <2>1, <2>2, EntryType, BoundsAssumption DEF CancelShutdown,
       TypeOK, Working, durable, history, Event
<1>31. ASSUME Disable PROVE TypeOK'
  <2>1. conf' \in Settings /\ disk' \in Settings
    BY <1>31, <1>a, <1>b, SettingsUpdates, HoldsType, EntryType DEF Disable,
       Synced, NotSynced, Checkpoint, Working
  <2>2. run' \in RunType
    BY <1>31, <1>a, <1>b, LeaveType, NoRunType, EntryType, RunUpdates, RunFields
       DEF Disable, PCs, Working
  <2> QED
    BY <1>31, <1>b, <2>1, <2>2, EntryType, BoundsAssumption DEF Disable, TypeOK,
       Working, durable, history, Event
<1>32. ASSUME Flush PROVE TypeOK'
  <2>1. conf' \in Settings /\ disk' \in Settings
    BY <1>32, <1>a, <1>b, SettingsUpdates, HoldsType, EntryType DEF Flush,
       Synced, NotSynced, Checkpoint, Working
  <2>2. run' \in RunType
    BY <1>32, <1>a, <1>b, LeaveType, NoRunType, EntryType, RunUpdates, RunFields
       DEF Flush, PCs, Working
  <2> QED
    BY <1>32, <1>b, <2>1, <2>2, EntryType, BoundsAssumption DEF Flush, TypeOK,
       Working, durable, history, Event
<1>33. ASSUME Tick PROVE TypeOK'
  <2>1. conf' \in Settings /\ disk' \in Settings
    BY <1>33, <1>a, <1>b, SettingsUpdates, HoldsType, EntryType DEF Tick,
       Synced, NotSynced, Checkpoint, Working
  <2>2. run' \in RunType
    BY <1>33, <1>a, <1>b, LeaveType, NoRunType, EntryType, RunUpdates, RunFields
       DEF Tick, PCs, Working
  <2> QED
    BY <1>33, <1>b, <2>1, <2>2, EntryType, BoundsAssumption DEF Tick, TypeOK,
       Working, durable, history, Event
<1>34. ASSUME Crash PROVE TypeOK'
  <2>1. conf' \in Settings /\ disk' \in Settings
    BY <1>34, <1>a DEF Crash
  <2>2. run' \in RunType
    BY <1>34, NoRunType DEF Crash
  <2>3. suspect' \in [Apps -> 0..MaxClock]
    BY <1>34, <1>a DEF Crash, TypeOK
  <2>4. spent' \in [runs : 0..MaxRuns, events : 0..MaxEvents]
    BY <1>34, BoundsAssumption DEF Crash, TypeOK, Event
  <2> QED
    BY <1>34, <2>1, <2>2, <2>3, <2>4 DEF Crash, TypeOK, durable
<1> QED
  BY <1>1, <1>2, <1>3, <1>4, <1>5, <1>6, <1>7, <1>8, <1>9, <1>10, <1>11,
     <1>12, <1>13, <1>14, <1>15, <1>16, <1>17, <1>18, <1>19, <1>20, <1>21,
     <1>22, <1>23, <1>24, <1>25, <1>26, <1>27, <1>28, <1>29, <1>30, <1>31,
     <1>32, <1>33, <1>34 DEF Next, RunStep, Environment

(* After a checkpoint the marker names the application, now.               *)
LEMMA CheckpointEffect ==
  ASSUME NEW a \in Apps, Checkpoint(a)
  PROVE  conf' = Marked(conf, a) /\ disk' \in {disk, conf'}
BY DEF Checkpoint, Synced

(* What taking an entry from the queue does to the run.                    *)
LEMMA PickEffect ==
  ASSUME TypeOK, RunShape, NEW e \in Entry, Pick(e)
  PROVE  /\ run.pc = "next" /\ run.cur = None /\ e \in run.todo /\ ~run.again
         /\ run'.auto = run.auto /\ run'.again = run.again
         /\ run'.round = run.round /\ run'.deferred = run.deferred
         /\ run'.surplus = run.surplus /\ run'.previous = run.previous
         /\ run'.manualKeys = run.manualKeys
         /\ \/ /\ run'.pc = "next" /\ run'.cur = None
               /\ run'.todo = run.todo \ {e} /\ run'.registered = run.registered
               /\ UNCHANGED <<conf, disk>>
            \/ /\ run'.pc = (IF e.content \in Docs THEN "preserve" ELSE "turn")
               /\ run'.cur = e /\ run'.todo = run.todo
               /\ run'.registered = run.registered \cup {App(e)}
               /\ Checkpoint(App(e))
<1> DEFINE r == [run EXCEPT !.cur = e, !.group = App(e)]
<1>a. run \in RunType
  BY DEF TypeOK
<1>1. run.pc = "next" /\ ~run.again /\ run.cur = None /\ e \in run.todo
  BY <1>a, RunFields DEF Pick, RunShape, Working
<1>2. /\ r \in RunType /\ r.cur = e /\ r.todo = run.todo /\ r.round = run.round
      /\ r.deferred = run.deferred /\ r.surplus = run.surplus
      /\ r.auto = run.auto /\ r.again = run.again /\ r.previous = run.previous
      /\ r.manualKeys = run.manualKeys /\ r.registered = run.registered
  <2>1. r \in RunType
    BY <1>a, EntryType, RunUpdates
  <2> QED
    BY <1>a, <2>1 DEF RunType
<1>3. CASE App(e) \in run.timedOut
  <2>1. run' = Leave(r) /\ UNCHANGED <<conf, disk>>
    BY <1>3 DEF Pick
  <2> HIDE DEF r
  <2> QED
    BY <1>1, <1>2, <2>1, LeaveType
<1>4. CASE App(e) \notin run.timedOut
  <2>1. /\ run' = [r EXCEPT !.pc = IF e.content \in Docs THEN "preserve" ELSE "turn",
                            !.registered = @ \cup {App(e)}]
        /\ Checkpoint(App(e))
    BY <1>4 DEF Pick
  <2> HIDE DEF r
  <2> QED
    BY <1>1, <1>2, <2>1 DEF RunType
<1> QED
  BY <1>3, <1>4

(* What the retry of a deferred layout does to the run.                    *)
LEMMA RetryEffect ==
  ASSUME TypeOK, RunShape, NEW e \in Entry, Retry(e)
  PROVE  /\ run.pc = "reconcile" /\ run.cur = None /\ e \in run.round
         /\ run'.pc \in {"retire", "layout"} /\ run'.cur = e
         /\ run'.round = run.round \ {e} /\ run'.deferred \subseteq run.deferred
         /\ run'.auto = run.auto /\ run'.todo = run.todo
         /\ run'.surplus = run.surplus /\ run'.previous = run.previous
         /\ run'.manualKeys = run.manualKeys /\ run'.registered = run.registered
<1> DEFINE r == [run EXCEPT !.cur = e, !.round = @ \ {e}]
<1>a. run \in RunType
  BY DEF TypeOK
<1>1. run.pc = "reconcile" /\ run.cur = None /\ e \in run.round
  BY <1>a, RunFields DEF Retry, RunShape, Working
<1>2. /\ r \in RunType /\ r.cur = e /\ r.todo = run.todo
      /\ r.round = run.round \ {e} /\ r.deferred = run.deferred
      /\ r.surplus = run.surplus /\ r.auto = run.auto /\ r.previous = run.previous
      /\ r.manualKeys = run.manualKeys /\ r.registered = run.registered
  <2>1. run.round \ {e} \in SUBSET Entry
    BY <1>a, RunFields
  <2>2. r \in RunType
    BY <1>a, <2>1, RunUpdates
  <2> QED
    BY <1>a, <2>2 DEF RunType
<1>3. \/ run' = [r EXCEPT !.pc = "retire", !.deferred = @ \ {e}]
      \/ run' = [r EXCEPT !.pc = "layout"]
  BY Zenon DEF Retry
<1> HIDE DEF r
<1>4. CASE run' = [r EXCEPT !.pc = "retire", !.deferred = @ \ {e}]
  BY <1>1, <1>2, <1>4 DEF RunType
<1>5. CASE run' = [r EXCEPT !.pc = "layout"]
  BY <1>1, <1>2, <1>5 DEF RunType
<1> QED
  BY <1>3, <1>4, <1>5

(* A layout that matched no window is deferred.                            *)
LEMMA NotMovedEffect ==
  ASSUME TypeOK, RunShape, NotMoved
  PROVE  /\ run.pc = "moving" /\ run.cur \in Entry
         /\ run'.pc = (IF run.again THEN "reconcile" ELSE "next") /\ run'.cur = None
         /\ run'.todo = run.todo \ {run.cur} /\ run'.deferred = run.deferred \cup {run.cur}
         /\ run'.round = run.round /\ run'.surplus = run.surplus
         /\ run'.auto = run.auto /\ run'.again = run.again
         /\ run'.previous = run.previous /\ run'.manualKeys = run.manualKeys
         /\ run'.registered = run.registered
<1> DEFINE r == [run EXCEPT !.deferred = @ \cup {run.cur}]
<1>a. run \in RunType
  BY DEF TypeOK
<1>1. run.cur \in Entry /\ run.pc = "moving" /\ run' = Leave(r)
  BY <1>a, RunFields DEF NotMoved, RunShape, Working
<1>2. r \in RunType
  <2>1. run.deferred \cup {run.cur} \in SUBSET Entry
    BY <1>1, <1>a, RunFields
  <2> QED
    BY <1>a, <2>1, RunUpdates
<1>3. /\ r.deferred = run.deferred \cup {run.cur} /\ r.cur = run.cur
      /\ r.todo = run.todo /\ r.round = run.round /\ r.surplus = run.surplus
      /\ r.auto = run.auto /\ r.again = run.again /\ r.previous = run.previous
      /\ r.manualKeys = run.manualKeys /\ r.registered = run.registered
  BY <1>a DEF RunType
<1> HIDE DEF r
<1> QED
  BY <1>1, <1>2, <1>3, LeaveType

(* What reading and planning the records does to the run.                  *)
LEMMA LoadEffect ==
  ASSUME TypeOK, RunShape, Load
  PROVE  \E got \in SUBSET Stored :
           /\ got # Stored => PartialLoads
           /\ conf' = [conf EXCEPT !.ledger = @ \cap Keys(got)] /\ disk' = conf'
           /\ run.pc = "loading" /\ run'.pc \in {"next", "sparing"}
           /\ run'.todo \subseteq got /\ run'.surplus \subseteq got
           /\ run.cur = None /\ run'.cur = None /\ ~run'.again
           /\ run.deferred = {} /\ run'.deferred = {}
           /\ run.round = {} /\ run'.round = {}
           /\ run.registered = {} /\ run'.registered = {}
           /\ run'.auto = run.auto /\ run'.previous = run.previous
           /\ run.auto => /\ \A e \in run'.todo \cup run'.surplus : e.file # Archived
                          /\ run'.todo \cap run'.surplus = {}
                          /\ \A e \in run'.todo : /\ e.content \notin conf'.ledger
                                                  /\ conf.held[App(e)] = 0
<1>a. run \in RunType
  BY DEF TypeOK
<1>1. PICK got \in SUBSET Stored :
        /\ got # Stored => PartialLoads
        /\ Synced([conf EXCEPT !.ledger = @ \cap Keys(got)])
        /\ \E todo, surplus \in SUBSET got :
             /\ run.auto =>
                  LET candidates == {e \in got : e.file # Archived}
                  IN \E duplicates \in GiveWay(candidates) :
                       LET allowed == {e \in candidates \ duplicates :
                                         /\ e.content \notin conf'.ledger
                                         /\ conf.held[App(e)] = 0}
                       IN \E older \in GiveWay(allowed) :
                            /\ surplus = duplicates \cup older
                            /\ todo = allowed \ older
             /\ run' = [run EXCEPT !.pc = IF surplus = {} THEN "next" ELSE "sparing",
                                   !.todo = todo, !.surplus = surplus]
  BY DEF Load
<1>2. PICK todo, surplus \in SUBSET got :
        /\ run.auto =>
             LET candidates == {e \in got : e.file # Archived}
             IN \E duplicates \in GiveWay(candidates) :
                  LET allowed == {e \in candidates \ duplicates :
                                    /\ e.content \notin conf'.ledger
                                    /\ conf.held[App(e)] = 0}
                  IN \E older \in GiveWay(allowed) :
                       /\ surplus = duplicates \cup older
                       /\ todo = allowed \ older
        /\ run' = [run EXCEPT !.pc = IF surplus = {} THEN "next" ELSE "sparing",
                              !.todo = todo, !.surplus = surplus]
  BY <1>1
<1>3. ASSUME run.auto
      PROVE  /\ \A e \in todo \cup surplus : e.file # Archived
             /\ todo \cap surplus = {}
             /\ \A e \in todo : e.content \notin conf'.ledger /\ conf.held[App(e)] = 0
  BY <1>2, <1>3 DEF GiveWay
<1>4. /\ run'.todo = todo /\ run'.surplus = surplus /\ run'.auto = run.auto
      /\ run'.pc \in {"next", "sparing"} /\ run'.cur = run.cur
      /\ run'.again = run.again /\ run'.deferred = run.deferred
      /\ run'.round = run.round /\ run'.registered = run.registered
      /\ run'.previous = run.previous
  BY <1>a, <1>2 DEF RunType
<1>5. /\ run.pc = "loading" /\ run.cur = None /\ run.deferred = {} /\ run.round = {}
      /\ run.registered = {} /\ ~run.again
  BY <1>a, RunFields DEF Load, RunShape, Queued, Working
<1>6. todo \subseteq got /\ surplus \subseteq got
  BY <1>2
<1> QED
  BY <1>1, <1>3, <1>4, <1>5, <1>6 DEF Synced

(* Each action leaves the fields of the run with the meaning they have at  *)
(* its point of the queue.                                                 *)
LEMMA ShapeStep == TypeOK /\ RunShape /\ Next => RunShape'
<1> SUFFICES ASSUME TypeOK, RunShape, Next PROVE RunShape' OBVIOUS
<1>a. run \in RunType
  BY DEF TypeOK
<1>1. ASSUME NEW auto \in BOOLEAN, Begin(auto) PROVE RunShape'
  BY <1>1, <1>a, RunFields, LeaveType, EntryType DEF Begin, RunShape, Queued,
     Working, NoRun
<1>2. ASSUME BeginRefused PROVE RunShape'
  BY <1>2 DEF BeginRefused, RunShape, Queued
<1>3. ASSUME Load PROVE RunShape'
  BY <1>3, LoadEffect DEF RunShape, Queued, Working
<1>4. ASSUME RunFails PROVE RunShape'
  BY <1>4, <1>a, RunFields, LeaveType, EntryType DEF RunFails, RunShape, Queued,
     Working, NoRun
<1>5. ASSUME Preserve PROVE RunShape'
  BY <1>5, <1>a, RunFields, LeaveType, EntryType DEF Preserve, RunShape, Queued,
     Working, NoRun
<1>6. ASSUME Ambiguous PROVE RunShape'
  BY <1>6, <1>a, RunFields, LeaveType, EntryType DEF Ambiguous, RunShape, Queued,
     Working, NoRun
<1>7. ASSUME NotLaunched PROVE RunShape'
  BY <1>7, <1>a, RunFields, LeaveType, EntryType DEF NotLaunched, RunShape,
     Queued, Working, NoRun
<1>8. ASSUME Launch PROVE RunShape'
  BY <1>8, <1>a, RunFields, LeaveType, EntryType DEF Launch, RunShape, Queued,
     Working, NoRun
<1>9. ASSUME Reuse PROVE RunShape'
  BY <1>9, <1>a, RunFields, LeaveType, EntryType DEF Reuse, RunShape, Queued,
     Working, NoRun
<1>10. ASSUME Launched PROVE RunShape'
  BY <1>10, <1>a, RunFields, LeaveType, EntryType DEF Launched, RunShape, Queued,
     Working, NoRun
<1>11. ASSUME LaunchFails PROVE RunShape'
  BY <1>11, <1>a, RunFields, LeaveType, EntryType DEF LaunchFails, RunShape,
     Queued, Working, NoRun
<1>12. ASSUME Ready PROVE RunShape'
  BY <1>12, <1>a, RunFields, LeaveType, EntryType DEF Ready, RunShape, Queued,
     Working, NoRun
<1>13. ASSUME TimesOut PROVE RunShape'
  BY <1>13, <1>a, RunFields, LeaveType, EntryType DEF TimesOut, RunShape, Queued,
     Working, NoRun
<1>14. ASSUME Move PROVE RunShape'
  BY <1>14, <1>a, RunFields, LeaveType, EntryType DEF Move, RunShape, Queued,
     Working, NoRun
<1>15. ASSUME Moved PROVE RunShape'
  BY <1>15, <1>a, RunFields, LeaveType, EntryType DEF Moved, RunShape, Queued,
     Working, NoRun
<1>16. ASSUME NotMoved PROVE RunShape'
  BY <1>16, <1>a, NotMovedEffect, RunFields, EntryType DEF RunShape, Queued, Working
<1>17. ASSUME RetireRead PROVE RunShape'
  BY <1>17, <1>a, RunFields, LeaveType, EntryType DEF RetireRead, MayRetire,
     RunShape, Queued, Working
<1>18. ASSUME RetireDelete PROVE RunShape'
  BY <1>18, <1>a, RunFields, LeaveType, EntryType DEF RetireDelete, RunShape,
     Queued, Working, NoRun
<1>19. ASSUME Reconcile PROVE RunShape'
  BY <1>19, <1>a, RunFields, LeaveType, EntryType DEF Reconcile, RunShape, Queued,
     Working, NoRun
<1>20. ASSUME Finish PROVE RunShape'
  BY <1>20, <1>a, RunFields, LeaveType, EntryType DEF Finish, RunShape, Queued,
     Working, NoRun
<1>21. ASSUME Interrupt PROVE RunShape'
  BY <1>21, <1>a, RunFields, LeaveType, EntryType DEF Interrupt, RunShape, Queued,
     Working, NoRun
<1>22. ASSUME NEW e \in Entry, Spare(e) PROVE RunShape'
  <2>1. /\ run.pc = "sparing" /\ run'.surplus = run.surplus \ {e}
        /\ run'.pc \in {"next", "sparing"} /\ run'.auto = run.auto
        /\ run'.todo = run.todo /\ run'.cur = run.cur /\ run'.again = run.again
        /\ run'.deferred = run.deferred /\ run'.round = run.round
        /\ ~run.again /\ run.cur = None
    BY <1>22, <1>a, RunFields DEF Spare, RunType, RunShape, Working
  <2> QED
    BY <2>1 DEF RunShape, Queued, Working
<1>23. ASSUME NEW e \in Entry, Pick(e) PROVE RunShape'
  BY <1>23, <1>a, PickEffect, EntryType DEF RunShape, Queued, Working
<1>24. ASSUME NEW e \in Entry, Retry(e) PROVE RunShape'
  BY <1>24, <1>a, RetryEffect, EntryType DEF RunShape, Queued, Working
<1>25. ASSUME LateDone PROVE RunShape'
  BY <1>25, <1>a, RunFields, LeaveType, EntryType DEF LateDone, RunShape, Queued,
     Working, NoRun
<1>26. ASSUME NEW a \in Apps, LateWindow(a) PROVE RunShape'
  BY <1>26 DEF LateWindow, RunShape, Queued
<1>27. ASSUME NEW c \in Contents, Forget(c) PROVE RunShape'
  BY <1>27 DEF Forget, RunShape, Queued
<1>28. ASSUME NEW f \in Files, NEW c \in Contents, Rewrite(f, c) PROVE RunShape'
  BY <1>28 DEF Rewrite, RunShape, Queued
<1>29. ASSUME Shutdown PROVE RunShape'
  BY <1>29 DEF Shutdown, RunShape, Queued
<1>30. ASSUME CancelShutdown PROVE RunShape'
  BY <1>30 DEF CancelShutdown, RunShape, Queued
<1>31. ASSUME Disable PROVE RunShape'
  BY <1>31, <1>a, RunFields, LeaveType, EntryType DEF Disable, RunShape, Queued,
     Working, NoRun
<1>32. ASSUME Flush PROVE RunShape'
  BY <1>32 DEF Flush, RunShape, Queued
<1>33. ASSUME Tick PROVE RunShape'
  BY <1>33 DEF Tick, RunShape, Queued
<1>34. ASSUME Crash PROVE RunShape'
  BY <1>34, <1>a, RunFields, LeaveType, EntryType DEF Crash, RunShape, Queued,
     Working, NoRun
<1> QED
  BY <1>1, <1>2, <1>3, <1>4, <1>5, <1>6, <1>7, <1>8, <1>9, <1>10, <1>11,
     <1>12, <1>13, <1>14, <1>15, <1>16, <1>17, <1>18, <1>19, <1>20, <1>21,
     <1>22, <1>23, <1>24, <1>25, <1>26, <1>27, <1>28, <1>29, <1>30, <1>31,
     <1>32, <1>33, <1>34 DEF Next, RunStep, Environment

(* Nothing is barred before it is archived.                                *)
LEMMA ArchivingStep == TypeOK /\ RunShape /\ Archiving /\ Next => Archiving'
<1> SUFFICES ASSUME TypeOK, RunShape, Archiving, Next PROVE Archiving' OBVIOUS
<1>a. run \in RunType /\ conf \in Settings /\ disk \in Settings
  BY DEF TypeOK
<1>b. \A a : Marked(conf, a) \in Settings => Marked(conf, a).ledger = conf.ledger
  BY <1>a, SettingsFields
<1>1. ASSUME NEW auto \in BOOLEAN, Begin(auto) PROVE Archiving'
  <2>1. conf'.ledger = conf.ledger /\ disk'.ledger \in {disk.ledger, conf.ledger}
    <3> DEFINE held == [conf EXCEPT !.held = Holds]
    <3>1. held \in Settings /\ held.ledger = conf.ledger
      BY <1>a, HoldsType DEF Settings
    <3>2. /\ conf' = [held EXCEPT !.active = None, !.attempt = 0]
          /\ disk' \in {disk, held}
      BY <1>1 DEF Begin
    <3> HIDE DEF held
    <3> QED
      BY <3>1, <3>2, SettingsFields
  <2>2. run'.previous = {} /\ run'.pc = "loading" /\ UNCHANGED <<archive, barred>>
    BY <1>1 DEF Begin, NoRun, durable, history
  <2> QED
    BY <2>1, <2>2 DEF Archiving
<1>2. ASSUME BeginRefused PROVE Archiving'
  BY <1>2, <1>a, RunFields, LeaveType, SettingsFields, EntryType DEF BeginRefused,
     Archiving, Synced, NotSynced, durable, history, Checkpoint, RunShape,
     Working, NoRun
<1>3. ASSUME Load PROVE Archiving'
  BY <1>3, <1>a, RunFields, LeaveType, SettingsFields, EntryType DEF Load,
     Archiving, Synced, NotSynced, durable, history, Checkpoint, RunShape,
     Working, NoRun
<1>4. ASSUME RunFails PROVE Archiving'
  BY <1>4, <1>a, RunFields, LeaveType, SettingsFields, EntryType DEF RunFails,
     Archiving, Synced, NotSynced, durable, history, Checkpoint, RunShape,
     Working, NoRun
<1>5. ASSUME Preserve PROVE Archiving'
  BY <1>5, <1>a, RunFields, LeaveType, SettingsFields, EntryType DEF Preserve,
     Archiving, Synced, NotSynced, durable, history, Checkpoint, RunShape,
     Working, NoRun
<1>6. ASSUME Ambiguous PROVE Archiving'
  BY <1>6, <1>a, RunFields, LeaveType, SettingsFields, EntryType DEF Ambiguous,
     Archiving, Synced, NotSynced, durable, history, Checkpoint, RunShape,
     Working, NoRun
<1>7. ASSUME NotLaunched PROVE Archiving'
  BY <1>7, <1>a, RunFields, LeaveType, SettingsFields, EntryType DEF
     NotLaunched, Archiving, Synced, NotSynced, durable, history, Checkpoint,
     RunShape, Working, NoRun
<1>8. ASSUME Launch PROVE Archiving'
  <2>1. run.pc = "turn" /\ run.cur \in Entry /\ App(run.cur) \in Apps
    BY <1>8, <1>a, RunFields, EntryType DEF Launch, RunShape, Working
  <2>2. run'.previous = conf.ledger /\ run'.pc = "native" /\ run'.cur = run.cur
        /\ UNCHANGED <<archive, barred>>
    BY <1>8, <1>a DEF Launch, durable, history, RunType
  <2>3. /\ conf'.ledger \subseteq conf.ledger \cup ({run.cur.content} \cap Docs)
        /\ disk' \in {disk, conf'}
    <3>1. Marked(conf, App(run.cur)) \in Settings
      BY <1>a, <2>1, SettingsUpdates DEF TypeOK
    <3>2. CASE run.cur.content \in Docs
      BY <1>8, <1>a, <1>b, <3>1, <3>2, SettingsFields DEF Launch, Synced
    <3>3. CASE run.cur.content \notin Docs
      BY <1>8, <1>a, <1>b, <2>1, <3>1, <3>3, CheckpointEffect, SettingsFields DEF Launch
    <3> QED
      BY <3>2, <3>3
  <2> QED
    BY <2>1, <2>2, <2>3 DEF Archiving
<1>9. ASSUME Reuse PROVE Archiving'
  <2>1. run.pc = "turn" /\ run.cur \in Entry /\ App(run.cur) \in Apps
    BY <1>9, <1>a, RunFields, EntryType DEF Reuse, RunShape, Working
  <2>2. run'.previous = run.previous /\ run'.pc = "ready" /\ UNCHANGED archive
        /\ barred' = barred \cup ({run.cur.content} \cap Docs)
    BY <1>9, <1>a DEF Reuse, durable, RunType
  <2>3. /\ conf'.ledger \subseteq conf.ledger \cup ({run.cur.content} \cap Docs)
        /\ disk' \in {disk, conf'}
    <3>1. Marked(conf, App(run.cur)) \in Settings
      BY <1>a, <2>1, SettingsUpdates DEF TypeOK
    <3>2. CASE run.cur.content \in Docs
      BY <1>9, <1>a, <1>b, <3>1, <3>2, SettingsFields DEF Reuse, Synced
    <3>3. CASE run.cur.content \notin Docs
      BY <1>9, <1>a, <1>b, <2>1, <3>1, <3>3, CheckpointEffect, SettingsFields DEF Reuse
    <3> QED
      BY <3>2, <3>3
  <2> QED
    BY <2>1, <2>2, <2>3 DEF Archiving
<1>10. ASSUME Launched PROVE Archiving'
  BY <1>10, <1>a, RunFields, LeaveType, SettingsFields, EntryType DEF Launched,
     Archiving, Synced, NotSynced, durable, history, Checkpoint, RunShape,
     Working, NoRun
<1>11. ASSUME LaunchFails PROVE Archiving'
  <2>1. /\ run'.previous = {} /\ run'.pc \in {"next", "reconcile"}
        /\ UNCHANGED <<archive, barred>>
    BY <1>11, <1>a, LeaveType DEF LaunchFails, durable, history, RunType
  <2>2. /\ conf'.ledger \in {conf.ledger, run.previous}
        /\ disk'.ledger \in {disk.ledger, run.previous}
    <3>1. CASE run.cur.content \in Docs
      <4>1. conf' = [conf EXCEPT !.ledger = run.previous] /\ disk' = conf'
        BY <1>11, <3>1 DEF LaunchFails, Synced
      <4> QED
        BY <1>a, <4>1 DEF Settings
    <3>2. CASE run.cur.content \notin Docs
      BY <1>11, <3>2 DEF LaunchFails
    <3> QED
      BY <3>1, <3>2
  <2> QED
    BY <2>1, <2>2 DEF Archiving
<1>12. ASSUME Ready PROVE Archiving'
  BY <1>12, <1>a, RunFields, LeaveType, SettingsFields, EntryType DEF Ready,
     Archiving, Synced, NotSynced, durable, history, Checkpoint, RunShape,
     Working, NoRun
<1>13. ASSUME TimesOut PROVE Archiving'
  BY <1>13, <1>a, RunFields, LeaveType, SettingsFields, EntryType DEF TimesOut,
     Archiving, Synced, NotSynced, durable, history, Checkpoint, RunShape,
     Working, NoRun
<1>14. ASSUME Move PROVE Archiving'
  BY <1>14, <1>a, RunFields, LeaveType, SettingsFields, EntryType DEF Move,
     Archiving, Synced, NotSynced, durable, history, Checkpoint, RunShape,
     Working, NoRun
<1>15. ASSUME Moved PROVE Archiving'
  BY <1>15, <1>a, RunFields, LeaveType, SettingsFields, EntryType DEF Moved,
     Archiving, Synced, NotSynced, durable, history, Checkpoint, RunShape,
     Working, NoRun
<1>16. ASSUME NotMoved PROVE Archiving'
  BY <1>16, NotMovedEffect DEF NotMoved, Archiving, durable, history
<1>17. ASSUME RetireRead PROVE Archiving'
  BY <1>17, <1>a, RunFields, LeaveType, SettingsFields, EntryType DEF RetireRead,
     Archiving, Synced, NotSynced, durable, history, Checkpoint, RunShape,
     Working, NoRun
<1>18. ASSUME RetireDelete PROVE Archiving'
  BY <1>18, <1>a, RunFields, LeaveType, SettingsFields, EntryType DEF
     RetireDelete, Archiving, Synced, NotSynced, durable, history, Checkpoint,
     RunShape, Working, NoRun
<1>19. ASSUME Reconcile PROVE Archiving'
  BY <1>19, <1>a, RunFields, LeaveType, SettingsFields, EntryType DEF Reconcile,
     Archiving, Synced, NotSynced, durable, history, Checkpoint, RunShape,
     Working, NoRun
<1>20. ASSUME Finish PROVE Archiving'
  BY <1>20, <1>a, RunFields, LeaveType, SettingsFields, EntryType DEF Finish,
     Archiving, Synced, NotSynced, durable, history, Checkpoint, RunShape,
     Working, NoRun
<1>21. ASSUME Interrupt PROVE Archiving'
  BY <1>21, <1>a, RunFields, LeaveType, SettingsFields, EntryType DEF Interrupt,
     Archiving, Synced, NotSynced, durable, history, Checkpoint, RunShape,
     Working, NoRun
<1>22. ASSUME NEW e \in Entry, Spare(e) PROVE Archiving'
  BY <1>22, <1>a, RunFields, LeaveType, SettingsFields, EntryType DEF Spare,
     Archiving, Synced, NotSynced, durable, history, Checkpoint, RunShape,
     Working, NoRun
<1>23. ASSUME NEW e \in Entry, Pick(e) PROVE Archiving'
  <2>1. conf'.ledger = conf.ledger /\ disk'.ledger \in {disk.ledger, conf.ledger}
    BY <1>23, <1>a, PickEffect, CheckpointEffect, SettingsFields, EntryType
  <2>2. e.content \notin Docs \/ run'.pc # "turn"
    BY <1>23, PickEffect
  <2>3. /\ run'.previous = run.previous /\ run'.pc # "native"
        /\ run'.cur.content \in Docs => run'.pc # "turn"
    BY <1>23, PickEffect
  <2>4. UNCHANGED <<archive, barred>>
    BY <1>23 DEF Pick, durable, history
  <2> QED
    BY <2>1, <2>3, <2>4 DEF Archiving
<1>24. ASSUME NEW e \in Entry, Retry(e) PROVE Archiving'
  <2>1. conf'.ledger = conf.ledger /\ disk'.ledger \in {disk.ledger, conf.ledger}
    <3>1. /\ App(e) \in Apps /\ Marked(conf, App(e)) \in Settings
          /\ Marked(conf, App(e)).ledger = conf.ledger
      BY <1>a, <1>b, EntryType, SettingsUpdates DEF TypeOK
    <3>2. [Marked(conf, App(e)) EXCEPT !.held[App(e)] = 0].ledger = conf.ledger
      BY <3>1, SettingsFields
    <3> QED
      BY <1>24, <3>1, <3>2, CheckpointEffect DEF Retry
  <2>2. UNCHANGED <<archive, barred>>
    BY <1>24 DEF Retry, durable
  <2> QED
    BY <1>24, <2>1, <2>2, RetryEffect DEF Archiving
<1>25. ASSUME LateDone PROVE Archiving'
  BY <1>25, <1>a, RunFields, LeaveType, SettingsFields, EntryType DEF LateDone,
     Archiving, Synced, NotSynced, durable, history, Checkpoint, RunShape,
     Working, NoRun
<1>26. ASSUME NEW a \in Apps, LateWindow(a) PROVE Archiving'
  BY <1>26, <1>a, RunFields, LeaveType, SettingsFields, EntryType DEF LateWindow,
     Archiving, Synced, NotSynced, durable, history, Checkpoint, RunShape,
     Working, NoRun
<1>27. ASSUME NEW c \in Contents, Forget(c) PROVE Archiving'
  BY <1>27, <1>a, RunFields, LeaveType, SettingsFields, EntryType DEF Forget,
     Archiving, Synced, NotSynced, durable, history, Checkpoint, RunShape,
     Working, NoRun
<1>28. ASSUME NEW f \in Files, NEW c \in Contents, Rewrite(f, c) PROVE Archiving'
  BY <1>28, <1>a, RunFields, LeaveType, SettingsFields, EntryType DEF Rewrite,
     Archiving, Synced, NotSynced, durable, history, Checkpoint, RunShape,
     Working, NoRun
<1>29. ASSUME Shutdown PROVE Archiving'
  BY <1>29, <1>a, RunFields, LeaveType, SettingsFields, EntryType DEF Shutdown,
     Archiving, Synced, NotSynced, durable, history, Checkpoint, RunShape,
     Working, NoRun
<1>30. ASSUME CancelShutdown PROVE Archiving'
  BY <1>30, <1>a, RunFields, LeaveType, SettingsFields, EntryType DEF
     CancelShutdown, Archiving, Synced, NotSynced, durable, history, Checkpoint,
     RunShape, Working, NoRun
<1>31. ASSUME Disable PROVE Archiving'
  BY <1>31, <1>a, RunFields, LeaveType, SettingsFields, EntryType DEF Disable,
     Archiving, Synced, NotSynced, durable, history, Checkpoint, RunShape,
     Working, NoRun
<1>32. ASSUME Flush PROVE Archiving'
  BY <1>32, <1>a, RunFields, LeaveType, SettingsFields, EntryType DEF Flush,
     Archiving, Synced, NotSynced, durable, history, Checkpoint, RunShape,
     Working, NoRun
<1>33. ASSUME Tick PROVE Archiving'
  BY <1>33, <1>a, RunFields, LeaveType, SettingsFields, EntryType DEF Tick,
     Archiving, Synced, NotSynced, durable, history, Checkpoint, RunShape,
     Working, NoRun
<1>34. ASSUME Crash PROVE Archiving'
  BY <1>34, <1>a, RunFields, LeaveType, SettingsFields, EntryType DEF Crash,
     Archiving, Synced, NotSynced, durable, history, Checkpoint, RunShape,
     Working, NoRun
<1> QED
  BY <1>1, <1>2, <1>3, <1>4, <1>5, <1>6, <1>7, <1>8, <1>9, <1>10, <1>11,
     <1>12, <1>13, <1>14, <1>15, <1>16, <1>17, <1>18, <1>19, <1>20, <1>21,
     <1>22, <1>23, <1>24, <1>25, <1>26, <1>27, <1>28, <1>29, <1>30, <1>31,
     <1>32, <1>33, <1>34 DEF Next, RunStep, Environment

(* A step keeps a marker on disk if it clears it, syncs it or leaves it.   *)
LEMMA MarkerKept ==
  ASSUME MarkerOnDisk,
         \/ disk' = conf'
         \/ conf'.active = None
         \/ disk' = disk /\ conf'.active = conf.active /\ conf'.attempt = conf.attempt
  PROVE  MarkerOnDisk'
BY DEF MarkerOnDisk

LEMMA CheckpointKeepsMarker ==
  ASSUME MarkerOnDisk, NEW a \in Apps, Checkpoint(a)
  PROVE  MarkerOnDisk'
BY MarkerKept DEF Checkpoint, Synced

(* Between the sync and the end of a native launch no setting changes.     *)
LEMMA DurabilityStep == TypeOK /\ RunShape /\ Durability /\ Next => Durability'
<1> SUFFICES ASSUME TypeOK, RunShape, Durability, Next PROVE Durability' OBVIOUS
<1>a. run \in RunType /\ conf \in Settings /\ disk \in Settings /\ clock \in Nat /\ clock > 0
  BY BoundsAssumption DEF TypeOK
<1>1. ASSUME NEW auto \in BOOLEAN, Begin(auto) PROVE Durability'
  <2>1. MarkerOnDisk'
    BY <1>1, <1>a, SettingsUpdates, SettingsFields, HoldsType, MarkerKept
       DEF Begin, TypeOK, Durability
  <2>2. run'.pc # "native"
    BY <1>1, <1>a, LeaveType DEF Begin, Durability, NoRun, RunType
  <2> QED
    BY <2>1, <2>2 DEF Durability
<1>2. ASSUME BeginRefused PROVE Durability'
  <2>1. MarkerOnDisk'
    BY <1>2, <1>a, SettingsFields, MarkerKept DEF BeginRefused, NotSynced, Durability
  <2>2. run'.pc # "native"
    BY <1>2, <1>a DEF BeginRefused, Durability, durable, RunType
  <2> QED
    BY <2>1, <2>2 DEF Durability
<1>3. ASSUME Load PROVE Durability'
  <2>1. MarkerOnDisk'
    BY <1>3, LoadEffect, MarkerKept DEF Durability
  <2>2. run'.pc # "native"
    BY <1>3, LoadEffect
  <2> QED
    BY <2>1, <2>2 DEF Durability
<1>4. ASSUME RunFails PROVE Durability'
  BY <1>4, <1>a, LeaveType DEF RunFails, Durability, NoRun, RunType, MarkerOnDisk
<1>5. ASSUME Preserve PROVE Durability'
  BY <1>5, <1>a, LeaveType DEF Preserve, Durability, NoRun, RunType, MarkerOnDisk
<1>6. ASSUME Ambiguous PROVE Durability'
  <2>1. MarkerOnDisk'
    BY <1>6, MarkerKept DEF Ambiguous, Synced, Durability
  <2>2. run'.pc # "native"
    BY <1>6, <1>a, LeaveType DEF Ambiguous, Durability, NoRun, RunType
  <2> QED
    BY <2>1, <2>2 DEF Durability
<1>7. ASSUME NotLaunched PROVE Durability'
  BY <1>7, <1>a, LeaveType DEF NotLaunched, Durability, NoRun, RunType, MarkerOnDisk
<1>8. ASSUME Launch PROVE Durability'
  <2>1. run.pc = "turn" /\ run.cur \in Entry /\ App(run.cur) \in Apps
    BY <1>8, <1>a, RunFields, EntryType DEF Launch, RunShape, Working
  <2>2. run'.cur = run.cur
    BY <1>8, <1>a DEF Launch, RunType
  <2> DEFINE marked == Marked(conf, App(run.cur))
  <2>3. marked \in Settings /\ marked.active = App(run.cur) /\ marked.attempt = clock
    <3>1. marked \in Settings
      BY <1>a, <2>1, SettingsUpdates DEF TypeOK
    <3>2. Marked(conf, App(run.cur)).active = App(run.cur)
      BY <1>a DEF Settings, Marked
    <3>3. Marked(conf, App(run.cur)).attempt = clock
      BY <1>a DEF Settings, Marked
    <3> QED
      BY <3>1, <3>2, <3>3
  <2>4. IF run.cur.content \in Docs THEN conf' = Barring(marked, run.cur.content) /\ disk' = conf'
                                    ELSE conf' = marked
    BY <1>8, <2>1, CheckpointEffect DEF Launch, Synced
  <2>6. MarkerOnDisk'
    BY <1>8, <2>1, CheckpointKeepsMarker, MarkerKept DEF Launch, Synced, Durability
  <2> HIDE DEF marked
  <2>5. /\ conf'.active = App(run.cur) /\ conf'.attempt = clock
        /\ run.cur.content \in Docs => run.cur.content \in conf'.ledger \cap disk'.ledger
    <3>1. CASE run.cur.content \in Docs
      BY <2>3, <2>4, <3>1, SettingsFields
    <3>2. CASE run.cur.content \notin Docs
      BY <2>3, <2>4, <3>2
    <3> QED
      BY <3>1, <3>2
  <2> QED
    BY <1>a, <2>2, <2>5, <2>6 DEF Durability, App
<1>9. ASSUME Reuse PROVE Durability'
  <2>a. App(run.cur) \in Apps
    BY <1>9, <1>a, RunFields, EntryType DEF Reuse, RunShape, Working
  <2>1. MarkerOnDisk'
    BY <1>9, <2>a, CheckpointKeepsMarker, MarkerKept DEF Reuse, Synced, Durability
  <2>2. run'.pc # "native"
    BY <1>9, <1>a, LeaveType DEF Reuse, Durability, NoRun, RunType
  <2> QED
    BY <2>1, <2>2 DEF Durability
<1>10. ASSUME Launched PROVE Durability'
  BY <1>10, <1>a, LeaveType DEF Launched, Durability, NoRun, RunType, MarkerOnDisk
<1>11. ASSUME LaunchFails PROVE Durability'
  <2>1. MarkerOnDisk'
    BY <1>11, MarkerKept DEF LaunchFails, Synced, Durability
  <2>2. run'.pc # "native"
    BY <1>11, <1>a, LeaveType DEF LaunchFails, Durability, NoRun, RunType
  <2> QED
    BY <2>1, <2>2 DEF Durability
<1>12. ASSUME Ready PROVE Durability'
  <2>a. App(run.cur) \in Apps
    BY <1>12, <1>a, RunFields, EntryType DEF Ready, RunShape, Working
  <2>1. MarkerOnDisk'
    BY <1>12, <1>a, <2>a, SettingsFields, MarkerKept DEF Ready, Durability
  <2>2. run'.pc # "native"
    BY <1>12, <1>a, LeaveType DEF Ready, Durability, NoRun, RunType
  <2> QED
    BY <2>1, <2>2 DEF Durability
<1>13. ASSUME TimesOut PROVE Durability'
  BY <1>13, <1>a, LeaveType DEF TimesOut, Durability, NoRun, RunType, MarkerOnDisk
<1>14. ASSUME Move PROVE Durability'
  <2>a. App(run.cur) \in Apps
    BY <1>14, <1>a, RunFields, EntryType DEF Move, RunShape, Working
  <2>1. MarkerOnDisk'
    BY <1>14, <2>a, CheckpointKeepsMarker DEF Move, Durability
  <2>2. run'.pc # "native"
    BY <1>14, <1>a, LeaveType DEF Move, Durability, NoRun, RunType
  <2> QED
    BY <2>1, <2>2 DEF Durability
<1>15. ASSUME Moved PROVE Durability'
  <2>a. App(run.cur) \in Apps
    BY <1>15, <1>a, RunFields, EntryType DEF Moved, RunShape, Working
  <2>1. MarkerOnDisk'
    BY <1>15, <1>a, <2>a, SettingsFields, MarkerKept DEF Moved, NotSynced, Durability
  <2>2. run'.pc # "native"
    BY <1>15, <1>a, LeaveType DEF Moved, Durability, NoRun, RunType
  <2> QED
    BY <2>1, <2>2 DEF Durability
<1>16. ASSUME NotMoved PROVE Durability'
  <2>1. MarkerOnDisk'
    BY <1>16, MarkerKept DEF NotMoved, Durability
  <2>2. run'.pc # "native"
    BY <1>16, NotMovedEffect
  <2> QED
    BY <2>1, <2>2 DEF Durability
<1>17. ASSUME RetireRead PROVE Durability'
  BY <1>17, <1>a, LeaveType DEF RetireRead, Durability, NoRun, RunType, MarkerOnDisk
<1>18. ASSUME RetireDelete PROVE Durability'
  BY <1>18, <1>a, LeaveType DEF RetireDelete, Durability, NoRun, RunType, MarkerOnDisk
<1>19. ASSUME Reconcile PROVE Durability'
  BY <1>19, <1>a, LeaveType DEF Reconcile, Durability, NoRun, RunType, MarkerOnDisk
<1>20. ASSUME Finish PROVE Durability'
  <2>1. MarkerOnDisk'
    BY <1>20, <1>a, SettingsFields, MarkerKept DEF Finish, NotSynced, Durability
  <2>2. run'.pc # "native"
    BY <1>20, <1>a, LeaveType DEF Finish, Durability, NoRun, RunType
  <2> QED
    BY <2>1, <2>2 DEF Durability
<1>21. ASSUME Interrupt PROVE Durability'
  BY <1>21, <1>a, LeaveType DEF Interrupt, Durability, NoRun, RunType, MarkerOnDisk
<1>22. ASSUME NEW e \in Entry, Spare(e) PROVE Durability'
  <2>1. MarkerOnDisk'
    BY <1>22, MarkerKept DEF Spare, Synced, Durability
  <2>2. run'.pc # "native"
    BY <1>22, <1>a, LeaveType DEF Spare, Durability, NoRun, RunType
  <2> QED
    BY <2>1, <2>2 DEF Durability
<1>23. ASSUME NEW e \in Entry, Pick(e) PROVE Durability'
  <2>1. MarkerOnDisk'
    BY <1>23, EntryType, CheckpointKeepsMarker, MarkerKept DEF Pick, Durability
  <2>2. run'.pc # "native"
    BY <1>23, PickEffect
  <2> QED
    BY <2>1, <2>2 DEF Durability
<1>24. ASSUME NEW e \in Entry, Retry(e) PROVE Durability'
  <2>1. MarkerOnDisk'
    <3>1. App(e) \in Apps /\ Marked(conf, App(e)) \in Settings
      BY <1>a, EntryType, SettingsUpdates DEF TypeOK
    <3>2. CASE e \in run.moved
      <4>1. /\ conf' = [Marked(conf, App(e)) EXCEPT !.held[App(e)] = 0]
            /\ disk' = IF conf = Marked(conf, App(e)) THEN disk ELSE Marked(conf, App(e))
        BY <1>24, <3>2 DEF Retry
      <4>2. /\ conf'.active = Marked(conf, App(e)).active
            /\ conf'.attempt = Marked(conf, App(e)).attempt
        BY <3>1, <4>1, SettingsFields
      <4> QED
        BY <4>1, <4>2 DEF MarkerOnDisk, Durability
    <3>3. CASE e \notin run.moved
      BY <1>24, <3>1, <3>3, CheckpointKeepsMarker DEF Retry, Durability
    <3> QED
      BY <3>2, <3>3
  <2>2. run'.pc # "native"
    BY <1>24, RetryEffect
  <2> QED
    BY <2>1, <2>2 DEF Durability
<1>25. ASSUME LateDone PROVE Durability'
  BY <1>25, <1>a DEF LateDone, Durability, durable, RunType, MarkerOnDisk
<1>26. ASSUME NEW a \in Apps, LateWindow(a) PROVE Durability'
  <2>1. MarkerOnDisk'
    BY <1>26, CheckpointKeepsMarker DEF LateWindow, Durability
  <2>2. run'.pc # "native"
    BY <1>26, <1>a DEF LateWindow
  <2> QED
    BY <2>1, <2>2 DEF Durability
<1>27. ASSUME NEW c \in Contents, Forget(c) PROVE Durability'
  BY <1>27, <1>a DEF Forget, Durability, durable, RunType, MarkerOnDisk
<1>28. ASSUME NEW f \in Files, NEW c \in Contents, Rewrite(f, c) PROVE Durability'
  BY <1>28, <1>a DEF Rewrite, Durability, durable, RunType, MarkerOnDisk
<1>29. ASSUME Shutdown PROVE Durability'
  BY <1>29, <1>a DEF Shutdown, Durability, durable, RunType, MarkerOnDisk
<1>30. ASSUME CancelShutdown PROVE Durability'
  BY <1>30, <1>a DEF CancelShutdown, Durability, durable, RunType, MarkerOnDisk
<1>31. ASSUME Disable PROVE Durability'
  BY <1>31, <1>a DEF Disable, Durability, durable, RunType, MarkerOnDisk
<1>32. ASSUME Flush PROVE Durability'
  BY <1>32, <1>a DEF Flush, Durability, durable, RunType, MarkerOnDisk
<1>33. ASSUME Tick PROVE Durability'
  BY <1>33, <1>a DEF Tick, Durability, durable, RunType, MarkerOnDisk
<1>34. ASSUME Crash PROVE Durability'
  BY <1>34, <1>a, LeaveType DEF Crash, Durability, NoRun, RunType, MarkerOnDisk
<1> QED
  BY <1>1, <1>2, <1>3, <1>4, <1>5, <1>6, <1>7, <1>8, <1>9, <1>10, <1>11,
     <1>12, <1>13, <1>14, <1>15, <1>16, <1>17, <1>18, <1>19, <1>20, <1>21,
     <1>22, <1>23, <1>24, <1>25, <1>26, <1>27, <1>28, <1>29, <1>30, <1>31,
     <1>32, <1>33, <1>34 DEF Next, RunStep, Environment

(* Settings that agree on the marker and on the holds.                    *)
Kin(c, d) == c.held = d.held /\ c.active = d.active /\ c.attempt = d.attempt

(* What an action other than Begin, Load and Pick does to the run.         *)
Calm ==
  \/ run' = run
  \/ run'.pc = "idle" /\ ~run'.auto
  \/ /\ run.pc = "idle" => run'.pc = "idle"
     /\ run'.pc = "loading" => run.pc = "loading"
     /\ run'.auto = run.auto /\ Queued' \subseteq Queued
     /\ run'.registered \subseteq run.registered

(* The types that the lemmas about Holding use.                            *)
LEMMA HoldingTypes ==
  ASSUME TypeOK
  PROVE  /\ run \in RunType /\ conf \in Settings /\ disk \in Settings
         /\ clock \in Nat /\ suspect \in [Apps -> Nat]
         /\ conf.held \in [Apps -> Nat] /\ disk.held \in [Apps -> Nat]
         /\ conf.attempt \in Nat /\ disk.attempt \in Nat
         /\ Hold \in Nat /\ MaxClock \in Nat
<1>1. run \in RunType /\ conf \in Settings /\ disk \in Settings /\ clock \in Nat
  BY BoundsAssumption DEF TypeOK
<1>2. suspect \in [Apps -> Nat]
  BY BoundsAssumption DEF TypeOK
<1>3. /\ conf.held \in [Apps -> Nat] /\ disk.held \in [Apps -> Nat]
      /\ conf.attempt \in Nat /\ disk.attempt \in Nat
  BY <1>1, BoundsAssumption DEF Settings
<1> QED
  BY <1>1, <1>2, <1>3, HoldAssumption, BoundsAssumption

(* The automatic run's own part of Holding, given that of the settings.    *)
LEMMA CalmHolding ==
  ASSUME TypeOK, RunShape, Holding, Calm, clock' = clock,
         \A a \in Apps : suspect'[a] \in {suspect[a], 0},
         Keeps(conf)', Keeps(disk)',
         run'.pc # "idle" => \A a \in Apps : Safe(a)' \/ conf'.held[a] >= suspect'[a],
         run'.pc = "loading" => conf'.active = None
  PROVE  Holding'
<1>1. \A a \in Apps : Safe(a) => Safe(a)'
  BY DEF Safe
<1>2. \A a \in Apps : suspect'[a] <= clock'
  BY HoldingTypes DEF Holding
<1>3. \A e \in Queued : App(e) \in Apps
  BY HoldingTypes, RunFields, EntryType DEF Queued
<1>4. run'.auto => /\ \A e \in Queued' : Safe(App(e))'
                   /\ \A a \in run'.registered : Safe(a)'
  BY <1>1, <1>3, HoldingTypes, RunFields DEF Calm, Holding, Queued, App
<1> QED
  BY <1>2, <1>4 DEF Holding

(* Actions that touch neither the marker, the holds nor the clock.         *)
LEMMA KinKeeps ==
  ASSUME TypeOK, RunShape, Holding, Calm, clock' = clock, suspect' = suspect,
         Kin(conf', conf), Kin(disk', disk) \/ Kin(disk', conf)
  PROVE  Holding'
<1>1. Keeps(conf)' /\ Keeps(disk)'
  BY DEF Holding, Keeps, Kin, Safe, Remembers
<1>2. run'.pc # "idle" => \A a \in Apps : Safe(a)' \/ conf'.held[a] >= suspect'[a]
  BY DEF Holding, Kin, Safe, Calm
<1>3. run'.pc = "loading" => conf'.active = None
  BY DEF Holding, Kin, Calm
<1> QED
  BY <1>1, <1>2, <1>3, CalmHolding

(* A run in progress may move the marker: the holds are enough.            *)
LEMMA MarkedKeeps ==
  ASSUME TypeOK, Holding, run.pc # "idle", NEW a \in Apps
  PROVE  Keeps(Marked(conf, a))
<1>1. /\ Marked(conf, a).held = conf.held /\ Marked(conf, a).active = a
      /\ Marked(conf, a).attempt = clock
  BY HoldingTypes DEF Marked, Settings
<1> QED
  BY <1>1, HoldingTypes DEF Keeps, Holding, Safe, Remembers

(* Actions that move the marker.                                           *)
LEMMA MarkingKeeps ==
  ASSUME TypeOK, RunShape, Holding, Calm, clock' = clock, suspect' = suspect,
         run.pc \notin {"idle", "loading"}, NEW a \in Apps,
         Kin(conf', Marked(conf, a)), Kin(disk', disk) \/ Kin(disk', conf')
  PROVE  Holding'
<1>1. Keeps(conf)' /\ Keeps(disk)'
  BY MarkedKeeps DEF Keeps, Holding, Kin, Safe, Remembers
<1>2. Marked(conf, a).held = conf.held
  BY HoldingTypes DEF Marked, Settings
<1>3. run'.pc # "idle" => \A b \in Apps : Safe(b)' \/ conf'.held[b] >= suspect'[b]
  BY <1>2 DEF Holding, Kin, Safe
<1>4. run'.pc # "loading"
  BY DEF Calm
<1> QED
  BY <1>1, <1>3, <1>4, CalmHolding

(* The hold of an application ends when its saved layout is applied.       *)
LEMMA ReleasingKeeps ==
  ASSUME TypeOK, RunShape, Holding, Calm, clock' = clock,
         run.pc \notin {"idle", "loading"}, NEW a \in Apps, NEW c \in Settings,
         c = conf \/ c = Marked(conf, a),
         suspect' = [suspect EXCEPT ![a] = 0],
         conf' = [c EXCEPT !.held[a] = 0], disk' = disk \/ disk' = c
  PROVE  Holding'
<1>1. conf'.held = [c.held EXCEPT ![a] = 0] /\ conf'.active = c.active /\ conf'.attempt = c.attempt
  BY DEF Settings
<1>2. Keeps(c) /\ c.held = conf.held
  <2>1. Marked(conf, a).held = conf.held
    BY HoldingTypes DEF Marked, Settings
  <2> QED
    BY <2>1, MarkedKeeps DEF Holding
<1>3. /\ \A b \in Apps : suspect'[b] = IF b = a THEN 0 ELSE suspect[b]
      /\ \A b \in Apps : conf'.held[b] = IF b = a THEN 0 ELSE conf.held[b]
  BY <1>1, <1>2, HoldingTypes
<1>4. c.attempt \in Nat /\ \A b \in Apps : c.held[b] \in Nat
  BY HoldingTypes DEF Settings
<1>5. \A b \in Apps : Safe(b) => Safe(b)'
  BY <1>3 DEF Safe
<1>6. Safe(a)'
  BY <1>3 DEF Safe
<1>7. Keeps(conf)'
  BY <1>1, <1>2, <1>3, <1>4, <1>5, <1>6, HoldingTypes DEF Keeps, Remembers
<1>8. Keeps(disk)'
  BY <1>2, <1>3, <1>5, <1>6 DEF Keeps, Remembers, Holding
<1>9. \A b \in Apps : Safe(b)' \/ conf'.held[b] >= suspect'[b]
  BY <1>3, <1>5, <1>6 DEF Holding
<1>10. run'.pc # "loading"
  BY DEF Calm
<1> QED
  BY <1>3, <1>7, <1>8, <1>9, <1>10, CalmHolding

(* A marker that is converted is at least as young as the hold it renews,  *)
(* and what is too old to be held is older than a day.                     *)
LEMMA HoldsKeep ==
  ASSUME TypeOK, Holding
  PROVE  \A a \in Apps : /\ Holds[a] \in Nat /\ Holds[a] <= clock
                         /\ Safe(a) \/ Holds[a] >= suspect[a]
                         /\ conf.active = a => conf.attempt >= Holds[a]
<1> TAKE a \in Apps
<1> DEFINE young(t) == t > 0 /\ clock - t < Hold
<1>1. Holds[a] = IF a = conf.active /\ young(conf.attempt) THEN conf.attempt
                 ELSE IF young(conf.held[a]) THEN conf.held[a] ELSE 0
  BY DEF Holds
<1>2. /\ conf.attempt \in Nat /\ conf.held[a] \in Nat /\ suspect[a] \in Nat
      /\ conf.attempt <= clock /\ conf.held[a] <= clock
      /\ conf.active = a => conf.attempt >= conf.held[a]
      /\ Safe(a) \/ conf.held[a] >= suspect[a] \/ (conf.active = a /\ conf.attempt >= suspect[a])
  BY HoldingTypes DEF Holding, Keeps, Remembers
<1> QED
  BY <1>1, <1>2, HoldingTypes DEF Safe

(* No action forgets an application that a crash left marked.              *)
LEMMA HoldingStep == TypeOK /\ RunShape /\ Holding /\ Next => Holding'
<1> SUFFICES ASSUME TypeOK, RunShape, Holding, Next PROVE Holding' OBVIOUS
<1>a. run \in RunType /\ conf \in Settings /\ disk \in Settings
  BY DEF TypeOK
<1>b. run.pc \in Working => run.cur \in Entry /\ App(run.cur) \in Apps
  BY <1>a, RunFields, EntryType DEF RunShape
<1>c. NoRun.pc = "idle" /\ NoRun.auto = FALSE
  BY DEF NoRun
<1>1. ASSUME NEW auto \in BOOLEAN, Begin(auto) PROVE Holding'
  <2> DEFINE held == [conf EXCEPT !.held = Holds]
  <2>1. /\ held.held = Holds /\ held.active = conf.active /\ held.attempt = conf.attempt
        /\ held \in Settings
    BY <1>a, HoldsType DEF Settings
  <2>2. /\ conf' = [held EXCEPT !.active = None, !.attempt = 0]
        /\ disk' \in {disk, held} /\ UNCHANGED <<clock, suspect>>
    BY <1>1 DEF Begin, history
  <2> HIDE DEF held
  <2>3. conf'.held = Holds /\ conf'.active = None /\ conf'.attempt = 0
    BY <2>1, <2>2 DEF Settings
  <2>4. \A a \in Apps : /\ Holds[a] \in Nat /\ Holds[a] <= clock
                        /\ Safe(a) \/ Holds[a] >= suspect[a]
                        /\ conf.active = a => conf.attempt >= Holds[a]
    BY HoldsKeep
  <2>5. Keeps(conf)' /\ Keeps(disk)'
    BY <2>1, <2>2, <2>3, <2>4, HoldingTypes, NoneAssumption DEF Holding, Keeps,
       Safe, Remembers
  <2>6. run'.registered = {} /\ Queued' = {}
    BY <1>1 DEF Begin, NoRun, Queued
  <2> QED
    BY <2>2, <2>3, <2>4, <2>5, <2>6 DEF Holding, Safe
<1>2. ASSUME BeginRefused PROVE Holding'
  <2>1. /\ conf'.held = Holds /\ conf'.active = conf.active /\ conf'.attempt = conf.attempt
        /\ UNCHANGED <<disk, clock, suspect, run>>
    BY <1>2, <1>a, HoldsType DEF BeginRefused, NotSynced, Settings, history
  <2>2. \A a \in Apps : /\ Holds[a] \in Nat /\ Holds[a] <= clock
                        /\ Safe(a) \/ Holds[a] >= suspect[a]
                        /\ conf.active = a => conf.attempt >= Holds[a]
    BY HoldsKeep
  <2>3. Keeps(conf)' /\ Keeps(disk)'
    BY <2>1, <2>2 DEF Holding, Keeps, Safe, Remembers
  <2> QED
    BY <1>2, <2>1, <2>2, <2>3 DEF Holding, Safe, BeginRefused, Queued, App
<1>3. ASSUME Load PROVE Holding'
  <2>1. /\ UNCHANGED <<clock, suspect>> /\ run.pc = "loading" /\ run'.auto = run.auto
        /\ run'.pc \in {"next", "sparing"} /\ run'.registered = {}
        /\ Queued' = run'.todo /\ run'.todo \subseteq Entry
        /\ run.auto => \A e \in run'.todo : conf.held[App(e)] = 0
    BY <1>3, LoadEffect DEF Load, history, Queued, Stored
  <2>2. Kin(conf', conf) /\ Kin(disk', conf)
    <3>1. PICK l : conf' = [conf EXCEPT !.ledger = l] /\ disk' = conf'
      BY <1>3, LoadEffect
    <3> QED
      BY <1>a, <3>1 DEF Settings, Kin
  <2>3. Keeps(conf)' /\ Keeps(disk)'
    BY <2>1, <2>2 DEF Holding, Keeps, Kin, Safe, Remembers
  <2>4. \A a \in Apps : conf.held[a] = 0 => Safe(a)
    BY <2>1, HoldingTypes DEF Holding, Safe
  <2>5. run'.auto => \A e \in Queued' : Safe(App(e))'
    BY <2>1, <2>4, EntryType DEF Safe, App
  <2> QED
    BY <2>1, <2>2, <2>3, <2>5 DEF Holding, Kin, Safe
<1>4. ASSUME RunFails PROVE Holding'
  <2>1. Calm
    BY <1>4, <1>a, <1>c, RunFields, LeaveType DEF RunFails, Calm, Queued,
       RunShape, Working
  <2>2. UNCHANGED <<conf, disk, clock, suspect>>
    BY <1>4 DEF RunFails, history
  <2> QED
    BY <2>1, <2>2, KinKeeps DEF Kin
<1>5. ASSUME Preserve PROVE Holding'
  <2>1. Calm
    BY <1>5, <1>a, <1>c, RunFields, LeaveType DEF Preserve, Calm, Queued,
       RunShape, Working
  <2>2. UNCHANGED <<conf, disk, clock, suspect>>
    BY <1>5 DEF Preserve, history
  <2> QED
    BY <2>1, <2>2, KinKeeps DEF Kin
<1>6. ASSUME Ambiguous PROVE Holding'
  <2>1. Calm
    BY <1>6, <1>a, <1>c, RunFields, LeaveType DEF Ambiguous, Calm, Queued,
       RunShape, Working
  <2>2. UNCHANGED <<clock, suspect>>
    BY <1>6 DEF Ambiguous, history
  <2>3. Kin(conf', conf) /\ (Kin(disk', disk) \/ Kin(disk', conf))
    BY <1>6, <1>a, SettingsFields DEF Ambiguous, Synced, NotSynced, Kin
  <2> QED
    BY <2>1, <2>2, <2>3, KinKeeps
<1>7. ASSUME NotLaunched PROVE Holding'
  <2>1. Calm
    BY <1>7, <1>a, <1>c, RunFields, LeaveType DEF NotLaunched, Calm, Queued,
       RunShape, Working
  <2>2. UNCHANGED <<conf, disk, clock, suspect>>
    BY <1>7 DEF NotLaunched, history
  <2> QED
    BY <2>1, <2>2, KinKeeps DEF Kin
<1>8. ASSUME Launch PROVE Holding'
  <2>1. Calm
    BY <1>8, <1>a, <1>c, RunFields, LeaveType DEF Launch, Calm, Queued,
       RunShape, Working
  <2>2. UNCHANGED <<clock, suspect>>
    BY <1>8 DEF Launch, history
  <2>3. run.pc \notin {"idle", "loading"} /\ App(run.cur) \in Apps
    BY <1>8, <1>b DEF Launch, RunShape, Working
  <2>4. Marked(conf, App(run.cur)) \in Settings
    BY <1>a, <2>3, SettingsUpdates DEF TypeOK
  <2>5. Kin(conf', Marked(conf, App(run.cur))) /\ (Kin(disk', disk) \/ Kin(disk', conf'))
    BY <1>8, <2>3, <2>4, CheckpointEffect, SettingsFields DEF Launch, Synced, Kin
  <2> QED
    BY <2>1, <2>2, <2>3, <2>5, MarkingKeeps
<1>9. ASSUME Reuse PROVE Holding'
  <2>1. Calm
    BY <1>9, <1>a, <1>c, RunFields, LeaveType DEF Reuse, Calm, Queued, RunShape,
       Working
  <2>2. UNCHANGED <<clock, suspect>>
    BY <1>9 DEF Reuse, history
  <2>3. run.pc \notin {"idle", "loading"} /\ App(run.cur) \in Apps
    BY <1>9, <1>b DEF Reuse, RunShape, Working
  <2>4. Marked(conf, App(run.cur)) \in Settings
    BY <1>a, <2>3, SettingsUpdates DEF TypeOK
  <2>5. Kin(conf', Marked(conf, App(run.cur))) /\ (Kin(disk', disk) \/ Kin(disk', conf'))
    BY <1>9, <2>3, <2>4, CheckpointEffect, SettingsFields DEF Reuse, Synced, Kin
  <2> QED
    BY <2>1, <2>2, <2>3, <2>5, MarkingKeeps
<1>10. ASSUME Launched PROVE Holding'
  <2>1. Calm
    BY <1>10, <1>a, <1>c, RunFields, LeaveType DEF Launched, Calm, Queued,
       RunShape, Working
  <2>2. UNCHANGED <<conf, disk, clock, suspect>>
    BY <1>10 DEF Launched, history
  <2> QED
    BY <2>1, <2>2, KinKeeps DEF Kin
<1>11. ASSUME LaunchFails PROVE Holding'
  <2>1. Calm
    BY <1>11, <1>a, <1>c, RunFields, LeaveType DEF LaunchFails, Calm, Queued,
       RunShape, Working
  <2>2. UNCHANGED <<clock, suspect>>
    BY <1>11 DEF LaunchFails, history
  <2>3. Kin(conf', conf) /\ (Kin(disk', disk) \/ Kin(disk', conf))
    <3>1. CASE run.cur.content \in Docs
      <4>1. conf' = [conf EXCEPT !.ledger = run.previous] /\ disk' = conf'
        BY <1>11, <3>1 DEF LaunchFails, Synced
      <4> QED
        BY <1>a, <4>1 DEF Settings, Kin
    <3>2. CASE run.cur.content \notin Docs
      BY <1>11, <3>2 DEF LaunchFails, Kin
    <3> QED
      BY <3>1, <3>2
  <2> QED
    BY <2>1, <2>2, <2>3, KinKeeps
<1>12. ASSUME Ready PROVE Holding'
  <2>1. Calm
    BY <1>12, <1>a, RunFields DEF Ready, Calm, Queued
  <2>2. run.pc \notin {"idle", "loading"} /\ App(run.cur) \in Apps
    BY <1>12, <1>b DEF Ready, Working
  <2>3. CASE run.cur \in run.moved
    BY <1>12, <1>a, <2>1, <2>2, <2>3, ReleasingKeeps DEF Ready
  <2>4. CASE run.cur \notin run.moved
    BY <1>12, <2>1, <2>4, KinKeeps DEF Ready, Kin
  <2> QED
    BY <2>3, <2>4
<1>13. ASSUME TimesOut PROVE Holding'
  <2>1. Calm
    BY <1>13, <1>a, <1>c, RunFields, LeaveType DEF TimesOut, Calm, Queued,
       RunShape, Working
  <2>2. UNCHANGED <<conf, disk, clock, suspect>>
    BY <1>13 DEF TimesOut, history
  <2> QED
    BY <2>1, <2>2, KinKeeps DEF Kin
<1>14. ASSUME Move PROVE Holding'
  <2>1. Calm
    BY <1>14, <1>a, <1>c, RunFields, LeaveType DEF Move, Calm, Queued, RunShape,
       Working
  <2>2. UNCHANGED <<clock, suspect>>
    BY <1>14 DEF Move, history
  <2>3. run.pc \notin {"idle", "loading"} /\ App(run.cur) \in Apps
    BY <1>14, <1>b DEF Move, RunShape, Working
  <2>4. Marked(conf, App(run.cur)) \in Settings
    BY <1>a, <2>3, SettingsUpdates DEF TypeOK
  <2>5. Kin(conf', Marked(conf, App(run.cur))) /\ (Kin(disk', disk) \/ Kin(disk', conf'))
    BY <1>14, <2>3, CheckpointEffect DEF Move, Kin
  <2> QED
    BY <2>1, <2>2, <2>3, <2>5, MarkingKeeps
<1>15. ASSUME Moved PROVE Holding'
  <2>1. Calm
    BY <1>15, <1>a, <1>c, RunFields, LeaveType DEF Moved, Calm, Queued,
       RunShape, Working
  <2>2. run.pc \notin {"idle", "loading"} /\ App(run.cur) \in Apps
    BY <1>15, <1>b DEF Moved, Working
  <2> QED
    BY <1>15, <1>a, <2>1, <2>2, ReleasingKeeps DEF Moved, NotSynced
<1>16. ASSUME NotMoved PROVE Holding'
  <2>1. Calm
    BY <1>16, NotMovedEffect, EntryType DEF Calm, Queued
  <2>2. UNCHANGED <<conf, disk, clock, suspect>>
    BY <1>16 DEF NotMoved, history
  <2> QED
    BY <2>1, <2>2, KinKeeps DEF Kin
<1>17. ASSUME RetireRead PROVE Holding'
  <2>1. Calm
    BY <1>17, <1>a, <1>c, RunFields, LeaveType DEF RetireRead, Calm, Queued,
       RunShape, Working
  <2>2. UNCHANGED <<conf, disk, clock, suspect>>
    BY <1>17 DEF RetireRead, history
  <2> QED
    BY <2>1, <2>2, KinKeeps DEF Kin
<1>18. ASSUME RetireDelete PROVE Holding'
  <2>1. Calm
    BY <1>18, <1>a, <1>c, RunFields, LeaveType DEF RetireDelete, Calm, Queued,
       RunShape, Working
  <2>2. UNCHANGED <<conf, disk, clock, suspect>>
    BY <1>18 DEF RetireDelete, history
  <2> QED
    BY <2>1, <2>2, KinKeeps DEF Kin
<1>19. ASSUME Reconcile PROVE Holding'
  <2>1. Calm
    BY <1>19, <1>a, <1>c, RunFields, LeaveType DEF Reconcile, Calm, Queued,
       RunShape, Working
  <2>2. UNCHANGED <<conf, disk, clock, suspect>>
    BY <1>19 DEF Reconcile, history
  <2> QED
    BY <2>1, <2>2, KinKeeps DEF Kin
<1>20. ASSUME Finish PROVE Holding'
  <2>1. /\ conf'.held = conf.held /\ conf'.active = None /\ conf'.attempt = 0
        /\ UNCHANGED <<disk, clock, suspect>> /\ run' = NoRun
    BY <1>20, <1>a DEF Finish, NotSynced, Settings, history
  <2>2. run.pc # "idle" /\ Calm
    BY <1>20, <1>c, <2>1 DEF Finish, Calm
  <2>3. Keeps(conf)' /\ Keeps(disk)'
    BY <2>1, <2>2, HoldingTypes, NoneAssumption DEF Holding, Keeps, Safe, Remembers
  <2> QED
    BY <1>c, <2>1, <2>2, <2>3, CalmHolding
<1>21. ASSUME Interrupt PROVE Holding'
  <2>1. Calm
    BY <1>21, <1>a, <1>c, RunFields, LeaveType DEF Interrupt, Calm, Queued,
       RunShape, Working
  <2>2. UNCHANGED <<conf, disk, clock, suspect>>
    BY <1>21 DEF Interrupt, history
  <2> QED
    BY <2>1, <2>2, KinKeeps DEF Kin
<1>22. ASSUME NEW e \in Entry, Spare(e) PROVE Holding'
  <2>1. Calm
    BY <1>22, <1>a, <1>c, RunFields, LeaveType DEF Spare, Calm, Queued,
       RunShape, Working
  <2>2. UNCHANGED <<clock, suspect>>
    BY <1>22 DEF Spare, history
  <2>3. Kin(conf', conf) /\ (Kin(disk', disk) \/ Kin(disk', conf))
    BY <1>22, <1>a, SettingsFields DEF Spare, Synced, NotSynced, Kin
  <2> QED
    BY <2>1, <2>2, <2>3, KinKeeps
<1>23. ASSUME NEW e \in Entry, Pick(e) PROVE Holding'
  <2>1. UNCHANGED <<clock, suspect>> /\ App(e) \in Apps /\ run.pc = "next" /\ e \in Queued
    BY <1>23, EntryType, PickEffect DEF Pick, history, Queued
  <2>2. /\ run'.auto = run.auto /\ Queued' \subseteq Queued
        /\ run'.registered \subseteq run.registered \cup {App(e)}
        /\ run'.pc \notin {"idle", "loading"}
        /\ UNCHANGED <<conf, disk>> \/ Checkpoint(App(e))
    BY <1>23, PickEffect DEF Queued
  <2>3. /\ Keeps(conf)' /\ Keeps(disk)' /\ conf'.held = conf.held
    <3>1. CASE UNCHANGED <<conf, disk>>
      BY <2>1, <3>1 DEF Holding, Keeps, Safe, Remembers
    <3>2. CASE Checkpoint(App(e))
      <4>1. conf' = Marked(conf, App(e)) /\ disk' \in {disk, conf'} /\ conf'.held = conf.held
        BY <1>a, <2>1, <3>2, CheckpointEffect DEF Marked, Settings
      <4> QED
        BY <2>1, <4>1, MarkedKeeps DEF Holding, Keeps, Safe, Remembers
    <3> QED
      BY <2>2, <3>1, <3>2
  <2>4. run'.auto => /\ \A f \in Queued' : Safe(App(f))'
                     /\ \A a \in run'.registered : Safe(a)'
    BY <2>1, <2>2 DEF Holding, Safe, App
  <2> QED
    BY <2>1, <2>2, <2>3, <2>4 DEF Holding, Safe
<1>24. ASSUME NEW e \in Entry, Retry(e) PROVE Holding'
  <2>1. run.pc \notin {"idle", "loading"} /\ App(e) \in Apps
    BY <1>24, EntryType, RetryEffect
  <2>2. Calm
    BY <1>24, RetryEffect DEF Calm, Queued
  <2>3. Marked(conf, App(e)) \in Settings /\ clock' = clock
    BY <1>24, <1>a, <2>1, SettingsUpdates DEF TypeOK, Retry
  <2>4. CASE e \in run.moved
    <3>1. /\ conf' = [Marked(conf, App(e)) EXCEPT !.held[App(e)] = 0]
          /\ disk' = disk \/ disk' = Marked(conf, App(e))
          /\ suspect' = [suspect EXCEPT ![App(e)] = 0]
      BY <1>24, <2>4 DEF Retry
    <3> QED
      BY <2>1, <2>2, <2>3, <3>1, ReleasingKeeps
  <2>5. CASE e \notin run.moved
    <3>1. Checkpoint(App(e)) /\ suspect' = suspect
      BY <1>24, <2>5 DEF Retry
    <3> QED
      BY <2>1, <2>2, <2>3, <3>1, CheckpointEffect, MarkingKeeps DEF Kin
  <2> QED
    BY <2>4, <2>5
<1>25. ASSUME LateDone PROVE Holding'
  <2>1. Calm
    BY <1>25, <1>a, <1>c, RunFields, LeaveType DEF LateDone, Calm, Queued,
       RunShape, Working
  <2>2. UNCHANGED <<conf, disk, clock, suspect>>
    BY <1>25 DEF LateDone, history
  <2> QED
    BY <2>1, <2>2, KinKeeps DEF Kin
<1>26. ASSUME NEW a \in Apps, LateWindow(a) PROVE Holding'
  <2>1. Calm
    BY <1>26, <1>a, <1>c, RunFields, LeaveType DEF LateWindow, Calm, Queued,
       RunShape, Working
  <2>2. UNCHANGED <<clock, suspect>>
    BY <1>26 DEF LateWindow, history
  <2>3. run.pc \notin {"idle", "loading"} /\ a \in Apps
    BY <1>26, <1>b DEF LateWindow, RunShape, Working
  <2>4. Marked(conf, a) \in Settings
    BY <1>a, <2>3, SettingsUpdates DEF TypeOK
  <2>5. Kin(conf', Marked(conf, a)) /\ (Kin(disk', disk) \/ Kin(disk', conf'))
    BY <1>26, <2>3, CheckpointEffect DEF LateWindow, Kin
  <2> QED
    BY <2>1, <2>2, <2>3, <2>5, MarkingKeeps
<1>27. ASSUME NEW c \in Contents, Forget(c) PROVE Holding'
  <2>1. Calm
    BY <1>27, <1>a, <1>c, RunFields, LeaveType DEF Forget, Calm, Queued,
       RunShape, Working
  <2>2. UNCHANGED <<conf, disk, clock, suspect>>
    BY <1>27 DEF Forget, history
  <2> QED
    BY <2>1, <2>2, KinKeeps DEF Kin
<1>28. ASSUME NEW f \in Files, NEW c \in Contents, Rewrite(f, c) PROVE Holding'
  <2>1. Calm
    BY <1>28, <1>a, <1>c, RunFields, LeaveType DEF Rewrite, Calm, Queued,
       RunShape, Working
  <2>2. UNCHANGED <<conf, disk, clock, suspect>>
    BY <1>28 DEF Rewrite, history
  <2> QED
    BY <2>1, <2>2, KinKeeps DEF Kin
<1>29. ASSUME Shutdown PROVE Holding'
  <2>1. Calm
    BY <1>29, <1>a, <1>c, RunFields, LeaveType DEF Shutdown, Calm, Queued,
       RunShape, Working
  <2>2. UNCHANGED <<conf, disk, clock, suspect>>
    BY <1>29 DEF Shutdown, history
  <2> QED
    BY <2>1, <2>2, KinKeeps DEF Kin
<1>30. ASSUME CancelShutdown PROVE Holding'
  <2>1. Calm
    BY <1>30, <1>a, <1>c, RunFields, LeaveType DEF CancelShutdown, Calm, Queued,
       RunShape, Working
  <2>2. UNCHANGED <<conf, disk, clock, suspect>>
    BY <1>30 DEF CancelShutdown, history
  <2> QED
    BY <2>1, <2>2, KinKeeps DEF Kin
<1>31. ASSUME Disable PROVE Holding'
  <2>1. Calm
    BY <1>31, <1>a, <1>c, RunFields, LeaveType DEF Disable, Calm, Queued,
       RunShape, Working
  <2>2. UNCHANGED <<conf, disk, clock, suspect>>
    BY <1>31 DEF Disable, history
  <2> QED
    BY <2>1, <2>2, KinKeeps DEF Kin
<1>32. ASSUME Flush PROVE Holding'
  <2>1. Calm
    BY <1>32, <1>a, <1>c, RunFields, LeaveType DEF Flush, Calm, Queued,
       RunShape, Working
  <2>2. UNCHANGED <<clock, suspect>>
    BY <1>32 DEF Flush, history
  <2>3. Kin(conf', conf) /\ (Kin(disk', disk) \/ Kin(disk', conf))
    BY <1>32, <1>a, SettingsFields DEF Flush, Synced, NotSynced, Kin
  <2> QED
    BY <2>1, <2>2, <2>3, KinKeeps
<1>33. ASSUME Tick PROVE Holding'
  <2>1. clock' = clock + 1 /\ UNCHANGED <<conf, disk, run, suspect>>
    BY <1>33 DEF Tick, history
  <2>2. \A a \in Apps : Safe(a) => Safe(a)'
    BY <2>1, HoldingTypes DEF Safe
  <2>3. Keeps(conf)' /\ Keeps(disk)'
    BY <2>1, <2>2, HoldingTypes DEF Holding, Keeps, Remembers
  <2>4. run.auto => \A e \in Queued : App(e) \in Apps
    BY <1>a, RunFields, EntryType DEF Queued
  <2>5. run.registered \subseteq Apps
    BY <1>a, RunFields
  <2>6. run'.auto => /\ \A e \in Queued' : Safe(App(e))'
                     /\ \A a \in run'.registered : Safe(a)'
    BY <2>1, <2>2, <2>4, <2>5 DEF Holding, Queued, App
  <2> QED
    BY <2>1, <2>2, <2>3, <2>6, HoldingTypes DEF Holding
<1>34. ASSUME Crash PROVE Holding'
  <2>1. /\ conf' = disk /\ disk' = disk /\ clock' = clock /\ run' = NoRun
        /\ suspect' = IF disk.active # None
                      THEN [suspect EXCEPT ![disk.active] = disk.attempt] ELSE suspect
    BY <1>34 DEF Crash
  <2>2. disk.active \in Apps \cup {None}
    BY <1>a DEF Settings
  <2>3. \A a \in Apps : suspect'[a] = IF a = disk.active THEN disk.attempt ELSE suspect[a]
    BY <2>1, <2>2, NoneAssumption, HoldingTypes
  <2>4. Keeps(disk)' /\ \A a \in Apps : suspect'[a] <= clock'
    BY <2>1, <2>3, HoldingTypes DEF Holding, Keeps, Safe, Remembers
  <2> QED
    BY <1>c, <2>1, <2>4 DEF Holding, Keeps, Safe, Remembers
<1> QED
  BY <1>1, <1>2, <1>3, <1>4, <1>5, <1>6, <1>7, <1>8, <1>9, <1>10, <1>11,
     <1>12, <1>13, <1>14, <1>15, <1>16, <1>17, <1>18, <1>19, <1>20, <1>21,
     <1>22, <1>23, <1>24, <1>25, <1>26, <1>27, <1>28, <1>29, <1>30, <1>31,
     <1>32, <1>33, <1>34 DEF Next, RunStep, Environment

(* What an action that plans and asks for nothing does to the queue.       *)
TodoCalm ==
  /\ run'.auto =>
       /\ run.auto
       /\ run'.todo \subseteq run.todo /\ run'.surplus \subseteq run.surplus
       /\ run.cur \in run'.todo =>
            /\ run'.cur = run.cur
            /\ \/ run'.pc \notin {"preserve", "turn", "native"}
               \/ run.pc \in {"preserve", "turn", "native"}
  /\ run'.pc = "native" => run.pc = "native" /\ run'.previous = run.previous

(* Actions that bar nothing and forget nothing that is barred.             *)
LEMMA ReplayingKept ==
  ASSUME TypeOK, RunShape, Replaying, TodoCalm, barred' = barred,
         ~PartialLoads => /\ conf.ledger \subseteq conf'.ledger
                          /\ \/ disk.ledger \subseteq disk'.ledger
                             \/ conf.ledger \subseteq disk'.ledger,
         \A f \in Files : files'[f] \in {files[f], None}
  PROVE  Replaying'
<1>1. \A f, g \in Files : files'[f] = files'[g] => f = g \/ files'[f] = None
  BY DEF Replaying
<1>2. ASSUME ~PartialLoads
      PROVE  /\ barred' \subseteq conf'.ledger \cap disk'.ledger
             /\ run'.pc = "native" => barred' \subseteq run'.previous
  BY <1>2 DEF Replaying, TodoCalm
<1>3. ASSUME ~PartialLoads, run'.auto
      PROVE  /\ \A e, f \in run'.todo \cup run'.surplus : e.content = f.content => e = f
             /\ run'.todo \cap run'.surplus = {}
             /\ \A e \in run'.todo :
                  e.content \in barred' =>
                    e = run'.cur /\ run'.pc \notin {"preserve", "turn", "native"}
  BY <1>3 DEF Replaying, TodoCalm
<1> QED
  BY <1>1, <1>2, <1>3 DEF Replaying

(* Going on to the next entry asks for nothing.                            *)
LEMMA LeaveCalm ==
  ASSUME TypeOK, RunShape, run' = Leave(run)
  PROVE  TodoCalm
BY HoldingTypes, LeaveType DEF TodoCalm

(* After a step that bars c, the queue that is left has no barred record   *)
(* before it but the one under way.                                        *)
LEMMA BarringKeeps ==
  ASSUME TypeOK, RunShape, Replaying, NEW e \in Entry,
         barred' \subseteq barred \cup {e.content},
         ~PartialLoads => barred' \subseteq conf'.ledger \cap disk'.ledger,
         run'.auto => e \in run.todo \cup run.surplus,
         ~PartialLoads /\ run'.auto =>
           e \notin run'.todo \/ (e = run'.cur /\ run'.pc = "ready"),
         run'.pc # "native", TodoCalm, UNCHANGED files
  PROVE  Replaying'
<1>1. ASSUME ~PartialLoads, run'.auto
      PROVE  /\ \A f, g \in run'.todo \cup run'.surplus : f.content = g.content => f = g
             /\ run'.todo \cap run'.surplus = {}
             /\ \A f \in run'.todo :
                  f.content \in barred' =>
                    f = run'.cur /\ run'.pc \notin {"preserve", "turn", "native"}
  BY <1>1 DEF Replaying, TodoCalm
<1> QED
  BY <1>1 DEF Replaying

(* No action makes a barred record come back.                              *)
LEMMA ReplayingStep ==
  TypeOK /\ RunShape /\ Archiving /\ Durability /\ Replaying /\ Next => Replaying'
<1> SUFFICES ASSUME TypeOK, RunShape, Archiving, Durability, Replaying, Next
             PROVE  Replaying'
  OBVIOUS
<1>a. run \in RunType /\ conf \in Settings /\ disk \in Settings
  BY DEF TypeOK
<1>b. run.pc \in Working => run.cur \in Entry /\ App(run.cur) \in Apps
  BY <1>a, RunFields, EntryType DEF RunShape
<1>c. \A a : Marked(conf, a).ledger = conf.ledger
  BY <1>a DEF Marked, Settings
<1>d. NoRun.auto = FALSE /\ NoRun.pc = "idle"
  BY DEF NoRun
<1>1. ASSUME NEW auto \in BOOLEAN, Begin(auto) PROVE Replaying'
  <2>2. conf'.ledger = conf.ledger /\ disk'.ledger \in {disk.ledger, conf.ledger}
    <3> DEFINE held == [conf EXCEPT !.held = Holds]
    <3>1. held \in Settings /\ held.ledger = conf.ledger
      BY <1>a, HoldsType DEF Settings
    <3>2. /\ conf' = [held EXCEPT !.active = None, !.attempt = 0]
          /\ disk' \in {disk, held}
      BY <1>1 DEF Begin
    <3> HIDE DEF held
    <3> QED
      BY <3>1, <3>2, SettingsFields
  <2>3. barred' = barred /\ \A f \in Files : files'[f] \in {files[f], None}
    BY <1>1 DEF Begin, durable, history
  <2>4. run'.auto => run'.todo = {} /\ run'.surplus = {}
    BY <1>1 DEF Begin, NoRun
  <2>5. run'.pc = "loading"
    BY <1>1 DEF Begin, NoRun
  <2> QED
    BY <2>2, <2>3, <2>4, <2>5 DEF Replaying
<1>2. ASSUME BeginRefused PROVE Replaying'
  <2>1. TodoCalm
    BY <1>2, <1>a, <1>d, RunFields, LeaveType DEF BeginRefused, TodoCalm,
       RunShape, Working
  <2>2. conf'.ledger = conf.ledger /\ disk'.ledger \in {disk.ledger, conf.ledger}
    BY <1>2, <1>a, <1>c, SettingsFields, CheckpointEffect DEF BeginRefused,
       NotSynced, Synced
  <2>3. barred' = barred /\ \A f \in Files : files'[f] \in {files[f], None}
    BY <1>2 DEF BeginRefused, durable, history
  <2> QED
    BY <2>1, <2>2, <2>3, ReplayingKept
<1>3. ASSUME Load PROVE Replaying'
  <2>1. PICK got \in SUBSET Stored :
          /\ got # Stored => PartialLoads
          /\ conf' = [conf EXCEPT !.ledger = @ \cap Keys(got)] /\ disk' = conf'
          /\ run'.pc \in {"next", "sparing"} /\ run'.auto = run.auto
          /\ run'.todo \subseteq got /\ run'.surplus \subseteq got
          /\ run.auto => /\ \A e \in run'.todo \cup run'.surplus : e.file # Archived
                         /\ run'.todo \cap run'.surplus = {}
                         /\ \A e \in run'.todo : e.content \notin conf'.ledger
    BY <1>3, LoadEffect
  <2>2. UNCHANGED <<barred, files>>
    BY <1>3 DEF Load, durable, history
  <2>3. ASSUME ~PartialLoads PROVE barred \subseteq conf'.ledger
    <3>1. \A x \in barred : [file |-> Archived, content |-> x] \in Stored
      BY DEF Stored, Entry, Archiving, TypeOK
    <3>2. ASSUME NEW x \in barred PROVE x \in Keys(got)
      <4> DEFINE e == [file |-> Archived, content |-> x]
      <4>1. e \in got /\ e.content = x
        BY <2>1, <2>3, <3>1
      <4> HIDE DEF e
      <4> QED
        BY <4>1 DEF Keys
    <3>3. conf'.ledger = conf.ledger \cap Keys(got)
      BY <1>a, <2>1 DEF Settings
    <3> QED
      BY <2>3, <3>2, <3>3 DEF Replaying
  <2>4. ASSUME run.auto
        PROVE  \A e, f \in run'.todo \cup run'.surplus : e.content = f.content => e = f
    <3> TAKE e, f \in run'.todo \cup run'.surplus
    <3> HAVE e.content = f.content
    <3>1. /\ e \in Entry /\ f \in Entry /\ e.file \in Files /\ f.file \in Files
          /\ files[e.file] = e.content /\ files[f.file] = f.content
      BY <2>1, <2>4, EntryType DEF Stored
    <3>2. e.content # None /\ f.content # None
      BY <3>1, EntryType, NoneAssumption
    <3>3. e.file = f.file
      BY <3>1, <3>2 DEF Replaying
    <3> QED
      BY <3>1, <3>3 DEF Entry
  <2>5. ~PartialLoads => barred' \subseteq conf'.ledger \cap disk'.ledger
    BY <2>1, <2>2, <2>3
  <2> QED
    BY <2>1, <2>2, <2>4, <2>5 DEF Replaying
<1>4. ASSUME RunFails PROVE Replaying'
  <2>1. TodoCalm
    BY <1>4, <1>a, <1>d, RunFields, LeaveType DEF RunFails, TodoCalm,
       RunShape, Working
  <2>2. conf'.ledger = conf.ledger /\ disk'.ledger \in {disk.ledger, conf.ledger}
    BY <1>4 DEF RunFails
  <2>3. barred' = barred /\ \A f \in Files : files'[f] \in {files[f], None}
    BY <1>4 DEF RunFails, durable, history
  <2> QED
    BY <2>1, <2>2, <2>3, ReplayingKept
<1>5. ASSUME Preserve PROVE Replaying'
  <2>1. TodoCalm
    BY <1>5, <1>a, <1>d, RunFields, LeaveType DEF Preserve, TodoCalm, RunShape,
       Working
  <2>2. conf'.ledger = conf.ledger /\ disk'.ledger \in {disk.ledger, conf.ledger}
    BY <1>5 DEF Preserve
  <2>3. barred' = barred /\ \A f \in Files : files'[f] \in {files[f], None}
    BY <1>5 DEF Preserve, durable, history
  <2> QED
    BY <2>1, <2>2, <2>3, ReplayingKept
<1>6. ASSUME Ambiguous PROVE Replaying'
  <2>1. /\ run.pc = "preserve" /\ barred' = barred \cup {run.cur.content} /\ files' = files
        /\ conf' = Barring(conf, run.cur.content) /\ disk' = conf' /\ run' = Leave(run)
    BY <1>6 DEF Ambiguous, Synced
  <2>2. run.cur \in Entry /\ run.cur \in run.todo
    BY <1>b, <2>1 DEF RunShape, Working
  <2>3. ~PartialLoads => barred' \subseteq conf'.ledger \cap disk'.ledger
    BY <1>a, <2>1, SettingsFields DEF Replaying
  <2> QED
    BY <1>a, <2>1, <2>2, <2>3, LeaveCalm, LeaveType, BarringKeeps
<1>7. ASSUME NotLaunched PROVE Replaying'
  <2>1. TodoCalm
    BY <1>7, <1>a, <1>d, RunFields, LeaveType DEF NotLaunched, TodoCalm,
       RunShape, Working
  <2>2. conf'.ledger = conf.ledger /\ disk'.ledger \in {disk.ledger, conf.ledger}
    BY <1>7 DEF NotLaunched
  <2>3. barred' = barred /\ \A f \in Files : files'[f] \in {files[f], None}
    BY <1>7 DEF NotLaunched, durable, history
  <2> QED
    BY <2>1, <2>2, <2>3, ReplayingKept
<1>8. ASSUME Launch PROVE Replaying'
  <2>1. /\ run.pc = "turn" /\ run'.pc = "native" /\ run'.previous = conf.ledger
        /\ run'.cur = run.cur /\ run'.todo = run.todo /\ run'.surplus = run.surplus
        /\ run'.auto = run.auto /\ UNCHANGED <<files, barred>>
    BY <1>8, <1>a DEF Launch, RunType, durable, history
  <2>2. conf.ledger \subseteq conf'.ledger /\ disk' \in {disk, conf'}
    <3>1. Marked(conf, App(run.cur)) \in Settings
      BY <1>a, <1>b, <2>1, SettingsUpdates DEF TypeOK, Working
    <3>2. CASE run.cur.content \in Docs
      BY <1>8, <1>c, <3>1, <3>2, SettingsFields DEF Launch, Synced
    <3>3. CASE run.cur.content \notin Docs
      BY <1>8, <1>b, <1>c, <2>1, <3>1, <3>3, CheckpointEffect, SettingsFields DEF Launch, Working
    <3> QED
      BY <3>2, <3>3
  <2> QED
    BY <2>1, <2>2 DEF Replaying
<1>9. ASSUME Reuse PROVE Replaying'
  <2>1. /\ run.pc = "turn" /\ run.cur \in run.todo /\ run.cur \in Entry
        /\ barred' = barred \cup ({run.cur.content} \cap Docs) /\ files' = files
        /\ run'.pc = "ready" /\ run'.cur = run.cur /\ run'.todo = run.todo
        /\ run'.surplus = run.surplus /\ run'.auto = run.auto
    BY <1>9, <1>a, <1>b DEF Reuse, RunType, RunShape, Working, durable
  <2>2. ~PartialLoads => barred' \subseteq conf'.ledger \cap disk'.ledger
    <3>1. Marked(conf, App(run.cur)) \in Settings
      BY <1>a, <1>b, <2>1, SettingsUpdates DEF TypeOK, Working
    <3>2. CASE run.cur.content \in Docs
      BY <1>9, <1>c, <2>1, <3>1, <3>2, SettingsFields DEF Reuse, Synced, Replaying
    <3>3. CASE run.cur.content \notin Docs
      BY <1>9, <1>b, <1>c, <2>1, <3>1, <3>3, CheckpointEffect, SettingsFields
         DEF Reuse, Replaying, Working
    <3> QED
      BY <3>2, <3>3
  <2>3. TodoCalm
    BY <2>1 DEF TodoCalm
  <2> QED
    BY <2>1, <2>2, <2>3, BarringKeeps
<1>10. ASSUME Launched PROVE Replaying'
  <2>1. /\ run.pc = "native" /\ run.cur \in run.todo /\ run.cur \in Entry
        /\ barred' = barred \cup ({run.cur.content} \cap Docs) /\ files' = files
        /\ run'.pc = "ready" /\ run'.cur = run.cur /\ run'.todo = run.todo
        /\ run'.surplus = run.surplus /\ run'.auto = run.auto /\ UNCHANGED <<conf, disk>>
    BY <1>10, <1>a, <1>b DEF Launched, RunType, RunShape, Working, durable
  <2>2. ~PartialLoads => barred' \subseteq conf'.ledger \cap disk'.ledger
    BY <2>1 DEF Replaying, Durability
  <2>3. TodoCalm
    BY <2>1 DEF TodoCalm
  <2> QED
    BY <2>1, <2>2, <2>3, BarringKeeps
<1>11. ASSUME LaunchFails PROVE Replaying'
  <2>1. /\ run.pc = "native" /\ run'.pc # "native" /\ run.cur \in run.todo
        /\ run'.todo = run.todo \ {run.cur} /\ run'.surplus = run.surplus
        /\ run'.auto = run.auto /\ UNCHANGED <<files, barred>>
    BY <1>11, <1>a, LeaveType DEF LaunchFails, RunType, RunShape, durable, history
  <2>2. ~PartialLoads => barred \subseteq conf'.ledger \cap disk'.ledger
    <3>1. CASE run.cur.content \in Docs
      <4>1. conf' = [conf EXCEPT !.ledger = run.previous] /\ disk' = conf'
        BY <1>11, <3>1 DEF LaunchFails, Synced
      <4>2. conf'.ledger = run.previous
        BY <1>a, <4>1 DEF Settings
      <4> QED
        BY <2>1, <4>1, <4>2 DEF Replaying
    <3>2. CASE run.cur.content \notin Docs
      BY <1>11, <3>2 DEF LaunchFails, Replaying
    <3> QED
      BY <3>1, <3>2
  <2> QED
    BY <2>1, <2>2 DEF Replaying
<1>12. ASSUME Ready PROVE Replaying'
  <2>1. TodoCalm
    BY <1>12, <1>a, <1>d, RunFields, LeaveType DEF Ready, TodoCalm, RunShape, Working
  <2>2. conf'.ledger = conf.ledger /\ disk'.ledger \in {disk.ledger, conf.ledger}
    BY <1>12, <1>a, <1>c, SettingsFields, CheckpointEffect DEF Ready, NotSynced,
       Synced
  <2>3. barred' = barred /\ \A f \in Files : files'[f] \in {files[f], None}
    BY <1>12 DEF Ready, durable, history
  <2> QED
    BY <2>1, <2>2, <2>3, ReplayingKept
<1>13. ASSUME TimesOut PROVE Replaying'
  <2>1. TodoCalm
    BY <1>13, <1>a, <1>d, RunFields, LeaveType DEF TimesOut, TodoCalm, RunShape,
       Working
  <2>2. conf'.ledger = conf.ledger /\ disk'.ledger \in {disk.ledger, conf.ledger}
    BY <1>13 DEF TimesOut
  <2>3. barred' = barred /\ \A f \in Files : files'[f] \in {files[f], None}
    BY <1>13 DEF TimesOut, durable, history
  <2> QED
    BY <2>1, <2>2, <2>3, ReplayingKept
<1>14. ASSUME Move PROVE Replaying'
  <2>1. TodoCalm
    BY <1>14, <1>a, <1>d, RunFields, LeaveType DEF Move, TodoCalm, RunShape, Working
  <2>2. conf'.ledger = conf.ledger /\ disk'.ledger \in {disk.ledger, conf.ledger}
    BY <1>14, <1>b, <1>c, CheckpointEffect DEF Move, Working
  <2>3. barred' = barred /\ \A f \in Files : files'[f] \in {files[f], None}
    BY <1>14 DEF Move, durable, history
  <2> QED
    BY <2>1, <2>2, <2>3, ReplayingKept
<1>15. ASSUME Moved PROVE Replaying'
  <2>1. TodoCalm
    BY <1>15, <1>a, <1>d, RunFields, LeaveType DEF Moved, TodoCalm, RunShape, Working
  <2>2. conf'.ledger = conf.ledger /\ disk'.ledger \in {disk.ledger, conf.ledger}
    BY <1>15, <1>a, <1>c, SettingsFields, CheckpointEffect DEF Moved, NotSynced,
       Synced
  <2>3. barred' = barred /\ \A f \in Files : files'[f] \in {files[f], None}
    BY <1>15 DEF Moved, durable, history
  <2> QED
    BY <2>1, <2>2, <2>3, ReplayingKept
<1>16. ASSUME NotMoved PROVE Replaying'
  <2>1. TodoCalm
    BY <1>16, NotMovedEffect DEF TodoCalm
  <2>2. conf'.ledger = conf.ledger /\ disk'.ledger \in {disk.ledger, conf.ledger}
    BY <1>16 DEF NotMoved
  <2>3. barred' = barred /\ \A f \in Files : files'[f] \in {files[f], None}
    BY <1>16 DEF NotMoved, durable, history
  <2> QED
    BY <2>1, <2>2, <2>3, ReplayingKept
<1>17. ASSUME RetireRead PROVE Replaying'
  <2>1. TodoCalm
    BY <1>17, <1>a, <1>d, RunFields, LeaveType DEF RetireRead, TodoCalm,
       RunShape, Working
  <2>2. conf'.ledger = conf.ledger /\ disk'.ledger \in {disk.ledger, conf.ledger}
    BY <1>17 DEF RetireRead
  <2>3. barred' = barred /\ \A f \in Files : files'[f] \in {files[f], None}
    BY <1>17 DEF RetireRead, durable, history
  <2> QED
    BY <2>1, <2>2, <2>3, ReplayingKept
<1>18. ASSUME RetireDelete PROVE Replaying'
  <2>1. TodoCalm
    BY <1>18, <1>a, <1>d, RunFields, LeaveType DEF RetireDelete, TodoCalm,
       RunShape, Working
  <2>2. conf'.ledger = conf.ledger /\ disk'.ledger \in {disk.ledger, conf.ledger}
    BY <1>18 DEF RetireDelete
  <2>3. barred' = barred /\ \A f \in Files : files'[f] \in {files[f], None}
    BY <1>18 DEF RetireDelete, TypeOK, history
  <2> QED
    BY <2>1, <2>2, <2>3, ReplayingKept
<1>19. ASSUME Reconcile PROVE Replaying'
  <2>1. TodoCalm
    BY <1>19, <1>a, <1>d, RunFields, LeaveType DEF Reconcile, TodoCalm,
       RunShape, Working
  <2>2. conf'.ledger = conf.ledger /\ disk'.ledger \in {disk.ledger, conf.ledger}
    BY <1>19 DEF Reconcile
  <2>3. barred' = barred /\ \A f \in Files : files'[f] \in {files[f], None}
    BY <1>19 DEF Reconcile, durable, history
  <2> QED
    BY <2>1, <2>2, <2>3, ReplayingKept
<1>20. ASSUME Finish PROVE Replaying'
  <2>1. TodoCalm
    BY <1>20, <1>a, <1>d, RunFields, LeaveType DEF Finish, TodoCalm, RunShape, Working
  <2>2. conf'.ledger = conf.ledger /\ disk'.ledger \in {disk.ledger, conf.ledger}
    BY <1>20, <1>a, <1>c, SettingsFields, CheckpointEffect DEF Finish,
       NotSynced, Synced
  <2>3. barred' = barred /\ \A f \in Files : files'[f] \in {files[f], None}
    BY <1>20 DEF Finish, durable, history
  <2> QED
    BY <2>1, <2>2, <2>3, ReplayingKept
<1>21. ASSUME Interrupt PROVE Replaying'
  <2>1. TodoCalm
    BY <1>21, <1>a, <1>d, RunFields, LeaveType DEF Interrupt, TodoCalm,
       RunShape, Working
  <2>2. conf'.ledger = conf.ledger /\ disk'.ledger \in {disk.ledger, conf.ledger}
    BY <1>21 DEF Interrupt
  <2>3. barred' = barred /\ \A f \in Files : files'[f] \in {files[f], None}
    BY <1>21 DEF Interrupt, durable, history
  <2> QED
    BY <2>1, <2>2, <2>3, ReplayingKept
<1>22. ASSUME NEW e \in Entry, Spare(e) PROVE Replaying'
  <2>1. /\ e \in run.surplus /\ barred' = barred \cup {e.content} /\ files' = files
        /\ conf' = Barring(conf, e.content) /\ disk' = conf'
    BY <1>22 DEF Spare, Synced
  <2>2. /\ run'.surplus = run.surplus \ {e} /\ run'.todo = run.todo /\ run'.auto = run.auto
        /\ run'.pc \in {"sparing", "next"} /\ run'.cur = run.cur
    BY <1>22, <1>a DEF Spare, RunType
  <2>3. ~PartialLoads => barred' \subseteq conf'.ledger \cap disk'.ledger
    BY <1>a, <2>1, SettingsFields DEF Replaying
  <2>4. TodoCalm
    BY <2>2 DEF TodoCalm
  <2>5. ASSUME ~PartialLoads, run'.auto PROVE e \notin run'.todo
    BY <2>1, <2>2, <2>5 DEF Replaying
  <2> QED
    BY <2>1, <2>2, <2>3, <2>4, <2>5, BarringKeeps
<1>23. ASSUME NEW e \in Entry, Pick(e) PROVE Replaying'
  <2>1. conf'.ledger = conf.ledger /\ disk'.ledger \in {disk.ledger, conf.ledger}
    BY <1>23, <1>c, PickEffect, CheckpointEffect, EntryType
  <2>2. /\ run'.auto = run.auto /\ run.cur = None /\ run'.surplus = run.surplus
        /\ run'.todo \subseteq run.todo /\ run'.pc # "native" /\ None \notin run.todo
    BY <1>23, <1>a, RunFields, PickEffect, EntryType
  <2>3. UNCHANGED <<barred, files>>
    BY <1>23 DEF Pick, durable, history
  <2> QED
    BY <2>1, <2>2, <2>3 DEF Replaying
<1>24. ASSUME NEW e \in Entry, Retry(e) PROVE Replaying'
  <2>1. conf'.ledger = conf.ledger /\ disk'.ledger \in {disk.ledger, conf.ledger}
    <3>1. /\ App(e) \in Apps /\ Marked(conf, App(e)) \in Settings
      BY <1>a, EntryType, SettingsUpdates DEF TypeOK
    <3>2. [Marked(conf, App(e)) EXCEPT !.held[App(e)] = 0].ledger = conf.ledger
      BY <1>c, <3>1, SettingsFields
    <3> QED
      BY <1>24, <1>c, <3>1, <3>2, CheckpointEffect DEF Retry
  <2>2. TodoCalm
    BY <1>24, <1>a, RunFields, RetryEffect, EntryType DEF TodoCalm
  <2>3. barred' = barred /\ files' = files
    BY <1>24 DEF Retry, durable
  <2> QED
    BY <2>1, <2>2, <2>3, ReplayingKept
<1>25. ASSUME LateDone PROVE Replaying'
  <2>1. TodoCalm
    BY <1>25, <1>a, <1>d, RunFields, LeaveType DEF LateDone, TodoCalm, RunShape,
       Working
  <2>2. conf'.ledger = conf.ledger /\ disk'.ledger \in {disk.ledger, conf.ledger}
    BY <1>25 DEF LateDone
  <2>3. barred' = barred /\ \A f \in Files : files'[f] \in {files[f], None}
    BY <1>25 DEF LateDone, durable, history
  <2> QED
    BY <2>1, <2>2, <2>3, ReplayingKept
<1>26. ASSUME NEW a \in Apps, LateWindow(a) PROVE Replaying'
  <2>1. TodoCalm
    BY <1>26, <1>a, <1>d, RunFields, LeaveType DEF LateWindow, TodoCalm,
       RunShape, Working
  <2>2. conf'.ledger = conf.ledger /\ disk'.ledger \in {disk.ledger, conf.ledger}
    BY <1>26, <1>a, <1>c, SettingsFields, CheckpointEffect DEF LateWindow,
       NotSynced, Synced
  <2>3. barred' = barred /\ \A f \in Files : files'[f] \in {files[f], None}
    BY <1>26 DEF LateWindow, durable, history
  <2> QED
    BY <2>1, <2>2, <2>3, ReplayingKept
<1>27. ASSUME NEW c \in Contents, Forget(c) PROVE Replaying'
  <2>1. TodoCalm
    BY <1>27, <1>a, <1>d, RunFields, LeaveType DEF Forget, TodoCalm, RunShape, Working
  <2>2. conf'.ledger = conf.ledger /\ disk'.ledger \in {disk.ledger, conf.ledger}
    BY <1>27 DEF Forget
  <2>3. barred' = barred /\ \A f \in Files : files'[f] \in {files[f], None}
    BY <1>27 DEF Forget, durable, history
  <2> QED
    BY <2>1, <2>2, <2>3, ReplayingKept
<1>28. ASSUME NEW f \in Files, NEW c \in Contents, Rewrite(f, c) PROVE Replaying'
  <2>1. UNCHANGED <<conf, disk, run, barred>>
    BY <1>28 DEF Rewrite, history
  <2>2. \A g, h \in Files : files'[g] = files'[h] => g = h \/ files'[g] = None
    BY <1>28 DEF Rewrite, Replaying, TypeOK
  <2> QED
    BY <2>1, <2>2 DEF Replaying
<1>29. ASSUME Shutdown PROVE Replaying'
  <2>1. TodoCalm
    BY <1>29, <1>a, <1>d, RunFields, LeaveType DEF Shutdown, TodoCalm, RunShape,
       Working
  <2>2. conf'.ledger = conf.ledger /\ disk'.ledger \in {disk.ledger, conf.ledger}
    BY <1>29 DEF Shutdown
  <2>3. barred' = barred /\ \A f \in Files : files'[f] \in {files[f], None}
    BY <1>29 DEF Shutdown, durable, history
  <2> QED
    BY <2>1, <2>2, <2>3, ReplayingKept
<1>30. ASSUME CancelShutdown PROVE Replaying'
  <2>1. TodoCalm
    BY <1>30, <1>a, <1>d, RunFields, LeaveType DEF CancelShutdown, TodoCalm,
       RunShape, Working
  <2>2. conf'.ledger = conf.ledger /\ disk'.ledger \in {disk.ledger, conf.ledger}
    BY <1>30 DEF CancelShutdown
  <2>3. barred' = barred /\ \A f \in Files : files'[f] \in {files[f], None}
    BY <1>30 DEF CancelShutdown, durable, history
  <2> QED
    BY <2>1, <2>2, <2>3, ReplayingKept
<1>31. ASSUME Disable PROVE Replaying'
  <2>1. TodoCalm
    BY <1>31, <1>a, <1>d, RunFields, LeaveType DEF Disable, TodoCalm, RunShape,
       Working
  <2>2. conf'.ledger = conf.ledger /\ disk'.ledger \in {disk.ledger, conf.ledger}
    BY <1>31 DEF Disable
  <2>3. barred' = barred /\ \A f \in Files : files'[f] \in {files[f], None}
    BY <1>31 DEF Disable, durable, history
  <2> QED
    BY <2>1, <2>2, <2>3, ReplayingKept
<1>32. ASSUME Flush PROVE Replaying'
  <2>1. /\ conf' = conf /\ disk' = conf /\ run' = run /\ barred' = barred /\ files' = files
    BY <1>32 DEF Flush, durable, history
  <2> QED
    BY <2>1 DEF Replaying
<1>33. ASSUME Tick PROVE Replaying'
  <2>1. TodoCalm
    BY <1>33, <1>a, <1>d, RunFields, LeaveType DEF Tick, TodoCalm, RunShape, Working
  <2>2. conf'.ledger = conf.ledger /\ disk'.ledger \in {disk.ledger, conf.ledger}
    BY <1>33 DEF Tick
  <2>3. barred' = barred /\ \A f \in Files : files'[f] \in {files[f], None}
    BY <1>33 DEF Tick, durable, history
  <2> QED
    BY <2>1, <2>2, <2>3, ReplayingKept
<1>34. ASSUME Crash PROVE Replaying'
  <2>1. /\ conf' = disk /\ disk' = disk /\ run' = NoRun /\ barred' = barred /\ files' = files
    BY <1>34 DEF Crash, durable
  <2> QED
    BY <1>d, <2>1 DEF Replaying
<1> QED
  BY <1>1, <1>2, <1>3, <1>4, <1>5, <1>6, <1>7, <1>8, <1>9, <1>10, <1>11,
     <1>12, <1>13, <1>14, <1>15, <1>16, <1>17, <1>18, <1>19, <1>20, <1>21,
     <1>22, <1>23, <1>24, <1>25, <1>26, <1>27, <1>28, <1>29, <1>30, <1>31,
     <1>32, <1>33, <1>34 DEF Next, RunStep, Environment

(* The invariant holds when the Shell starts.                              *)
LEMMA InitHolds == Init => RestoreInvariant
<1> SUFFICES ASSUME Init PROVE RestoreInvariant OBVIOUS
<1>1. conf \in Settings /\ disk \in Settings
  <2>1. [a \in Apps |-> 0] \in [Apps -> 0..MaxClock] /\ 0 \in 0..MaxClock
    BY BoundsAssumption
  <2> QED
    BY <2>1 DEF Init, Settings
<1>2. run \in RunType
  BY NoRunType DEF Init
<1>3. files \in [Files -> Contents \cup {None}] /\ archive \subseteq Contents
  BY InitialFilesAssumption DEF Init
<1>4. /\ suspect \in [Apps -> 0..MaxClock] /\ clock \in 1..MaxClock
      /\ spent \in [runs : 0..MaxRuns, events : 0..MaxEvents]
  <2>1. 0 \in 0..MaxClock /\ 1 \in 1..MaxClock /\ 0 \in 0..MaxRuns /\ 0 \in 0..MaxEvents
    BY BoundsAssumption
  <2> QED
    BY <2>1 DEF Init
<1>5. TypeOK
  BY <1>1, <1>2, <1>3, <1>4 DEF Init, TypeOK
<1>6. RunShape /\ Durability
  BY DEF Init, RunShape, Durability, MarkerOnDisk, NoRun, Queued, Working
<1>7. Archiving
  BY DEF Init, Archiving, NoRun
<1>8. Holding
  <2>1. /\ \A a \in Apps : suspect[a] = 0 /\ conf.held[a] = 0 /\ a # None
        /\ conf.active = None /\ conf.attempt = 0 /\ disk = conf /\ clock = 1
    BY NoneAssumption DEF Init
  <2>2. run.pc = "idle" /\ ~run.auto
    BY DEF Init, NoRun
  <2> QED
    BY <2>1, <2>2 DEF Holding, Keeps, Safe
<1>9. Replaying
  BY InitialFilesAssumption DEF Init, Replaying, NoRun
<1> QED
  BY <1>5, <1>6, <1>7, <1>8, <1>9 DEF RestoreInvariant

(* Steps of anything else.                                                 *)
LEMMA StutterHolds == RestoreInvariant /\ UNCHANGED vars => RestoreInvariant'
<1> SUFFICES ASSUME RestoreInvariant, UNCHANGED vars PROVE RestoreInvariant' OBVIOUS
<1>1. UNCHANGED <<files, archive, conf, disk, run, pendingDocs, late, shutdown, clock,
                  barred, suspect, spent>>
  BY DEF vars
<1>2. TypeOK'
  BY <1>1 DEF RestoreInvariant, TypeOK
<1>3. RunShape'
  BY <1>1 DEF RestoreInvariant, RunShape, Queued
<1>4. Archiving' /\ Durability'
  BY <1>1 DEF RestoreInvariant, Archiving, Durability, MarkerOnDisk, App
<1>5. Holding'
  BY <1>1 DEF RestoreInvariant, Holding, Keeps, Safe, Remembers, Queued, App
<1>6. Replaying'
  BY <1>1 DEF RestoreInvariant, Replaying
<1> QED
  BY <1>2, <1>3, <1>4, <1>5, <1>6 DEF RestoreInvariant

(* In every reachable state the marker and ledger that a crash would leave *)
(* are enough to hold the interrupted application, and not to ask for the  *)
(* same documents again.                                                   *)
THEOREM Invariance == Spec => []RestoreInvariant
<1>1. RestoreInvariant /\ [Next]_vars => RestoreInvariant'
  BY TypeStep, ShapeStep, ArchivingStep, DurabilityStep, HoldingStep, ReplayingStep,
     StutterHolds DEF RestoreInvariant
<1> QED
  BY InitHolds, <1>1, PTL DEF Spec

(* The ledger never names a record that has no copy in manualRecovery/.    *)
THEOREM BarredArchived == Spec => []BarredIsArchived
<1>1. RestoreInvariant => BarredIsArchived
  BY DEF RestoreInvariant, Archiving, BarredIsArchived
<1> QED
  BY Invariance, <1>1, PTL

(* At each native launch the marker and the ledger entry are durable.      *)
THEOREM LaunchIsDurable == Spec => []DurableBeforeNative
<1>1. RestoreInvariant => DurableBeforeNative
  <2> SUFFICES ASSUME RestoreInvariant, run.pc = "native" PROVE DurableBeforeNative
    BY DEF DurableBeforeNative
  <2>1. App(run.cur) # None
    BY RunFields, EntryType, NoneAssumption DEF RestoreInvariant, TypeOK, RunShape, Working
  <2> QED
    BY <2>1 DEF RestoreInvariant, Durability, MarkerOnDisk, Archiving, DurableBeforeNative
<1> QED
  BY Invariance, <1>1, PTL

(* An automatic run launches or lays out no application that a crash left  *)
(* marked less than Hold ago and that was not restored by hand since.      *)
THEOREM CrashedIsHeld == Spec => []CrashedAppIsHeld
<1>1. RestoreInvariant => CrashedAppIsHeld
  <2> SUFFICES ASSUME RestoreInvariant, run.auto, NEW a \in Apps, NativeWork(a)
               PROVE  Safe(a)
    BY DEF CrashedAppIsHeld, Safe
  <2>1. run.pc \in Working /\ App(run.cur) = a
    BY DEF NativeWork, Working
  <2>2. run.cur \in Queued
    BY <2>1 DEF RestoreInvariant, RunShape, Queued
  <2> QED
    BY <2>1, <2>2 DEF RestoreInvariant, Holding
<1> QED
  BY Invariance, <1>1, PTL

(* If the record files are always read completely, automatic recovery asks *)
(* for no document it has asked for before, nor for a superseded record.   *)
THEOREM NoReplay == ASSUME ~PartialLoads PROVE Spec => NoAutomaticReplay
<1>1. RestoreInvariant /\ [Next]_vars =>
        ((run.pc # "native" /\ run'.pc = "native" /\ run.auto)
           => run.cur.content \notin barred)
  <2> SUFFICES ASSUME RestoreInvariant, [Next]_vars,
                      run.pc # "native", run'.pc = "native", run.auto
               PROVE  run.cur.content \notin barred
    OBVIOUS
  <2>1. run.pc = "turn"
    <3>1. TypeOK /\ RunShape
      BY DEF RestoreInvariant
    <3>a. run \in RunType
      BY <3>1 DEF TypeOK
    <3>2. ASSUME Next PROVE run.pc = "turn"
      <4>1. ~Load /\ ~NotMoved /\ \A e \in Entry : ~Pick(e) /\ ~Retry(e)
        BY <3>1, LoadEffect, NotMovedEffect, PickEffect, RetryEffect
      <4>2. /\ \A auto \in BOOLEAN : ~Begin(auto)
            /\ ~RunFails /\ ~Finish /\ ~Interrupt /\ ~Crash
        <5>1. NoRun.pc # "native"
          BY DEF NoRun
        <5>2. ASSUME NEW auto \in BOOLEAN, Begin(auto) PROVE run'.pc = "loading"
          BY <5>2 DEF Begin, NoRun
        <5> QED
          BY <5>1, <5>2 DEF RunFails, Finish, Interrupt, Crash
      <4>3. /\ ~BeginRefused /\ \A a \in Apps : ~LateWindow(a)
            /\ \A c \in Contents : ~Forget(c) /\ \A f \in Files : ~Rewrite(f, c)
            /\ ~Shutdown /\ ~CancelShutdown /\ ~Flush /\ ~Tick
        BY DEF BeginRefused, LateWindow, Forget, Rewrite, Shutdown,
           CancelShutdown, Flush, Tick
      <4>4. ~Disable /\ ~LateDone
        BY <3>a DEF Disable, LateDone, RunType
      <4>5. /\ ~Preserve /\ ~Reuse /\ ~Launched /\ ~Ready /\ ~Move /\ ~Moved /\ ~Reconcile
            /\ \A e \in Entry : ~Spare(e)
        <5>1. ASSUME Preserve PROVE run'.pc = "turn"
          BY <3>a, <5>1 DEF Preserve, RunType
        <5>7. ASSUME Move PROVE run'.pc = "moving"
          BY <3>a, <5>7 DEF Move, RunType
        <5>8. ASSUME Reconcile PROVE run'.pc = "reconcile"
          BY <3>a, <5>8 DEF Reconcile, RunType
        <5>4. ASSUME Reuse PROVE run'.pc = "ready"
          BY <3>a, <5>4 DEF Reuse, RunType
        <5>5. ASSUME Launched PROVE run.pc = "native"
          BY <5>5 DEF Launched
        <5>6. ASSUME Moved PROVE run'.pc = "retire"
          BY <3>a, <5>6 DEF Moved, RunType
        <5>2. ~Ready
          BY <3>a DEF Ready, RunType
        <5>3. \A e \in Entry : ~Spare(e)
          BY <3>a DEF Spare, RunType
        <5> QED
          BY <5>1, <5>2, <5>3, <5>4, <5>5, <5>6, <5>7, <5>8
      <4>6. ~Ambiguous /\ ~NotLaunched /\ ~LaunchFails /\ ~TimesOut /\ ~RetireRead /\ ~RetireDelete
        <5>1. Leave(run) \in RunType /\ Leave(run).pc # "native"
          BY <3>a, LeaveType
        <5>2. ~Ambiguous /\ ~NotLaunched
          BY <5>1 DEF Ambiguous, NotLaunched
        <5>3. ~LaunchFails /\ ~RetireDelete
          BY <5>1 DEF LaunchFails, RetireDelete, RunType
        <5>4. ASSUME TimesOut PROVE run'.pc = Leave(run).pc
          BY <5>1, <5>4 DEF TimesOut, RunType
        <5>5. ASSUME RetireRead PROVE run'.pc \in {"compared", Leave(run).pc}
          BY <3>a, <5>5 DEF RetireRead, RunType
        <5> QED
          BY <5>1, <5>2, <5>3, <5>4, <5>5
      <4>7. Launch
        BY <3>2, <4>1, <4>2, <4>3, <4>4, <4>5, <4>6 DEF Next, RunStep, Environment
      <4> QED
        BY <4>7 DEF Launch
    <3>3. ~UNCHANGED vars
      BY DEF vars
    <3> QED
      BY <3>2, <3>3
  <2>2. run.cur \in run.todo
    BY <2>1 DEF RestoreInvariant, RunShape
  <2> QED
    BY <2>1, <2>2 DEF RestoreInvariant, Replaying
<1> QED
  BY Invariance, <1>1, PTL DEF Spec, NoAutomaticReplay

(* The one record file that is ever deleted is that of the entry which was *)
(* just laid out, after its bytes were found to be the restored ones.      *)
THEOREM OnlyHandled == Spec => OnlyHandledIsDeleted
<1>1. RestoreInvariant /\ [Next]_vars =>
        \A f \in Files : files[f] # None /\ files'[f] = None
          => /\ run.cur = [file |-> f, content |-> run.read]
             /\ ~(run.cur.content \in run.manualKeys /\ ~run.auto)
  <2> SUFFICES ASSUME RestoreInvariant, [Next]_vars, NEW f \in Files,
                      files[f] # None, files'[f] = None
               PROVE  /\ run.cur = [file |-> f, content |-> run.read]
                      /\ ~(run.cur.content \in run.manualKeys /\ ~run.auto)
    OBVIOUS
  <2>1. TypeOK /\ RunShape /\ files # files'
    BY DEF RestoreInvariant
  <2>2. RetireDelete
    <3>1. \A c \in Contents, g \in Files : ~Rewrite(g, c)
      BY <2>1, NoneAssumption DEF Rewrite, TypeOK
    <3> QED
      BY <2>1, <3>1 DEF vars, Next, RunStep, Environment, durable, Begin,
         BeginRefused, Load,
         RunFails, Preserve, Ambiguous, NotLaunched, Launch, Reuse, Launched, LaunchFails,
         Ready, TimesOut, Move, Moved, NotMoved, RetireRead, Reconcile, Finish, Interrupt,
         Spare, Pick, Retry, LateDone, LateWindow, Forget, Shutdown, CancelShutdown,
         Disable, Flush, Tick, Crash
  <2>3. run.cur \in Entry /\ run.cur.file = f /\ run.read = run.cur.content
    BY <2>1, <2>2, RunFields DEF RetireDelete, RunShape, Working, TypeOK
  <2> QED
    BY <2>1, <2>2, <2>3 DEF Entry, RunShape, RetireDelete
<1> QED
  BY Invariance, <1>1, PTL DEF Spec, OnlyHandledIsDeleted
=============================================================================
