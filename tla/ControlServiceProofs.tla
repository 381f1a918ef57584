------------------------ MODULE ControlServiceProofs ------------------------
(***************************************************************************)
(* Proofs about ControlService, for any clients, operations, limits and    *)
(* dialogs, and about the components of the Shell that MCShell puts side   *)
(* by side.                                                                *)
(***************************************************************************)
EXTENDS MCShell, ClosingProofs, FiniteSetTheorems, SequenceTheorems, TLAPS

(* At most PendingLimit callers wait at a gate.                            *)
GateIsLimited == \A op \in Operations : Cardinality(Asking(op)) <= PendingLimit

(* What a call knows of the owner of the name was so since it was made.    *)
OwnersWereSeen ==
  \A k \in CallSlots :
    /\ calls[k].at = "asking" => manager \in calls[k].seen
    /\ calls[k].at = "replied" => calls[k].owner \in calls[k].seen \cup {NoOwner}

(* A call that waits is a client's call of an operation.                   *)
CallsHaveSenders ==
  \A k \in CallSlots : calls[k].at \in {"asking", "replied"} =>
                         calls[k].op \in Operations /\ calls[k].sender \in Clients

(* After disable() the shutdown flag stays, and no timer of the saver is   *)
(* armed.  That of the previous session may be, by startup-complete, but   *)
(* not before.                                                             *)
LifeIsOver ==
  /\ ~up => /\ runtime.shutdown
            /\ ~saver.initial /\ ~saver.periodic
  /\ runtime.starting => ~previous.timer /\ ~opening.idle

(* Dialogs are made one after the other, and the last one is known as long *)
(* as the service is there: disable() stops its countdown and no other.    *)
DialogsInOrder ==
  /\ \A d \in Dialogs : dialogs[d].timer = "running" => dialogs[d].at # "none"
  /\ up => \A d \in Dialogs : /\ dialogs[d].at # "none" => d <= latest
                              /\ d < latest => Replaced(d)
  /\ ~up => \A d \in Dialogs : dialogs[d].timer = "running" => Replaced(d)

CallsInvariant ==
  /\ manager \in Clients \cup {NoOwner}
  /\ calls \in [CallSlots -> CallType]
  /\ last \in [Operations -> Seq(Clients)]
  /\ \A op \in Operations : IsInjective(last[op])
  /\ limited \in [Operations -> SUBSET Clients]
  /\ GateIsLimited
  /\ OwnersWereSeen
  /\ CallsHaveSenders

LifeInvariant ==
  /\ up \in BOOLEAN
  /\ runtime \in RuntimeType
  /\ lately \subseteq Operations \cup {"save-history", "restore", "restore-history"}
  /\ saver \in SaverType
  /\ history \in 0..(HistoryLimit + 1)
  /\ previous \in [required: BOOLEAN, handler: BOOLEAN, timer: BOOLEAN]
  /\ dialogs \in [Dialogs -> DialogType]
  /\ latest \in Dialogs \cup {0}
  /\ opening \in [handlers: Nat, idle: BOOLEAN]
  /\ used \in 0..MaxInputs
  /\ LifeIsOver
  /\ DialogsInOrder

lifeVars == <<up, runtime, lately, saver, history, previous, dialogs, latest, opening, used>>
callVars == <<manager, calls, last, limited>>

-----------------------------------------------------------------------------
(* The gate remembers each caller once.                                    *)
LEMMA RememberedOnce ==
  ASSUME CallsInvariant, NEW op \in Operations, NEW c \in Clients
  PROVE  Remembered(op, c) \in Seq(Clients) /\ IsInjective(Remembered(op, c))
<1> DEFINE s == last[op]
           t == IF Len(s) >= LastLimit THEN Tail(s) ELSE s
<1>1. s \in Seq(Clients) /\ IsInjective(s)
  BY DEF CallsInvariant
<1>2. CASE c \in Range(s)
  BY <1>1, <1>2 DEF Remembered
<1>3. CASE c \notin Range(s)
  <2>1. \A i \in DOMAIN s : s[i] # c
    BY <1>3 DEF Range
  <2>2. t \in Seq(Clients) /\ (\A i, j \in 1..Len(t) : t[i] = t[j] => i = j)
        /\ (\A i \in 1..Len(t) : t[i] # c)
    <3>1. CASE Len(s) >= LastLimit
      <4>1. s # <<>>
        BY <1>1, <3>1, ServiceAssumption
      <4>2. /\ Tail(s) \in Seq(Clients) /\ Len(Tail(s)) = Len(s) - 1
            /\ \A i \in 1..Len(Tail(s)) : Tail(s)[i] = s[i+1]
        BY <1>1, <4>1, HeadTailProperties
      <4>3. \A i \in 1..Len(Tail(s)) : i + 1 \in DOMAIN s
        BY <1>1, <4>2
      <4>4. QED
        BY <1>1, <2>1, <3>1, <4>2, <4>3 DEF IsInjective
    <3>2. CASE ~(Len(s) >= LastLimit)
      BY <1>1, <2>1, <3>2 DEF IsInjective
    <3>3. QED
      BY <3>1, <3>2
  <2> HIDE DEF t
  <2>3. /\ Append(t, c) \in Seq(Clients) /\ Len(Append(t, c)) = Len(t) + 1
        /\ \A i \in 1..Len(t) : Append(t, c)[i] = t[i]
        /\ Append(t, c)[Len(t) + 1] = c
    BY <2>2, AppendProperties
  <2>4. DOMAIN Append(t, c) = 1..(Len(t) + 1) /\ Len(t) \in Nat
    BY <2>2, <2>3
  <2>5. IsInjective(Append(t, c))
    BY <2>2, <2>3, <2>4 DEF IsInjective
  <2>6. Remembered(op, c) = Append(t, c)
    BY <1>3 DEF Remembered, t
  <2>7. QED
    BY <2>3, <2>5, <2>6
<1>4. QED
  BY <1>2, <1>3

(* Only a new call may have one more caller wait at its gate.              *)
LEMMA NobodyMoreWaits ==
  ASSUME CallsInvariant,
         \A k \in CallSlots : calls'[k].at \in {"asking", "replied"} =>
            calls[k].at \in {"asking", "replied"} /\ calls'[k].op = calls[k].op
  PROVE  GateIsLimited'
<1> SUFFICES ASSUME NEW op \in Operations
             PROVE  Cardinality(Asking(op)') <= PendingLimit
  BY DEF GateIsLimited
<1>1. Asking(op) \subseteq CallSlots /\ Asking(op)' \subseteq Asking(op)
  BY DEF Asking
<1>2. IsFiniteSet(Asking(op))
  BY <1>1, ServiceAssumption, FS_Subset
<1>3. Cardinality(Asking(op)') <= Cardinality(Asking(op)) /\ Cardinality(Asking(op)') \in Nat
      /\ Cardinality(Asking(op)) \in Nat
  BY <1>1, <1>2, FS_Subset, FS_CardinalityType
<1>4. QED
  BY <1>3, ServiceAssumption DEF CallsInvariant, GateIsLimited

-----------------------------------------------------------------------------
(* The calls of the manager                                                *)

LEMMA ManagerCallInv ==
  ASSUME CallsInvariant, NEW c \in Clients, NEW op \in Operations, ManagerCall(c, op)
  PROVE  CallsInvariant'
<1> DEFINE k == CHOOSE k \in CallSlots : calls[k].at = "off"
           new == [NoCall EXCEPT !.at = "asking", !.sender = c, !.op = op, !.seen = {manager}]
<1>1. CASE UNCHANGED <<calls, last, limited>>
  BY <1>1 DEF ManagerCall, CallsInvariant, GateIsLimited, Asking, OwnersWereSeen, CallsHaveSenders
<1>2. CASE ~UNCHANGED <<calls, last, limited>>
  <2>1. /\ calls' = [calls EXCEPT ![k] = new]
        /\ last' = [last EXCEPT ![op] = Remembered(op, c)]
        /\ limited' = [limited EXCEPT ![op] = (@ \cup {c}) \cap Range(Remembered(op, c))]
        /\ manager' = manager
        /\ ~(Cardinality(Asking(op)) >= PendingLimit)
    BY <1>2 DEF ManagerCall
  <2>2. k \in CallSlots /\ calls[k].at = "off"
    BY DEF ManagerCall
  <2>3. new \in CallType /\ new.at = "asking" /\ new.op = op /\ new.seen = {manager}
        /\ new.sender = c
    BY DEF CallsInvariant, NoCall, CallType
  <2> HIDE DEF k, new
  <2>4. calls' \in [CallSlots -> CallType] /\ \A i \in CallSlots : calls'[i] = IF i = k THEN new ELSE calls[i]
    BY <2>1, <2>2, <2>3 DEF CallsInvariant
  <2>5. last' \in [Operations -> Seq(Clients)] /\ \A o \in Operations : IsInjective(last'[o])
    BY <2>1, RememberedOnce DEF CallsInvariant
  <2>6. limited' \in [Operations -> SUBSET Clients]
    BY <2>1 DEF CallsInvariant
  <2>7. OwnersWereSeen'
    BY <2>1, <2>3, <2>4 DEF CallsInvariant, OwnersWereSeen
  <2>10. CallsHaveSenders'
    BY <2>3, <2>4 DEF CallsInvariant, CallsHaveSenders
  <2>8. GateIsLimited'
    <3> SUFFICES ASSUME NEW o \in Operations
                 PROVE  Cardinality(Asking(o)') <= PendingLimit
      BY DEF GateIsLimited
    <3>1. Asking(o) \subseteq CallSlots /\ IsFiniteSet(Asking(o))
      BY ServiceAssumption, FS_Subset DEF Asking
    <3>2. CASE o # op
      <4>1. Asking(o)' = Asking(o)
        BY <2>2, <2>3, <2>4, <3>2 DEF Asking
      <4>2. QED
        BY <4>1 DEF CallsInvariant, GateIsLimited
    <3>3. CASE o = op
      <4>1. Asking(o)' \subseteq Asking(o) \cup {k}
        BY <2>4, <3>3 DEF Asking
      <4>2. IsFiniteSet(Asking(o) \cup {k}) /\ Cardinality(Asking(o) \cup {k}) <= Cardinality(Asking(o)) + 1
        <5> DEFINE A == Asking(o)
        <5>1. IsFiniteSet(A)
          BY <3>1
        <5> HIDE DEF A
        <5>2. Cardinality(A) \in Nat
          BY <5>1, FS_CardinalityType
        <5>3. /\ IsFiniteSet(A \cup {k})
              /\ Cardinality(A \cup {k}) = IF k \in A THEN Cardinality(A) ELSE Cardinality(A) + 1
          BY <5>1, FS_AddElement
        <5>4. IsFiniteSet(A \cup {k}) /\ Cardinality(A \cup {k}) <= Cardinality(A) + 1
          BY <5>2, <5>3
        <5>5. QED
          BY <5>4 DEF A
      <4>3. /\ Cardinality(Asking(o)') <= Cardinality(Asking(o) \cup {k})
            /\ Cardinality(Asking(o)') \in Nat /\ Cardinality(Asking(o)) \in Nat
            /\ Cardinality(Asking(o) \cup {k}) \in Nat
        BY <3>1, <4>1, <4>2, FS_Subset, FS_CardinalityType
      <4>4. QED
        BY <2>1, <3>3, <4>2, <4>3, ServiceAssumption
    <3>4. QED
      BY <3>2, <3>3
  <2>9. QED
    BY <2>1, <2>4, <2>5, <2>6, <2>7, <2>8, <2>10 DEF CallsInvariant
<1>3. QED
  BY <1>1, <1>2

(* The bus answers, the answer is taken, the caller is answered.           *)
LEMMA CallStepInv ==
  ASSUME CallsInvariant, NEW k \in CallSlots, OwnerReplies(k) \/ ReplyArrives(k) \/ CallEnds(k)
  PROVE  CallsInvariant'
<1>1. UNCHANGED <<manager, last, limited>>
  BY DEF OwnerReplies, ReplyArrives, CallEnds
<1>2. calls[k] \in CallType /\ NoCall \in CallType /\ NoCall.at = "off"
  BY DEF CallsInvariant, NoCall, CallType
<1>3. PICK c \in CallType :
        /\ calls' = [calls EXCEPT ![k] = c]
        /\ c.at = "asking" => calls[k].at = "asking" /\ c = calls[k]
        /\ c.at = "replied" => /\ calls[k].at \in {"asking", "replied"}
                               /\ c.op = calls[k].op /\ c.sender = calls[k].sender
                               /\ c.owner \in c.seen \cup {NoOwner}
  <2>1. CASE OwnerReplies(k)
    <3>1. PICK owner \in {manager, NoOwner} :
            calls' = [calls EXCEPT ![k].at = "replied", ![k].owner = owner]
      BY <2>1 DEF OwnerReplies
    <3> DEFINE c == [calls[k] EXCEPT !.at = "replied", !.owner = owner]
    <3>2. c \in CallType /\ c.at = "replied" /\ c.op = calls[k].op /\ c.owner = owner
          /\ c.seen = calls[k].seen /\ c.sender = calls[k].sender
      BY <1>2 DEF CallType, CallsInvariant
    <3>3. calls[k].at = "asking" /\ manager \in calls[k].seen
      BY <2>1 DEF OwnerReplies, CallsInvariant, OwnersWereSeen
    <3>4. calls' = [calls EXCEPT ![k] = c]
      BY <3>1 DEF CallsInvariant
    <3> HIDE DEF c
    <3>5. QED
      BY <3>2, <3>3, <3>4
  <2>2. CASE ReplyArrives(k)
    <3> DEFINE c == [calls[k] EXCEPT !.at = "worked"]
    <3>1. c \in CallType /\ c.at = "worked"
      BY <1>2 DEF CallType
    <3>2. calls' = [calls EXCEPT ![k] = c] \/ calls' = [calls EXCEPT ![k] = NoCall]
      BY <2>2 DEF ReplyArrives, Answered, CallsInvariant
    <3> HIDE DEF c
    <3>3. QED
      BY <1>2, <3>1, <3>2
  <2>3. CASE CallEnds(k)
    BY <1>2, <2>3 DEF CallEnds
  <2>4. QED
    BY <2>1, <2>2, <2>3
<1>4. calls' \in [CallSlots -> CallType] /\ \A i \in CallSlots : calls'[i] = IF i = k THEN c ELSE calls[i]
  BY <1>3 DEF CallsInvariant
<1>5. GateIsLimited'
  BY <1>3, <1>4, NobodyMoreWaits
<1>6. OwnersWereSeen'
  BY <1>1, <1>3, <1>4 DEF CallsInvariant, OwnersWereSeen
<1>7. CallsHaveSenders'
  BY <1>3, <1>4 DEF CallsInvariant, CallsHaveSenders
<1>8. QED
  BY <1>1, <1>4, <1>5, <1>6, <1>7 DEF CallsInvariant

LEMMA ManagerChangesInv ==
  ASSUME CallsInvariant, ManagerChanges
  PROVE  CallsInvariant'
<1>1. PICK owner \in (Clients \cup {NoOwner}) \ {manager} :
        /\ manager' = owner
        /\ calls' = [k \in CallSlots |-> IF calls[k].at = "asking"
                       THEN [calls[k] EXCEPT !.seen = @ \cup {owner}] ELSE calls[k]]
  BY DEF ManagerChanges
<1>2. \A k \in CallSlots : LET c == [calls[k] EXCEPT !.seen = @ \cup {owner}] IN
        /\ c \in CallType /\ c.at = calls[k].at /\ c.op = calls[k].op
        /\ c.owner = calls[k].owner /\ c.sender = calls[k].sender /\ owner \in c.seen
  BY DEF CallsInvariant, CallType
<1>3. calls' \in [CallSlots -> CallType]
  BY <1>1, <1>2 DEF CallsInvariant
<1>4. GateIsLimited'
  BY <1>1, <1>2, NobodyMoreWaits
<1>5. OwnersWereSeen'
  BY <1>1, <1>2 DEF CallsInvariant, OwnersWereSeen
<1>6. CallsHaveSenders'
  BY <1>1, <1>2 DEF CallsInvariant, CallsHaveSenders
<1>7. QED
  BY <1>1, <1>3, <1>4, <1>5, <1>6 DEF ManagerChanges, CallsInvariant

(* disable() clears the gates; a second that is over changes one of them.  *)
LEMMA GatesClearedInv ==
  ASSUME CallsInvariant, Disable \/ \E c \in Clients, op \in Operations : LimitEnds(c, op)
  PROVE  CallsInvariant'
<1>1. CASE Disable
  <2>1. \A op \in Operations : last'[op] = <<>> /\ IsInjective(<<>>)
    BY <1>1 DEF Disable, IsInjective
  <2>2. last' \in [Operations -> Seq(Clients)] /\ limited' \in [Operations -> SUBSET Clients]
    BY <1>1, EmptySeq DEF Disable
  <2>3. QED
    BY <1>1, <2>1, <2>2 DEF Disable, CallsInvariant, GateIsLimited, Asking, OwnersWereSeen, CallsHaveSenders
<1>2. CASE \E c \in Clients, op \in Operations : LimitEnds(c, op)
  BY <1>2 DEF LimitEnds, CallsInvariant, GateIsLimited, Asking, OwnersWereSeen, CallsHaveSenders
<1>3. QED
  BY <1>1, <1>2

LEMMA CallsUnchanged ==
  ASSUME CallsInvariant, UNCHANGED callVars
  PROVE  CallsInvariant'
BY DEF callVars, CallsInvariant, GateIsLimited, Asking, OwnersWereSeen, CallsHaveSenders

-----------------------------------------------------------------------------
(* The life of the service                                                 *)

(* What saveNow() sets, and what its end leaves                            *)
LEMMA SaveTypes ==
  ASSUME LifeInvariant
  PROVE  /\ NoSave \in SaveType
         /\ \A forced \in BOOLEAN : BeginSnapshot(forced) \in SaveType
         /\ \A files \in 0..(HistoryLimit + 1) : Trimmed(files) \in 0..(HistoryLimit + 1)
BY ServiceAssumption DEF LifeInvariant, NoSave, SaveType, SaverType, BeginSnapshot, Trimmed

(* A restore that is asked for changes one flag, and none after disable(). *)
LEMMA StartRestoreOk ==
  ASSUME LifeInvariant, StartRestore
  PROVE  /\ runtime' \in RuntimeType
         /\ runtime'.shutdown = runtime.shutdown /\ runtime'.starting = runtime.starting
         /\ ~up => runtime'.restoring = runtime.restoring
<1>1. PICK restoring \in {runtime.restoring, runtime.restoring \/ ~runtime.shutdown} :
        runtime' = [runtime EXCEPT !.restoring = restoring]
  BY DEF StartRestore, Restores
<1>2. runtime \in RuntimeType /\ restoring \in BOOLEAN
  BY <1>1 DEF LifeInvariant, RuntimeType
<1>3. ~up => restoring = runtime.restoring
  BY <1>1, <1>2 DEF LifeInvariant, LifeIsOver, RuntimeType
<1>4. QED
  BY <1>1, <1>2, <1>3 DEF RuntimeType

LEMMA LifeUnchanged ==
  ASSUME LifeInvariant, UNCHANGED <<up, runtime, saver, history, previous, dialogs, latest, opening>>,
         lately' \subseteq Operations \cup {"save-history", "restore", "restore-history"},
         used' \in 0..MaxInputs
  PROVE  LifeInvariant'
BY DEF LifeInvariant, LifeIsOver, DialogsInOrder, Replaced

(* What leaves the dialogs alone leaves their order alone.                 *)
LEMMA SameDialogs ==
  ASSUME LifeInvariant, UNCHANGED <<up, dialogs, latest>>
  PROVE  DialogsInOrder'
BY DEF LifeInvariant, DialogsInOrder, Replaced

LEMMA EventCounted ==
  ASSUME LifeInvariant, ServiceEvent
  PROVE  used' \in 0..MaxInputs
BY ServiceAssumption DEF LifeInvariant, ServiceEvent

(* Calls use up an interval of their operation.                            *)
LEMMA CallLifeInv ==
  ASSUME CallsInvariant, LifeInvariant,
         \/ \E c \in Clients, op \in Operations : ManagerCall(c, op)
         \/ \E c \in Clients, op \in Operations : LimitEnds(c, op)
         \/ \E k \in CallSlots : OwnerReplies(k) \/ ReplyArrives(k) \/ CallEnds(k)
         \/ ManagerChanges
         \/ \E op \in lately : IntervalEnds(op)
  PROVE  LifeInvariant'
<1>1. UNCHANGED <<up, runtime, saver, history, previous, dialogs, latest, opening>>
  BY DEF ManagerCall, LimitEnds, OwnerReplies, ReplyArrives, CallEnds, ManagerChanges, IntervalEnds
<1>2. used' \in 0..MaxInputs
  BY EventCounted
     DEF LifeInvariant, ManagerCall, LimitEnds, OwnerReplies, ReplyArrives, CallEnds, ManagerChanges,
         IntervalEnds
<1>3. lately' \subseteq Operations \cup {"save-history", "restore", "restore-history"}
  <2>0. lately \subseteq Operations \cup {"save-history", "restore", "restore-history"}
    BY DEF LifeInvariant
  <2>1. ASSUME NEW k \in CallSlots, ReplyArrives(k)
        PROVE  lately' \subseteq Operations \cup {"save-history", "restore", "restore-history"}
    <3>1. up /\ calls[k].owner = calls[k].sender => calls[k].op \in Operations
      BY <2>1 DEF ReplyArrives, CallsInvariant, CallsHaveSenders
    <3>2. QED
      BY <2>0, <2>1, <3>1 DEF ReplyArrives, Answered, OperationWorks
  <2>2. QED
    BY <2>0, <2>1
       DEF ManagerCall, LimitEnds, OwnerReplies, CallEnds, ManagerChanges, IntervalEnds
<1>4. QED
  BY <1>1, <1>2, <1>3, LifeUnchanged

LEMMA SaverInv ==
  ASSUME LifeInvariant,
         InitialSave \/ PeriodicSave \/ SaveHistoryNow \/ RescheduleSaves \/ BuildEnds \/ WriteEnds
  PROVE  LifeInvariant'
<1>1. UNCHANGED <<up, runtime, previous, dialogs, latest, opening>>
  BY DEF InitialSave, PeriodicSave, SaveHistoryNow, RescheduleSaves, BuildEnds, WriteEnds
<1>2. used' \in 0..MaxInputs
  BY EventCounted
     DEF LifeInvariant, InitialSave, PeriodicSave, SaveHistoryNow, RescheduleSaves, BuildEnds, WriteEnds
<1>3. lately' \subseteq Operations \cup {"save-history", "restore", "restore-history"}
  BY DEF LifeInvariant, InitialSave, PeriodicSave, SaveHistoryNow, RescheduleSaves, BuildEnds, WriteEnds
<1>4. /\ saver' \in SaverType
      /\ ~up => (saver'.initial => saver.initial) /\ (saver'.periodic => saver.periodic)
  <2>0. saver \in SaverType /\ (~up => ~saver.initial /\ ~saver.periodic)
    BY DEF LifeInvariant, LifeIsOver
  <2>1. CASE InitialSave \/ PeriodicSave \/ SaveHistoryNow
    BY <2>0, <2>1, SaveTypes DEF InitialSave, PeriodicSave, SaveHistoryNow, SaverType
  <2>2. CASE RescheduleSaves
    BY <2>0, <2>2 DEF RescheduleSaves, SaverType
  <2>3. CASE BuildEnds
    <3>1. CASE saver' = [saver EXCEPT !.save.at = "writing"]
      BY <2>0, <3>1 DEF SaverType, SaveType
    <3>2. CASE saver' = [saver EXCEPT !.save = NoSave]
      BY <2>0, <3>2, SaveTypes DEF SaverType
    <3>3. QED
      BY <2>3, <3>1, <3>2 DEF BuildEnds, SaveEnds
  <2>4. CASE WriteEnds
    BY <2>0, <2>4, SaveTypes DEF WriteEnds, SaveEnds, SaverType
  <2>5. QED
    BY <2>1, <2>2, <2>3, <2>4
<1>5. history' \in 0..(HistoryLimit + 1)
  <2>0. history \in 0..(HistoryLimit + 1) /\ HistoryLimit \in Nat
    BY ServiceAssumption DEF LifeInvariant
  <2>1. CASE InitialSave \/ PeriodicSave \/ SaveHistoryNow \/ RescheduleSaves
    BY <2>0, <2>1 DEF InitialSave, PeriodicSave, SaveHistoryNow, RescheduleSaves
  <2>2. CASE BuildEnds
    BY <2>0, <2>2, SaveTypes DEF BuildEnds, SaveEnds
  <2>3. CASE WriteEnds
    <3>1. history <= HistoryLimit => history + 1 \in 0..(HistoryLimit + 1)
      BY <2>0
    <3>2. QED
      BY <2>0, <2>3, <3>1, SaveTypes DEF WriteEnds, SaveEnds
  <2>4. QED
    BY <2>1, <2>2, <2>3
<1>6. QED
  BY <1>1, <1>2, <1>3, <1>4, <1>5, SameDialogs DEF LifeInvariant, LifeIsOver

(* Restores that need no dialog                                            *)
LEMMA RestoreInv ==
  ASSUME LifeInvariant,
         RestoreEnds \/ ManualRestore \/ RestorePrevious \/ PreviousTimer \/ StartupComplete
  PROVE  LifeInvariant'
<1>1. UNCHANGED <<up, saver, history, dialogs, latest>>
  BY DEF RestoreEnds, ManualRestore, RestorePrevious, PreviousTimer, StartupComplete
<1>2. used' \in 0..MaxInputs
  BY EventCounted
     DEF LifeInvariant, RestoreEnds, ManualRestore, RestorePrevious, PreviousTimer, StartupComplete
<1>3. lately' \subseteq Operations \cup {"save-history", "restore", "restore-history"}
  BY DEF LifeInvariant, RestoreEnds, ManualRestore, RestorePrevious, PreviousTimer, StartupComplete
<1>4. runtime' \in RuntimeType /\ runtime'.shutdown = runtime.shutdown
  BY StartRestoreOk
     DEF LifeInvariant, RuntimeType, RestoreEnds, ManualRestore, RestorePrevious, PreviousTimer,
         StartupComplete
<1>5. /\ previous' \in [required: BOOLEAN, handler: BOOLEAN, timer: BOOLEAN]
      /\ opening' \in [handlers: Nat, idle: BOOLEAN]
  <2>0. /\ previous \in [required: BOOLEAN, handler: BOOLEAN, timer: BOOLEAN]
        /\ opening \in [handlers: Nat, idle: BOOLEAN]
    BY DEF LifeInvariant
  <2>1. CASE StartupComplete
    <3>1. (opening.handlers > 0) \in BOOLEAN /\ (previous.timer \/ previous.handler) \in BOOLEAN
      OBVIOUS
    <3>2. previous' = [previous EXCEPT !.handler = FALSE, !.timer = previous.timer \/ previous.handler]
      BY <2>1 DEF StartupComplete
    <3>3. QED
      BY <2>0, <2>1, <3>1, <3>2 DEF StartupComplete
  <2>2. CASE RestoreEnds \/ ManualRestore \/ RestorePrevious \/ PreviousTimer
    BY <2>0, <2>2 DEF RestoreEnds, ManualRestore, RestorePrevious, PreviousTimer
  <2>3. QED
    BY <2>1, <2>2
<1>6. runtime'.starting => ~previous'.timer /\ ~opening'.idle
  <2>1. CASE StartupComplete
    BY <2>1 DEF StartupComplete, LifeInvariant, RuntimeType
  <2>2. CASE RestorePrevious
    BY <2>2 DEF RestorePrevious, LifeInvariant, LifeIsOver
  <2>3. CASE RestoreEnds \/ ManualRestore \/ PreviousTimer
    <3>1. runtime'.starting = runtime.starting
      BY <2>3, StartRestoreOk DEF RestoreEnds, ManualRestore, PreviousTimer, LifeInvariant, RuntimeType
    <3>2. (previous'.timer => previous.timer) /\ UNCHANGED opening
      BY <2>3 DEF RestoreEnds, ManualRestore, PreviousTimer, LifeInvariant
    <3>3. QED
      BY <3>1, <3>2 DEF LifeInvariant, LifeIsOver
  <2>4. QED
    BY <2>1, <2>2, <2>3
<1>7. QED
  BY <1>1, <1>2, <1>3, <1>4, <1>5, <1>6, SameDialogs DEF LifeInvariant, LifeIsOver

(* RestoreSelectedSession() makes the dialog after the last one.           *)
LEMMA NewDialog ==
  ASSUME RestoreSelected
  PROVE  \E d \in Dialogs, made \in DialogType :
           /\ d = latest + 1 /\ latest' = d /\ made.at # "none" /\ up
           /\ dialogs' = [dialogs EXCEPT ![d] = made]
<1>1. PICK d \in Dialogs, exists \in BOOLEAN :
        /\ d = latest + 1 /\ latest' = d
        /\ \/ dialogs' = [dialogs EXCEPT ![d] = [NoDialog EXCEPT !.at = "waiting"]]
           \/ dialogs' = [dialogs EXCEPT ![d] =
                [at |-> IF runtime.starting THEN "waiting" ELSE "open",
                 timer |-> IF exists /\ ~runtime.starting THEN "running" ELSE "off",
                 confirms |-> FALSE]]
  BY DEF RestoreSelected
<1>2. CASE dialogs' = [dialogs EXCEPT ![d] = [NoDialog EXCEPT !.at = "waiting"]]
  <2> DEFINE made == [NoDialog EXCEPT !.at = "waiting"]
  <2>1. made \in DialogType /\ made.at # "none"
    BY DEF NoDialog, DialogType
  <2> HIDE DEF made
  <2>2. dialogs' = [dialogs EXCEPT ![d] = made]
    BY <1>2 DEF made
  <2>3. QED
    BY <1>1, <2>1, <2>2 DEF RestoreSelected
<1>3. CASE dialogs' = [dialogs EXCEPT ![d] =
             [at |-> IF runtime.starting THEN "waiting" ELSE "open",
              timer |-> IF exists /\ ~runtime.starting THEN "running" ELSE "off",
              confirms |-> FALSE]]
  <2> DEFINE made == [at |-> IF runtime.starting THEN "waiting" ELSE "open",
                      timer |-> IF exists /\ ~runtime.starting THEN "running" ELSE "off",
                      confirms |-> FALSE]
  <2>1. made \in DialogType /\ made.at # "none"
    BY DEF DialogType
  <2> HIDE DEF made
  <2>2. dialogs' = [dialogs EXCEPT ![d] = made]
    BY <1>3 DEF made
  <2>3. QED
    BY <1>1, <2>1, <2>2 DEF RestoreSelected
<1>4. QED
  BY <1>1, <1>2, <1>3

(* The dialogs, and what they restore                                      *)
LEMMA DialogInv ==
  ASSUME LifeInvariant,
         \/ RestoreSelected \/ OpenIdle
         \/ \E d \in Dialogs : DialogTick(d) \/ DialogButton(d) \/ DialogClosed(d)
  PROVE  LifeInvariant'
<1>1. UNCHANGED <<up, lately, saver, history, previous>>
  BY DEF RestoreSelected, OpenIdle, DialogTick, DialogButton, DialogClosed
<1>2. used' \in 0..MaxInputs
  BY EventCounted DEF LifeInvariant, RestoreSelected, OpenIdle, DialogTick, DialogButton, DialogClosed
<1>3. /\ runtime' \in RuntimeType /\ runtime'.shutdown = runtime.shutdown
      /\ runtime'.starting = runtime.starting
  BY StartRestoreOk
     DEF LifeInvariant, RestoreSelected, OpenIdle, DialogTick, DialogButton, DialogClosed
<1>4. latest' \in Dialogs \cup {0} /\ opening' \in [handlers: Nat, idle: BOOLEAN]
  <2>0. latest \in Dialogs \cup {0} /\ opening \in [handlers: Nat, idle: BOOLEAN]
    BY DEF LifeInvariant
  <2>1. CASE RestoreSelected
    <3>1. opening.handlers + 1 \in Nat
      BY <2>0
    <3>2. QED
      BY <2>0, <2>1, <3>1 DEF RestoreSelected
  <2>2. CASE OpenIdle \/ \E d \in Dialogs : DialogTick(d) \/ DialogButton(d) \/ DialogClosed(d)
    BY <2>0, <2>2 DEF OpenIdle, DialogTick, DialogButton, DialogClosed
  <2>3. QED
    BY <2>1, <2>2
<1>5. dialogs' \in [Dialogs -> DialogType]
  <2>0. dialogs \in [Dialogs -> DialogType]
    BY DEF LifeInvariant
  <2>1. CASE RestoreSelected
    <3>1. PICK d \in Dialogs, made \in DialogType : dialogs' = [dialogs EXCEPT ![d] = made]
      BY <2>1, NewDialog
    <3>2. QED
      BY <2>0, <3>1
  <2>2. CASE OpenIdle
    <3>1. latest # 0 => latest \in Dialogs
      BY DEF LifeInvariant
    <3>2. QED
      BY <2>0, <2>2, <3>1 DEF OpenIdle, DialogType
  <2>3. ASSUME NEW d \in Dialogs, DialogTick(d) \/ DialogButton(d) \/ DialogClosed(d)
        PROVE  dialogs' \in [Dialogs -> DialogType]
    <3>1. CASE DialogTick(d)
      BY <2>0, <3>1 DEF DialogTick, DialogType
    <3>2. CASE DialogButton(d)
      BY <2>0, <3>2 DEF DialogButton, DialogType
    <3>3. CASE DialogClosed(d)
      BY <2>0, <3>3 DEF DialogClosed, DialogType, NoDialog
    <3>4. QED
      BY <2>3, <3>1, <3>2, <3>3
  <2>4. QED
    BY <2>1, <2>2, <2>3
<1>6. DialogsInOrder'
  <2>0. dialogs \in [Dialogs -> DialogType] /\ latest \in Dialogs \cup {0} /\ Dialogs \subseteq Nat \ {0}
    BY ServiceAssumption DEF LifeInvariant
  <2>1. CASE RestoreSelected
    <3>1. PICK d \in Dialogs, made \in DialogType :
            /\ d = latest + 1 /\ latest' = d /\ made.at # "none" /\ up
            /\ dialogs' = [dialogs EXCEPT ![d] = made]
      BY <2>1, NewDialog
    <3>2. \A e \in Dialogs : dialogs'[e] = IF e = d THEN made ELSE dialogs[e]
      BY <2>0, <3>1
    <3>3. ASSUME NEW e \in Dialogs, e < d
          PROVE  Replaced(e)'
      <4>1. CASE e < latest
        <5>1. e + 1 \in Dialogs /\ dialogs[e + 1].at # "none"
          BY <3>1, <4>1 DEF LifeInvariant, DialogsInOrder, Replaced
        <5>2. QED
          BY <3>1, <3>2, <5>1 DEF Replaced
      <4>2. CASE e = latest
        BY <3>1, <3>2, <4>2 DEF Replaced
      <4>3. QED
        BY <2>0, <3>1, <3>3, <4>1, <4>2
    <3>4. ASSUME NEW e \in Dialogs, dialogs'[e].at # "none"
          PROVE  e <= d
      <4>1. e = d \/ e <= latest
        BY <3>1, <3>2, <3>4 DEF LifeInvariant, DialogsInOrder
      <4>2. QED
        BY <2>0, <3>1, <4>1
    <3>5. \A e \in Dialogs : dialogs'[e].timer = "running" => dialogs'[e].at # "none"
      BY <3>1, <3>2 DEF LifeInvariant, DialogsInOrder
    <3>6. QED
      BY <1>1, <3>1, <3>3, <3>4, <3>5 DEF DialogsInOrder
  <2>2. CASE OpenIdle \/ \E d \in Dialogs : DialogTick(d) \/ DialogButton(d) \/ DialogClosed(d)
    <3>1. /\ \A e \in Dialogs : /\ dialogs'[e].at # "none" <=> dialogs[e].at # "none"
                                /\ ~up /\ dialogs'[e].timer = "running" => dialogs[e].timer = "running"
                                /\ dialogs'[e].timer = "running" => dialogs'[e].at # "none"
          /\ latest' = latest
      <4>1. CASE OpenIdle
        <5>1. latest # 0 => latest \in Dialogs
          BY <2>0
        <5>2. QED
          BY <2>0, <4>1, <5>1 DEF OpenIdle, LifeInvariant, DialogsInOrder, DialogType
      <4>2. ASSUME NEW d \in Dialogs, DialogTick(d)
            PROVE  <3>1!:
        BY <2>0, <4>2 DEF DialogTick, LifeInvariant, DialogsInOrder, DialogType
      <4>3. ASSUME NEW d \in Dialogs, DialogButton(d)
            PROVE  <3>1!:
        BY <2>0, <4>3 DEF DialogButton, LifeInvariant, DialogsInOrder, DialogType
      <4>4. ASSUME NEW d \in Dialogs, DialogClosed(d)
            PROVE  <3>1!:
        BY <2>0, <4>4 DEF DialogClosed, LifeInvariant, DialogsInOrder, DialogType, NoDialog
      <4>5. QED
        BY <2>2, <4>1, <4>2, <4>3, <4>4
    <3>2. ASSUME NEW e \in Dialogs, Replaced(e)
          PROVE  Replaced(e)'
      <4>1. e + 1 \in Dialogs /\ dialogs[e + 1].at # "none"
        BY <3>2 DEF Replaced
      <4>2. dialogs'[e + 1].at # "none"
        BY <3>1, <4>1
      <4>3. QED
        BY <4>1, <4>2 DEF Replaced
    <3>3. CASE up
      BY <1>1, <3>1, <3>2, <3>3 DEF LifeInvariant, DialogsInOrder
    <3>4. CASE ~up
      BY <1>1, <3>1, <3>2, <3>4 DEF LifeInvariant, DialogsInOrder
    <3>5. QED
      BY <3>3, <3>4
  <2>3. QED
    BY <2>1, <2>2
<1>7. runtime'.starting => ~previous'.timer /\ ~opening'.idle
  <2>1. opening'.idle => opening.idle
    BY DEF RestoreSelected, OpenIdle, DialogTick, DialogButton, DialogClosed, LifeInvariant
  <2>2. QED
    BY <1>1, <1>3, <2>1 DEF LifeInvariant, LifeIsOver
<1>8. QED
  BY <1>1, <1>2, <1>3, <1>4, <1>5, <1>6, <1>7 DEF LifeInvariant, LifeIsOver

LEMMA EndInv ==
  ASSUME LifeInvariant, SessionEnds \/ Disable
  PROVE  LifeInvariant'
<1>1. CASE SessionEnds
  <2>1. /\ runtime' \in RuntimeType /\ runtime'.starting = runtime.starting /\ up /\ up' = up
    BY <1>1 DEF SessionEnds, LifeInvariant, RuntimeType
  <2>2. QED
    BY <1>1, <2>1, EventCounted, SameDialogs DEF SessionEnds, LifeInvariant, LifeIsOver
<1>2. CASE Disable
  <2>1. runtime' \in RuntimeType /\ runtime'.shutdown
    BY <1>2 DEF Disable, LifeInvariant, RuntimeType
  <2>2. saver' \in SaverType /\ ~saver'.initial /\ ~saver'.periodic
    BY <1>2 DEF Disable, LifeInvariant, SaverType
  <2>3. dialogs' \in [Dialogs -> DialogType]
    <3>1. latest # 0 => latest \in Dialogs
      BY DEF LifeInvariant
    <3>2. QED
      BY <1>2, <3>1 DEF Disable, LifeInvariant, DialogType
  <2>4. ~previous'.timer /\ ~opening'.idle
    BY <1>2 DEF Disable, LifeInvariant
  <2>5. DialogsInOrder'
    <3>0. /\ dialogs \in [Dialogs -> DialogType] /\ latest \in Dialogs \cup {0}
          /\ Dialogs \subseteq Nat \ {0}
      BY ServiceAssumption DEF LifeInvariant
    <3>1. \A d \in Dialogs : /\ dialogs'[d].at = dialogs[d].at
                             /\ dialogs'[d].timer = "running" => dialogs[d].timer = "running" /\ d # latest
      BY <1>2, <3>0 DEF Disable, DialogType
    <3>2. ASSUME NEW d \in Dialogs, dialogs'[d].timer = "running"
          PROVE  dialogs'[d].at # "none" /\ Replaced(d)'
      <4>1. dialogs[d].at # "none" /\ d <= latest /\ d # latest
        BY <1>2, <3>1, <3>2 DEF Disable, LifeInvariant, DialogsInOrder
      <4>2. d < latest
        BY <3>0, <4>1
      <4>3. Replaced(d)
        BY <1>2, <4>2 DEF Disable, LifeInvariant, DialogsInOrder
      <4>4. d + 1 \in Dialogs /\ dialogs[d + 1].at # "none"
        BY <4>3 DEF Replaced
      <4>5. dialogs'[d].at # "none" /\ dialogs'[d + 1].at # "none"
        BY <3>1, <4>1, <4>4
      <4>6. QED
        BY <4>4, <4>5 DEF Replaced
    <3>3. QED
      BY <1>2, <3>2 DEF Disable, DialogsInOrder
  <2>6. QED
    BY <1>2, <2>1, <2>2, <2>3, <2>4, <2>5 DEF Disable, LifeInvariant, LifeIsOver
<1>3. QED
  BY <1>1, <1>2

-----------------------------------------------------------------------------
LEMMA ServiceStartOk == ServiceInit => CallsInvariant /\ LifeInvariant
<1> SUFFICES ASSUME ServiceInit PROVE CallsInvariant /\ LifeInvariant
  OBVIOUS
<1>1. CallsInvariant
  <2>1. NoCall \in CallType /\ NoCall.at = "off"
    BY DEF NoCall, CallType
  <2>2. last \in [Operations -> Seq(Clients)] /\ \A op \in Operations : IsInjective(last[op])
    BY EmptySeq DEF ServiceInit, IsInjective
  <2>3. GateIsLimited
    <3> SUFFICES ASSUME NEW op \in Operations PROVE Cardinality(Asking(op)) <= PendingLimit
      BY DEF GateIsLimited
    <3>1. Asking(op) = {}
      BY <2>1 DEF ServiceInit, Asking
    <3>2. Cardinality({}) = 0
      BY FS_EmptySet
    <3>3. QED
      BY <3>1, <3>2, ServiceAssumption
  <2>4. QED
    BY <2>1, <2>2, <2>3 DEF ServiceInit, CallsInvariant, OwnersWereSeen, CallsHaveSenders
<1>2. LifeInvariant
  <2>1. runtime \in RuntimeType
    BY DEF ServiceInit, RuntimeType
  <2>2. saver \in SaverType
    BY DEF ServiceInit, SaverType, SaveType, NoSave
  <2>3. dialogs \in [Dialogs -> DialogType]
    BY DEF ServiceInit, DialogType, NoDialog
  <2>6. DialogsInOrder
    BY ServiceAssumption DEF ServiceInit, NoDialog, DialogsInOrder
  <2>4. history \in 0..(HistoryLimit + 1) /\ used \in 0..MaxInputs
    BY ServiceAssumption DEF ServiceInit
  <2>5. QED
    BY <2>1, <2>2, <2>3, <2>4, <2>6 DEF ServiceInit, LifeInvariant, LifeIsOver
<1>3. QED
  BY <1>1, <1>2

LEMMA ServiceNextInvariant ==
  ASSUME CallsInvariant, LifeInvariant, [ServiceNext]_serviceVars
  PROVE  CallsInvariant' /\ LifeInvariant'
<1>1. CASE \/ \E c \in Clients, op \in Operations : ManagerCall(c, op)
           \/ \E c \in Clients, op \in Operations : LimitEnds(c, op)
           \/ \E k \in CallSlots : OwnerReplies(k) \/ ReplyArrives(k) \/ CallEnds(k)
           \/ ManagerChanges
  BY <1>1, ManagerCallInv, GatesClearedInv, CallStepInv, ManagerChangesInv, CallLifeInv
<1>2. CASE \E op \in lately : IntervalEnds(op)
  BY <1>2, CallsUnchanged, CallLifeInv DEF IntervalEnds, callVars
<1>3. CASE InitialSave \/ PeriodicSave \/ SaveHistoryNow \/ RescheduleSaves \/ BuildEnds \/ WriteEnds
  BY <1>3, CallsUnchanged, SaverInv
     DEF InitialSave, PeriodicSave, SaveHistoryNow, RescheduleSaves, BuildEnds, WriteEnds, callVars
<1>4. CASE RestoreEnds \/ ManualRestore \/ RestorePrevious \/ PreviousTimer \/ StartupComplete
  BY <1>4, CallsUnchanged, RestoreInv
     DEF RestoreEnds, ManualRestore, RestorePrevious, PreviousTimer, StartupComplete, callVars
<1>5. CASE \/ RestoreSelected \/ OpenIdle
           \/ \E d \in Dialogs : DialogTick(d) \/ DialogButton(d) \/ DialogClosed(d)
  BY <1>5, CallsUnchanged, DialogInv
     DEF RestoreSelected, OpenIdle, DialogTick, DialogButton, DialogClosed, callVars
<1>6. CASE SessionEnds
  BY <1>6, CallsUnchanged, EndInv DEF SessionEnds, callVars
<1>7. CASE Disable
  BY <1>7, GatesClearedInv, EndInv
<1>8. CASE UNCHANGED serviceVars
  BY <1>8, CallsUnchanged, LifeUnchanged DEF serviceVars, callVars, LifeInvariant
<1>9. QED
  BY <1>1, <1>2, <1>3, <1>4, <1>5, <1>6, <1>7, <1>8 DEF ServiceNext

(* The two invariants hold of every life of the service.                   *)
THEOREM ServiceIsInvariant == ServiceSpec => [](CallsInvariant /\ LifeInvariant)
<1>1. CallsInvariant /\ LifeInvariant /\ [ServiceNext]_serviceVars => CallsInvariant' /\ LifeInvariant'
  BY ServiceNextInvariant
<1>2. QED
  BY ServiceStartOk, <1>1, PTL DEF ServiceSpec

(* A gate lets PendingLimit callers wait at most; disable() leaves no      *)
(* timer of the saver, and no countdown but that of a dialog that another  *)
(* one replaced (the part of ShellInvariant about the service).            *)
THEOREM ServiceIsSafe == ServiceSpec => []ServiceInvariant
<1>1. CallsInvariant /\ LifeInvariant => ServiceInvariant
  BY DEF CallsInvariant, LifeInvariant, GateIsLimited, LifeIsOver, DialogsInOrder,
         ServiceInvariant, ServiceTypeOK
<1>2. QED
  BY ServiceIsInvariant, <1>1, PTL

(* An operation works only for a caller that owned the name of the manager *)
(* since it called, as long as the service is there.                       *)
THEOREM ManagersAreAuthorised == ServiceSpec => WorkIsAuthorised
<1> DEFINE Authorised == \A k \in CallSlots : calls'[k].at = "worked" /\ calls[k].at # "worked" =>
                           up /\ calls[k].sender \in calls[k].seen
<1>1. ASSUME CallsInvariant /\ LifeInvariant, [ServiceNext]_serviceVars
      PROVE  Authorised
  <2> SUFFICES ASSUME NEW k \in CallSlots, calls'[k].at = "worked", calls[k].at # "worked"
               PROVE  up /\ calls[k].sender \in calls[k].seen
    OBVIOUS
  <2>0. calls # calls' /\ calls \in [CallSlots -> CallType]
    BY <1>1 DEF CallsInvariant
  <2>1. ReplyArrives(k)
    <3>1. ASSUME NEW c \in Clients, NEW op \in Operations, ManagerCall(c, op)
          PROVE  FALSE
      BY <2>0, <3>1 DEF ManagerCall, NoCall
    <3>2. ASSUME NEW i \in CallSlots, OwnerReplies(i) \/ CallEnds(i)
          PROVE  FALSE
      BY <2>0, <3>2 DEF OwnerReplies, CallEnds, NoCall, CallType
    <3>3. ASSUME NEW i \in CallSlots, ReplyArrives(i), i # k
          PROVE  FALSE
      BY <2>0, <3>3 DEF ReplyArrives, Answered
    <3>4. ~ManagerChanges
      <4> SUFFICES ASSUME ManagerChanges PROVE FALSE
        OBVIOUS
      <4>1. PICK owner : calls' = [i \in CallSlots |-> IF calls[i].at = "asking"
                           THEN [calls[i] EXCEPT !.seen = @ \cup {owner}] ELSE calls[i]]
        BY DEF ManagerChanges
      <4>2. calls[k] \in CallType
        BY <2>0
      <4>3. QED
        BY <4>1, <4>2 DEF CallType
    <3>5. QED
      BY <1>1, <2>0, <3>1, <3>2, <3>3, <3>4
         DEF ServiceNext, serviceVars, LimitEnds, IntervalEnds, InitialSave, PeriodicSave,
             SaveHistoryNow, RescheduleSaves, BuildEnds, WriteEnds, RestoreEnds, ManualRestore,
             RestorePrevious, PreviousTimer, StartupComplete, RestoreSelected, OpenIdle, DialogTick,
             DialogButton, DialogClosed, SessionEnds, Disable
  <2>2. up /\ calls[k].owner = calls[k].sender
    BY <2>0, <2>1 DEF ReplyArrives, Answered, NoCall
  <2>3. calls[k].owner \in calls[k].seen \cup {NoOwner}
    BY <1>1, <2>1 DEF ReplyArrives, CallsInvariant, OwnersWereSeen
  <2>4. calls[k].sender # NoOwner
    BY <1>1, <2>1, ServiceAssumption DEF ReplyArrives, CallsInvariant, CallsHaveSenders, NoOwner
  <2>5. QED
    BY <2>2, <2>3, <2>4
<1>2. QED
  BY ServiceIsInvariant, <1>1, PTL DEF ServiceSpec, WorkIsAuthorised

(* After disable() no restore begins, no save begins, nothing is pruned    *)
(* and no dialog opens.                                                    *)
THEOREM DisableIsFinal == ServiceSpec => NothingAfterDisable
<1> DEFINE Nothing == ~up => /\ runtime'.restoring => runtime.restoring
                             /\ saver'.save.at = "building" => saver.save.at = "building"
                             /\ history' >= history
                             /\ \A d \in Dialogs : dialogs'[d].at = "open" => dialogs[d].at = "open"
<1>1. ASSUME CallsInvariant /\ LifeInvariant, [ServiceNext]_serviceVars
      PROVE  Nothing
  <2> SUFFICES ASSUME ~up
               PROVE  /\ runtime'.restoring => runtime.restoring
                      /\ saver'.save.at = "building" => saver.save.at = "building"
                      /\ history' >= history
                      /\ \A d \in Dialogs : dialogs'[d].at = "open" => dialogs[d].at = "open"
    OBVIOUS
  <2>0. /\ runtime \in RuntimeType /\ runtime.shutdown
        /\ ~saver.initial /\ ~saver.periodic /\ saver \in SaverType
        /\ history \in Nat /\ dialogs \in [Dialogs -> DialogType]
    BY <1>1 DEF LifeInvariant, LifeIsOver
  <2>1. runtime'.restoring => runtime.restoring
    BY <1>1, <2>0, StartRestoreOk
       DEF ServiceNext, serviceVars, ManagerCall, LimitEnds, OwnerReplies, ReplyArrives, CallEnds,
           ManagerChanges, IntervalEnds, InitialSave, PeriodicSave, SaveHistoryNow, RescheduleSaves,
           BuildEnds, WriteEnds, RestoreEnds, ManualRestore, RestorePrevious, PreviousTimer,
           StartupComplete, RestoreSelected, OpenIdle, DialogTick, DialogButton, DialogClosed,
           SessionEnds, Disable, RuntimeType
  <2>2. saver'.save.at = "building" => saver.save.at = "building"
    <3>1. CASE BuildEnds
      BY <2>0, <3>1 DEF BuildEnds
    <3>2. CASE WriteEnds
      BY <2>0, <3>2 DEF WriteEnds, SaveEnds, NoSave, SaverType
    <3>3. CASE ~BuildEnds /\ ~WriteEnds
      BY <1>1, <2>0, <3>3
       DEF ServiceNext, serviceVars, ManagerCall, LimitEnds, OwnerReplies, ReplyArrives, CallEnds,
           ManagerChanges, IntervalEnds, InitialSave, PeriodicSave, SaveHistoryNow, RescheduleSaves,
           RestoreEnds, ManualRestore, RestorePrevious, PreviousTimer,
           StartupComplete, RestoreSelected, OpenIdle, DialogTick, DialogButton, DialogClosed,
           SessionEnds, Disable
    <3>4. QED
      BY <3>1, <3>2, <3>3
  <2>3. history' >= history
    <3>1. CASE BuildEnds \/ WriteEnds
      BY <2>0, <3>1 DEF BuildEnds, WriteEnds, SaveEnds
    <3>2. CASE ~BuildEnds /\ ~WriteEnds
      <4>1. UNCHANGED history
        BY <1>1, <3>2
         DEF ServiceNext, serviceVars, ManagerCall, LimitEnds, OwnerReplies, ReplyArrives, CallEnds,
             ManagerChanges, IntervalEnds, InitialSave, PeriodicSave, SaveHistoryNow,
             RescheduleSaves, RestoreEnds, ManualRestore, RestorePrevious, PreviousTimer,
             StartupComplete, RestoreSelected, OpenIdle, DialogTick, DialogButton, DialogClosed,
             SessionEnds, Disable
      <4>2. QED
        BY <2>0, <4>1
    <3>3. QED
      BY <3>1, <3>2
  <2>4. ASSUME NEW d \in Dialogs, dialogs'[d].at = "open"
        PROVE  dialogs[d].at = "open"
    <3>1. CASE UNCHANGED dialogs
      BY <2>4, <3>1
    <3>2. ASSUME NEW e \in Dialogs, DialogTick(e) \/ DialogButton(e) \/ DialogClosed(e)
          PROVE  dialogs[d].at = "open"
      BY <2>0, <2>4, <3>2 DEF DialogTick, DialogButton, DialogClosed, DialogType, NoDialog
    <3>3. QED
      BY <1>1, <3>1, <3>2
       DEF ServiceNext, serviceVars, ManagerCall, LimitEnds, OwnerReplies, ReplyArrives, CallEnds,
           ManagerChanges, IntervalEnds, InitialSave, PeriodicSave, SaveHistoryNow, RescheduleSaves,
           BuildEnds, WriteEnds, RestoreEnds, ManualRestore, RestorePrevious, PreviousTimer,
           StartupComplete, RestoreSelected, OpenIdle, SessionEnds, Disable
  <2>5. QED
    BY <2>1, <2>2, <2>3, <2>4
<1>2. QED
  BY ServiceIsInvariant, <1>1, PTL DEF ServiceSpec, NothingAfterDisable

-----------------------------------------------------------------------------
(* The end of a session and the service side by side, and the queue beside *)
(* them: what does not move keeps its invariant.                           *)
ShellIndInvariant == EndInvariant /\ CallsInvariant /\ LifeInvariant

(* Workspaces stay until the closing that keeps them ends, a session is    *)
(* ended once; a gate stays within its limit, and disable() leaves no      *)
(* timer of the saver and no countdown but that of a replaced dialog.      *)
THEOREM ShellIsSafe == ShellSpec => []ShellInvariant
<1>1. ShellInit => ShellIndInvariant
  BY StartOk, ServiceStartOk DEF ShellInit, ShellIndInvariant
<1>2. ASSUME ShellIndInvariant, [ShellNext]_shellVars
      PROVE  ShellIndInvariant'
  <2>1. [ClosingNext]_closingVars /\ [ServiceNext]_serviceVars
    BY <1>2 DEF ShellNext, shellVars
  <2>2. QED
    BY <1>2, <2>1, EndNextInvariant, ServiceNextInvariant DEF ShellIndInvariant
<1>3. ShellIndInvariant => ShellInvariant
  BY DEF ShellIndInvariant, ShellInvariant, EndInvariant, ConfirmedOnce, ClosingInvariant, EndedOnce,
         CallsInvariant, LifeInvariant, GateIsLimited, LifeIsOver, DialogsInOrder, ServiceInvariant,
         ServiceTypeOK
<1>4. QED
  BY <1>1, <1>2, <1>3, PTL DEF ShellSpec
=============================================================================
