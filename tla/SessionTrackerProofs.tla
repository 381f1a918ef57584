------------------------ MODULE SessionTrackerProofs ------------------------
(***************************************************************************)
(* Proofs about SessionTracker, for any sets of windows and classes and    *)
(* any bounds.                                                             *)
(***************************************************************************)
EXTENDS SessionTracker, FiniteSetTheorems, SequenceTheorems, TLAPS

(* Why a window that closes is not recorded again: each save in progress   *)
(* holds the newest cancellable of its window, or a cancelled one, or none *)
(* at all after a logout; and the newest one of a closed window has been   *)
(* cancelled or forgotten, for good, since the window waits no more.       *)
SavesAreCancellable ==
  /\ \A w \in Windows : token[w] <= fires
  /\ \A n \in Batches : batch[n].phase # "idle" /\ batch[n].token # 0 =>
       token[batch[n].path[2]] = batch[n].token \/ ~Live(batch[n].path[2], batch[n].token)
  /\ \A w \in closed : win[w].is = "gone" /\ w \notin toSave
  /\ \A w \in closed : token[w] # 0 => ~Live(w, token[w])
  /\ \A w \in books.listening : win[w].is # "new"

(* A version says how often its window changed; none is written for a      *)
(* window that never was there.                                            *)
VersionsCount ==
  /\ \A w \in Windows : win[w].version <= changes
  /\ \A w \in Windows : win[w].is # "new" => win[w].version # 0
  /\ \A n \in Batches : batch[n].phase = "writing" => batch[n].version # 0

TrackerInvariant ==
  /\ TrackerTypeOK
  /\ QueueIsArmed
  /\ toSave # {} => fires < changes
  /\ VersionsCount
  /\ SavesAreCancellable

-----------------------------------------------------------------------------
(* The operators on files and registrations.                               *)

(* A clean-up keeps the types, only ever empties files, and empties none   *)
(* while the records are protected or a restore reads them.                *)
LEMMA CleanUpEffect ==
  ASSUME NEW b \in BooksType, NEW ps \in SUBSET Paths
  PROVE  /\ CleanUp(b, ps) \in BooksType
         /\ CleanUp(b, ps).record = b.record
         /\ CleanUp(b, ps).listening = b.listening
         /\ \A p \in Paths : CleanUp(b, ps).files[p] \in {0, b.files[p]}
         /\ Protected \/ restorer => CleanUp(b, ps).files = b.files
<1> DEFINE exist == {p \in ps : b.files[p] # 0}
           f == [p \in Paths |-> IF p \in exist THEN 0 ELSE b.files[p]]
           q == [p \in Paths |-> IF p \in exist THEN b.files[p] ELSE b.pending[p]]
<1>1. 0 \in Versions
  BY TrackerAssumption DEF Versions
<1>2. f \in [Paths -> Versions] /\ q \in [Paths -> Versions]
  BY <1>1 DEF BooksType
<1>3. CASE Protected
  BY <1>3 DEF CleanUp
<1>4. CASE ~Protected /\ restorer
  <2>1. CleanUp(b, ps) = [b EXCEPT !.pending = q]
    BY <1>4 DEF CleanUp, BooksType
  <2>2. QED
    BY <1>2, <2>1 DEF BooksType
<1>5. CASE ~Protected /\ ~restorer
  <2>1. CleanUp(b, ps) = [b EXCEPT !.files = f]
    BY <1>5 DEF CleanUp, BooksType
  <2>2. QED
    BY <1>2, <1>5, <2>1 DEF BooksType
<1>6. QED
  BY <1>3, <1>4, <1>5

(* The same of the registration of a batch's results; it only begins to    *)
(* listen to windows that are open.                                        *)
LEMMA RegisterEffect ==
  ASSUME NEW b \in BooksType, NEW results \in SUBSET Paths
  PROVE  /\ Register(b, results) \in BooksType
         /\ \A w \in Register(b, results).listening : w \in b.listening \/ win[w].is = "open"
         /\ \A p \in Paths : Register(b, results).files[p] \in {0, b.files[p]}
         /\ Protected \/ restorer => Register(b, results).files = b.files
<1> DEFINE late == {p \in results : p[2] \in closed}
           saved(w) == \E p \in results \ late : p[2] = w
           class(w) == IF saved(w) THEN (CHOOSE p \in results \ late : p[2] = w)[1] ELSE b.record[w]
           left == {p \in Paths : b.record[p[2]] = p[1] /\ class(p[2]) # p[1]}
           new == {w \in Windows : saved(w) /\ b.record[w] = NoClass /\ win[w].is = "open"}
           rec == [w \in Windows |-> class(w)]
           b1 == [b EXCEPT !.record = rec, !.listening = @ \cup new]
<1>1. Register(b, results) = CleanUp(b1, late \cup left)
  BY DEF Register
<1>2. rec \in [Windows -> Classes \cup {NoClass}]
  <2>1. SUFFICES ASSUME NEW w \in Windows
                 PROVE  class(w) \in Classes \cup {NoClass}
    OBVIOUS
  <2>2. CASE saved(w)
    <3>1. PICK p \in results \ late : p[2] = w
      BY <2>2
    <3>2. (CHOOSE r \in results \ late : r[2] = w) \in results \ late
      BY <3>1
    <3>3. QED
      BY <2>2, <3>2 DEF Paths
  <2>3. CASE ~saved(w)
    BY <2>3 DEF BooksType
  <2>4. QED
    BY <2>2, <2>3
<1>3. b1 \in BooksType /\ b1.files = b.files /\ b1.listening = b.listening \cup new
  BY <1>2 DEF BooksType
<1>4. late \cup left \in SUBSET Paths
  OBVIOUS
<1> HIDE DEF b1, late, left, rec
<1>5. CleanUp(b1, late \cup left).listening = b1.listening
  BY <1>3, <1>4, CleanUpEffect
<1>6. QED
  BY <1>1, <1>3, <1>4, <1>5, CleanUpEffect

(* The same of the end of a restore.                                       *)
LEMMA FlushEffect ==
  ASSUME NEW b \in BooksType
  PROVE  /\ Flush(b) \in BooksType
         /\ Flush(b).listening = b.listening
         /\ \A p \in Paths : Flush(b).files[p] \in {0, b.files[p]}
         /\ Protected => Flush(b).files = b.files
<1>1. 0 \in Versions
  BY TrackerAssumption DEF Versions
<1>2. CASE Protected
  BY <1>2 DEF Flush
<1>3. CASE ~Protected
  BY <1>1, <1>3 DEF Flush, BooksType
<1>4. QED
  BY <1>2, <1>3

-----------------------------------------------------------------------------
(* Steps inside a batch.                                                   *)

BatchesOK ==
  /\ batch \in [Batches -> BatchType]
  /\ \A n \in Batches : batch[n].phase # "idle" => batch[n].path \in Paths
  /\ \A n \in Batches : batch[n].phase # "idle" /\ batch[n].token # 0 =>
       token[batch[n].path[2]] = batch[n].token \/ ~Live(batch[n].path[2], batch[n].token)
  /\ \A n \in Batches : batch[n].phase = "writing" => batch[n].version # 0

(* What the end of a batch, or of one of its saves, leaves in order.       *)
BatchEffect ==
  /\ BatchesOK'
  /\ books' \in BooksType
  /\ \A w \in books'.listening : w \in books.listening \/ win[w].is = "open"
  /\ \A p \in Paths : books'.files[p] \in {0, books.files[p]}
  /\ Protected \/ restorer => books'.files = books.files
  /\ armed' \in BOOLEAN /\ (armed => armed')
  /\ spared' \subseteq Windows

LEMMA EndBatchEffect ==
  ASSUME TrackerInvariant, NEW n \in Batches, NEW results \in SUBSET Paths,
         EndBatch(n, results), UNCHANGED <<token, cancelled>>
  PROVE  BatchEffect
<1>1. Idle \in BatchType
  <2>1. <<>> \in Seq(Windows) /\ 0 \in Versions
    BY TrackerAssumption DEF Versions
  <2>2. QED
    BY <2>1 DEF Idle, BatchType
<1>2. batch \in [Batches -> BatchType] /\ batch' = [batch EXCEPT ![n] = Idle]
  BY DEF TrackerInvariant, TrackerTypeOK, EndBatch
<1>3. Idle.phase = "idle"
  BY DEF Idle
<1>4. BatchesOK'
  BY <1>1, <1>2, <1>3 DEF TrackerInvariant, TrackerTypeOK, SavesAreCancellable, VersionsCount,
     BatchesOK, Live
<1>5. books \in BooksType
  BY DEF TrackerInvariant, TrackerTypeOK
<1>6. armed \in BOOLEAN /\ closed \subseteq Windows /\ spared \subseteq Windows
  BY DEF TrackerInvariant, TrackerTypeOK
<1>7. QED
  BY <1>4, <1>5, <1>6, RegisterEffect DEF EndBatch, BatchEffect

LEMMA BeginWriteEffect ==
  ASSUME TrackerInvariant, NEW n \in Batches, NEW w \in Windows, NEW t \in Nat,
         NEW queue \in Seq(Windows), NEW results \in SUBSET Paths,
         win[w].is = "open", t # 0 => token[w] = t \/ ~Live(w, t),
         BeginWrite(n, w, t, queue, results), UNCHANGED <<token, cancelled>>
  PROVE  BatchEffect
<1> DEFINE b == [phase |-> "writing", queue |-> queue, path |-> <<win[w].class, w>>,
                 version |-> win[w].version, token |-> t, results |-> results]
<1>1. win[w] \in WindowType /\ win[w].class \in Classes
  BY DEF TrackerInvariant, TrackerTypeOK
<1>2. b.path \in Paths /\ b.path[2] = w
  BY <1>1 DEF Paths
<1>3. b \in BatchType
  BY <1>1, <1>2 DEF BatchType, WindowType
<1>4. batch \in [Batches -> BatchType] /\ batch' = [batch EXCEPT ![n] = b]
  BY DEF TrackerInvariant, TrackerTypeOK, BeginWrite
<1>5. b.token = t /\ b.version # 0
  BY DEF TrackerInvariant, VersionsCount
<1> HIDE DEF b
<1>6. ASSUME NEW m \in Batches, batch'[m].phase # "idle"
      PROVE  /\ batch'[m].path \in Paths
             /\ batch'[m].token # 0 =>
                  token[batch'[m].path[2]] = batch'[m].token \/ ~Live(batch'[m].path[2], batch'[m].token)
             /\ batch'[m].phase = "writing" => batch'[m].version # 0
  <2>1. CASE m = n
    BY <1>2, <1>4, <1>5, <2>1
  <2>2. CASE m # n
    <3>1. batch'[m] = batch[m]
      BY <1>4, <2>2
    <3>2. QED
      BY <1>6, <3>1 DEF TrackerInvariant, TrackerTypeOK, SavesAreCancellable, VersionsCount
  <2>3. QED
    BY <2>1, <2>2
<1>7. BatchesOK'
  BY <1>3, <1>4, <1>6 DEF BatchesOK, Live
<1>8. QED
  BY <1>7 DEF BeginWrite, BatchEffect, TrackerInvariant, TrackerTypeOK

LEMMA AfterType ==
  ASSUME NEW queue \in Seq(Windows), NEW k \in DOMAIN queue
  PROVE  queue[k] \in Windows /\ After(queue, k) \in Seq(Windows)
<1>1. k \in Int /\ Len(queue) \in Int /\ \A i \in (k + 1)..Len(queue) : queue[i] \in Windows
  OBVIOUS
<1>2. QED
  BY <1>1, SubSeqProperties DEF After

LEMMA AdvanceEffect ==
  ASSUME TrackerInvariant, NEW n \in Batches, NEW queue \in Seq(Windows),
         NEW results \in SUBSET Paths, Advance(n, queue, results), UNCHANGED <<token, cancelled>>
  PROVE  BatchEffect
<1>1. CASE EndBatch(n, results)
  BY <1>1, EndBatchEffect
<1>2. ASSUME NEW k \in DOMAIN queue, ~Skips(queue[k]),
             BeginWrite(n, queue[k], token[queue[k]], After(queue, k), results)
      PROVE  BatchEffect
  <2>1. queue[k] \in Windows /\ After(queue, k) \in Seq(Windows)
    BY AfterType
  <2>2. token[queue[k]] \in Nat /\ win[queue[k]].is = "open"
    BY <1>2, <2>1 DEF Skips, TrackerInvariant, TrackerTypeOK
  <2>3. QED
    BY <1>2, <2>1, <2>2, BeginWriteEffect
<1>3. QED
  BY <1>1, <1>2 DEF Advance

(* Inside a batch nothing moves but its own progress and the registrations.*)
LEMMA BatchStepPreserves ==
  ASSUME TrackerInvariant, BatchEffect,
         UNCHANGED <<win, running, toSave, token, cancelled, fires, closed, session, changes>>,
         excused' \subseteq Windows, disturbances' \in 0..MaxDisturbances
  PROVE  TrackerInvariant'
<1>1. TrackerTypeOK'
  BY DEF TrackerInvariant, TrackerTypeOK, BatchEffect, BatchesOK, session
<1>2. QueueIsArmed'
  BY DEF TrackerInvariant, QueueIsArmed, BatchEffect
<1>3. SavesAreCancellable'
  <2>1. /\ \A w \in Windows : token'[w] <= fires'
        /\ \A w \in closed' : win'[w].is = "gone" /\ w \notin toSave'
        /\ \A w \in closed' : token'[w] # 0 => Live(w, token[w])' = Live(w, token[w])
        /\ \A w \in closed' : token'[w] # 0 => ~Live(w, token[w])'
    BY DEF TrackerInvariant, SavesAreCancellable, Live
  <2>2. \A w \in books'.listening : win'[w].is # "new"
    BY DEF TrackerInvariant, SavesAreCancellable, BatchEffect
  <2>3. QED
    BY <2>1, <2>2 DEF SavesAreCancellable, BatchEffect, BatchesOK
<1>4. VersionsCount'
  BY DEF TrackerInvariant, VersionsCount, BatchEffect, BatchesOK
<1>5. QED
  BY <1>1, <1>2, <1>3, <1>4 DEF TrackerInvariant

(* What the current call of a batch that is under way may rely on.         *)
LEMMA CurrentBatch ==
  ASSUME TrackerInvariant, NEW n \in Batches
  PROVE  /\ batch[n].queue \in Seq(Windows)
         /\ batch[n].results \in SUBSET Paths
         /\ batch[n].token \in Nat
         /\ batch[n].version \in Versions
         /\ ToSet(batch[n].queue) \subseteq Windows
         /\ batch[n].phase # "idle" => batch[n].path \in Paths /\ batch[n].path[2] \in Windows
<1>1. batch[n] \in BatchType
  BY DEF TrackerInvariant, TrackerTypeOK
<1>2. ToSet(batch[n].queue) \subseteq Windows
  BY <1>1 DEF BatchType, ToSet
<1>3. QED
  BY <1>1, <1>2 DEF TrackerInvariant, TrackerTypeOK, BatchType, Paths

(* The effect of each step of a batch but the replacement of the file.     *)
LEMMA BatchSteps ==
  ASSUME TrackerInvariant, NEW n \in Batches,
         InfoArrives(n) \/ InfoFails(n) \/ Reported(n) \/ WriteFails(n)
  PROVE  /\ BatchEffect
         /\ UNCHANGED <<win, running, toSave, token, cancelled, fires, closed, session, changes>>
         /\ excused' \subseteq Windows /\ disturbances' \in 0..MaxDisturbances
<1> USE CurrentBatch
<1>0. /\ {} \in SUBSET Paths /\ excused \subseteq Windows
      /\ disturbances \in 0..MaxDisturbances /\ MaxDisturbances \in Nat
  BY TrackerAssumption DEF TrackerInvariant, TrackerTypeOK
<1>1. CASE InfoArrives(n)
  <2>1. UNCHANGED <<win, running, toSave, token, cancelled, fires, closed, session, counters>>
    BY <1>1 DEF InfoArrives
  <2>2. CASE ~Live(batch[n].path[2], batch[n].token)
    <3>1. Advance(n, batch[n].queue, {}) /\ UNCHANGED excused
      BY <1>1, <2>2 DEF InfoArrives
    <3>2. QED
      BY <1>0, <2>1, <3>1, AdvanceEffect DEF counters
  <2>3. CASE Live(batch[n].path[2], batch[n].token) /\ win[batch[n].path[2]].is # "open"
    <3>1. EndBatch(n, {}) /\ excused' = GivenUp(n, ToSet(batch[n].queue))
      BY <1>1, <2>3 DEF InfoArrives
    <3>2. QED
      BY <1>0, <2>1, <3>1, EndBatchEffect DEF counters, GivenUp
  <2>4. CASE Live(batch[n].path[2], batch[n].token) /\ win[batch[n].path[2]].is = "open"
    <3>1. BeginWrite(n, batch[n].path[2], batch[n].token, batch[n].queue, {}) /\ UNCHANGED excused
      BY <1>1, <2>4 DEF InfoArrives
    <3>2. batch[n].phase # "idle"
      BY <1>1 DEF InfoArrives
    <3>3. batch[n].token # 0 => token[batch[n].path[2]] = batch[n].token
                                  \/ ~Live(batch[n].path[2], batch[n].token)
      BY <3>2 DEF TrackerInvariant, SavesAreCancellable
    <3>4. BatchEffect
      BY <1>0, <2>1, <2>4, <3>1, <3>2, <3>3, BeginWriteEffect
    <3>5. QED
      BY <1>0, <2>1, <3>1, <3>4 DEF counters
  <2>5. QED
    BY <2>2, <2>3, <2>4
<1>2. CASE InfoFails(n)
  <2>1. batch[n].phase # "idle"
    BY <1>2 DEF InfoFails
  <2>2. BatchEffect
    BY <1>0, <1>2, EndBatchEffect DEF InfoFails
  <2>3. excused' \subseteq Windows /\ disturbances' \in 0..MaxDisturbances
    BY <1>0, <1>2, <2>1 DEF InfoFails, GivenUp
  <2>4. QED
    BY <1>2, <2>2, <2>3 DEF InfoFails
<1>3. CASE Reported(n)
  <2>1. batch[n].phase # "idle"
    BY <1>3 DEF Reported
  <2>2. batch[n].results \in SUBSET Paths /\ batch[n].results \cup {batch[n].path} \in SUBSET Paths
    BY <2>1
  <2>3. BatchEffect
    BY <1>3, <2>2, AdvanceEffect DEF Reported
  <2>4. QED
    BY <1>0, <1>3, <2>3 DEF Reported, counters
<1>4. CASE WriteFails(n)
  <2>1. batch[n].phase # "idle"
    BY <1>4 DEF WriteFails
  <2>2. BatchEffect
    BY <1>4, AdvanceEffect DEF WriteFails
  <2>3. excused' \subseteq Windows /\ disturbances' \in 0..MaxDisturbances
    BY <1>0, <1>4, <2>1 DEF WriteFails, GivenUp
  <2>4. QED
    BY <1>4, <2>2, <2>3 DEF WriteFails
<1>5. QED
  BY <1>1, <1>2, <1>3, <1>4

LEMMA WrittenPreserves ==
  ASSUME TrackerInvariant, NEW n \in Batches, Written(n)
  PROVE  TrackerInvariant'
<1>1. batch[n].phase = "writing" /\ batch[n].path \in Paths /\ batch[n].path[2] \in Windows
  BY CurrentBatch DEF Written
<1>2. /\ batch' = [batch EXCEPT ![n].phase = "written"]
      /\ books' = [books EXCEPT !.files[batch[n].path] = batch[n].version]
      /\ UNCHANGED <<win, running, toSave, armed, token, cancelled, fires, closed, session,
                     counters, spared>>
  BY DEF Written
<1>3. books' \in BooksType /\ books'.listening = books.listening
  <2>1. books \in BooksType /\ batch[n].version \in Versions
    BY CurrentBatch DEF TrackerInvariant, TrackerTypeOK
  <2>2. QED
    BY <1>1, <1>2, <2>1 DEF BooksType
<1>4. batch' \in [Batches -> BatchType]
  BY <1>2 DEF TrackerInvariant, TrackerTypeOK, BatchType
<1>5. \A m \in Batches : /\ batch'[m].path = batch[m].path /\ batch'[m].token = batch[m].token
                          /\ (batch'[m].phase # "idle" => batch[m].phase # "idle")
  BY <1>1, <1>2 DEF TrackerInvariant, TrackerTypeOK, BatchType
<1>6. excused' \subseteq Windows
  BY <1>1 DEF Written, TrackerInvariant, TrackerTypeOK
<1>7. TrackerTypeOK'
  BY <1>2, <1>3, <1>4, <1>5, <1>6 DEF TrackerInvariant, TrackerTypeOK, counters, session
<1>8. SavesAreCancellable'
  BY <1>2, <1>3, <1>5 DEF TrackerInvariant, SavesAreCancellable, Live
<1>9. VersionsCount'
  BY <1>1, <1>2 DEF TrackerInvariant, TrackerTypeOK, BatchType, VersionsCount, counters
<1>10. QED
  BY <1>2, <1>7, <1>8, <1>9 DEF TrackerInvariant, QueueIsArmed, counters

-----------------------------------------------------------------------------
(* The timer.                                                              *)

(* Cancelling only adds cancelled cancellables, among them the newest ones *)
(* of the windows ws.                                                      *)
LEMMA CancelEffect ==
  ASSUME TrackerInvariant, NEW ws \in SUBSET Windows, cancelled' = Cancel(ws)
  PROVE  /\ cancelled' \subseteq Windows \X Nat
         /\ cancelled \subseteq cancelled'
         /\ \A w \in ws : token[w] # 0 => <<w, token[w]>> \in cancelled'
BY DEF Cancel, TrackerInvariant, TrackerTypeOK

LEMMA FirePreserves ==
  ASSUME TrackerInvariant, Fire
  PROVE  TrackerInvariant'
<1>0. /\ fires \in Nat /\ changes \in 0..MaxChanges /\ MaxChanges \in Nat
      /\ toSave \in SUBSET Windows /\ (toSave # {} => fires < changes)
  BY TrackerAssumption DEF TrackerInvariant, TrackerTypeOK
<1>1. /\ toSave # {} /\ toSave' = {} /\ ~armed'
      /\ fires' = fires + 1
      /\ cancelled' = Cancel(toSave)
      /\ token' = [w \in Windows |-> IF w \in toSave THEN fires' ELSE token[w]]
      /\ UNCHANGED <<win, running, books, closed, session, counters, excused, spared>>
  BY DEF Fire, StartBatch
<1>2. fires' \in 1..changes /\ fires' \in Batches
  BY <1>0, <1>1 DEF Batches
<1>3. /\ cancelled' \subseteq Windows \X Nat /\ cancelled \subseteq cancelled'
      /\ \A w \in toSave : token[w] # 0 => <<w, token[w]>> \in cancelled'
  BY <1>0, <1>1, CancelEffect
<1>4. token' \in [Windows -> Nat] /\ \A w \in Windows : token'[w] <= fires'
  BY <1>1, <1>2 DEF TrackerInvariant, TrackerTypeOK, SavesAreCancellable
<1> DEFINE Old(m) == batch'[m] = batch[m]
           New(m) == /\ batch'[m] \in BatchType /\ batch'[m].path \in Paths
                     /\ batch'[m].token = token'[batch'[m].path[2]]
                     /\ batch'[m].phase = "info"
<1>5. batch' \in [Batches -> BatchType] /\ \A m \in Batches : Old(m) \/ New(m)
  <2>1. CASE UNCHANGED batch
    BY <2>1 DEF TrackerInvariant, TrackerTypeOK
  <2>2. ASSUME NEW queue \in SetToSeqs(toSave), NEW k \in DOMAIN queue,
               win[queue[k]].is = "open",
               batch' = [batch EXCEPT ![fires'] =
                 [phase |-> "info", queue |-> After(queue, k),
                  path |-> <<win[queue[k]].class, queue[k]>>,
                  version |-> 0, token |-> fires', results |-> {}]]
        PROVE  batch' \in [Batches -> BatchType] /\ \A m \in Batches : Old(m) \/ New(m)
    <3>1. Cardinality(toSave) \in Nat
      BY <1>0, TrackerAssumption, FS_Subset, FS_CardinalityType
    <3>2. queue \in Seq(Windows) /\ queue[k] \in toSave
      BY <1>0, <2>2, <3>1 DEF SetToSeqs
    <3>3. After(queue, k) \in Seq(Windows) /\ queue[k] \in Windows
      BY <2>2, <3>2, AfterType
    <3>4. <<win[queue[k]].class, queue[k]>> \in Paths
      BY <2>2, <3>3 DEF TrackerInvariant, TrackerTypeOK, Paths
    <3> DEFINE b == [phase |-> "info", queue |-> After(queue, k),
                     path |-> <<win[queue[k]].class, queue[k]>>,
                     version |-> 0, token |-> fires', results |-> {}]
    <3>5. batch' = [batch EXCEPT ![fires'] = b]
      BY <2>2
    <3>6. b \in BatchType
      BY <1>2, <3>3, <3>4, TrackerAssumption DEF BatchType, Versions, Batches
    <3>7. b.path \in Paths /\ b.token = token'[b.path[2]] /\ b.phase = "info"
      BY <1>1, <3>2, <3>3, <3>4
    <3>8. batch \in [Batches -> BatchType]
      BY DEF TrackerInvariant, TrackerTypeOK
    <3> HIDE DEF b
    <3>9. QED
      BY <1>2, <3>5, <3>6, <3>7, <3>8
  <2>3. QED
    BY <2>1, <2>2 DEF Fire, StartBatch
<1>6. \A m \in Batches : batch'[m].phase # "idle" => batch'[m].path \in Paths
  BY <1>5 DEF TrackerInvariant, TrackerTypeOK
<1>7. TrackerTypeOK'
  <2>1. fires' \in 0..changes' /\ changes' \in 0..MaxChanges /\ disturbances' \in 0..MaxDisturbances
    BY <1>0, <1>1, <1>2 DEF TrackerInvariant, TrackerTypeOK, counters
  <2>2. armed' \in BOOLEAN
    BY DEF Fire, StartBatch
  <2>3. QED
    BY <1>1, <1>3, <1>4, <1>5, <1>6, <2>1, <2>2 DEF TrackerInvariant, TrackerTypeOK, session
<1>8. ASSUME NEW m \in Batches, batch'[m].phase # "idle", batch'[m].token # 0
      PROVE  token'[batch'[m].path[2]] = batch'[m].token
               \/ <<batch'[m].path[2], batch'[m].token>> \in cancelled'
  <2>1. CASE Old(m)
    <3>1. batch[m].path[2] \in Windows /\ batch[m].token \in Nat
      BY <1>8, <2>1, CurrentBatch
    <3>2. token[batch[m].path[2]] = batch[m].token \/ <<batch[m].path[2], batch[m].token>> \in cancelled
      BY <1>8, <2>1 DEF TrackerInvariant, SavesAreCancellable, Live
    <3>3. QED
      BY <1>1, <1>3, <1>8, <2>1, <3>1, <3>2
  <2>2. CASE New(m)
    BY <2>2
  <2>3. QED
    BY <1>5, <2>1, <2>2
<1>9. \A w \in closed : win[w].is = "gone" /\ token'[w] = token[w]
  BY <1>1 DEF TrackerInvariant, SavesAreCancellable, TrackerTypeOK
<1>10. SavesAreCancellable'
  BY <1>1, <1>3, <1>4, <1>8, <1>9 DEF TrackerInvariant, SavesAreCancellable, Live
<1>11. VersionsCount'
  BY <1>1, <1>5 DEF TrackerInvariant, VersionsCount, counters
<1>12. QED
  BY <1>1, <1>7, <1>10, <1>11 DEF TrackerInvariant, QueueIsArmed, counters

-----------------------------------------------------------------------------
(* The desktop.                                                            *)

(* A window that changed waits, unless the session ends: the closed ones   *)
(* have changed for the last time.                                         *)
LEMMA ChangePreserves ==
  ASSUME TrackerInvariant, NEW w \in Windows,
         win' \in [Windows -> WindowType],
         win'[w].is = "open", win'[w].class \in Classes, win[w].is # "gone",
         win'[w].version \in 1..(win[w].version + 1),
         \A v \in Windows \ {w} : win'[v] = win[v],
         running' \in BOOLEAN, Change, Prepare(w),
         UNCHANGED <<token, cancelled, batch, fires, books, closed, session, disturbances, spared>>
  PROVE  TrackerInvariant'
<1>1. w \notin closed
  BY DEF TrackerInvariant, SavesAreCancellable
<1>2. changes' = changes + 1 /\ changes' \in 0..MaxChanges /\ fires < changes' /\ fires \in 0..changes'
  BY TrackerAssumption DEF Change, TrackerInvariant, TrackerTypeOK
<1>3. /\ toSave' \subseteq toSave \cup {w} /\ armed' \in BOOLEAN /\ QueueIsArmed'
      /\ excused' \subseteq Windows
  BY DEF Prepare, TrackerInvariant, TrackerTypeOK, QueueIsArmed
<1>4. TrackerTypeOK'
  BY <1>2, <1>3 DEF TrackerInvariant, TrackerTypeOK, session
<1>5. SavesAreCancellable'
  <2>1. \A v \in closed : win'[v].is = "gone" /\ v \notin toSave'
    BY <1>1, <1>3 DEF TrackerInvariant, TrackerTypeOK, SavesAreCancellable
  <2>2. \A v \in books.listening : win'[v].is # "new"
    BY DEF TrackerInvariant, TrackerTypeOK, BooksType, SavesAreCancellable
  <2>3. QED
    BY <2>1, <2>2 DEF TrackerInvariant, SavesAreCancellable, Live
<1>6. \A v \in Windows : win'[v].version <= changes'
  <2>1. ASSUME NEW v \in Windows
        PROVE  win'[v].version <= changes'
    <3>1. win[v].version \in Nat /\ win[v].version <= changes /\ changes \in Nat
      BY DEF TrackerInvariant, TrackerTypeOK, VersionsCount, WindowType, Versions
    <3>2. win'[v].version \in Nat
      BY DEF WindowType, Versions
    <3>3. CASE v = w
      BY <1>2, <3>1, <3>2, <3>3
    <3>4. CASE v # w
      BY <1>2, <3>1, <3>4
    <3>5. QED
      BY <3>3, <3>4
  <2>2. QED
    BY <2>1
<1>7. VersionsCount'
  BY <1>6 DEF TrackerInvariant, VersionsCount
<1>8. QED
  BY <1>2, <1>3, <1>4, <1>5, <1>7 DEF TrackerInvariant

(* Windows the tracker listened to are gone: their saves are cancelled,    *)
(* they wait no more, and their records are cleaned up.                    *)
LEMMA RetirePreserves ==
  ASSUME TrackerInvariant, NEW ws \in SUBSET books.listening, Retire(ws),
         win' \in [Windows -> WindowType],
         \A v \in Windows : win'[v].is # "new" <=> win[v].is # "new",
         \A v \in Windows : win'[v].class = win[v].class /\ win'[v].version = win[v].version,
         \A v \in Windows : win[v].is = "gone" => win'[v].is = "gone",
         \A v \in ws : win'[v].is = "gone",
         running' \in BOOLEAN,
         UNCHANGED <<token, batch, fires, session, counters, excused>>
  PROVE  TrackerInvariant'
<1>1. books \in BooksType /\ ws \in SUBSET Windows
  BY DEF TrackerInvariant, TrackerTypeOK, BooksType
<1>2. /\ cancelled' \subseteq Windows \X Nat /\ cancelled \subseteq cancelled'
      /\ \A w \in ws : token[w] # 0 => <<w, token[w]>> \in cancelled'
  BY <1>1, CancelEffect DEF Retire
<1>3. RecordsOf(ws) \in SUBSET Paths
  BY DEF RecordsOf
<1>4. books' \in BooksType /\ books'.listening \subseteq books.listening
  <2>1. CleanUp(books, RecordsOf(ws)) \in BooksType
        /\ CleanUp(books, RecordsOf(ws)).listening = books.listening
    BY <1>1, <1>3, CleanUpEffect
  <2>2. books' = [CleanUp(books, RecordsOf(ws)) EXCEPT !.listening = @ \ {w \in ws : ~running'}]
    BY DEF Retire
  <2>3. QED
    BY <2>1, <2>2 DEF BooksType
<1>5. /\ closed' = closed \cup ws /\ toSave' = toSave \ ws /\ UNCHANGED armed
      /\ spared' \subseteq Windows
  BY <1>1 DEF Retire, TrackerInvariant, TrackerTypeOK
<1>6. TrackerTypeOK'
  BY <1>1, <1>2, <1>4, <1>5 DEF TrackerInvariant, TrackerTypeOK, session, counters
<1>7. SavesAreCancellable'
  <2>1. \A w \in closed' : win'[w].is = "gone" /\ w \notin toSave'
    BY <1>1, <1>5 DEF TrackerInvariant, TrackerTypeOK, SavesAreCancellable
  <2>2. \A w \in closed' : token[w] # 0 => <<w, token[w]>> \in cancelled'
    BY <1>2, <1>5 DEF TrackerInvariant, SavesAreCancellable, Live
  <2>3. \A w \in books'.listening : win'[w].is # "new"
    BY <1>1, <1>4 DEF TrackerInvariant, SavesAreCancellable, BooksType
  <2>4. QED
    BY <1>2, <2>1, <2>2, <2>3 DEF TrackerInvariant, SavesAreCancellable, Live
<1>8. VersionsCount'
  BY DEF TrackerInvariant, VersionsCount, counters
<1>9. QED
  BY <1>5, <1>6, <1>7, <1>8 DEF TrackerInvariant, QueueIsArmed, counters

LEMMA BeginShutdownPreserves ==
  ASSUME TrackerInvariant, BeginShutdown
  PROVE  TrackerInvariant'
<1>1. cancelled' = Cancel(Windows) /\ token' = [w \in Windows |-> 0]
  BY DEF BeginShutdown
<1>2. /\ cancelled' \subseteq Windows \X Nat /\ cancelled \subseteq cancelled'
      /\ \A w \in Windows : token[w] # 0 => <<w, token[w]>> \in cancelled'
  BY <1>1, CancelEffect
<1>3. TrackerTypeOK'
  <2>1. disturbances' \in 0..MaxDisturbances
    BY TrackerAssumption DEF BeginShutdown, Disturb, TrackerInvariant, TrackerTypeOK
  <2>2. armed' \in BOOLEAN /\ shutdown' \in BOOLEAN
    BY DEF BeginShutdown
  <2>3. token' \in [Windows -> Nat]
    BY <1>1
  <2>4. QED
    BY <1>2, <2>1, <2>2, <2>3 DEF BeginShutdown, TrackerInvariant, TrackerTypeOK
<1>4. ASSUME NEW n \in Batches, batch[n].phase # "idle", batch[n].token # 0
      PROVE  <<batch[n].path[2], batch[n].token>> \in cancelled'
  <2>1. batch[n].path[2] \in Windows
    BY <1>4, CurrentBatch
  <2>2. token[batch[n].path[2]] = batch[n].token \/ <<batch[n].path[2], batch[n].token>> \in cancelled
    BY <1>4 DEF TrackerInvariant, SavesAreCancellable, Live
  <2>3. QED
    BY <1>2, <1>4, <2>1, <2>2
<1>5. closed \subseteq Windows /\ fires \in Nat
  BY DEF TrackerInvariant, TrackerTypeOK
<1>6. SavesAreCancellable'
  BY <1>1, <1>4, <1>5 DEF BeginShutdown, TrackerInvariant, SavesAreCancellable, Live
<1>7. QED
  BY <1>3, <1>6 DEF BeginShutdown, TrackerInvariant, VersionsCount, QueueIsArmed

(* The end of a restore only clears records away.                          *)
LEMMA EndRestorePreserves ==
  ASSUME TrackerInvariant, EndRestore
  PROVE  TrackerInvariant'
<1>1. books' = Flush(books) /\ restorer' = FALSE
      /\ UNCHANGED <<win, running, saving, closed, shutdown, leaving, counters, excused, spared>>
  BY DEF EndRestore
<1>2. books' \in BooksType /\ books'.listening = books.listening
  BY <1>1, FlushEffect DEF TrackerInvariant, TrackerTypeOK
<1>3. TrackerTypeOK'
  BY <1>1, <1>2 DEF TrackerInvariant, TrackerTypeOK, saving, counters
<1>4. SavesAreCancellable'
  BY <1>1, <1>2 DEF TrackerInvariant, SavesAreCancellable, Live, saving
<1>5. QED
  BY <1>1, <1>3, <1>4 DEF TrackerInvariant, VersionsCount, QueueIsArmed, saving, counters

(* Each signal of a window keeps the invariant.                            *)
LEMMA WindowPreserves ==
  ASSUME TrackerInvariant, NEW w \in Windows, Open(w) \/ Alter(w) \/ Migrate(w) \/ Close(w)
  PROVE  TrackerInvariant'
<1>1. /\ win \in [Windows -> WindowType] /\ win[w].version \in Nat
      /\ win[w].version <= changes /\ changes \in Nat /\ changes <= MaxChanges /\ MaxChanges \in Nat
      /\ (win[w].is # "new" => win[w].class \in Classes)
  BY TrackerAssumption DEF TrackerInvariant, TrackerTypeOK, VersionsCount, WindowType, Versions
<1>2. running \in BOOLEAN
  BY DEF TrackerInvariant, TrackerTypeOK
<1>3. CASE Open(w) \/ Alter(w) \/ Migrate(w)
  <2>1. changes < MaxChanges
    BY <1>3 DEF Open, Alter, Migrate, Change
  <2>2. win[w].version + 1 \in Versions /\ 1 \in Versions
    BY <1>1, <2>1 DEF Versions
  <2>3. /\ win' \in [Windows -> WindowType]
        /\ win'[w].is = "open" /\ win'[w].class \in Classes /\ win[w].is # "gone"
        /\ win'[w].version \in 1..(win[w].version + 1)
        /\ \A v \in Windows \ {w} : win'[v] = win[v]
    <3>1. CASE Open(w)
      BY <1>1, <2>2, <3>1 DEF Open, WindowType
    <3>2. CASE Alter(w)
      BY <1>1, <2>2, <3>2 DEF Alter, WindowType
    <3>3. CASE Migrate(w)
      BY <1>1, <2>2, <3>3 DEF Migrate, WindowType
    <3>4. QED
      BY <1>3, <3>1, <3>2, <3>3
  <2>4. /\ running' \in BOOLEAN /\ Change /\ Prepare(w)
        /\ UNCHANGED <<token, cancelled, batch, fires, books, closed, session, disturbances, spared>>
    BY <1>2, <1>3 DEF Open, Alter, Migrate
  <2>5. QED
    BY <2>3, <2>4, ChangePreserves
<1>4. CASE Close(w)
  <2>1. /\ win' = [win EXCEPT ![w].is = "gone"] /\ win[w].is = "open" /\ running' = running
        /\ Retire({w} \cap books.listening)
        /\ UNCHANGED <<token, batch, fires, session, counters, excused>>
    BY <1>4 DEF Close
  <2>2. /\ win' \in [Windows -> WindowType]
        /\ \A v \in Windows : /\ win'[v].is # "new" <=> win[v].is # "new"
                              /\ win'[v].class = win[v].class /\ win'[v].version = win[v].version
                              /\ win[v].is = "gone" => win'[v].is = "gone"
        /\ win'[w].is = "gone"
    BY <1>1, <2>1 DEF WindowType
  <2>3. {w} \cap books.listening \in SUBSET books.listening
    OBVIOUS
  <2>4. \A v \in {w} \cap books.listening : win'[v].is = "gone"
    BY <2>2
  <2>5. QED
    BY <1>2, <2>1, <2>2, <2>3, <2>4, RetirePreserves
<1>5. QED
  BY <1>3, <1>4

LEMMA AppStopsPreserves ==
  ASSUME TrackerInvariant, AppStops
  PROVE  TrackerInvariant'
<1>1. /\ win' = win /\ running' = FALSE /\ \A w \in Windows : win[w].is # "open"
      /\ Retire(books.listening)
      /\ UNCHANGED <<token, batch, fires, session, counters, excused>>
  BY DEF AppStops
<1>2. win \in [Windows -> WindowType] /\ books.listening \in SUBSET Windows
  BY DEF TrackerInvariant, TrackerTypeOK, BooksType
<1>3. \A v \in books.listening : win'[v].is = "gone"
  BY <1>1, <1>2 DEF TrackerInvariant, SavesAreCancellable, WindowType
<1>4. QED
  BY <1>1, <1>2, <1>3, RetirePreserves

-----------------------------------------------------------------------------
(* All steps.                                                              *)

LEMMA Initially == Init => TrackerInvariant
<1> SUFFICES ASSUME Init PROVE TrackerInvariant
  OBVIOUS
<1>1. 0 \in Versions /\ MaxChanges \in Nat /\ MaxDisturbances \in Nat
  BY TrackerAssumption DEF Versions
<1>2. Idle \in BatchType /\ Idle.phase = "idle"
  BY <1>1 DEF Idle, BatchType
<1>3. books \in BooksType /\ books.listening = {}
  BY <1>1 DEF Init, BooksType
<1>4. TrackerTypeOK
  <2>1. win \in [Windows -> WindowType] /\ \A w \in Windows : win[w].is = "new"
    BY <1>1 DEF Init, WindowType
  <2>2. batch \in [Batches -> BatchType] /\ \A n \in Batches : batch[n].phase = "idle"
    BY <1>2 DEF Init
  <2>3. /\ token \in [Windows -> Nat] /\ cancelled \subseteq Windows \X Nat
        /\ fires \in 0..changes /\ changes \in 0..MaxChanges /\ disturbances \in 0..MaxDisturbances
    BY <1>1 DEF Init
  <2>4. QED
    BY <1>3, <2>1, <2>2, <2>3 DEF Init, TrackerTypeOK
<1>5. SavesAreCancellable
  BY <1>2, <1>3 DEF Init, SavesAreCancellable
<1>6. QED
  BY <1>2, <1>4, <1>5 DEF Init, TrackerInvariant, VersionsCount, QueueIsArmed

(* The rest of the steps change no more than a flag of the session, or     *)
(* disarm a timer that nothing waits for.                                  *)
LEMMA FlagPreserves ==
  ASSUME TrackerInvariant,
         FireIdle \/ CancelShutdown \/ Confirm \/ BeginRestore \/ UNCHANGED vars
  PROVE  TrackerInvariant'
<1>1. UNCHANGED <<win, running, toSave, token, cancelled, batch, fires, books, closed, changes,
                  excused, spared>>
  BY DEF FireIdle, CancelShutdown, Confirm, BeginRestore, saving, counters, vars
<1>2. /\ disturbances' \in 0..MaxDisturbances
      /\ armed' \in BOOLEAN /\ shutdown' \in BOOLEAN /\ leaving' \in BOOLEAN /\ restorer' \in BOOLEAN
      /\ toSave # {} => armed' = armed
  <2>1. /\ disturbances \in 0..MaxDisturbances /\ MaxDisturbances \in Nat
        /\ armed \in BOOLEAN /\ shutdown \in BOOLEAN /\ leaving \in BOOLEAN /\ restorer \in BOOLEAN
    BY TrackerAssumption DEF TrackerInvariant, TrackerTypeOK
  <2>2. CASE FireIdle
    BY <2>1, <2>2 DEF FireIdle, session, counters
  <2>3. CASE CancelShutdown
    BY <2>1, <2>3 DEF CancelShutdown, saving, counters
  <2>4. CASE Confirm
    BY <2>1, <2>4 DEF Confirm, Disturb, saving
  <2>5. CASE BeginRestore
    <3>1. disturbances' \in 0..MaxDisturbances
      BY <2>1, <2>5 DEF BeginRestore, Disturb
    <3>2. UNCHANGED <<armed, shutdown>> /\ restorer' = TRUE
      BY <2>5 DEF BeginRestore, saving
    <3>3. leaving' = leaving \/ leaving' = FALSE
      BY <2>5, Zenon DEF BeginRestore
    <3>4. leaving' \in BOOLEAN /\ armed' \in BOOLEAN /\ shutdown' \in BOOLEAN /\ restorer' \in BOOLEAN
      <4>1. leaving' \in BOOLEAN
        BY <2>1, <3>3, Zenon
      <4>2. armed' \in BOOLEAN /\ shutdown' \in BOOLEAN
        BY <2>1, <3>2
      <4>3. restorer' \in BOOLEAN
        BY <3>2, Zenon
      <4>4. QED
        BY <4>1, <4>2, <4>3, Zenon
    <3>5. toSave # {} => armed' = armed
      BY <3>2, Zenon
    <3>6. QED
      BY <3>1, <3>4, <3>5, Zenon
  <2>6. CASE UNCHANGED vars
    BY <2>1, <2>6 DEF vars, saving, session, counters
  <2>7. QED
    BY <2>2, <2>3, <2>4, <2>5, <2>6
<1>3. TrackerTypeOK'
  BY <1>1, <1>2 DEF TrackerInvariant, TrackerTypeOK
<1>4. SavesAreCancellable' /\ VersionsCount'
  BY <1>1 DEF TrackerInvariant, SavesAreCancellable, VersionsCount, Live
<1>5. QED
  BY <1>1, <1>2, <1>3, <1>4 DEF TrackerInvariant, QueueIsArmed

LEMMA NextPreserves == TrackerInvariant /\ [Next]_vars => TrackerInvariant'
<1> SUFFICES ASSUME TrackerInvariant, [Next]_vars PROVE TrackerInvariant'
  OBVIOUS
<1>1. CASE Fire
  BY <1>1, FirePreserves
<1>2. ASSUME NEW n \in Batches, BatchStep(n) PROVE TrackerInvariant'
  <2>1. CASE Written(n)
    BY <2>1, WrittenPreserves
  <2>2. CASE InfoArrives(n) \/ InfoFails(n) \/ Reported(n) \/ WriteFails(n)
    BY <2>2, BatchSteps, BatchStepPreserves
  <2>3. QED
    BY <1>2, <2>1, <2>2 DEF BatchStep
<1>3. ASSUME NEW w \in Windows, Open(w) \/ Alter(w) \/ Migrate(w) \/ Close(w)
      PROVE  TrackerInvariant'
  BY <1>3, WindowPreserves
<1>4. CASE FireIdle \/ CancelShutdown \/ Confirm \/ BeginRestore \/ UNCHANGED vars
  BY <1>4, FlagPreserves
<1>5. QED
  BY <1>1, <1>2, <1>3, <1>4, AppStopsPreserves, BeginShutdownPreserves, EndRestorePreserves
     DEF Next, Environment

LEMMA Invariance == Spec => []TrackerInvariant
BY Initially, NextPreserves, PTL DEF Spec

(* What a step can do to the files: it replaces one, or only removes some, *)
(* and none while the session ends or a restore is in progress.            *)
LEMMA FilesEffect ==
  ASSUME TrackerInvariant, [Next]_vars
  PROVE  \/ \E n \in Batches : Written(n)
         \/ /\ \A p \in Paths : books'.files[p] \in {0, books.files[p]}
            /\ Protected \/ restorer' => books'.files = books.files
<1>0. books \in BooksType
  BY DEF TrackerInvariant, TrackerTypeOK
<1> DEFINE Goal == /\ \A p \in Paths : books'.files[p] \in {0, books.files[p]}
                   /\ Protected \/ restorer' => books'.files = books.files
<1>1. ASSUME NEW n \in Batches, InfoArrives(n) \/ InfoFails(n) \/ Reported(n) \/ WriteFails(n)
      PROVE  Goal
  <2>1. BatchEffect /\ UNCHANGED session
    BY <1>1, BatchSteps
  <2>2. QED
    BY <2>1 DEF BatchEffect, session
<1>2. ASSUME NEW ws \in SUBSET Windows, Retire(ws), UNCHANGED session
      PROVE  Goal
  <2>1. RecordsOf(ws) \in SUBSET Paths
    BY DEF RecordsOf
  <2>2. CleanUp(books, RecordsOf(ws)) \in BooksType
        /\ books'.files = CleanUp(books, RecordsOf(ws)).files
    BY <1>0, <1>2, <2>1, CleanUpEffect DEF Retire, BooksType
  <2>3. QED
    BY <1>0, <1>2, <2>1, <2>2, CleanUpEffect DEF session
<1>3. CASE EndRestore
  BY <1>0, <1>3, FlushEffect DEF EndRestore
<1>4. CASE UNCHANGED books
  BY <1>4
<1>5. ASSUME NEW w \in Windows, Close(w) PROVE Goal
  BY <1>2, <1>5 DEF Close
<1>6. CASE AppStops
  <2>1. books.listening \in SUBSET Windows
    BY <1>0 DEF BooksType
  <2>2. QED
    BY <1>2, <1>6, <2>1 DEF AppStops
<1>7. ASSUME NEW w \in Windows, Open(w) \/ Alter(w) \/ Migrate(w) PROVE UNCHANGED books
  BY <1>7 DEF Open, Alter, Migrate
<1>8. CASE Fire \/ FireIdle \/ BeginShutdown \/ CancelShutdown \/ Confirm \/ BeginRestore \/ UNCHANGED vars
  BY <1>8 DEF Fire, StartBatch, FireIdle, BeginShutdown, CancelShutdown, Confirm, BeginRestore, vars
<1>9. QED
  BY <1>1, <1>3, <1>4, <1>5, <1>6, <1>7, <1>8 DEF Next, BatchStep, Environment

-----------------------------------------------------------------------------
(* What is recorded, and what is removed.                                  *)

(* The class c in a path, a result or a registration of the window w.      *)
Names(c, w) == win[w].migrated \/ c = win[w].class

(* Cancellables are of batches that have begun, the other batches are idle *)
(* and results come with the first write.  All paths of a window that      *)
(* never changed its class name that class, so that a clean-up is pending  *)
(* only for windows that changed it or are gone.                           *)
TracesAgree ==
  /\ \A w \in Windows : win[w].is = "new" => ~win[w].migrated /\ win[w].class = NoClass
  /\ \A w \in Windows, t \in Nat : <<w, t>> \in cancelled => t # 0 /\ t <= fires
  /\ \A n \in Batches : n > fires => batch[n].phase = "idle"
  /\ \A n \in Batches : batch[n].phase \in {"idle", "info"} => batch[n].results = {}
  /\ \A n \in Batches : \A p \in batch[n].results : Names(p[1], p[2])
  /\ \A n \in Batches : batch[n].phase # "idle" => Names(batch[n].path[1], batch[n].path[2])
  /\ \A w \in Windows : books.record[w] # NoClass => Names(books.record[w], w)
  /\ \A p \in Paths : books.pending[p] # 0 => win[p[2]].migrated \/ win[p[2]].is = "gone"

(* The batch n saves the window w, or will when its turn comes.            *)
Saves(n, w) ==
  \/ batch[n].phase = "info" /\ batch[n].path[2] = w /\ batch[n].token = n
  \/ batch[n].phase # "idle" /\ w \in ToSet(batch[n].queue)
  \/ /\ batch[n].phase = "writing" /\ batch[n].token = n
     /\ batch[n].path = <<win[w].class, w>> /\ batch[n].version = win[w].version

(* The newest batch of the window w has not been told to leave it.         *)
Serves(n, w) == token[w] = n /\ Live(w, n) /\ Saves(n, w)

(* No write that may still replace the record has older bytes.             *)
WritesLatest(w) ==
  \A n \in Batches :
    batch[n].phase = "writing" /\ batch[n].token # 0 /\ batch[n].path[2] = w
      /\ Live(w, batch[n].token) =>
    batch[n].path = <<win[w].class, w>> /\ batch[n].version = win[w].version

Settled(w) == win[w].is = "open" /\ ~win[w].migrated /\ w \notin excused /\ w \notin toSave

Recorded(w) ==
  /\ books.files[<<win[w].class, w>>] = win[w].version \/ \E n \in Batches : Serves(n, w)
  /\ WritesLatest(w)

(* Why each change is recorded in the end: what a window was last seen to  *)
(* be is in its file, or a batch that nobody cancelled has it on its list; *)
(* and no write under way can put older bytes there.                       *)
LatestIsKept == \A w \in Windows : Settled(w) => Recorded(w)

(* A batch has just written the record at p, or will clean it up when it   *)
(* registers its results.                                                  *)
Returning(p) ==
  \E n \in Batches :
    \/ batch[n].phase = "written" /\ batch[n].token = 0 /\ batch[n].path = p
    \/ p \in batch[n].results

Removed(b, p) == b.files[p] = 0 \/ b.pending[p] = b.files[p]

(* Why the record of a closed window goes: it is gone, its removal waits   *)
(* for the end of a restore, or a batch that wrote it will remove it.      *)
ClosedAreRemoved ==
  \A w \in closed \ spared, c \in Classes :
    books.record[w] = c => Removed(books, <<c, w>>) \/ Returning(<<c, w>>)

RecordsInvariant == TracesAgree /\ LatestIsKept /\ ClosedAreRemoved

(* A clean-up touches only the paths it is given, and removes their        *)
(* records unless they are protected.                                      *)
LEMMA CleanUpRemoves ==
  ASSUME NEW b \in BooksType, NEW ps \in SUBSET Paths
  PROVE  /\ \A p \in Paths \ ps : /\ CleanUp(b, ps).files[p] = b.files[p]
                                  /\ CleanUp(b, ps).pending[p] = b.pending[p]
         /\ ~Protected => \A p \in ps : Removed(CleanUp(b, ps), p)
         /\ \A p \in Paths : Removed(b, p) => Removed(CleanUp(b, ps), p)
<1> DEFINE exist == {p \in ps : b.files[p] # 0}
           f == [p \in Paths |-> IF p \in exist THEN 0 ELSE b.files[p]]
           q == [p \in Paths |-> IF p \in exist THEN b.files[p] ELSE b.pending[p]]
<1>3. CASE Protected
  BY <1>3 DEF CleanUp
<1>4. CASE ~Protected /\ restorer
  <2>1. CleanUp(b, ps) = [b EXCEPT !.pending = q]
    BY <1>4 DEF CleanUp, BooksType
  <2>2. CleanUp(b, ps).pending = q /\ CleanUp(b, ps).files = b.files
    BY <2>1 DEF BooksType
  <2>3. QED
    BY <2>2 DEF Removed
<1>5. CASE ~Protected /\ ~restorer
  <2>1. CleanUp(b, ps) = [b EXCEPT !.files = f]
    BY <1>5 DEF CleanUp, BooksType
  <2>2. CleanUp(b, ps).files = f /\ CleanUp(b, ps).pending = b.pending
    BY <2>1 DEF BooksType
  <2>3. QED
    BY <2>2 DEF Removed
<1>6. QED
  BY <1>3, <1>4, <1>5

(* A registration keeps what it must: the records of windows that never    *)
(* changed their class and are not gone; it removes those of closed        *)
(* windows, and never registers these anew.                                *)
LEMMA RegisterKeeps ==
  ASSUME TrackerInvariant, TracesAgree, NEW results \in SUBSET Paths,
         \A p \in results : Names(p[1], p[2])
  PROVE  LET r == Register(books, results) IN
         /\ \A w \in Windows : r.record[w] # NoClass => Names(r.record[w], w)
         /\ \A w \in closed : r.record[w] = books.record[w]
         /\ \A p \in Paths : ~win[p[2]].migrated /\ win[p[2]].is # "gone" =>
              r.files[p] = books.files[p] /\ r.pending[p] = books.pending[p]
         /\ ~Protected => \A p \in results : p[2] \in closed => Removed(r, p)
         /\ \A p \in Paths : Removed(books, p) => Removed(r, p)
<1> DEFINE late == {p \in results : p[2] \in closed}
           saved(w) == \E p \in results \ late : p[2] = w
           class(w) == IF saved(w) THEN (CHOOSE p \in results \ late : p[2] = w)[1] ELSE books.record[w]
           left == {p \in Paths : books.record[p[2]] = p[1] /\ class(p[2]) # p[1]}
           new == {w \in Windows : saved(w) /\ books.record[w] = NoClass /\ win[w].is = "open"}
           rec == [w \in Windows |-> class(w)]
           b1 == [books EXCEPT !.record = rec, !.listening = @ \cup new]
           r == Register(books, results)
<1>0. books \in BooksType
  BY DEF TrackerInvariant, TrackerTypeOK
<1>1. r = CleanUp(b1, late \cup left)
  BY DEF Register
<1>2. ASSUME NEW w \in Windows, saved(w)
      PROVE  class(w) \in Classes /\ Names(class(w), w) /\ w \notin closed
  <2>1. PICK p \in results \ late : p[2] = w
    BY <1>2
  <2>2. (CHOOSE q \in results \ late : q[2] = w) \in {q \in results \ late : q[2] = w}
    BY <2>1
  <2>3. QED
    BY <1>2, <2>2 DEF Paths
<1>3. rec \in [Windows -> Classes \cup {NoClass}]
  BY <1>0, <1>2 DEF BooksType
<1>4. /\ b1 \in BooksType /\ b1.files = books.files /\ b1.pending = books.pending
      /\ b1.record = rec
  BY <1>0, <1>3 DEF BooksType
<1>5. late \cup left \in SUBSET Paths
  OBVIOUS
<1>6. \A w \in Windows : rec[w] # NoClass => Names(rec[w], w)
  BY <1>2 DEF TracesAgree
<1>7. \A w \in closed : rec[w] = books.record[w]
  BY <1>2 DEF TrackerInvariant, TrackerTypeOK
<1>8. ASSUME NEW p \in Paths, p \in late \cup left
      PROVE  win[p[2]].migrated \/ win[p[2]].is = "gone"
  <2>1. p[2] \in Windows /\ p[1] \in Classes /\ p[1] # NoClass
    BY TrackerAssumption DEF Paths
  <2>2. CASE p \in late
    BY <2>2 DEF TrackerInvariant, SavesAreCancellable
  <2>3. CASE p \in left
    <3>1. saved(p[2])
      BY <2>3
    <3>2. Names(class(p[2]), p[2]) /\ Names(books.record[p[2]], p[2])
      BY <1>2, <2>1, <2>3, <3>1 DEF TracesAgree
    <3>3. QED
      BY <2>3, <3>2 DEF Names
  <2>4. QED
    BY <1>8, <2>2, <2>3
<1> HIDE DEF b1, left, rec
<1>9. r.record = rec
  BY <1>1, <1>4, <1>5, CleanUpEffect
<1>10. \A p \in Paths : Removed(books, p) => Removed(b1, p)
  BY <1>4 DEF Removed
<1>11. /\ \A p \in Paths \ (late \cup left) : r.files[p] = books.files[p] /\ r.pending[p] = books.pending[p]
       /\ ~Protected => \A p \in late : Removed(r, p)
       /\ \A p \in Paths : Removed(books, p) => Removed(r, p)
  BY <1>1, <1>4, <1>5, <1>10, CleanUpRemoves
<1>12. QED
  BY <1>6, <1>7, <1>8, <1>9, <1>11

(* What follows the place k in a queue is what stands after it.            *)
LEMMA InAfter ==
  ASSUME NEW queue \in Seq(Windows), NEW k \in DOMAIN queue, NEW j \in DOMAIN queue, j > k
  PROVE  queue[j] \in ToSet(After(queue, k))
<1>1. k \in Nat /\ j \in Nat /\ Len(queue) \in Nat /\ k >= 1 /\ j <= Len(queue)
  OBVIOUS
<1>2. \A i \in (k + 1)..Len(queue) : queue[i] \in Windows
  OBVIOUS
<1>3. /\ Len(After(queue, k)) = Len(queue) - k
      /\ After(queue, k) \in Seq(Windows)
      /\ \A i \in 1..(Len(queue) - k) : After(queue, k)[i] = queue[k + i]
  BY <1>1, <1>2, SubSeqProperties DEF After
<1>4. (j - k) \in DOMAIN After(queue, k) /\ After(queue, k)[j - k] = queue[j]
  <2>1. (j - k) \in 1..(Len(queue) - k) /\ k + (j - k) = j
    BY <1>1
  <2>2. DOMAIN After(queue, k) = 1..Len(After(queue, k))
    BY <1>3
  <2>3. After(queue, k)[j - k] = queue[k + (j - k)]
    BY <1>3, <2>1
  <2>4. QED
    BY <1>3, <2>1, <2>2, <2>3
<1>5. QED
  BY <1>4 DEF ToSet

(* What a batch step leaves alone.                                         *)
Aside == UNCHANGED <<win, toSave, token, cancelled, fires, closed>> /\ excused \subseteq excused'

(* The results handed on name records the batch may register, among them   *)
(* each one that it had, or has just written without a cancellable.        *)
Carried(n, results) ==
  /\ results \subseteq Paths
  /\ \A p \in results : Names(p[1], p[2])
  /\ batch[n].results \subseteq results
  /\ batch[n].phase = "written" /\ batch[n].token = 0 => batch[n].path \in results

(* The end of a batch keeps what is recorded, if it served no window that  *)
(* is still to be recorded, and removes the records of closed windows.     *)
LEMMA EndKeeps ==
  ASSUME TrackerInvariant, RecordsInvariant, NEW n \in Batches, NEW results, Carried(n, results),
         EndBatch(n, results), Aside,
         \A w \in Windows : win[w].is = "open" /\ Serves(n, w) => w \in excused'
  PROVE  RecordsInvariant'
<1> DEFINE r == Register(books, results)
<1>1. batch' = [batch EXCEPT ![n] = Idle] /\ books' = r
      /\ spared' = IF Protected THEN spared \cup {w \in closed : \E p \in results : p[2] = w}
                   ELSE spared
  BY DEF EndBatch
<1>2. DOMAIN batch = Batches
  BY DEF TrackerInvariant, TrackerTypeOK
<1>3. Idle.phase = "idle" /\ Idle.results = {}
  BY DEF Idle
<1>4. batch'[n] = Idle /\ \A m \in Batches \ {n} : batch'[m] = batch[m]
  BY <1>1, <1>2
<1>5. /\ \A w \in Windows : r.record[w] # NoClass => Names(r.record[w], w)
      /\ \A w \in closed : r.record[w] = books.record[w]
      /\ \A p \in Paths : ~win[p[2]].migrated /\ win[p[2]].is # "gone" =>
           r.files[p] = books.files[p] /\ r.pending[p] = books.pending[p]
      /\ ~Protected => \A p \in results : p[2] \in closed => Removed(r, p)
      /\ \A p \in Paths : Removed(books, p) => Removed(r, p)
  BY RegisterKeeps DEF RecordsInvariant, Carried
<1> HIDE DEF r
<1>6. TracesAgree'
  <2>1. \A m \in Batches : /\ batch'[m].phase # "idle" => batch'[m] = batch[m]
                           /\ batch'[m].results = {} \/ batch'[m] = batch[m]
    BY <1>3, <1>4
  <2>2. \A p \in Paths : books'.pending[p] # 0 => win[p[2]].migrated \/ win[p[2]].is = "gone"
    BY <1>1, <1>5 DEF RecordsInvariant, TracesAgree
  <2>3. \A m \in Batches : batch'[m].phase \in {"idle", "info"} => batch'[m].results = {}
    BY <1>3, <1>4 DEF RecordsInvariant, TracesAgree
  <2>4. QED
    BY <1>1, <1>3, <1>4, <1>5, <2>1, <2>2, <2>3 DEF RecordsInvariant, TracesAgree, Names, Aside
<1>7. ASSUME NEW w \in Windows, Settled(w)' PROVE Recorded(w)'
  <2>1. Settled(w) /\ Recorded(w) /\ ~Serves(n, w)
    BY <1>7 DEF RecordsInvariant, LatestIsKept, Settled, Aside
  <2>2. win'[w] = win[w] /\ win[w].class \in Classes
    BY <2>1 DEF Aside, Settled, TrackerInvariant, TrackerTypeOK
  <2>3. books'.files[<<win[w].class, w>>] = books.files[<<win[w].class, w>>]
    <3>1. <<win[w].class, w>> \in Paths /\ <<win[w].class, w>>[2] = w
      BY <2>2 DEF Paths
    <3>2. QED
      BY <1>1, <1>5, <2>1, <3>1 DEF Settled
  <2>4. ASSUME NEW m \in Batches, Serves(m, w) PROVE Serves(m, w)'
    <3>1. batch'[m] = batch[m]
      BY <1>4, <2>1, <2>4
    <3>2. QED
      BY <2>4, <2>2, <3>1 DEF Serves, Saves, Live, Aside
  <2>5. WritesLatest(w)'
    BY <1>3, <1>4, <2>1, <2>2 DEF Recorded, WritesLatest, Live, Aside
  <2>6. QED
    BY <2>1, <2>2, <2>3, <2>4, <2>5 DEF Recorded
<1>8. ASSUME NEW w \in closed' \ spared', NEW c \in Classes, books'.record[w] = c
      PROVE  Removed(books', <<c, w>>) \/ Returning(<<c, w>>)'
  <2>1. w \in closed /\ w \in Windows /\ w \notin spared
    BY <1>1, <1>8 DEF Aside, TrackerInvariant, TrackerTypeOK
  <2>2. <<c, w>> \in Paths /\ <<c, w>>[2] = w
    BY <2>1 DEF Paths
  <2>3. Removed(books, <<c, w>>) \/ Returning(<<c, w>>)
    BY <1>1, <1>5, <1>8, <2>1 DEF RecordsInvariant, ClosedAreRemoved
  <2>4. CASE <<c, w>> \in results
    <3>1. ~Protected
      BY <1>1, <1>8, <2>1, <2>2, <2>4
    <3>2. QED
      BY <1>1, <1>5, <2>1, <2>2, <2>4, <3>1
  <2>5. CASE Removed(books, <<c, w>>)
    BY <1>1, <1>5, <2>2, <2>5
  <2>6. CASE <<c, w>> \notin results /\ Returning(<<c, w>>)
    <3>1. PICK m \in Batches : \/ batch[m].phase = "written" /\ batch[m].token = 0
                                    /\ batch[m].path = <<c, w>>
                               \/ <<c, w>> \in batch[m].results
      BY <2>6 DEF Returning
    <3>2. m # n
      BY <2>6, <3>1 DEF Carried
    <3>3. QED
      BY <1>4, <3>1, <3>2 DEF Returning
  <2>7. QED
    BY <2>3, <2>4, <2>5, <2>6
<1>9. QED
  BY <1>6, <1>7, <1>8 DEF RecordsInvariant, LatestIsKept, ClosedAreRemoved

(* The next write of a batch keeps what is recorded, if the windows that   *)
(* the batch served are the one it writes and those of the queue.          *)
LEMMA WriteKeeps ==
  ASSUME TrackerInvariant, RecordsInvariant, NEW n \in Batches, n <= fires,
         NEW v \in Windows, win[v].is = "open", NEW t, NEW queue, NEW results, Carried(n, results),
         BeginWrite(n, v, t, queue, results), Aside,
         \A w \in Windows : win[w].is = "open" /\ Serves(n, w) =>
           w \in excused' \/ w \in ToSet(queue) \/ (w = v /\ t = n)
  PROVE  RecordsInvariant'
<1> DEFINE b == [phase |-> "writing", queue |-> queue, path |-> <<win[v].class, v>>,
                 version |-> win[v].version, token |-> t, results |-> results]
<1>1. batch' = [batch EXCEPT ![n] = b] /\ books' = books /\ spared' = spared
  BY DEF BeginWrite
<1>2. DOMAIN batch = Batches
  BY DEF TrackerInvariant, TrackerTypeOK
<1>3. /\ b.phase = "writing" /\ b.queue = queue /\ b.token = t /\ b.results = results
      /\ b.path = <<win[v].class, v>> /\ b.path[1] = win[v].class /\ b.path[2] = v
      /\ b.version = win[v].version
  OBVIOUS
<1> HIDE DEF b
<1>4. batch'[n] = b /\ \A m \in Batches \ {n} : batch'[m] = batch[m]
  BY <1>1, <1>2
<1>5. TracesAgree'
  <2>1. ASSUME NEW m \in Batches
        PROVE  /\ m > fires => batch'[m].phase = "idle"
               /\ batch'[m].phase \in {"idle", "info"} => batch'[m].results = {}
               /\ \A p \in batch'[m].results : Names(p[1], p[2])
               /\ batch'[m].phase # "idle" => Names(batch'[m].path[1], batch'[m].path[2])
    <3>1. CASE m = n
      <4>1. ~(n > fires)
        BY DEF TrackerInvariant, TrackerTypeOK, Batches
      <4>2. QED
        BY <1>3, <1>4, <3>1, <4>1 DEF Carried, Names
    <3>2. CASE m # n
      BY <1>4, <3>2 DEF RecordsInvariant, TracesAgree
    <3>3. QED
      BY <3>1, <3>2
  <2>2. QED
    BY <1>1, <2>1 DEF RecordsInvariant, TracesAgree, Names, Aside
<1>6. ASSUME NEW w \in Windows, Settled(w)' PROVE Recorded(w)'
  <2>1. Settled(w) /\ Recorded(w) /\ w \notin excused'
    BY <1>6 DEF RecordsInvariant, LatestIsKept, Settled, Aside
  <2>2. ASSUME NEW m \in Batches, Serves(m, w) PROVE Serves(m, w)'
    <3>1. CASE m # n
      <4>1. batch'[m] = batch[m]
        BY <1>4, <3>1
      <4>2. QED
        BY <2>2, <4>1 DEF Serves, Saves, Live, Aside
    <3>2. CASE m = n
      <4>1. w \in ToSet(queue) \/ (w = v /\ t = n)
        BY <2>1, <2>2, <3>2 DEF Settled
      <4>2. Saves(n, w)'
        BY <1>3, <1>4, <4>1 DEF Saves, Aside
      <4>3. QED
        BY <2>2, <3>2, <4>2 DEF Serves, Live, Aside
    <3>3. QED
      BY <3>1, <3>2
  <2>3. WritesLatest(w)'
    <3>1. SUFFICES ASSUME NEW m \in Batches, batch'[m].phase = "writing", batch'[m].token # 0,
                          batch'[m].path[2] = w, Live(w, batch[m].token)'
                   PROVE  batch'[m].path = <<win'[w].class, w>> /\ batch'[m].version = win'[w].version
      BY DEF WritesLatest, Live
    <3>2. CASE m = n
      BY <1>3, <1>4, <3>1, <3>2 DEF Aside
    <3>3. CASE m # n
      BY <1>4, <2>1, <3>1, <3>3 DEF Recorded, WritesLatest, Live, Aside
    <3>4. QED
      BY <3>2, <3>3
  <2>4. QED
    BY <1>1, <2>1, <2>2, <2>3 DEF Recorded, Aside
<1>7. ASSUME NEW w \in closed' \ spared', NEW c \in Classes, books'.record[w] = c
      PROVE  Removed(books', <<c, w>>) \/ Returning(<<c, w>>)'
  <2>1. Removed(books, <<c, w>>) \/ Returning(<<c, w>>)
    BY <1>1, <1>7 DEF Aside, RecordsInvariant, ClosedAreRemoved
  <2>2. ASSUME Returning(<<c, w>>) PROVE Returning(<<c, w>>)'
    <3>1. PICK m \in Batches : \/ batch[m].phase = "written" /\ batch[m].token = 0
                                    /\ batch[m].path = <<c, w>>
                               \/ <<c, w>> \in batch[m].results
      BY <2>2 DEF Returning
    <3>2. CASE m = n
      BY <1>3, <1>4, <3>1, <3>2 DEF Returning, Carried
    <3>3. CASE m # n
      BY <1>4, <3>1, <3>3 DEF Returning
    <3>4. QED
      BY <3>2, <3>3
  <2>3. QED
    BY <1>1, <2>1, <2>2
<1>8. QED
  BY <1>5, <1>6, <1>7 DEF RecordsInvariant, LatestIsKept, ClosedAreRemoved

(* The loop passes over no window that the batch serves.                   *)
LEMMA AdvanceKeeps ==
  ASSUME TrackerInvariant, RecordsInvariant, NEW n \in Batches, n <= fires,
         NEW queue \in Seq(Windows), NEW results, Carried(n, results),
         Advance(n, queue, results), Aside,
         \A w \in Windows : win[w].is = "open" /\ Serves(n, w) => w \in excused' \/ w \in ToSet(queue)
  PROVE  RecordsInvariant'
<1>1. \A w \in Windows : win[w].is = "open" /\ Serves(n, w) => ~Skips(w)
  BY DEF Skips, Serves
<1>2. CASE EndBatch(n, results) /\ \A k \in DOMAIN queue : Skips(queue[k])
  <2>1. \A w \in ToSet(queue) : Skips(w)
    BY <1>2 DEF ToSet
  <2>2. QED
    BY <1>1, <1>2, <2>1, EndKeeps
<1>3. ASSUME NEW k \in DOMAIN queue, \A i \in 1..(k - 1) : Skips(queue[i]), ~Skips(queue[k]),
             BeginWrite(n, queue[k], token[queue[k]], After(queue, k), results)
      PROVE  RecordsInvariant'
  <2>1. queue[k] \in Windows /\ win[queue[k]].is = "open"
    BY <1>3, AfterType DEF Skips
  <2>2. ASSUME NEW w \in Windows, win[w].is = "open", Serves(n, w)
        PROVE  w \in excused' \/ w \in ToSet(After(queue, k)) \/ (w = queue[k] /\ token[queue[k]] = n)
    <3>1. SUFFICES ASSUME w \in ToSet(queue), w # queue[k]
                   PROVE  w \in ToSet(After(queue, k))
      BY <2>2 DEF Serves
    <3>2. PICK j \in DOMAIN queue : queue[j] = w
      BY <3>1 DEF ToSet
    <3>3. j > k
      <4>1. j # k /\ j \notin 1..(k - 1)
        BY <1>1, <1>3, <2>2, <3>1, <3>2
      <4>2. QED
        BY <4>1
    <3>4. QED
      BY <3>2, <3>3, InAfter
  <2>3. QED
    BY <1>3, <2>1, <2>2, WriteKeeps
<1>4. QED
  BY <1>2, <1>3 DEF Advance

(* Each step of a batch hands on what it serves and what it has saved.     *)
LEMMA BatchStepKeeps ==
  ASSUME TrackerInvariant, RecordsInvariant, NEW n \in Batches,
         InfoArrives(n) \/ InfoFails(n) \/ Reported(n) \/ WriteFails(n)
  PROVE  RecordsInvariant'
<1> DEFINE b == batch[n]
           v == batch[n].path[2]
<1>1. b.phase # "idle"
  BY DEF InfoArrives, InfoFails, Reported, WriteFails
<1>2. /\ b.queue \in Seq(Windows) /\ b.results \in SUBSET Paths /\ b.path \in Paths /\ v \in Windows
      /\ b.token \in Nat
  BY <1>1, CurrentBatch
<1>3. n <= fires
  <2>1. ~(n > fires)
    BY <1>1 DEF RecordsInvariant, TracesAgree
  <2>2. QED
    BY <2>1 DEF TrackerInvariant, TrackerTypeOK, Batches
<1>4. /\ \A p \in b.results : Names(p[1], p[2])
      /\ Names(b.path[1], b.path[2])
      /\ b.phase = "info" => b.results = {}
  BY <1>1 DEF RecordsInvariant, TracesAgree
<1>5. Aside
  <2>1. excused \subseteq excused'
    BY DEF InfoArrives, InfoFails, Reported, WriteFails, GivenUp
  <2>2. QED
    BY <2>1, BatchSteps DEF Aside
<1>6. CASE InfoArrives(n) \/ InfoFails(n)
  <2>1. b.phase = "info" /\ Carried(n, {})
    BY <1>4, <1>6 DEF InfoArrives, InfoFails, Carried
  <2>2. \A w \in Windows : Serves(n, w) => w \in ToSet(b.queue) \/ (w = v /\ b.token = n /\ Live(v, b.token))
    BY <2>1 DEF Serves, Saves
  <2>3. CASE InfoArrives(n) /\ ~Live(v, b.token)
    <3>1. Advance(n, b.queue, {})
      BY <2>3 DEF InfoArrives
    <3>2. QED
      BY <1>2, <1>3, <1>5, <2>1, <2>2, <2>3, <3>1, AdvanceKeeps
  <2>4. CASE InfoArrives(n) /\ Live(v, b.token) /\ win[v].is # "open"
    <3>1. EndBatch(n, {}) /\ excused' = GivenUp(n, ToSet(b.queue))
      BY <2>4 DEF InfoArrives
    <3>2. \A w \in Windows : win[w].is = "open" /\ Serves(n, w) => w \in excused'
      BY <2>2, <2>4, <3>1 DEF GivenUp, Serves
    <3>3. QED
      BY <1>5, <2>1, <3>1, <3>2, EndKeeps
  <2>5. CASE InfoArrives(n) /\ Live(v, b.token) /\ win[v].is = "open"
    <3>1. BeginWrite(n, v, b.token, b.queue, {})
      BY <2>5 DEF InfoArrives
    <3>2. QED
      BY <1>2, <1>3, <1>5, <2>1, <2>2, <2>5, <3>1, WriteKeeps
  <2>6. CASE InfoFails(n)
    <3>1. EndBatch(n, {}) /\ excused' = GivenUp(n, {v} \cup ToSet(b.queue))
      BY <2>6 DEF InfoFails
    <3>2. \A w \in Windows : win[w].is = "open" /\ Serves(n, w) => w \in excused'
      BY <2>2, <3>1 DEF GivenUp, Serves
    <3>3. QED
      BY <1>5, <2>1, <3>1, <3>2, EndKeeps
  <2>7. QED
    BY <1>6, <2>3, <2>4, <2>5, <2>6
<1>7. CASE Reported(n)
  <2>1. b.phase = "written" \/ (b.phase = "writing" /\ ~Live(v, b.token))
    BY <1>7 DEF Reported
  <2>2. PICK results \in {b.results, b.results \cup {b.path}} :
          Advance(n, b.queue, results) /\ (Live(v, b.token) => b.path \in results)
    BY <1>7 DEF Reported
  <2>3. b.token = 0 => Live(v, b.token)
    BY <1>2 DEF RecordsInvariant, TracesAgree, Live
  <2>4. Carried(n, results)
    BY <1>2, <1>4, <2>2, <2>3 DEF Carried
  <2>5. ASSUME NEW w \in Windows, Serves(n, w) PROVE w \in ToSet(b.queue)
    <3>1. SUFFICES ASSUME b.phase = "writing", b.token = n, b.path = <<win[w].class, w>> PROVE FALSE
      BY <2>1, <2>5 DEF Serves, Saves
    <3>2. v = w
      BY <3>1
    <3>3. QED
      BY <2>1, <2>5, <3>1, <3>2 DEF Serves
  <2>6. QED
    BY <1>2, <1>3, <1>5, <2>2, <2>4, <2>5, AdvanceKeeps
<1>8. CASE WriteFails(n)
  <2>1. b.phase = "writing" /\ Advance(n, b.queue, b.results) /\ excused' = GivenUp(n, {v})
    BY <1>8 DEF WriteFails
  <2>2. Carried(n, b.results)
    BY <1>2, <1>4, <2>1 DEF Carried
  <2>3. ASSUME NEW w \in Windows, Serves(n, w) PROVE w \in excused' \/ w \in ToSet(b.queue)
    BY <2>1, <2>3 DEF Serves, Saves, GivenUp
  <2>4. QED
    BY <1>2, <1>3, <1>5, <2>1, <2>2, <2>3, AdvanceKeeps
<1>9. QED
  BY <1>6, <1>7, <1>8

(* A file is replaced by the latest bytes of its window, or by those of a  *)
(* write that no cancellable reaches: a closed window has no other left.   *)
LEMMA WrittenKeeps ==
  ASSUME TrackerInvariant, RecordsInvariant, NEW n \in Batches, Written(n)
  PROVE  RecordsInvariant'
<1> DEFINE b == batch[n]
<1>1. /\ b.phase = "writing" /\ Live(b.path[2], b.token)
      /\ b.path \in Paths /\ b.path[2] \in Windows /\ b.token \in Nat
  BY CurrentBatch DEF Written
<1>2. /\ batch \in [Batches -> BatchType] /\ books.files \in [Paths -> Versions]
  BY DEF TrackerInvariant, TrackerTypeOK, BooksType
<1>3. /\ \A m \in Batches \ {n} : batch'[m] = batch[m]
      /\ batch'[n].phase = "written" /\ batch'[n].queue = b.queue /\ batch'[n].path = b.path
      /\ batch'[n].token = b.token /\ batch'[n].results = b.results
  BY <1>2 DEF Written, BatchType
<1>4. /\ books'.files = [books.files EXCEPT ![b.path] = b.version]
      /\ books'.pending = books.pending /\ books'.record = books.record
  BY DEF Written, TrackerInvariant, TrackerTypeOK, BooksType
<1>5. /\ UNCHANGED <<win, toSave, token, cancelled, fires, closed, spared>>
      /\ excused \subseteq excused' /\ (b.token = 0 => b.path[2] \in excused')
  BY DEF Written
<1>6. TracesAgree'
  <2>1. ASSUME NEW m \in Batches
        PROVE  /\ batch'[m].results = batch[m].results
               /\ batch'[m].phase # "idle" => batch[m].phase # "idle" /\ batch'[m].path = batch[m].path
               /\ batch'[m].phase \in {"idle", "info"} => batch[m].phase \in {"idle", "info"}
               /\ batch[m].phase = "idle" => batch'[m].phase = "idle"
    BY <1>1, <1>3
  <2>2. QED
    BY <1>4, <1>5, <2>1 DEF RecordsInvariant, TracesAgree, Names
<1>7. ASSUME NEW w \in Windows, Settled(w)' PROVE Recorded(w)'
  <2>1. Settled(w) /\ Recorded(w) /\ w \notin excused'
    BY <1>5, <1>7 DEF RecordsInvariant, LatestIsKept, Settled
  <2>2. <<win[w].class, w>> \in Paths /\ win' = win
    BY <1>5, <2>1 DEF Settled, TrackerInvariant, TrackerTypeOK, Paths
  <2>3. WritesLatest(w)'
    BY <1>3, <1>5, <2>1 DEF Recorded, WritesLatest, Live
  <2>4. CASE b.path[2] = w
    <3>1. b.path = <<win[w].class, w>> /\ b.version = win[w].version
      BY <1>1, <1>5, <2>1, <2>4 DEF Recorded, WritesLatest
    <3>2. QED
      BY <1>2, <1>4, <2>2, <2>3, <3>1 DEF Recorded
  <2>5. CASE b.path[2] # w
    <3>1. books'.files[<<win[w].class, w>>] = books.files[<<win[w].class, w>>]
      BY <1>2, <1>4, <2>2, <2>5
    <3>2. ASSUME NEW m \in Batches, Serves(m, w) PROVE Serves(m, w)'
      <4>1. Saves(m, w)'
        BY <1>1, <1>3, <2>2, <2>5, <3>2 DEF Serves, Saves
      <4>2. QED
        BY <1>5, <3>2, <4>1 DEF Serves, Live
    <3>3. QED
      BY <2>1, <2>2, <2>3, <3>1, <3>2 DEF Recorded
  <2>6. QED
    BY <2>4, <2>5
<1>8. ASSUME NEW w \in closed' \ spared', NEW c \in Classes, books'.record[w] = c
      PROVE  Removed(books', <<c, w>>) \/ Returning(<<c, w>>)'
  <2>1. w \in closed \ spared /\ w \in Windows /\ books.record[w] = c
    BY <1>4, <1>5, <1>8 DEF TrackerInvariant, TrackerTypeOK
  <2>2. <<c, w>> \in Paths
    BY <2>1 DEF Paths
  <2>3. Removed(books, <<c, w>>) \/ Returning(<<c, w>>)
    BY <2>1 DEF RecordsInvariant, ClosedAreRemoved
  <2>4. CASE b.path = <<c, w>>
    <3>1. b.token = 0
      <4>1. b.path[2] = w
        BY <2>4
      <4>2. (token[w] # 0 => ~Live(w, token[w])) /\ (b.token # 0 => token[w] = b.token \/ ~Live(w, b.token))
        BY <1>1, <2>1, <4>1 DEF TrackerInvariant, SavesAreCancellable
      <4>3. QED
        BY <1>1, <4>1, <4>2
    <3>2. QED
      BY <1>3, <2>4, <3>1 DEF Returning
  <2>5. CASE b.path # <<c, w>>
    <3>1. books'.files[<<c, w>>] = books.files[<<c, w>>]
      BY <1>2, <1>4, <2>2, <2>5
    <3>2. Returning(<<c, w>>) => Returning(<<c, w>>)'
      BY <1>1, <1>3 DEF Returning
    <3>3. QED
      BY <1>4, <2>3, <3>1, <3>2 DEF Removed
  <2>6. QED
    BY <2>4, <2>5
<1>9. QED
  BY <1>6, <1>7, <1>8 DEF RecordsInvariant, LatestIsKept, ClosedAreRemoved

(* The queue of a new batch holds each window that waited.                 *)
LEMMA QueueHoldsAll ==
  ASSUME NEW S \in SUBSET Windows, NEW queue \in SetToSeqs(S), NEW w \in S
  PROVE  queue \in Seq(Windows) /\ \E k \in DOMAIN queue : queue[k] = w
<1>1. IsFiniteSet(S) /\ Cardinality(S) \in Nat
  BY TrackerAssumption, FS_Subset, FS_CardinalityType
<1> DEFINE D == 1..Cardinality(S)
<1>2. queue \in [D -> S] /\ queue \in Injection(D, S)
  BY DEF SetToSeqs, Injection, IsInjective
<1>3. IsFiniteSet(D) /\ Cardinality(D) = Cardinality(S)
  BY <1>1, FS_Interval
<1>4. queue \in Surjection(D, S)
  BY <1>1, <1>2, <1>3, FS_Injection
<1>5. \E k \in D : queue[k] = w
  BY <1>4 DEF Surjection
<1>6. queue \in Seq(Windows)
  BY <1>1, <1>2
<1>7. QED
  BY <1>2, <1>5, <1>6

(* A new batch takes over the windows that waited, and the writes of them  *)
(* that are still under way have been told to leave the files alone.       *)
LEMMA FireKeeps ==
  ASSUME TrackerInvariant, RecordsInvariant, Fire
  PROVE  RecordsInvariant'
<1>0. /\ fires \in Nat /\ changes \in 0..MaxChanges /\ MaxChanges \in Nat
      /\ toSave \in SUBSET Windows /\ (toSave # {} => fires < changes)
      /\ token \in [Windows -> Nat] /\ \A w \in Windows : token[w] <= fires
  BY TrackerAssumption DEF TrackerInvariant, TrackerTypeOK, SavesAreCancellable
<1>1. /\ toSave # {} /\ toSave' = {}
      /\ fires' = fires + 1
      /\ cancelled' = Cancel(toSave)
      /\ token' = [w \in Windows |-> IF w \in toSave THEN fires' ELSE token[w]]
      /\ UNCHANGED <<win, books, closed, excused, spared>>
  BY DEF Fire, StartBatch
<1>2. PICK n \in Batches : n = fires + 1 /\ fires' = n
  BY <1>0, <1>1 DEF Batches
<1>3. batch[n].phase = "idle" /\ batch[n].results = {}
  BY <1>0, <1>1, <1>2 DEF RecordsInvariant, TracesAgree
<1> DEFINE b(q, k) == [phase |-> "info", queue |-> After(q, k), path |-> <<win[q[k]].class, q[k]>>,
                       version |-> 0, token |-> n, results |-> {}]
           first(q, k) == /\ \A i \in 1..(k - 1) : win[q[i]].is # "open"
                          /\ win[q[k]].is = "open" /\ batch'[n] = b(q, k)
<1>4. /\ \A m \in Batches \ {n} : batch'[m] = batch[m]
      /\ \/ /\ \A w \in toSave : win[w].is # "open"
            /\ batch'[n] = batch[n]
         \/ \E q \in SetToSeqs(toSave) : \E k \in DOMAIN q : first(q, k)
  <2>1. DOMAIN batch = Batches
    BY DEF TrackerInvariant, TrackerTypeOK
  <2>2. CASE (\A w \in toSave : win[w].is # "open") /\ batch' = batch
    BY <2>2
  <2>3. ASSUME NEW q \in SetToSeqs(toSave), NEW k \in DOMAIN q,
               \A i \in 1..(k - 1) : win[q[i]].is # "open", win[q[k]].is = "open",
               batch' = [batch EXCEPT ![n] = b(q, k)]
        PROVE  /\ \A m \in Batches \ {n} : batch'[m] = batch[m]
               /\ first(q, k)
    BY <1>2, <2>1, <2>3
  <2> DEFINE begins(q, k) == /\ \A i \in 1..(k - 1) : win[q[i]].is # "open"
                             /\ win[q[k]].is = "open"
                             /\ batch' = [batch EXCEPT ![n] = b(q, k)]
  <2>4. \/ (\A w \in toSave : win[w].is # "open") /\ batch' = batch
        \/ \E q \in SetToSeqs(toSave) : \E k \in DOMAIN q : begins(q, k)
    BY <1>2, Zenon DEF Fire, StartBatch
  <2>5. ASSUME NEW q \in SetToSeqs(toSave), NEW k \in DOMAIN q, begins(q, k)
        PROVE  (\A m \in Batches \ {n} : batch'[m] = batch[m]) /\ first(q, k)
    BY <2>3, <2>5
  <2> HIDE DEF begins, first
  <2>6. QED
    BY <2>2, <2>4, <2>5
<1>5. /\ batch'[n].phase \in {"idle", "info"} /\ batch'[n].results = {}
      /\ batch'[n].phase = "info" => Names(batch'[n].path[1], batch'[n].path[2])
  <2>1. CASE batch'[n] = batch[n]
    BY <1>3, <2>1
  <2>2. ASSUME NEW q \in SetToSeqs(toSave), NEW k \in DOMAIN q, batch'[n] = b(q, k)
        PROVE  /\ batch'[n].phase \in {"idle", "info"} /\ batch'[n].results = {}
               /\ Names(batch'[n].path[1], batch'[n].path[2])
    BY <2>2 DEF Names
  <2>3. QED
    BY <1>4, <2>1, <2>2
<1>6. \A w \in Windows, t \in Nat :
        <<w, t>> \in cancelled' <=> <<w, t>> \in cancelled \/ (w \in toSave /\ t = token[w] /\ t # 0)
  BY <1>1 DEF Cancel
<1>7. TracesAgree'
  <2>1. \A w \in Windows, t \in Nat : <<w, t>> \in cancelled' => t # 0 /\ t <= fires'
    BY <1>0, <1>1, <1>6 DEF RecordsInvariant, TracesAgree
  <2>2. \A m \in Batches : m > fires' => m # n /\ m > fires
    BY <1>0, <1>1, <1>2 DEF Batches
  <2>3. ASSUME NEW m \in Batches
        PROVE  /\ m > fires' => batch'[m].phase = "idle"
               /\ batch'[m].phase \in {"idle", "info"} => batch'[m].results = {}
               /\ \A p \in batch'[m].results : Names(p[1], p[2])
               /\ batch'[m].phase # "idle" => Names(batch'[m].path[1], batch'[m].path[2])
    <3>1. CASE m = n
      BY <1>5, <2>2, <3>1
    <3>2. CASE m # n
      BY <1>4, <2>2, <3>2 DEF RecordsInvariant, TracesAgree
    <3>3. QED
      BY <3>1, <3>2
  <2>4. QED
    BY <1>1, <2>1, <2>3 DEF RecordsInvariant, TracesAgree, Names
<1>8. ASSUME NEW w \in Windows, Settled(w)' PROVE Recorded(w)'
  <2>1. CASE w \in toSave
    <3>1. win[w].is = "open"
      BY <1>1, <1>8 DEF Settled
    <3>2. PICK q \in SetToSeqs(toSave) : \E k \in DOMAIN q : first(q, k)
      BY <1>4, <2>1, <3>1
    <3>3. PICK k \in DOMAIN q : first(q, k)
      BY <3>2
    <3>4. PICK j \in DOMAIN q : q[j] = w
      BY <1>0, <2>1, QueueHoldsAll
    <3>5. q \in Seq(Windows)
      BY <1>0, <2>1, QueueHoldsAll
    <3>6. j >= k
      <4>1. j \notin 1..(k - 1)
        BY <3>1, <3>3, <3>4
      <4>2. j \in Nat /\ j >= 1 /\ k \in Nat
        BY <3>5
      <4>3. QED
        BY <4>1, <4>2
    <3>7. batch'[n].phase = "info" /\ batch'[n].path[2] = q[k]
          /\ batch'[n].token = n /\ batch'[n].queue = After(q, k)
      BY <3>3
    <3>8. Saves(n, w)'
      <4>1. CASE j = k
        BY <1>1, <3>4, <3>7, <4>1 DEF Saves
      <4>2. CASE j # k
        <5>1. w \in ToSet(After(q, k))
          BY <3>4, <3>5, <3>6, <4>2, InAfter
        <5>2. QED
          BY <3>7, <5>1 DEF Saves
      <4>3. QED
        BY <4>1, <4>2
    <3>9. token'[w] = n /\ <<w, n>> \notin cancelled'
      <4>1. n # token[w] /\ <<w, n>> \notin cancelled
        BY <1>0, <1>1, <1>2 DEF RecordsInvariant, TracesAgree
      <4>2. QED
        BY <1>0, <1>1, <1>2, <1>6, <2>1, <4>1
    <3>10. \E m \in Batches : Serves(m, w)'
      BY <1>2, <3>8, <3>9 DEF Serves, Live
    <3>11. WritesLatest(w)'
      <4>1. SUFFICES ASSUME NEW m \in Batches, batch'[m].phase = "writing", batch'[m].token # 0,
                            batch'[m].path[2] = w, <<w, batch'[m].token>> \notin cancelled'
                     PROVE  FALSE
        BY DEF WritesLatest, Live
      <4>2. batch'[m] = batch[m]
        BY <1>4, <1>5, <4>1
      <4>3. batch[m].token \in Nat
        BY CurrentBatch
      <4>4. token[w] = batch[m].token \/ <<w, batch[m].token>> \in cancelled
        BY <4>1, <4>2 DEF TrackerInvariant, SavesAreCancellable, Live
      <4>5. QED
        BY <1>6, <2>1, <4>1, <4>2, <4>3, <4>4
    <3>12. QED
      BY <3>10, <3>11 DEF Recorded
  <2>2. CASE w \notin toSave
    <3>1. Settled(w) /\ Recorded(w)
      BY <1>1, <1>8, <2>2 DEF RecordsInvariant, LatestIsKept, Settled
    <3>2. token'[w] = token[w]
      BY <1>1, <2>2
    <3>3. ASSUME NEW m \in Batches, Serves(m, w) PROVE Serves(m, w)'
      <4>1. m # n /\ m \in Nat
        BY <1>0, <1>1, <1>2, <3>3 DEF Serves, Batches
      <4>2. batch'[m] = batch[m]
        BY <1>4, <4>1
      <4>3. QED
        BY <1>1, <1>6, <2>2, <3>2, <3>3, <4>1, <4>2 DEF Serves, Saves, Live
    <3>4. WritesLatest(w)'
      <4>1. SUFFICES ASSUME NEW m \in Batches, batch'[m].phase = "writing", batch'[m].token # 0,
                            batch'[m].path[2] = w, <<w, batch'[m].token>> \notin cancelled'
                     PROVE  batch'[m].path = <<win[w].class, w>> /\ batch'[m].version = win[w].version
        BY <1>1 DEF WritesLatest, Live
      <4>2. batch'[m] = batch[m] /\ batch[m].token \in Nat
        BY <1>4, <1>5, <4>1, CurrentBatch
      <4>3. <<w, batch[m].token>> \notin cancelled
        BY <1>6, <4>1, <4>2
      <4>4. QED
        BY <3>1, <4>1, <4>2, <4>3 DEF Recorded, WritesLatest, Live
    <3>5. QED
      BY <1>1, <3>1, <3>3, <3>4 DEF Recorded
  <2>3. QED
    BY <2>1, <2>2
<1>9. ASSUME NEW w \in closed' \ spared', NEW c \in Classes, books'.record[w] = c
      PROVE  Removed(books', <<c, w>>) \/ Returning(<<c, w>>)'
  <2>1. Removed(books, <<c, w>>) \/ Returning(<<c, w>>)
    BY <1>1, <1>9 DEF RecordsInvariant, ClosedAreRemoved
  <2>2. ASSUME Returning(<<c, w>>) PROVE Returning(<<c, w>>)'
    <3>1. PICK m \in Batches : \/ batch[m].phase = "written" /\ batch[m].token = 0
                                    /\ batch[m].path = <<c, w>>
                               \/ <<c, w>> \in batch[m].results
      BY <2>2 DEF Returning
    <3>2. m # n
      BY <1>3, <3>1
    <3>3. QED
      BY <1>4, <3>1, <3>2 DEF Returning
  <2>3. QED
    BY <1>1, <2>1, <2>2
<1>10. QED
  BY <1>7, <1>8, <1>9 DEF RecordsInvariant, LatestIsKept, ClosedAreRemoved

(* A window that changes waits, or was given up; nobody else is concerned. *)
LEMMA ChangeKeeps ==
  ASSUME TrackerInvariant, RecordsInvariant, NEW w \in Windows,
         win[w].is # "gone", win'[w].is = "open", win[w].migrated => win'[w].migrated,
         win[w].is = "new" \/ win'[w].migrated \/ win'[w].class = win[w].class,
         \A v \in Windows \ {w} : win'[v] = win[v], Prepare(w),
         UNCHANGED <<token, cancelled, batch, fires, books, closed, spared>>
  PROVE  RecordsInvariant'
<1>1. ASSUME NEW v \in Windows, NEW c \in Classes, Names(c, v)
      PROVE  Names(c, v)'
  <2>1. CASE v # w
    BY <1>1, <2>1 DEF Names
  <2>2. CASE v = w
    BY <1>1, <2>2, TrackerAssumption DEF Names, RecordsInvariant, TracesAgree
  <2>3. QED
    BY <2>1, <2>2
<1>2. TracesAgree'
  <2>1. \A v \in Windows : win'[v].is = "new" => v # w
    OBVIOUS
  <2>2. ASSUME NEW n \in Batches
        PROVE  /\ \A p \in batch[n].results : Names(p[1], p[2])'
               /\ batch[n].phase # "idle" => Names(batch[n].path[1], batch[n].path[2])'
    <3>1. batch[n].results \subseteq Paths /\ (batch[n].phase # "idle" => batch[n].path \in Paths)
      BY CurrentBatch
    <3>2. ASSUME NEW p \in Paths, Names(p[1], p[2]) PROVE Names(p[1], p[2])'
      <4>1. p[1] \in Classes /\ p[2] \in Windows
        BY DEF Paths
      <4>2. QED
        BY <1>1, <3>2, <4>1
    <3>3. QED
      BY <3>1, <3>2 DEF RecordsInvariant, TracesAgree
  <2>3. ASSUME NEW v \in Windows, books.record[v] # NoClass PROVE Names(books.record[v], v)'
    <3>1. books.record[v] \in Classes
      BY <2>3 DEF TrackerInvariant, TrackerTypeOK, BooksType
    <3>2. QED
      BY <1>1, <2>3, <3>1 DEF RecordsInvariant, TracesAgree
  <2>4. ASSUME NEW p \in Paths, books.pending[p] # 0
        PROVE  win'[p[2]].migrated \/ win'[p[2]].is = "gone"
    <3>1. p[2] \in Windows
      BY DEF Paths
    <3>2. QED
      BY <2>4, <3>1 DEF RecordsInvariant, TracesAgree
  <2>5. QED
    BY <2>1, <2>2, <2>3, <2>4 DEF RecordsInvariant, TracesAgree, Names
<1>3. ASSUME NEW v \in Windows, Settled(v)' PROVE Recorded(v)'
  <2>1. v # w
    BY <1>3 DEF Settled, Prepare
  <2>2. toSave \subseteq toSave' /\ excused \subseteq excused' \cup {w}
    BY DEF Prepare
  <2>3. win'[v] = win[v] /\ Settled(v)
    BY <1>3, <2>1, <2>2 DEF Settled
  <2>4. Recorded(v)
    BY <2>3 DEF RecordsInvariant, LatestIsKept
  <2>5. QED
    BY <2>3, <2>4 DEF Recorded, Serves, Saves, WritesLatest, Live
<1>4. ClosedAreRemoved'
  <2>1. ClosedAreRemoved /\ UNCHANGED <<batch, books, closed, spared>>
    BY DEF RecordsInvariant
  <2>2. ASSUME NEW p PROVE Returning(p)' <=> Returning(p)
    BY <2>1, Zenon DEF Returning
  <2>3. ASSUME NEW p PROVE Removed(books, p)' <=> Removed(books, p)
    BY <2>1, Zenon DEF Removed
  <2>4. QED
    BY <2>1, <2>2, <2>3, Zenon DEF ClosedAreRemoved
<1>5. QED
  BY <1>2, <1>3, <1>4 DEF RecordsInvariant, LatestIsKept

(* The records of the windows ws that close are removed, or wait for it,   *)
(* or are spared; no other window loses its record or its save.            *)
LEMMA RetireKeeps ==
  ASSUME TrackerInvariant, RecordsInvariant, NEW ws \in SUBSET Windows, Retire(ws),
         \A v \in Windows : win'[v].class = win[v].class /\ win'[v].version = win[v].version
                              /\ win'[v].migrated = win[v].migrated,
         \A v \in Windows : win'[v].is \in {win[v].is, "gone"},
         \A v \in ws : win'[v].is = "gone",
         UNCHANGED <<token, batch, fires, excused>>
  PROVE  RecordsInvariant'
<1> DEFINE ps == RecordsOf(ws)
           cleaned == CleanUp(books, ps)
<1>1. ps \in SUBSET Paths /\ \A p \in Paths : p \in ps <=> p[2] \in ws /\ books.record[p[2]] = p[1]
  BY DEF RecordsOf
<1>2. cleaned \in BooksType /\ cleaned.record = books.record
  BY <1>1, CleanUpEffect DEF TrackerInvariant, TrackerTypeOK
<1>3. /\ \A p \in Paths \ ps : cleaned.files[p] = books.files[p] /\ cleaned.pending[p] = books.pending[p]
      /\ ~Protected => \A p \in ps : Removed(cleaned, p)
  BY <1>1, CleanUpRemoves DEF TrackerInvariant, TrackerTypeOK
<1> HIDE DEF ps, cleaned
<1>4. /\ books'.files = cleaned.files /\ books'.pending = cleaned.pending /\ books'.record = books.record
      /\ toSave' = toSave \ ws /\ closed' = closed \cup ws
      /\ spared' = IF Protected THEN spared \cup ws ELSE spared \ ws
  BY <1>2 DEF Retire, BooksType, ps, cleaned
<1>5. \A w \in Windows, t \in Nat :
        <<w, t>> \in cancelled' <=> <<w, t>> \in cancelled \/ (w \in ws /\ t = token[w] /\ t # 0)
  BY DEF Retire, Cancel
<1>6. \A w \in Windows : token[w] \in Nat /\ token[w] <= fires
  BY DEF TrackerInvariant, TrackerTypeOK, SavesAreCancellable
<1>7. TracesAgree'
  <2>1. \A w \in Windows, t \in Nat : <<w, t>> \in cancelled' => t # 0 /\ t <= fires
    BY <1>5, <1>6 DEF RecordsInvariant, TracesAgree
  <2>2. \A v \in Windows : win'[v].is = "new" => win[v].is = "new"
    OBVIOUS
  <2>3. ASSUME NEW v \in Windows, NEW c, Names(c, v) PROVE Names(c, v)'
    BY <2>3 DEF Names
  <2>4. ASSUME NEW n \in Batches
        PROVE  /\ \A p \in batch[n].results : Names(p[1], p[2])'
               /\ batch[n].phase # "idle" => Names(batch[n].path[1], batch[n].path[2])'
    <3>1. batch[n].results \subseteq Paths /\ (batch[n].phase # "idle" => batch[n].path[2] \in Windows)
      BY CurrentBatch
    <3>2. \A p \in batch[n].results : p[2] \in Windows
      BY <3>1 DEF Paths
    <3>3. QED
      BY <2>3, <3>1, <3>2 DEF RecordsInvariant, TracesAgree
  <2>5. ASSUME NEW p \in Paths, books'.pending[p] # 0
        PROVE  win'[p[2]].migrated \/ win'[p[2]].is = "gone"
    <3>1. p[2] \in Windows
      BY DEF Paths
    <3>2. CASE p \in ps
      BY <1>1, <3>2
    <3>3. CASE p \notin ps
      BY <1>3, <1>4, <2>5, <3>1, <3>3 DEF RecordsInvariant, TracesAgree
    <3>4. QED
      BY <3>2, <3>3
  <2>6. QED
    BY <1>4, <2>1, <2>2, <2>3, <2>4, <2>5 DEF RecordsInvariant, TracesAgree, Names
<1>8. ASSUME NEW w \in Windows, Settled(w)' PROVE Recorded(w)'
  <2>1. w \notin ws /\ Settled(w) /\ Recorded(w)
    BY <1>4, <1>8 DEF RecordsInvariant, LatestIsKept, Settled
  <2>2. <<win[w].class, w>> \in Paths /\ <<win[w].class, w>> \notin ps
    <3>1. <<win[w].class, w>> \in Paths
      BY <2>1 DEF Settled, TrackerInvariant, TrackerTypeOK, Paths
    <3>2. QED
      BY <1>1, <2>1, <3>1
  <2>3. ASSUME NEW m \in Batches, Serves(m, w) PROVE Serves(m, w)'
    <3>1. m \in Nat
      BY DEF Batches
    <3>2. QED
      BY <1>5, <2>1, <2>3, <3>1 DEF Serves, Saves, Live
  <2>4. WritesLatest(w)'
    <3>1. \A m \in Batches : batch[m].token \in Nat
      BY CurrentBatch
    <3>2. QED
      BY <1>5, <2>1, <3>1 DEF Recorded, WritesLatest, Live
  <2>5. QED
    BY <1>3, <1>4, <2>1, <2>2, <2>3, <2>4 DEF Recorded
<1>9. ASSUME NEW w \in closed' \ spared', NEW c \in Classes, books'.record[w] = c
      PROVE  Removed(books', <<c, w>>) \/ Returning(<<c, w>>)'
  <2>1. w \in Windows /\ <<c, w>> \in Paths /\ <<c, w>>[2] = w /\ <<c, w>>[1] = c
    BY <1>4, <1>9 DEF TrackerInvariant, TrackerTypeOK, Paths
  <2>2. Returning(<<c, w>>) => Returning(<<c, w>>)'
    BY DEF Returning
  <2>3. CASE w \in ws
    <3>1. ~Protected /\ <<c, w>> \in ps
      BY <1>1, <1>4, <1>9, <2>1, <2>3
    <3>2. QED
      BY <1>3, <1>4, <3>1 DEF Removed
  <2>4. CASE w \notin ws
    <3>1. w \in closed \ spared /\ <<c, w>> \notin ps
      BY <1>1, <1>4, <1>9, <2>1, <2>4
    <3>2. QED
      BY <1>3, <1>4, <1>9, <2>1, <2>2, <3>1 DEF Removed, RecordsInvariant, ClosedAreRemoved
  <2>5. QED
    BY <2>3, <2>4
<1>10. QED
  BY <1>7, <1>8, <1>9 DEF RecordsInvariant, LatestIsKept, ClosedAreRemoved

(* Every window is given up when the session begins to end.                *)
LEMMA BeginShutdownKeeps ==
  ASSUME TrackerInvariant, RecordsInvariant, BeginShutdown
  PROVE  RecordsInvariant'
<1>1. /\ cancelled' = Cancel(Windows) /\ excused' = Windows
      /\ UNCHANGED <<win, batch, fires, books, closed, spared>>
  BY DEF BeginShutdown
<1>2. \A w \in Windows : token[w] \in Nat /\ token[w] <= fires
  BY DEF TrackerInvariant, TrackerTypeOK, SavesAreCancellable
<1>3. \A w \in Windows, t \in Nat : <<w, t>> \in cancelled' => t # 0 /\ t <= fires
  BY <1>1, <1>2 DEF RecordsInvariant, TracesAgree, Cancel
<1>4. TracesAgree'
  BY <1>1, <1>3 DEF RecordsInvariant, TracesAgree, Names
<1>5. LatestIsKept'
  BY <1>1 DEF LatestIsKept, Settled
<1>6. ClosedAreRemoved'
  BY <1>1 DEF RecordsInvariant, ClosedAreRemoved, Removed, Returning
<1>7. QED
  BY <1>4, <1>5, <1>6 DEF RecordsInvariant

(* After a restore only what was pending goes: no record of a window that  *)
(* kept its class, but the one of each closed window that nobody rewrote.  *)
LEMMA EndRestoreKeeps ==
  ASSUME TrackerInvariant, RecordsInvariant, EndRestore
  PROVE  RecordsInvariant'
<1>1. /\ books' = Flush(books)
      /\ UNCHANGED <<win, toSave, token, cancelled, batch, fires, closed, excused, spared>>
  BY DEF EndRestore, saving
<1>2. /\ books'.record = books.record
      /\ \A p \in Paths : /\ books'.pending[p] \in {0, books.pending[p]}
                          /\ books.pending[p] = 0 => books'.files[p] = books.files[p]
                          /\ p[2] \in closed /\ Removed(books, p) => Removed(books', p)
  <2>1. CASE Protected
    BY <1>1, <2>1 DEF Flush
  <2>2. CASE ~Protected
    BY <1>1, <2>2 DEF Flush, Removed, TrackerInvariant, TrackerTypeOK, BooksType
  <2>3. QED
    BY <2>1, <2>2
<1>3. TracesAgree'
  BY <1>1, <1>2 DEF RecordsInvariant, TracesAgree, Names
<1>4. ASSUME NEW w \in Windows, Settled(w)' PROVE Recorded(w)'
  <2>1. Settled(w) /\ Recorded(w)
    BY <1>1, <1>4 DEF RecordsInvariant, LatestIsKept, Settled
  <2>2. <<win[w].class, w>> \in Paths /\ <<win[w].class, w>>[2] = w
    BY <2>1 DEF Settled, TrackerInvariant, TrackerTypeOK, Paths
  <2>3. books'.files[<<win[w].class, w>>] = books.files[<<win[w].class, w>>]
    BY <1>2, <2>1, <2>2 DEF Settled, RecordsInvariant, TracesAgree
  <2>4. QED
    BY <1>1, <2>1, <2>3 DEF Recorded, Serves, Saves, WritesLatest, Live
<1>5. ASSUME NEW w \in closed' \ spared', NEW c \in Classes, books'.record[w] = c
      PROVE  Removed(books', <<c, w>>) \/ Returning(<<c, w>>)'
  <2>1. w \in closed \ spared /\ <<c, w>> \in Paths /\ <<c, w>>[2] = w /\ books.record[w] = c
    BY <1>1, <1>2, <1>5 DEF TrackerInvariant, TrackerTypeOK, Paths
  <2>2. QED
    BY <1>1, <1>2, <2>1 DEF Returning, RecordsInvariant, ClosedAreRemoved
<1>6. QED
  BY <1>3, <1>4, <1>5 DEF RecordsInvariant, LatestIsKept, ClosedAreRemoved

(* The other steps change no more than a flag of the session, or disarm a  *)
(* timer that nothing waits for.                                           *)
LEMMA FlagKeeps ==
  ASSUME RecordsInvariant,
         FireIdle \/ CancelShutdown \/ Confirm \/ BeginRestore \/ UNCHANGED vars
  PROVE  RecordsInvariant'
<1>1. UNCHANGED <<win, toSave, token, cancelled, batch, fires, books, closed, excused, spared>>
  BY DEF FireIdle, CancelShutdown, Confirm, BeginRestore, saving, vars
<1>2. TracesAgree' /\ ClosedAreRemoved'
  BY <1>1 DEF RecordsInvariant, TracesAgree, Names, ClosedAreRemoved, Removed, Returning
<1>3. LatestIsKept'
  BY <1>1 DEF RecordsInvariant, LatestIsKept, Settled, Recorded, Serves, Saves, WritesLatest, Live
<1>4. QED
  BY <1>2, <1>3 DEF RecordsInvariant

(* Each signal of a window, and the application's.                         *)
LEMMA WindowKeeps ==
  ASSUME TrackerInvariant, RecordsInvariant, NEW w \in Windows,
         Open(w) \/ Alter(w) \/ Migrate(w) \/ Close(w)
  PROVE  RecordsInvariant'
<1>1. win \in [Windows -> WindowType] /\ books.listening \in SUBSET Windows
  BY DEF TrackerInvariant, TrackerTypeOK, BooksType
<1>2. CASE Open(w) \/ Alter(w) \/ Migrate(w)
  <2>1. UNCHANGED <<token, cancelled, batch, fires, books, closed, spared>> /\ Prepare(w)
    BY <1>2 DEF Open, Alter, Migrate
  <2>2. /\ win[w].is # "gone" /\ win'[w].is = "open" /\ \A v \in Windows \ {w} : win'[v] = win[v]
        /\ win[w].is = "new" \/ win'[w].migrated \/ win'[w].class = win[w].class
        /\ win[w].migrated => win'[w].migrated
    <3>1. CASE Open(w)
      BY <1>1, <3>1 DEF Open, RecordsInvariant, TracesAgree
    <3>2. CASE Alter(w)
      BY <1>1, <3>2 DEF Alter, WindowType
    <3>3. CASE Migrate(w)
      BY <1>1, <3>3 DEF Migrate
    <3>4. QED
      BY <1>2, <3>1, <3>2, <3>3
  <2>3. QED
    BY <2>1, <2>2, ChangeKeeps
<1>3. CASE Close(w)
  <2>1. win' = [win EXCEPT ![w].is = "gone"] /\ Retire({w} \cap books.listening)
        /\ UNCHANGED <<token, batch, fires, excused>>
    BY <1>3 DEF Close
  <2>2. /\ \A v \in Windows : /\ win'[v].class = win[v].class /\ win'[v].version = win[v].version
                              /\ win'[v].migrated = win[v].migrated
                              /\ win'[v].is \in {win[v].is, "gone"}
        /\ win'[w].is = "gone"
    BY <1>1, <2>1 DEF WindowType
  <2>3. QED
    BY <1>1, <2>1, <2>2, RetireKeeps
<1>4. QED
  BY <1>2, <1>3

LEMMA AppStopsKeeps ==
  ASSUME TrackerInvariant, RecordsInvariant, AppStops
  PROVE  RecordsInvariant'
<1>1. /\ win' = win /\ \A w \in Windows : win[w].is # "open"
      /\ Retire(books.listening) /\ UNCHANGED <<token, batch, fires, excused>>
  BY DEF AppStops
<1>2. win \in [Windows -> WindowType] /\ books.listening \in SUBSET Windows
  BY DEF TrackerInvariant, TrackerTypeOK, BooksType
<1>3. \A v \in books.listening : win[v].is = "gone"
  BY <1>1, <1>2 DEF TrackerInvariant, SavesAreCancellable, WindowType
<1>4. QED
  BY <1>1, <1>2, <1>3, RetireKeeps

LEMMA RecordsInitially == Init => RecordsInvariant
<1> SUFFICES ASSUME Init PROVE RecordsInvariant
  OBVIOUS
<1>1. Idle.phase = "idle" /\ Idle.results = {} /\ TrackerInvariant
  BY Initially DEF Idle
<1>2. TracesAgree
  BY <1>1 DEF Init, TracesAgree
<1>3. QED
  BY <1>2 DEF Init, RecordsInvariant, LatestIsKept, Settled, ClosedAreRemoved

LEMMA RecordsAreKept ==
  TrackerInvariant /\ RecordsInvariant /\ [Next]_vars => RecordsInvariant'
<1> SUFFICES ASSUME TrackerInvariant, RecordsInvariant, [Next]_vars PROVE RecordsInvariant'
  OBVIOUS
<1>1. CASE Fire
  BY <1>1, FireKeeps
<1>2. ASSUME NEW n \in Batches, BatchStep(n) PROVE RecordsInvariant'
  <2>1. CASE Written(n)
    BY <2>1, WrittenKeeps
  <2>2. CASE InfoArrives(n) \/ InfoFails(n) \/ Reported(n) \/ WriteFails(n)
    BY <2>2, BatchStepKeeps
  <2>3. QED
    BY <1>2, <2>1, <2>2 DEF BatchStep
<1>3. ASSUME NEW w \in Windows, Open(w) \/ Alter(w) \/ Migrate(w) \/ Close(w)
      PROVE  RecordsInvariant'
  BY <1>3, WindowKeeps
<1>4. CASE FireIdle \/ CancelShutdown \/ Confirm \/ BeginRestore \/ UNCHANGED vars
  BY <1>4, FlagKeeps
<1>5. QED
  BY <1>1, <1>2, <1>3, <1>4, AppStopsKeeps, BeginShutdownKeeps, EndRestoreKeeps
     DEF Next, Environment

LEMMA RecordsInvariance == Spec => []RecordsInvariant
BY Initially, NextPreserves, RecordsInitially, RecordsAreKept, PTL DEF Spec

-----------------------------------------------------------------------------
(* The theorems.                                                           *)

(* The variables keep their types, and a call that is under way saves an   *)
(* existing window with a cancellable of its own.                          *)
THEOREM TypeCorrect == Spec => []TrackerTypeOK
BY Invariance, PTL DEF TrackerInvariant

(* The debounce timer is armed as long as a window waits to be saved.      *)
THEOREM Armed == Spec => []QueueIsArmed
BY Invariance, PTL DEF TrackerInvariant

(* Once the handlers of a closing window have run, no save that was under  *)
(* way, in any of the overlapping batches, brings its record back.         *)
THEOREM NoResurrection == Spec => ClosedStaysClosed
<1>1. TrackerInvariant /\ [Next]_vars => BringsNoneBack
  <2> SUFFICES ASSUME TrackerInvariant, [Next]_vars, NEW w \in closed, NEW c \in Classes
               PROVE  \/ books'.files[<<c, w>>] \in {0, books.files[<<c, w>>]}
                      \/ \E n \in Batches : batch[n].path = <<c, w>> /\ batch[n].token = 0
    BY DEF BringsNoneBack
  <2>1. <<c, w>> \in Paths
    BY DEF TrackerInvariant, TrackerTypeOK, Paths
  <2>2. ASSUME NEW n \in Batches, Written(n)
        PROVE  \/ books'.files[<<c, w>>] \in {0, books.files[<<c, w>>]}
               \/ \E m \in Batches : batch[m].path = <<c, w>> /\ batch[m].token = 0
    <3>1. /\ batch[n].phase # "idle" /\ Live(batch[n].path[2], batch[n].token)
          /\ books'.files = [books.files EXCEPT ![batch[n].path] = batch[n].version]
      BY <2>2 DEF Written, TrackerInvariant, TrackerTypeOK, BooksType
    <3>2. CASE batch[n].path # <<c, w>>
      BY <2>1, <3>1, <3>2 DEF TrackerInvariant, TrackerTypeOK, BooksType
    <3>3. CASE batch[n].path = <<c, w>>
      <4>1. batch[n].token = 0 \/ token[w] = batch[n].token
        BY <3>1, <3>3 DEF TrackerInvariant, SavesAreCancellable
      <4>2. token[w] # 0 => ~Live(w, token[w])
        BY DEF TrackerInvariant, SavesAreCancellable
      <4>3. QED
        BY <3>1, <3>3, <4>1, <4>2
    <3>4. QED
      BY <3>2, <3>3
  <2>3. QED
    BY <2>1, <2>2, FilesEffect
<1>2. QED
  BY Invariance, <1>1, PTL DEF Spec, ClosedStaysClosed

(* No record is removed while the session ends or a restore reads them.    *)
THEOREM Kept == Spec => KeptWhileProtected
<1>1. TrackerInvariant /\ [Next]_vars => KeepsRecords
  <2> SUFFICES ASSUME TrackerInvariant, [Next]_vars, shutdown \/ leaving \/ restorer',
                      NEW p \in Paths, books.files[p] # 0
               PROVE  books'.files[p] # 0
    BY DEF KeepsRecords
  <2>1. ASSUME NEW n \in Batches, Written(n)
        PROVE  books'.files[p] # 0
    <3>1. /\ batch[n].version # 0
          /\ books'.files = [books.files EXCEPT ![batch[n].path] = batch[n].version]
          /\ books.files \in [Paths -> Versions]
      BY <2>1 DEF Written, TrackerInvariant, TrackerTypeOK, BooksType, VersionsCount
    <3>2. QED
      BY <3>1
  <2>2. QED
    BY <2>1, FilesEffect DEF Protected
<1>2. QED
  BY Invariance, <1>1, PTL DEF Spec, KeptWhileProtected

(* When nothing waits and nothing is under way, the file of each open      *)
(* window holds its latest state, whatever batches overlapped on the way.  *)
THEOREM ChangesAreRecorded == Spec => []StillRecorded
<1>1. TrackerInvariant /\ RecordsInvariant => StillRecorded
  <2> SUFFICES ASSUME TrackerInvariant, RecordsInvariant, Quiet, NEW w \in Windows \ excused,
                      win[w].is = "open", ~win[w].migrated
               PROVE  books.files[<<win[w].class, w>>] = win[w].version
    BY DEF StillRecorded
  <2>1. Recorded(w)
    BY DEF RecordsInvariant, LatestIsKept, Settled, Quiet
  <2>2. \A n \in Batches : ~Saves(n, w)
    BY DEF Quiet, Saves
  <2>3. QED
    BY <2>1, <2>2 DEF Recorded, Serves
<1>2. QED
  BY Invariance, RecordsInvariance, <1>1, PTL

(* When nothing waits and nothing is under way, the record of each closed  *)
(* window is gone, unless a logout protected it.                           *)
THEOREM ClosedRecordsGo == Spec => []ClosedRecordsGone
<1>1. TrackerInvariant /\ RecordsInvariant => ClosedRecordsGone
  <2> SUFFICES ASSUME TrackerInvariant, RecordsInvariant, Quiet, NEW w \in closed \ spared,
                      NEW p, p = <<books.record[w], w>>, p \in Paths, books.files[p] # 0
               PROVE  books.pending[p] # 0
    BY DEF ClosedRecordsGone
  <2>1. books.record[w] \in Classes
    BY DEF Paths
  <2>2. Removed(books, p) \/ Returning(p)
    BY <2>1 DEF RecordsInvariant, ClosedAreRemoved
  <2>3. ~Returning(p)
    <3>1. \A n \in Batches : batch[n].phase = "idle"
      BY DEF Quiet
    <3>2. QED
      BY <3>1 DEF Returning, RecordsInvariant, TracesAgree
  <2>4. QED
    BY <2>2, <2>3 DEF Removed
<1>2. QED
  BY Invariance, RecordsInvariance, <1>1, PTL
=============================================================================
