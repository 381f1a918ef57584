---------------------- MODULE CompositorOperationsProofs ----------------------
(***************************************************************************)
(* Proofs about the compositor queue, for any number of requests.          *)
(***************************************************************************)
EXTENDS CompositorOperations, TLAPS

USE MaxRequestsAssumption, HasWatchdogAssumption

(* The queue starts with an empty chain.                                   *)
LEMMA InitEstablishes == Init => QueueInvariant
<1>1. SUFFICES ASSUME Init
               PROVE  QueueInvariant
  OBVIOUS
<1>2. Accepted = {}
  BY <1>1 DEF Init, Accepted
<1>3. TypeOK
  <2>1. count \in 0..MaxRequests /\ tail \in 0..MaxRequests
    BY <1>1 DEF Init, NoRequest
  <2>2. after \in [Requests -> 0..MaxRequests]
    BY <1>1 DEF Init, NoRequest
  <2>3. native \in [Requests -> {"none", "refused", "queued", "running", "settled"}]
    BY <1>1 DEF Init
  <2>4. /\ pending \subseteq Requests
        /\ cancelled \subseteq Requests
        /\ armed \subseteq Requests
        /\ unhealthy \in BOOLEAN
    BY <1>1 DEF Init
  <2>5. outcome \in [Requests ->
                      {"none", "refused", "false", "value", "error", "timeout"}]
    BY <1>1 DEF Init
  <2>6. QED
    BY <2>1, <2>2, <2>3, <2>4, <2>5 DEF TypeOK
<1>4. ChainIsLinear
  BY <1>1, <1>2 DEF Init, ChainIsLinear, Requests, NoRequest
<1>5. SettledPrefix
  BY <1>2 DEF SettledPrefix
<1>6. Bookkeeping
  BY <1>1 DEF Init, Bookkeeping
<1>7. QED
  BY <1>3, <1>4, <1>5, <1>6 DEF QueueInvariant

(* The predecessor named by the chain has settled, so by linearity of the  *)
(* chain everything before a request that has its turn has settled, and    *)
(* nothing is running.                                                     *)
LEMMA TurnIsExclusive ==
  ASSUME QueueInvariant, NEW r \in Requests, Turn(r)
  PROVE  /\ r \in Accepted
         /\ \A q \in Accepted : q < r => native[q] = "settled"
         /\ \A q \in Requests : native[q] # "running"
         /\ ~unhealthy
<1> USE DEF QueueInvariant, Requests, NoRequest
<1>1. r \in Accepted
  BY DEF Turn, TypeOK, ChainIsLinear, Accepted
<1>2. \A q \in Accepted : q < r => native[q] = "settled"
  <2>1. TAKE q \in Accepted
  <2>2. HAVE q < r
  <2>3. q <= after[r] /\ q \in 1..count /\ count \in Nat
    BY <1>1, <2>2 DEF ChainIsLinear, Accepted, TypeOK
  <2>4. after[r] \in Accepted /\ native[after[r]] = "settled"
    BY <1>1, <2>3 DEF Turn, ChainIsLinear, TypeOK
  <2>5. CASE q = after[r]
    BY <2>4, <2>5
  <2>6. CASE q < after[r]
    BY <2>4, <2>6 DEF SettledPrefix
  <2>7. QED
    BY <1>1, <2>3, <2>5, <2>6 DEF TypeOK
<1>3. \A q \in Requests : native[q] # "running"
  <2>1. SUFFICES ASSUME NEW q \in Requests, native[q] = "running"
                 PROVE  FALSE
    OBVIOUS
  <2>2. q \in Accepted
    BY <2>1 DEF ChainIsLinear, Accepted, TypeOK
  <2>3. native[r] = "queued"
    BY DEF Turn
  <2>4. q < r \/ r < q
    BY <2>1, <2>3
  <2>5. QED
    BY <1>1, <1>2, <2>1, <2>2, <2>3, <2>4 DEF SettledPrefix
<1>4. ~unhealthy
  BY <1>3 DEF Bookkeeping, TypeOK
<1>5. QED
  BY <1>1, <1>2, <1>3, <1>4

(* What a running operation knows: it is the only one, and everything      *)
(* before it has settled.                                                  *)
LEMMA RunningIsAlone ==
  ASSUME QueueInvariant, NEW r \in Requests, native[r] = "running"
  PROVE  /\ r \in Accepted
         /\ \A q \in Accepted : q < r => native[q] = "settled"
         /\ \A q \in Requests : native[q] = "running" => q = r
<1> USE DEF QueueInvariant, Requests
<1>1. \A q \in Requests : native[q] = "running" => q \in Accepted
  BY DEF ChainIsLinear, Accepted, TypeOK
<1>2. \A q \in Accepted : q < r => native[q] = "settled"
  BY <1>1 DEF SettledPrefix
<1>3. ASSUME NEW q \in Requests, native[q] = "running", q # r
      PROVE  FALSE
  <2>1. q < r \/ r < q
    BY <1>3
  <2>2. QED
    BY <1>1, <1>3, <2>1 DEF SettledPrefix
<1>4. QED
  BY <1>1, <1>2, <1>3

(* Every step of the queue preserves the invariant.                        *)
LEMMA StepPreserves ==
  ASSUME QueueInvariant, [Next]_vars
  PROVE  QueueInvariant'
<1> USE DEF QueueInvariant, Requests, NoRequest
<1>1. ASSUME NEW r \in Requests, Run(r)
      PROVE  QueueInvariant'
  <2> USE DEF Run
  <2>1. TypeOK'
    BY <1>1 DEF TypeOK
  <2>2. Accepted' = Accepted \cup {r}
    <3>1. count \in Nat /\ r = count + 1 /\ count' = r
      BY <1>1 DEF TypeOK
    <3>2. 1..count' = (1..count) \cup {r} /\ r \notin 1..count
      BY <3>1
    <3>3. native'[r] = "queued"
      BY <1>1 DEF TypeOK
    <3>4. \A q \in 1..count : native'[q] = native[q]
      BY <1>1, <3>1 DEF TypeOK
    <3>5. QED
      BY <3>2, <3>3, <3>4 DEF Accepted
  <2>3. ChainIsLinear'
    BY <1>1, <2>2 DEF TypeOK, ChainIsLinear, Accepted
  <2>4. SettledPrefix'
    BY <1>1, <2>2 DEF TypeOK, SettledPrefix, Accepted
  <2>5. Bookkeeping'
    BY <1>1 DEF TypeOK, ChainIsLinear, Bookkeeping
  <2>6. QED
    BY <2>1, <2>3, <2>4, <2>5
<1>2. ASSUME NEW r \in Requests, RunRefused(r)
      PROVE  QueueInvariant'
  <2> USE DEF RunRefused
  <2>1. TypeOK'
    BY <1>2 DEF TypeOK
  <2>2. Accepted' = Accepted
    <3>1. count \in Nat /\ r = count + 1 /\ count' = r
      BY <1>2 DEF TypeOK
    <3>2. 1..count' = (1..count) \cup {r} /\ r \notin 1..count
      BY <3>1
    <3>3. native'[r] = "refused"
      BY <1>2 DEF TypeOK
    <3>4. \A q \in 1..count : native'[q] = native[q]
      BY <1>2, <3>1 DEF TypeOK
    <3>5. QED
      BY <3>2, <3>3, <3>4 DEF Accepted
  <2>3. ChainIsLinear'
    BY <1>2, <2>2 DEF TypeOK, ChainIsLinear, Accepted
  <2>4. SettledPrefix'
    BY <1>2, <2>2 DEF TypeOK, SettledPrefix, Accepted
  <2>5. Bookkeeping'
    BY <1>2 DEF TypeOK, ChainIsLinear, Bookkeeping
  <2>6. QED
    BY <2>1, <2>3, <2>4, <2>5
<1>3. ASSUME NEW r \in Requests, Start(r)
      PROVE  QueueInvariant'
  <2> USE DEF Start
  <2>1. TypeOK'
    BY <1>3 DEF TypeOK
  <2>2. Turn(r)
    BY <1>3
  <2>3. /\ r \in Accepted
        /\ \A q \in Accepted : q < r => native[q] = "settled"
        /\ \A q \in Requests : native[q] # "running"
        /\ ~unhealthy
    BY <2>2, TurnIsExclusive
  <2>4. Accepted' = Accepted
    BY <1>3, <2>3 DEF Accepted, TypeOK
  <2>5. ChainIsLinear'
    BY <1>3, <2>3, <2>4 DEF TypeOK, ChainIsLinear, Accepted
  <2>6. SettledPrefix'
    BY <1>3, <2>3, <2>4 DEF TypeOK, SettledPrefix, Accepted, Turn
  <2>7. Bookkeeping'
    BY <1>3, <2>3 DEF TypeOK, Bookkeeping, Turn
  <2>8. QED
    BY <2>1, <2>5, <2>6, <2>7
<1>4. ASSUME NEW r \in Requests, Drop(r)
      PROVE  QueueInvariant'
  <2> USE DEF Drop, Settle
  <2>1. TypeOK'
    BY <1>4 DEF TypeOK
  <2>2. Turn(r)
    BY <1>4
  <2>3. /\ r \in Accepted
        /\ \A q \in Accepted : q < r => native[q] = "settled"
        /\ \A q \in Requests : native[q] # "running"
        /\ ~unhealthy
    BY <2>2, TurnIsExclusive
  <2>4. Accepted' = Accepted
    BY <1>4, <2>3 DEF Accepted, TypeOK
  <2>5. ChainIsLinear'
    BY <1>4, <2>3, <2>4 DEF TypeOK, ChainIsLinear, Accepted
  <2>6. SettledPrefix'
    BY <1>4, <2>3, <2>4 DEF TypeOK, SettledPrefix, Accepted, Turn
  <2>7. Bookkeeping'
    BY <1>4, <2>3 DEF TypeOK, Bookkeeping, Turn
  <2>8. QED
    BY <2>1, <2>5, <2>6, <2>7
<1>5. ASSUME NEW r \in Requests, Finish(r)
      PROVE  QueueInvariant'
  <2> USE DEF Finish, Settle
  <2>1. TypeOK'
    BY <1>5 DEF TypeOK
  <2>2. native[r] = "running"
    BY <1>5
  <2>3. /\ r \in Accepted
        /\ \A q \in Accepted : q < r => native[q] = "settled"
        /\ \A q \in Requests : native[q] = "running" => q = r
    BY <2>2, RunningIsAlone
  <2>4. Accepted' = Accepted
    BY <1>5, <2>3 DEF Accepted, TypeOK
  <2>5. ChainIsLinear'
    BY <1>5, <2>3, <2>4 DEF TypeOK, ChainIsLinear, Accepted
  <2>6. SettledPrefix'
    BY <1>5, <2>3, <2>4 DEF TypeOK, SettledPrefix, Accepted
  <2>7. Bookkeeping'
    BY <1>5, <2>3 DEF TypeOK, Bookkeeping
  <2>8. QED
    BY <2>1, <2>5, <2>6, <2>7
<1>6. ASSUME NEW r \in Requests, Watchdog(r)
      PROVE  QueueInvariant'
  <2> USE DEF Watchdog
  <2>1. native[r] = "running"
    BY <1>6 DEF Bookkeeping
  <2>2. /\ r \in Accepted
        /\ \A q \in Requests : native[q] = "running" => q = r
    BY <2>1, RunningIsAlone
  <2>3. TypeOK'
    BY <1>6 DEF TypeOK
  <2>4. Accepted' = Accepted
    BY <1>6 DEF Accepted
  <2>5. ChainIsLinear'
    BY <1>6, <2>4 DEF ChainIsLinear
  <2>6. SettledPrefix'
    BY <1>6, <2>4 DEF SettledPrefix
  <2>7. Bookkeeping'
    BY <1>6, <2>1, <2>2 DEF TypeOK, Bookkeeping
  <2>8. QED
    BY <2>3, <2>5, <2>6, <2>7
<1>7. CASE UNCHANGED vars
  BY <1>7 DEF vars, TypeOK, ChainIsLinear, SettledPrefix, Bookkeeping, Accepted
<1>8. QED
  BY <1>1, <1>2, <1>3, <1>4, <1>5, <1>6, <1>7 DEF Next

(* The promise chain stays linear and its flags consistent in every        *)
(* behaviour of the queue.                                                 *)
THEOREM QueueIsInvariant == Spec => []QueueInvariant
<1>1. QueueInvariant /\ [Next]_vars => QueueInvariant'
  BY StepPreserves
<1>2. QED
  BY InitEstablishes, <1>1, PTL DEF Spec

(* Type correctness of the queue.                                          *)
THEOREM QueueTypeCorrect == Spec => []TypeOK
<1>1. QueueInvariant => TypeOK
  BY DEF QueueInvariant
<1>2. QED
  BY QueueIsInvariant, <1>1, PTL

(* At most one native compositor operation is ever in flight, a hung one   *)
(* included (compositorOperations.js:51-53).                               *)
THEOREM CompositorIsExclusive == Spec => []NoOverlap
<1>1. QueueInvariant => NoOverlap
  BY RunningIsAlone DEF NoOverlap, Running
<1>2. QED
  BY QueueIsInvariant, <1>1, PTL

(* The queue turns work away only while a native operation is in flight.   *)
THEOREM RefusalNeedsHungOperation == Spec => []UnhealthyOnlyWhileHung
<1>1. QueueInvariant => UnhealthyOnlyWhileHung
  BY DEF QueueInvariant, Bookkeeping, UnhealthyOnlyWhileHung, Running, TypeOK
<1>2. QED
  BY QueueIsInvariant, <1>1, PTL

-----------------------------------------------------------------------------
(* The refinement: phases and answers of the abstract executor.            *)
MappedPhase ==
  [r \in Requests |->
     CASE native[r] = "none" -> "new"
       [] native[r] = "queued" -> "waiting"
       [] native[r] = "running" -> "active"
       [] OTHER -> "over"]

MappedAnswered == {r \in Requests : outcome[r] # "none"}

(* A step that moves only request r moves only its abstract phase.         *)
LEMMA PhaseMoves ==
  ASSUME NEW r \in Requests, NEW s \in {"refused", "queued", "running", "settled"},
         TypeOK, native' = [native EXCEPT ![r] = s]
  PROVE  MappedPhase' =
           [MappedPhase EXCEPT ![r] = CASE s = "queued" -> "waiting"
                                        [] s = "running" -> "active"
                                        [] OTHER -> "over"]
  BY DEF MappedPhase, TypeOK

LEMMA PhaseValues ==
  ASSUME NEW r \in Requests, TypeOK
  PROVE  /\ MappedPhase[r] = "new" <=> native[r] = "none"
         /\ MappedPhase[r] = "waiting" <=> native[r] = "queued"
         /\ MappedPhase[r] = "active" <=> native[r] = "running"
         /\ r \in MappedAnswered <=> outcome[r] # "none"
  BY DEF MappedPhase, MappedAnswered, TypeOK

(* Every step of the queue is a step of the executor or leaves it alone.   *)
LEMMA StepRefines ==
  ASSUME QueueInvariant, [Next]_vars
  PROVE  [Serial!ExecNext]_(Serial!execVars)
<1>0. TypeOK
  BY DEF QueueInvariant
<1>1. ASSUME NEW r \in Requests, Run(r)
      PROVE  Serial!Submit(r)
  <2>1. native[r] = "none" /\ \A q \in Requests : q < r => native[q] # "none"
    BY <1>0, <1>1 DEF QueueInvariant, ChainIsLinear, Run, TypeOK, Requests
  <2>2. MappedPhase' = [MappedPhase EXCEPT ![r] = "waiting"]
    BY <1>0, <1>1, PhaseMoves DEF Run
  <2>3. MappedAnswered' = MappedAnswered
    BY <1>1 DEF Run, MappedAnswered
  <2>4. QED
    BY <1>0, <2>1, <2>2, <2>3, PhaseValues
       DEF Serial!Submit, MappedPhase, MappedAnswered
<1>2. ASSUME NEW r \in Requests, RunRefused(r)
      PROVE  Serial!Refuse(r)
  <2>1. native[r] = "none"
    BY <1>0, <1>2 DEF QueueInvariant, ChainIsLinear, RunRefused, TypeOK, Requests
  <2>2. PICK q \in Requests : native[q] = "running" /\ outcome[q] # "none"
    BY <1>2 DEF QueueInvariant, Bookkeeping, RunRefused
  <2>3. MappedPhase' = [MappedPhase EXCEPT ![r] = "over"]
    BY <1>0, <1>2, PhaseMoves DEF RunRefused
  <2>4. MappedAnswered' = MappedAnswered \cup {r}
    BY <1>0, <1>2 DEF RunRefused, MappedAnswered, TypeOK
  <2>5. QED
    BY <1>0, <2>1, <2>2, <2>3, <2>4, PhaseValues
       DEF Serial!Refuse, MappedPhase, MappedAnswered
<1>3. ASSUME NEW r \in Requests, Start(r)
      PROVE  Serial!Begin(r)
  <2>1. Turn(r) /\ native[r] = "queued"
    BY <1>3 DEF Start, Turn
  <2>2. /\ \A q \in Accepted : q < r => native[q] = "settled"
        /\ \A q \in Requests : native[q] # "running"
    BY <2>1, TurnIsExclusive
  <2>3. \A q \in Requests : native[q] = "queued" => q >= r
    BY <1>0, <2>2 DEF QueueInvariant, ChainIsLinear, TypeOK, Accepted, Requests
  <2>4. outcome[r] = "none"
    BY <1>3, <2>1 DEF Start, QueueInvariant, Bookkeeping
  <2>5. MappedPhase' = [MappedPhase EXCEPT ![r] = "active"]
    BY <1>0, <1>3, PhaseMoves DEF Start
  <2>6. MappedAnswered' = MappedAnswered
    BY <1>3 DEF Start, MappedAnswered
  <2>7. QED
    BY <1>0, <2>1, <2>2, <2>3, <2>4, <2>5, <2>6, PhaseValues
       DEF Serial!Begin, MappedPhase, MappedAnswered
<1>4. ASSUME NEW r \in Requests, Drop(r)
      PROVE  Serial!Abandon(r)
  <2>1. Turn(r) /\ native[r] = "queued"
    BY <1>4 DEF Drop, Turn
  <2>2. \A q \in Requests : native[q] # "running"
    BY <2>1, TurnIsExclusive
  <2>3. MappedPhase' = [MappedPhase EXCEPT ![r] = "over"]
    BY <1>0, <1>4, PhaseMoves DEF Drop
  <2>4. MappedAnswered' = MappedAnswered \cup {r}
    BY <1>0, <1>4 DEF Drop, Settle, MappedAnswered, TypeOK
  <2>5. QED
    BY <1>0, <2>1, <2>2, <2>3, <2>4, PhaseValues
       DEF Serial!Abandon, MappedPhase, MappedAnswered
<1>5. ASSUME NEW r \in Requests, Finish(r)
      PROVE  Serial!Complete(r)
  <2>1. native[r] = "running"
    BY <1>5 DEF Finish
  <2>2. MappedPhase' = [MappedPhase EXCEPT ![r] = "over"]
    BY <1>0, <1>5, PhaseMoves DEF Finish
  <2>3. MappedAnswered' = MappedAnswered \cup {r}
    BY <1>0, <1>5 DEF Finish, Settle, MappedAnswered, TypeOK
  <2>4. QED
    BY <1>0, <2>1, <2>2, <2>3, PhaseValues
       DEF Serial!Complete, MappedPhase, MappedAnswered
<1>6. ASSUME NEW r \in Requests, Watchdog(r)
      PROVE  Serial!GiveUp
  <2>1. native[r] = "running"
    BY <1>6 DEF Watchdog, QueueInvariant, Bookkeeping
  <2>2. MappedPhase' = MappedPhase
    BY <1>6 DEF Watchdog, MappedPhase
  <2>3. MappedAnswered' = MappedAnswered \cup pending
    BY <1>0, <1>6 DEF Watchdog, MappedAnswered, TypeOK
  <2>4. pending = {q \in Requests : MappedPhase[q] \in {"waiting", "active"}}
    BY <1>0, PhaseValues DEF QueueInvariant, Bookkeeping
  <2>5. QED
    BY <1>0, <2>1, <2>2, <2>3, <2>4, PhaseValues
       DEF Serial!GiveUp, MappedPhase, MappedAnswered
<1>7. CASE UNCHANGED vars
  BY <1>7 DEF vars, Serial!execVars
<1>8. QED
  BY <1>1, <1>2, <1>3, <1>4, <1>5, <1>6, <1>7 DEF Next, Serial!ExecNext

(* The promise chain, its cancellation flags and its watchdog implement    *)
(* the serial executor: exclusive, in call order, and never starting work  *)
(* whose caller has been told that it failed.                              *)
THEOREM QueueImplementsExecutor == Spec => ImplementsSerialExecutor
<1>1. Init => Serial!ExecInit
  BY DEF Init, Serial!ExecInit
<1>2. QueueInvariant /\ [Next]_vars => [Serial!ExecNext]_(Serial!execVars)
  BY StepRefines
<1>3. QED
  BY QueueIsInvariant, <1>1, <1>2, PTL
     DEF Spec, ImplementsSerialExecutor, Serial!ExecSpec
=============================================================================
