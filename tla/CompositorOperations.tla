------------------------ MODULE CompositorOperations ------------------------
(***************************************************************************)
(* The one queue through which every part of the extension touches the     *)
(* compositor (compositorOperations.js): screenshots, window moves,        *)
(* tiling raises and application launches.                                 *)
(*                                                                         *)
(* The JavaScript is single-threaded, but an operation is asynchronous: it *)
(* starts in one event-loop turn and settles in another, and meanwhile     *)
(* callers submit more requests, the 120 s watchdog fires, and a caller's  *)
(* own mayRun() turns false.  The code has no explicit list of waiting     *)
(* requests: request r waits on the promise that was `_tail' when it was   *)
(* submitted.  after[r] is that promise.                                   *)
(***************************************************************************)
EXTENDS Integers

CONSTANTS MaxRequests,      \* bound on the number of run() calls
          HasWatchdog       \* configureWatchdog() was called (enable() does)

ASSUME MaxRequestsAssumption == MaxRequests \in Nat
ASSUME HasWatchdogAssumption == HasWatchdog \in BOOLEAN

VARIABLES count,     \* run() calls so far; requests are numbered in call order
          tail,      \* _tail: the request it will resolve with, 0 when initial
          after,     \* the value of _tail when the request was chained to it
          native,    \* phase of the promise `native' of each request
          pending,   \* _pending
          cancelled, \* requests whose `cancelled' flag is set
          armed,     \* requests whose watchdog timer is scheduled
          unhealthy, \* _unhealthy
          outcome    \* what the promise returned by run() settled with

vars == <<count, tail, after, native, pending, cancelled, armed, unhealthy,
          outcome>>

Requests == 1..MaxRequests
NoRequest == 0      \* the promise `_tail' starts with, already resolved

TypeOK ==
  /\ count \in 0..MaxRequests
  /\ tail \in 0..MaxRequests
  /\ after \in [Requests -> 0..MaxRequests]
  /\ native \in [Requests -> {"none", "refused", "queued", "running", "settled"}]
  /\ pending \subseteq Requests
  /\ cancelled \subseteq Requests
  /\ armed \subseteq Requests
  /\ unhealthy \in BOOLEAN
  /\ outcome \in [Requests ->
                    {"none", "refused", "false", "value", "error", "timeout"}]

Init ==
  /\ count = 0
  /\ tail = NoRequest
  /\ after = [r \in Requests |-> NoRequest]
  /\ native = [r \in Requests |-> "none"]
  /\ pending = {}
  /\ cancelled = {}
  /\ armed = {}
  /\ unhealthy = FALSE
  /\ outcome = [r \in Requests |-> "none"]

-----------------------------------------------------------------------------
(* A promise settles once: a later resolve or reject has no effect.        *)
Settle(r, v) ==
  outcome' = [outcome EXCEPT ![r] = IF @ = "none" THEN v ELSE @]

(* run() before the watchdog has declared the queue unhealthy.             *)
Run(r) ==
  /\ r = count + 1
  /\ ~unhealthy
  /\ count' = r
  /\ after' = [after EXCEPT ![r] = tail]
  /\ tail' = r
  /\ native' = [native EXCEPT ![r] = "queued"]
  /\ pending' = pending \cup {r}
  /\ UNCHANGED <<cancelled, armed, unhealthy, outcome>>

(* run() while a native operation hangs: rejected at once, never queued.   *)
RunRefused(r) ==
  /\ r = count + 1
  /\ unhealthy
  /\ count' = r
  /\ native' = [native EXCEPT ![r] = "refused"]
  /\ outcome' = [outcome EXCEPT ![r] = "refused"]
  /\ UNCHANGED <<tail, after, pending, cancelled, armed, unhealthy>>

(* The promise r was chained to has resolved, so its continuation runs.    *)
Turn(r) ==
  /\ native[r] = "queued"
  /\ after[r] # NoRequest => native[after[r]] = "settled"

(* Mutant of Start: the watchdog is not scheduled.                         *)
StartUnguarded(r) ==
  /\ Turn(r)
  /\ r \notin cancelled
  /\ native' = [native EXCEPT ![r] = "running"]
  /\ UNCHANGED <<count, tail, after, pending, cancelled, armed, unhealthy,
                 outcome>>

(* mayRun() allows it: arm the watchdog and start the native operation.    *)
Start(r) ==
  /\ Turn(r)
  /\ r \notin cancelled
  /\ native' = [native EXCEPT ![r] = "running"]
  /\ armed' = IF HasWatchdog THEN armed \cup {r} ELSE armed
  /\ UNCHANGED <<count, tail, after, pending, cancelled, unhealthy, outcome>>

(* The continuation returns false because the request is cancelled or      *)
(* mayRun() is false, or rejects because mayRun() throws: nothing native.  *)
Drop(r) ==
  /\ Turn(r)
  /\ \E v \in {"false", "error"} :
       /\ r \in cancelled => v = "false"
       /\ Settle(r, v)
  /\ native' = [native EXCEPT ![r] = "settled"]
  /\ pending' = pending \ {r}
  /\ UNCHANGED <<count, tail, after, cancelled, armed, unhealthy>>

(* Mutant of Finish: only a completion in time clears `unhealthy', and     *)
(* the request stays in _pending.                                          *)
FinishLate(r) ==
  /\ native[r] = "running"
  /\ \E v \in {"value", "error"} : Settle(r, v)
  /\ native' = [native EXCEPT ![r] = "settled"]
  /\ armed' = armed \ {r}
  /\ unhealthy' = (unhealthy /\ r \notin armed)
  /\ UNCHANGED <<count, tail, after, pending, cancelled>>

(* The native operation returns or throws.  Only this releases the queue.  *)
Finish(r) ==
  /\ native[r] = "running"
  /\ \E v \in {"value", "error"} : Settle(r, v)
  /\ native' = [native EXCEPT ![r] = "settled"]
  /\ armed' = armed \ {r}
  /\ unhealthy' = FALSE
  /\ pending' = pending \ {r}
  /\ UNCHANGED <<count, tail, after, cancelled>>

(* Mutant of Watchdog: the callers are told, the queue is not cancelled.   *)
WatchdogKeepsQueue(r) ==
  /\ r \in armed
  /\ armed' = armed \ {r}
  /\ unhealthy' = TRUE
  /\ outcome' = [q \in Requests |->
                   IF q \in pending /\ outcome[q] = "none"
                   THEN "timeout" ELSE outcome[q]]
  /\ UNCHANGED <<count, tail, after, native, pending, cancelled>>

(* The deadline of a running operation: every pending caller is told, and  *)
(* everything still queued is cancelled.  The native operation goes on.    *)
Watchdog(r) ==
  /\ r \in armed
  /\ armed' = armed \ {r}
  /\ unhealthy' = TRUE
  /\ cancelled' = cancelled \cup pending
  /\ outcome' = [q \in Requests |->
                   IF q \in pending /\ outcome[q] = "none"
                   THEN "timeout" ELSE outcome[q]]
  /\ UNCHANGED <<count, tail, after, native, pending>>

Next ==
  \E r \in Requests : \/ Run(r)
                      \/ RunRefused(r)
                      \/ Start(r)
                      \/ Drop(r)
                      \/ Finish(r)
                      \/ Watchdog(r)

(* The event loop runs ready continuations and expired timers.  Nothing is *)
(* assumed of the native operations: Finish has no fairness, they may hang.*)
Fairness ==
  \A r \in Requests : /\ WF_vars(Start(r) \/ Drop(r))
                      /\ WF_vars(Watchdog(r))

Spec == Init /\ [][Next]_vars /\ Fairness

-----------------------------------------------------------------------------
(* Requests that were not turned away form one chain, linked by `after'.   *)
Accepted == {r \in 1..count : native[r] # "refused"}

ChainIsLinear ==
  /\ \A r \in Requests : native[r] = "none" <=> r > count
  /\ IF Accepted = {} THEN tail = NoRequest ELSE tail \in Accepted
  /\ \A r \in Accepted :
       /\ r <= tail
       /\ after[r] < r
       /\ after[r] # NoRequest => after[r] \in Accepted
       /\ \A q \in Accepted : q < r => q <= after[r]

(* Whatever precedes a request that had its turn has settled.              *)
SettledPrefix ==
  \A r, q \in Accepted :
    q < r /\ native[r] \in {"running", "settled"} => native[q] = "settled"

Bookkeeping ==
  /\ pending = {r \in Requests : native[r] \in {"queued", "running"}}
  /\ \A r \in armed : native[r] = "running" /\ ~unhealthy
  /\ \A r \in Requests : /\ native[r] = "settled" => outcome[r] # "none"
                         /\ native[r] = "refused" => outcome[r] # "none"
                         /\ native[r] = "none" => outcome[r] = "none"
  /\ \A r \in pending : outcome[r] # "none" => r \in cancelled
  /\ unhealthy =>
       /\ \E r \in pending : native[r] = "running"
       /\ pending \subseteq cancelled
       /\ \A r \in pending : outcome[r] # "none"

(* The inductive invariant: the promise chain is a total order of which a  *)
(* prefix has settled, and the flags agree with the operation in flight.   *)
QueueInvariant == TypeOK /\ ChainIsLinear /\ SettledPrefix /\ Bookkeeping

Running == {r \in Requests : native[r] = "running"}

(* At most one native operation is in flight, also after a deadline: the   *)
(* queue must never let a second screenshot or layout change overlap a     *)
(* hung one (compositorOperations.js:51, "must NEVER permit").             *)
NoOverlap == \A r, q \in Running : r = q

(* The queue refuses new work only while a native operation really hangs,  *)
(* so `unhealthy' can never be left behind with nothing to clear it.       *)
UnhealthyOnlyWhileHung == unhealthy => Running # {}

(* A caller is always answered, even when a native operation never returns *)
(* and its request is behind it in the queue.                              *)
EveryCallerAnswered ==
  \A r \in Requests : (native[r] # "none") ~> (outcome[r] # "none")

(* The queue implements SerialExecutor: one operation at a time, in the    *)
(* order of the run() calls, never begun once its caller has been told of  *)
(* a timeout, and turned away only while an operation is hung.             *)
Serial == INSTANCE SerialExecutor WITH
  Jobs <- Requests,
  phase <- [r \in Requests |->
              CASE native[r] = "none" -> "new"
                [] native[r] = "queued" -> "waiting"
                [] native[r] = "running" -> "active"
                [] OTHER -> "over"],
  answered <- {r \in Requests : outcome[r] # "none"}

ImplementsSerialExecutor == Serial!ExecSpec
=============================================================================
