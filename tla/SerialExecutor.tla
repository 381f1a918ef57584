--------------------------- MODULE SerialExecutor ---------------------------
(***************************************************************************)
(* What compositorOperations.js promises its callers, without promises,    *)
(* chains, cancellation flags or timers: work is done one piece at a time  *)
(* in the order it was submitted, and work whose submitter has been given  *)
(* an answer is never begun.                                               *)
(***************************************************************************)
EXTENDS Integers

CONSTANT Jobs           \* job identifiers, numbered in submission order

VARIABLES phase,        \* "new", "waiting", "active" or "over"
          answered      \* jobs whose submitter has its answer

execVars == <<phase, answered>>

ExecTypeOK ==
  /\ phase \in [Jobs -> {"new", "waiting", "active", "over"}]
  /\ answered \subseteq Jobs

ExecInit ==
  /\ phase = [j \in Jobs |-> "new"]
  /\ answered = {}

(* Jobs are submitted in the order of their numbers.                       *)
Submit(j) ==
  /\ phase[j] = "new"
  /\ \A k \in Jobs : k < j => phase[k] # "new"
  /\ phase' = [phase EXCEPT ![j] = "waiting"]
  /\ UNCHANGED answered

(* A job is turned away at the door.                                       *)
Refuse(j) ==
  /\ phase[j] = "new"
  /\ \E k \in Jobs : phase[k] = "active" /\ k \in answered
  /\ phase' = [phase EXCEPT ![j] = "over"]
  /\ answered' = answered \cup {j}

(* The oldest waiting job becomes active, alone.                           *)
Begin(j) ==
  /\ phase[j] = "waiting"
  /\ j \notin answered
  /\ \A k \in Jobs : phase[k] # "active"
  /\ \A k \in Jobs : phase[k] = "waiting" => k >= j
  /\ phase' = [phase EXCEPT ![j] = "active"]
  /\ UNCHANGED answered

(* A waiting job is abandoned or the active one completes.                 *)
Abandon(j) ==
  /\ phase[j] = "waiting"
  /\ \A k \in Jobs : phase[k] # "active"
  /\ phase' = [phase EXCEPT ![j] = "over"]
  /\ answered' = answered \cup {j}

Complete(j) ==
  /\ phase[j] = "active"
  /\ phase' = [phase EXCEPT ![j] = "over"]
  /\ answered' = answered \cup {j}

(* The active job takes too long: everyone who waits is told so at once.   *)
GiveUp ==
  /\ \E k \in Jobs : phase[k] = "active"
  /\ answered' = answered \cup {j \in Jobs : phase[j] \in {"waiting", "active"}}
  /\ UNCHANGED phase

ExecNext ==
  \/ GiveUp
  \/ \E j \in Jobs : \/ Submit(j)
                     \/ Refuse(j)
                     \/ Begin(j)
                     \/ Abandon(j)
                     \/ Complete(j)

ExecSpec == ExecInit /\ [][ExecNext]_execVars

=============================================================================
