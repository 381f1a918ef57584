------------------------------ MODULE MCShell ------------------------------
(* TLC instance of three components of the Shell process: the compositor    *)
(* queue, the end of a session and the control service.  They do not meet   *)
(* in what is modelled of them, so one run checks each by itself: `part'    *)
(* says which one moves, and the others stay in one initial state in which  *)
(* nothing is owed to them.                                                 *)
EXTENDS CompositorOperations, Closing, ControlService

VARIABLE part

shellVars == <<vars, closingVars, serviceVars, part>>

ShellInit ==
  /\ part \in {"queue", "closing", "service"}
  /\ Init
  /\ ClosingInit
  /\ part = "closing" => \A a \in Apps : open[a] = IF a \in Plain THEN MaxWindows ELSE 1
  /\ part # "closing" => gtop /\ \A a \in Apps : open[a] = 1
  /\ ServiceInit
  /\ part # "service" => runtime.starting /\ ~saver.enabled /\ manager = NoOwner

ShellNext ==
  \/ part = "queue" /\ Next /\ UNCHANGED <<closingVars, serviceVars, part>>
  \/ part = "closing" /\ ClosingNext /\ UNCHANGED <<vars, serviceVars, part>>
  \/ part = "service" /\ ServiceNext /\ UNCHANGED <<vars, closingVars, part>>

ShellSpec ==
  /\ ShellInit /\ [][ShellNext]_shellVars
  /\ Fairness /\ ClosingFairness /\ ServiceFairness

-----------------------------------------------------------------------------
(* The invariants of the end of a session and of the service: workspaces    *)
(* stay until the closing that keeps them ends, a session is ended once; a  *)
(* gate stays within its limit, and disable() leaves no timer of the saver  *)
(* and no countdown but that of a dialog which was replaced.                *)
ShellInvariant == ClosingInvariant /\ ServiceInvariant
=============================================================================
