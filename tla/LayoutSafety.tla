---------------------------- MODULE LayoutSafety ----------------------------
(***************************************************************************)
(* runtimeSafety.js: the process-wide flags that every native layout call  *)
(* consults.  A change of monitors or the start of a logout begins a new   *)
(* generation, so that work requested before it is never carried out, and  *)
(* a change of monitors also blocks layout for a second.                   *)
(***************************************************************************)
EXTENDS Naturals

VARIABLES
  generation,   \* layoutSafety.generation
  blocked,      \* now() < layoutSafety.blockedUntil
  shutdown      \* runtimeSafety.shutdownInProgress

safety == <<generation, blocked, shutdown>>

SafetyTypeOK == generation \in Nat /\ blocked \in BOOLEAN /\ shutdown \in BOOLEAN

SafetyInit == generation = 0 /\ blocked = FALSE /\ shutdown = FALSE

MayRestoreApplications == ~shutdown

MayRestoreLayout(g) == MayRestoreApplications /\ g = generation /\ ~blocked

BeginMonitorChange ==
  generation' = generation + 1 /\ blocked' = TRUE /\ UNCHANGED shutdown

QuietPeriodEnds ==
  blocked /\ blocked' = FALSE /\ UNCHANGED <<generation, shutdown>>

BeginShutdown ==
  shutdown' = TRUE /\ generation' = generation + 1 /\ UNCHANGED blocked

CancelShutdown ==
  shutdown /\ shutdown' = FALSE /\ UNCHANGED <<generation, blocked>>
=============================================================================
