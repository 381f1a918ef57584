------------------------------ MODULE MCRecall ------------------------------
(* TLC instance of three parts of Privacy Recall: the recorder of the      *)
(* extension, the vault of the portable manager and the key of the vault.  *)
(* They share no state that is modelled, so one run checks each by itself: *)
(* `part' says which one moves, and the others stay in an initial state.   *)
EXTENDS RecallRecorder, RecallVault, VaultKey

VARIABLE part

allVars == <<recorderVars, vars, keyVars, part>>

MCInit ==
  /\ part \in {"recorder", "vault", "key"}
  /\ RecorderInit
  /\ part # "recorder" => ~config.enabled /\ ~config.excluded /\ world.power = "ac"
  /\ Init
  /\ KeyInit
  /\ part # "key" => keyFile = NoKey /\ store["default"] = NoKey /\ legacy = {}

MCNext ==
  \/ part = "recorder" /\ RecorderNext /\ UNCHANGED <<vars, keyVars, part>>
  \/ part = "vault" /\ Next /\ UNCHANGED <<recorderVars, keyVars, part>>
  \/ part = "key" /\ KeyNext /\ UNCHANGED <<recorderVars, vars, part>>

MCSpec == MCInit /\ [][MCNext]_allVars

-----------------------------------------------------------------------------
(* The invariant of the recorder, and the types of the vault and its key:  *)
(* captures, the files they leave and the key they are written with are    *)
(* always in a state that the handlers of RecallRecorder, RecallVault and  *)
(* VaultKey cover.                                                         *)
RecallInvariant == RecorderInvariant /\ VaultTypeOK /\ KeyTypeOK
=============================================================================
