----------------------------- MODULE PinnedKey -----------------------------
(***************************************************************************)
(* What vault_key.py promises, without lock, files, credential store or    *)
(* crashes: a vault gets one key, once; whoever asks is given that key,    *)
(* and writes with no other.  A vault that comes with records of former    *)
(* versions, of one key or of several, gets a key of that history, never   *)
(* one that is foreign to it.                                              *)
(***************************************************************************)
CONSTANTS Users, Keys

VARIABLES pin,      \* {}, or the one key of the vault
          held,     \* per user {}, or the key it was given for one record
          found,    \* keys of the records the vault came with
          left,     \* those of them that still have a record
          written   \* keys of the records written since

pinVars == <<pin, held, found, left, written>>

PinInit ==
  /\ pin = {}
  /\ held = [u \in Users |-> {}]
  /\ found \in SUBSET Keys /\ left = found
  /\ written = {}

(* The vault gets its key, and the user who asked for it has it.           *)
Choose(u) ==
  /\ pin = {} /\ held[u] = {}
  /\ \E k \in Keys : (left # {} => k \in found) /\ pin' = {k}
  /\ held' = [held EXCEPT ![u] = pin']
  /\ UNCHANGED <<found, left, written>>

Obtain(u) ==
  /\ pin # {} /\ held[u] = {}
  /\ held' = [held EXCEPT ![u] = pin]
  /\ UNCHANGED <<pin, found, left, written>>

(* A record is written, or nothing that tells keys apart.                  *)
Use(u) ==
  /\ held[u] # {}
  /\ written' \in {written, written \cup held[u]}
  /\ held' = [held EXCEPT ![u] = {}]
  /\ UNCHANGED <<pin, found, left>>

Clear ==
  /\ left' \in SUBSET left /\ written' \in SUBSET written
  /\ UNCHANGED <<pin, held, found>>

PinNext == (\E u \in Users : Choose(u) \/ Obtain(u) \/ Use(u)) \/ Clear

PinSpec == PinInit /\ [][PinNext]_pinVars
=============================================================================
