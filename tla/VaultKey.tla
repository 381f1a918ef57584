------------------------------ MODULE VaultKey ------------------------------
(***************************************************************************)
(* The key of a Recall vault (vault_key.py), which every encryption and    *)
(* decryption asks for anew: created once, kept in the credential store or *)
(* in a key file, and pinned by a descriptor with its fingerprint.         *)
(*                                                                         *)
(* Processes hold an OS lock while they look for the key or create it; a   *)
(* step is one access to a file or to the store.  A process may die at any *)
(* step, and its lock with it.  A file that was created and not written is *)
(* "torn".  A fingerprint is the key itself.                               *)
(***************************************************************************)
EXTENDS Naturals

CONSTANTS Processes,     \* processes and threads that use the vault
          VaultKeys,     \* keys of 32 bytes
          MaxTampering   \* bound: what users do to keys and records

ASSUME KeyAssumption ==
  /\ "none" \notin VaultKeys /\ "torn" \notin VaultKeys /\ "nobody" \notin Processes
  /\ MaxTampering \in Nat

VARIABLES
  keyFile,      \* .vault-key
  identity,     \* .key-identity.json
  store,        \* the credential store, per account
  keyLock,      \* who holds .key-lock
  process,      \* what each process is doing
  legacy,       \* keys of the records of former versions that are left
  sealed,       \* keys of the records written since
  pictured,     \* an image is in the vault
  former,       \* history: keys of the records that were found at first
  lost,         \* history: the user changed the store or removed the key file
  tampering     \* what users did so far

keyVars == <<keyFile, identity, store, keyLock, process, legacy, sealed, pictured,
             former, lost, tampering>>

NoKey == "none"
Torn == "torn"
Accounts == {"default", "scoped"}
Free == [at |-> "idle", key |-> NoKey, backend |-> "none", account |-> "default"]
NoIdentity == [is |-> "none", key |-> NoKey, backend |-> "none", account |-> "default"]

IdentityType == [is: {"none", "torn", "full"}, key: VaultKeys \cup {NoKey},
                 backend: {"none", "file", "store"}, account: Accounts]
ProcessType == [at: {"idle", "create", "file", "writing", "found", "pinning", "using"},
                key: VaultKeys \cup {NoKey}, backend: {"none", "file", "store"},
                account: Accounts]

KeyTypeOK ==
  /\ keyFile \in VaultKeys \cup {NoKey, Torn}
  /\ identity \in IdentityType
  /\ store \in [Accounts -> VaultKeys \cup {NoKey}]
  /\ keyLock \in Processes \cup {"nobody"}
  /\ process \in [Processes -> ProcessType]
  /\ legacy \subseteq VaultKeys /\ sealed \subseteq VaultKeys /\ former \subseteq VaultKeys
  /\ pictured \in BOOLEAN /\ lost \in BOOLEAN
  /\ tampering \in 0..MaxTampering

(* A new vault, or one of a former version: a key of the default account,  *)
(* or a key file, and records of any keys: one, which need not be that     *)
(* one, or several, for older versions left mixed histories behind.        *)
KeyInit ==
  /\ keyFile \in VaultKeys \cup {NoKey}
  /\ identity = NoIdentity
  /\ \E k \in VaultKeys \cup {NoKey} : store = [a \in Accounts |-> IF a = "default" THEN k ELSE NoKey]
  /\ keyLock = "nobody"
  /\ process = [p \in Processes |-> Free]
  /\ legacy \in SUBSET VaultKeys /\ former = legacy
  /\ sealed = {}
  /\ pictured = (legacy # {})
  /\ lost = FALSE
  /\ tampering = 0

Opened == legacy \cup sealed   \* the keys that open a record of the vault

Existing == identity.is = "full" \/ Opened # {} \/ pictured

(* The call raises, or the process dies: the OS releases the lock.         *)
Leaves(p) ==
  /\ process' = [process EXCEPT ![p] = Free]
  /\ keyLock' = IF keyLock = p THEN "nobody" ELSE keyLock

Goes(p, step) == process' = [process EXCEPT ![p].at = step]

-----------------------------------------------------------------------------
(* The lock is there: descriptor, key file or credential store are read.   *)
(* A torn file raises.  The store may be locked, empty or not installed:   *)
(* then only a vault without any data gets a new key.                      *)
FindKey(p) ==
  /\ process[p].at = "idle" /\ keyLock = "nobody"
  /\ UNCHANGED <<keyFile, identity, store, legacy, sealed, pictured, former, lost, tampering>>
  /\ LET found(k, b) ==
           /\ process' = [process EXCEPT ![p] = [at |-> "found", key |-> k, backend |-> b,
                                                 account |-> identity.account]]
           /\ keyLock' = p
     IN /\ identity.is # "torn"
        /\ IF keyFile # NoKey /\ identity.backend # "store"
           THEN keyFile # Torn /\ found(keyFile, "file")
           ELSE \/ /\ store[identity.account] # NoKey
                   /\ found(store[identity.account], "store")
                \/ /\ ~Existing
                   /\ \E k \in VaultKeys :
                        process' = [process EXCEPT ![p] = [Free EXCEPT !.at = "create", !.key = k]]
                   /\ keyLock' = p

(* The new key is stored under the account of the vault and read back; if  *)
(* that fails at either step, or there is no store, it goes to a file.     *)
StoreKey(p) ==
  /\ process[p].at = "create"
  /\ UNCHANGED <<keyFile, identity, keyLock, legacy, sealed, pictured, former, lost, tampering>>
  /\ \/ /\ store' = [store EXCEPT !["scoped"] = process[p].key]
        /\ process' = [process EXCEPT ![p].at = "found", ![p].backend = "store",
                                      ![p].account = "scoped"]
     \/ /\ store' \in {store, [store EXCEPT !["scoped"] = process[p].key]}
        /\ Goes(p, "file")

CreateKeyFile(p) ==
  /\ process[p].at = "file"
  /\ keyFile = NoKey
  /\ keyFile' = Torn
  /\ Goes(p, "writing")
  /\ UNCHANGED <<identity, store, keyLock, legacy, sealed, pictured, former, lost, tampering>>

WriteKeyFile(p) ==
  /\ process[p].at = "writing"
  /\ keyFile' = process[p].key
  /\ process' = [process EXCEPT ![p].at = "found", ![p].backend = "file"]
  /\ UNCHANGED <<identity, store, keyLock, legacy, sealed, pictured, former, lost, tampering>>

(* Mutant of CheckKey: no record is tried with the key to be pinned.       *)
CheckKeyUntried(p) ==
  /\ process[p].at = "found"
  /\ UNCHANGED <<keyFile, store, legacy, sealed, pictured, former, lost, tampering>>
  /\ \/ /\ identity.is = "full" /\ identity.key = process[p].key
        /\ Goes(p, "using") /\ keyLock' = "nobody"
        /\ UNCHANGED identity
     \/ /\ identity.is = "none"
        /\ identity' = [NoIdentity EXCEPT !.is = "torn"]
        /\ Goes(p, "pinning") /\ UNCHANGED keyLock

(* Mutant of CheckKey: a key that opens a record replaces the pinned one.  *)
CheckKeyRepins(p) ==
  /\ process[p].at = "found"
  /\ UNCHANGED <<keyFile, store, legacy, sealed, pictured, former, lost, tampering>>
  /\ \/ /\ identity.is = "full" /\ identity.key = process[p].key
        /\ Goes(p, "using") /\ keyLock' = "nobody"
        /\ UNCHANGED identity
     \/ /\ identity.key # process[p].key
        /\ Opened # {} => process[p].key \in Opened
        /\ identity' = [NoIdentity EXCEPT !.is = "torn"]
        /\ Goes(p, "pinning") /\ UNCHANGED keyLock

(* A key that is not the one pinned raises; without a descriptor it must   *)
(* open a record, if there are records, before it is pinned.  One record   *)
(* that opens is enough: those of other keys are passed over.              *)
CheckKey(p) ==
  /\ process[p].at = "found"
  /\ UNCHANGED <<keyFile, store, legacy, sealed, pictured, former, lost, tampering>>
  /\ \/ /\ identity.is = "full" /\ identity.key = process[p].key
        /\ Goes(p, "using") /\ keyLock' = "nobody"
        /\ UNCHANGED identity
     \/ /\ identity.is = "none"
        /\ Opened # {} => process[p].key \in Opened
        /\ identity' = [NoIdentity EXCEPT !.is = "torn"]
        /\ Goes(p, "pinning") /\ UNCHANGED keyLock

PinKey(p) ==
  /\ process[p].at = "pinning"
  /\ identity' = [is |-> "full", key |-> process[p].key, backend |-> process[p].backend,
                  account |-> process[p].account]
  /\ Goes(p, "using")
  /\ keyLock' = "nobody"
  /\ UNCHANGED <<keyFile, store, legacy, sealed, pictured, former, lost, tampering>>

(* _write_encrypted() with the key, of a record or of an image             *)
Encrypt(p) ==
  /\ process[p].at = "using"
  /\ process' = [process EXCEPT ![p] = Free]
  /\ \/ sealed' = sealed \cup {process[p].key} /\ UNCHANGED pictured
     \/ pictured' = TRUE /\ UNCHANGED sealed
  /\ UNCHANGED <<keyFile, identity, store, keyLock, legacy, former, lost, tampering>>

(* A check fails, a call of the system fails, or the process dies.  What   *)
(* it created stays.                                                       *)
GiveUp(p) ==
  /\ process[p].at # "idle"
  /\ Leaves(p)
  /\ UNCHANGED <<keyFile, identity, store, legacy, sealed, pictured, former, lost, tampering>>

-----------------------------------------------------------------------------
Tamper == tampering < MaxTampering /\ tampering' = tampering + 1

(* The store is reset or holds the key of another vault; the file is gone. *)
LoseKey ==
  /\ Tamper
  /\ lost' = TRUE
  /\ \/ keyFile' = NoKey /\ UNCHANGED store
     \/ /\ \E a \in Accounts, k \in VaultKeys \cup {NoKey} : store' = [store EXCEPT ![a] = k]
        /\ UNCHANGED keyFile
  /\ UNCHANGED <<identity, keyLock, process, legacy, sealed, pictured, former>>

(* Some records or all are deleted; an image may stay behind.              *)
DeleteRecords ==
  /\ Tamper
  /\ legacy' \in SUBSET legacy /\ sealed' \in SUBSET sealed
  /\ pictured' \in {pictured, FALSE}
  /\ UNCHANGED <<keyFile, identity, store, keyLock, process, former, lost>>

KeyStep(p) ==
  \/ FindKey(p) \/ StoreKey(p) \/ CreateKeyFile(p) \/ WriteKeyFile(p)
  \/ CheckKey(p) \/ PinKey(p) \/ Encrypt(p) \/ GiveUp(p)

KeyNext == (\E p \in Processes : KeyStep(p)) \/ LoseKey \/ DeleteRecords

KeySpec == KeyInit /\ [][KeyNext]_keyVars

-----------------------------------------------------------------------------
(* What the next call finds when the store answers                         *)
Lookup == IF identity.backend = "store" THEN store[identity.account] ELSE keyFile

(* A key is handed out only if it opens every record written since the     *)
(* vault got it and, when records of former versions are left, some of     *)
(* those it was found with -- all of them, if they were of one key -- and  *)
(* if the descriptor leads to it again, so that no record is ever written  *)
(* whose key is forgotten: whichever processes raced to create the key,    *)
(* died on the way, or found the store locked, empty or replaced.          *)
KeyContinues ==
  [][\A p \in Processes : process'[p].at = "using" /\ process[p].at # "using" =>
       /\ sealed \subseteq {process'[p].key}
       /\ legacy # {} => process'[p].key \in former
       /\ identity'.is = "full" /\ identity'.key = process'[p].key
       /\ ~lost => Lookup' = process'[p].key]_keyVars

(* The vault keeps one key for ever, one that its history of former        *)
(* versions knows: lock, descriptor and trial of the records together      *)
(* implement PinnedKey, also when processes die between two steps and the  *)
(* store comes back with another key.                                      *)
Pinned == INSTANCE PinnedKey WITH
  Users <- Processes, Keys <- VaultKeys,
  pin <- IF identity.is = "full" THEN {identity.key} ELSE {},
  held <- [p \in Processes |-> IF process[p].at = "using" THEN {process[p].key} ELSE {}],
  found <- former, left <- legacy, written <- sealed

ImplementsPinnedKey == Pinned!PinSpec
=============================================================================
