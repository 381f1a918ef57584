--------------------------- MODULE MCRestoreQueue ---------------------------
(* TLC instance of RestoreQueue: an office suite with two records that     *)
(* name documents and an editor with one that does not.                    *)
EXTENDS RestoreQueue

CONSTANTS office, editor, f1, f2, old, new, plain

MCApps == {office, editor}
MCFiles == {f1, f2}
MCContents == {old, new, plain}
MCAppOf == [c \in MCContents |-> IF c = plain THEN editor ELSE office]
MCDocs == {old, new}
MCInitialFiles == [f \in MCFiles |-> IF f = f1 THEN old ELSE plain]
=============================================================================
