-------------------------- MODULE FileTransaction --------------------------
(***************************************************************************)
(* FileTransaction (repositories/transaction.py): a set of files is staged *)
(* and committed with preflight checks, before images and one os.replace   *)
(* for each file; a failing replace is rolled back file by file.  Each     *)
(* system call is a step, so other processes act between any two.  The     *)
(* module has the operations of one transaction at a time; its clients     *)
(* stage it with Stage and look at txPhase.                                *)
(*                                                                         *)
(* The code goes through the files in the order they were staged, here any *)
(* order is possible: file names are abstract.  Temporary files are left   *)
(* out, nothing reads their names.                                         *)
(***************************************************************************)
EXTENDS Integers

CONSTANTS
  Paths,        \* files of the repository
  Contents,     \* what a file may hold
  Absent        \* no such file

ASSUME AbsentIsContent == Absent \in Contents

VARIABLES
  files,        \* the repository: what each file holds
  txPhase,      \* how far commit() is; "idle" without a transaction
  txWrites,     \* the staged paths
  txMust,       \* those staged with stage_replace: they must exist
  txContent,    \* what is to be written to each staged path
  txLeft,       \* the paths that the current loop has yet to treat
  originals,    \* before images
  applied       \* paths replaced so far

txVars == <<txPhase, txWrites, txMust, txContent, txLeft, originals, applied>>

Nothing == [x \in Paths |-> Absent]
Phases == {"idle", "preflight", "originals", "temporary", "replace",
           "rollback", "done", "failed", "torn"}

TxTypeOK ==
  /\ files \in [Paths -> Contents]
  /\ txPhase \in Phases
  /\ txWrites \subseteq Paths /\ txMust \subseteq txWrites
  /\ txContent \in [Paths -> Contents]
  /\ txLeft \subseteq txWrites /\ applied \subseteq txWrites
  /\ originals \in [Paths -> Contents]

TxInit ==
  /\ txPhase = "idle"
  /\ txWrites = {} /\ txMust = {} /\ txLeft = {} /\ applied = {}
  /\ txContent = Nothing /\ originals = Nothing

(***************************************************************************)
(* The steps.                                                              *)
(***************************************************************************)
\* A new FileTransaction with the given files staged, and commit() called.
Stage(writes, must, content) ==
  /\ txPhase' = "preflight"
  /\ txWrites' = writes /\ txMust' = must
  /\ txContent' = [x \in Paths |-> IF x \in writes THEN content[x] ELSE Absent]
  /\ txLeft' = writes /\ applied' = {}
  /\ originals' = Nothing

\* One file of a loop is treated; after the last the next loop begins.
Advance(x, next) ==
  IF txLeft = {x}
  THEN txPhase' = next /\ txLeft' = txWrites
  ELSE txPhase' = txPhase /\ txLeft' = txLeft \ {x}

\* A replaced file must exist, a created one must not.
Fits(x) == (x \in txMust) = (files[x] # Absent)

Preflight ==
  /\ txPhase = "preflight"
  /\ \E x \in txLeft :
       IF Fits(x)
       THEN Advance(x, "originals")
       ELSE txPhase' = "failed" /\ UNCHANGED txLeft
  /\ UNCHANGED <<files, txWrites, txMust, txContent, originals, applied>>

ReadOriginal ==
  /\ txPhase = "originals"
  /\ \E x \in txLeft :
       /\ originals' = [originals EXCEPT ![x] = files[x]]
       /\ Advance(x, "temporary")
  /\ UNCHANGED <<files, txWrites, txMust, txContent, applied>>

WriteTemporary ==
  /\ txPhase = "temporary"
  /\ txPhase' = "replace"
  /\ UNCHANGED <<files, txWrites, txMust, txContent, txLeft, originals, applied>>

\* An OSError before the first replace: nothing was changed.
PrepareFails ==
  /\ txPhase \in {"originals", "temporary"}
  /\ txPhase' = "failed"
  /\ UNCHANGED <<files, txWrites, txMust, txContent, txLeft, originals, applied>>

\* Mutant of Replace: commit() returns after the first os.replace.
ReplaceFirst ==
  /\ txPhase = "replace"
  /\ \E x \in txLeft :
       /\ files' = [files EXCEPT ![x] = txContent[x]]
       /\ applied' = applied \cup {x}
  /\ txPhase' = "done"
  /\ UNCHANGED <<txWrites, txMust, txContent, txLeft, originals>>

Replace ==
  /\ txPhase = "replace"
  /\ \E x \in txLeft :
       /\ files' = [files EXCEPT ![x] = txContent[x]]
       /\ applied' = applied \cup {x}
       /\ Advance(x, "done")
  /\ UNCHANGED <<txWrites, txMust, txContent, originals>>

\* Mutant of ReplaceFails: the replaced files are not rolled back.
ReplaceFailsOnly ==
  /\ txPhase = "replace"
  /\ txPhase' = "failed"
  /\ UNCHANGED <<files, txWrites, txMust, txContent, txLeft, originals, applied>>

ReplaceFails ==
  /\ txPhase = "replace"
  /\ txPhase' = IF applied = {} THEN "failed" ELSE "rollback"
  /\ UNCHANGED <<files, txWrites, txMust, txContent, txLeft, originals, applied>>

\* One file is unlinked or gets its before image back.
Undo ==
  /\ txPhase = "rollback"
  /\ \E x \in applied :
       /\ files' = [files EXCEPT ![x] = originals[x]]
       /\ applied' = applied \ {x}
       /\ txPhase' = IF applied = {x} THEN "failed" ELSE "rollback"
  /\ UNCHANGED <<txWrites, txMust, txContent, txLeft, originals>>

\* An OSError within the rollback ends it.
UndoFails ==
  /\ txPhase = "rollback"
  /\ txPhase' = "torn"
  /\ UNCHANGED <<files, txWrites, txMust, txContent, txLeft, originals, applied>>

\* The object is dropped.
Discard ==
  /\ txPhase' = "idle"
  /\ txWrites' = {} /\ txMust' = {} /\ txLeft' = {} /\ applied' = {}
  /\ txContent' = Nothing /\ originals' = Nothing

TxStep == Preflight \/ ReadOriginal \/ WriteTemporary \/ Replace \/ Undo
TxFault == PrepareFails \/ ReplaceFails \/ UndoFails
=============================================================================
