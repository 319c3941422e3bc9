------------------------------ MODULE MCCommitTx ------------------------------
(* Instances of CommitTx for TLC. *)
EXTENDS CommitTx, TLC

CONSTANTS a, b, v0, v1, v2

MCInput == {a, b}
MCValue == {v0, v1, v2}
\* b refuses v2; a accepts everything.
MCAllowed == [i \in MCInput |-> IF i = b THEN {v0, v1} ELSE MCValue]

\* b is written every value, a two of them.
Bounds ==
  val'[a] # v2 /\ \A k \in DOMAIN staged' : staged'[k].input = a => staged'[k].value # v2

BoundedSpec ==
  Init /\ val[a] # v2 /\ [][Next /\ Bounds]_vars /\ WF_vars(Pipeline)

\* What a cell held when the frame first touched it.
FirstRow(i) == CHOOSE k \in Rows(i) : \A j \in Rows(i) : k <= j
Found(i)    == IF Rows(i) # {} THEN undo[FirstRow(i)].value ELSE CellBefore(i).value

\* SPEC.md 5.2: the catch arm "restores byte-identical pre-commit state across
\* input cells": a commit that throws leaves every cell as it found it.
FailedCommitRestoresCells ==
  [][Rollback => val' = [i \in Input |-> Found(i)]]_vars
=============================================================================
