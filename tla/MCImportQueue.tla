--------------------------- MODULE MCImportQueue ---------------------------
(***************************************************************************)
(* Small instances of ImportQueue for the model checker.                   *)
(***************************************************************************)
EXTENDS ImportQueue, TLC

\* Workers and operators are interchangeable in every safety property.
Symmetry == Permutations(Workers) \cup Permutations(Operators)

=============================================================================
