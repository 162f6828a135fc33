----------------------------- MODULE MCAccounts -----------------------------
(***************************************************************************)
(* A small instance of Accounts for the model checker.                     *)
(***************************************************************************)
EXTENDS Accounts, TLC

Symmetry == Permutations(Founders) \cup Permutations(Users \ Founders) \cup Permutations(Teams)
               \cup Permutations(Sessions)

=============================================================================
