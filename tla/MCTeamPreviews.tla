---------------------------- MODULE MCTeamPreviews ----------------------------
(***************************************************************************)
(* A small instance of TeamPreviews for the model checker.                 *)
(***************************************************************************)
EXTENDS TeamPreviews, TLC

Symmetry == Permutations(Teams) \cup Permutations(Users) \cup
            Permutations(Policies) \cup Permutations(Tokens) \cup
            Permutations(Requests)

=============================================================================
