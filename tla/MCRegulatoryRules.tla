--------------------------- MODULE MCRegulatoryRules ---------------------------
(***************************************************************************)
(* A small instance of RegulatoryRules for the model checker.              *)
(***************************************************************************)
EXTENDS RegulatoryRules, TLC

CONSTANTS s1, s2, s3, a, b, i1, i2, i3, v1, v2, n1, n2

TheFiles ==
    {[mode |-> "replace_scoped",
      rows |-> {[value |-> v1, label |-> a, note |-> n2]}]}

TheContents ==
    {[status |-> s1, value |-> v1, note |-> n1],
     [status |-> s1, value |-> v2, note |-> n1]}

Symmetry == Permutations(Ids \ OldIds) \cup
            Permutations(Requests) \cup Permutations(Jobs)

=============================================================================
