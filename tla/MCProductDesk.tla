----------------------------- MODULE MCProductDesk -----------------------------
(***************************************************************************)
(* Small instances of ProductDesk for the model checker.                   *)
(***************************************************************************)
EXTENDS ProductDesk, TLC

CONSTANTS s1, s2, z1

TheForms ==
    {r \in Identity : <<r.source, r.size>> \in {<<s1, Blank>>, <<s1, z1>>, <<s2, z1>>}}

\* A product, a brand, and all of a brand that has size z1.
TheScopes ==
    {c \in Scope : c.kind = "quick" => c.source = AnyValue /\ c.size = z1}

Symmetry == Permutations(Ids) \cup Permutations(Brands) \cup
            Permutations(Labels) \cup Permutations(Statuses) \cup
            Permutations(Admins) \cup Permutations(Tokens)

================================================================================
