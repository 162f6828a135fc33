--------------------------- MODULE MCStockLedger ---------------------------
(***************************************************************************)
(* Small instances of StockLedger for the model checker.                   *)
(***************************************************************************)
EXTENDS StockLedger, TLC

CONSTANTS c1, c2, s1, s2

\* A workbook, and one whose rows collide.
MCWorkbooks ==
    {[rows |-> {[code |-> c1, amount |-> 1]}, brand |-> s1],
     [rows |-> {[code |-> c1, amount |-> 1], [code |-> c1, amount |-> 2]},
      brand |-> s1]}

\* Two rows to type: the one of the workbook with another amount, and one of
\* another identity, the brand written in another way.
MCEdits == {[code |-> c1, amount |-> 2, brand |-> s1],
            [code |-> c2, amount |-> 1, brand |-> s2]}

MCCodes == {c1, c2}
MCSpellings == {s1, s2}

Symmetry == Permutations(Workers) \cup Permutations(Admins)
               \cup Permutations(Requests)

=============================================================================
