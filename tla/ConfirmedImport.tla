--------------------------- MODULE ConfirmedImport ---------------------------
(***************************************************************************)
(* What the import queue promises to the owners of the catalogue, without  *)
(* queue, workers, locks, crashes or retries:                              *)
(*                                                                         *)
(*   - an import changes the catalogue in one indivisible step;            *)
(*   - only an approved plan is carried out, and only while the catalogue  *)
(*     is the one the plan was computed on;                                *)
(*   - a plan is carried out at most once per import, whatever happens     *)
(*     between the approval and the answer.                                *)
(***************************************************************************)
EXTENDS Integers

CONSTANTS Imports, NoPlan

VARIABLES
    catalogue,      \* version of the catalogue
    approved,       \* the plan each import may carry out, or NoPlan
    applied         \* <<import, version it was carried out on>>

vars == <<catalogue, approved, applied>>

Init ==
    /\ catalogue = 0
    /\ approved = [i \in Imports |-> NoPlan]
    /\ applied = {}

IsApplied(i) == \E a \in applied : a[1] = i

\* Somebody approves a plan that was computed on some version so far.
Approve(i) ==
    /\ approved[i] = NoPlan
    /\ ~IsApplied(i)
    /\ \E plan \in 0..catalogue : approved' = [approved EXCEPT ![i] = plan]
    /\ UNCHANGED <<catalogue, applied>>

\* The approval lapses: cancelled, failed, interrupted or expired.
Withdraw(i) ==
    /\ approved[i] # NoPlan
    /\ approved' = [approved EXCEPT ![i] = NoPlan]
    /\ UNCHANGED <<catalogue, applied>>

CarryOut(i) ==
    /\ approved[i] = catalogue
    /\ ~IsApplied(i)
    /\ approved' = [approved EXCEPT ![i] = NoPlan]
    /\ catalogue' = catalogue + 1
    /\ applied' = applied \cup {<<i, catalogue>>}

\* Somebody else writes to the catalogue.
Write ==
    /\ catalogue' = catalogue + 1
    /\ UNCHANGED <<approved, applied>>

Next ==
    \/ \E i \in Imports : Approve(i) \/ Withdraw(i) \/ CarryOut(i)
    \/ Write

Spec == Init /\ [][Next]_vars

=============================================================================
