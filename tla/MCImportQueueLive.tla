------------------------- MODULE MCImportQueueLive -------------------------
(***************************************************************************)
(* Two jobs in one queue, for the liveness of ImportQueue.  To keep the    *)
(* state graph small the environment is restricted: accounts stay valid,   *)
(* nobody else writes the catalogue, and the operator, who may retry,      *)
(* confirm and cancel without end, attends to the first job only: it is    *)
(* the older one, which the workers always visit before the second.        *)
(***************************************************************************)
EXTENDS ImportQueue

LiveNext ==
    /\ Next
    /\ authorised \subseteq authorised'
    /\ \A o \in Operators : screen'[o].job # 2

LiveSpec == Init /\ [][LiveNext]_vars /\ Fairness

=============================================================================
