------------------------- MODULE MCProductStore -------------------------
(***************************************************************************)
(* A small instance of ProductStore for TLC.                               *)
(***************************************************************************)
EXTENDS ProductStore

(* Two seeds, so that a crash may come between them; one unit each.        *)
TwoSeeds ==
    <<[origin |-> "Barbeador", quantity |-> 1], [origin |-> "Caderno", quantity |-> 1]>>

Write(op, role, id) ==
    [op |-> op, role |-> role, valid |-> TRUE, id |-> id, quantity |-> 1]

(* Creations, sales that race for the last unit, a sale of what only a     *)
(* creation brings, and a refusal.                                         *)
StoreRequests ==
    {Write("create", "admin", 0), Write("decrement", "user", 1),
     Write("decrement", "user", 3), Write("create", "user", 0)}
=============================================================================
