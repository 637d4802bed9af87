------------------------ MODULE MCProductReplicas ------------------------
(***************************************************************************)
(* Small instances of ProductReplicas for TLC.                             *)
(***************************************************************************)
EXTENDS ProductReplicas, TLC

Creation(role, valid) ==
    [op |-> "create", role |-> role, valid |-> valid, id |-> 0, quantity |-> 1]
Sale(id, role, valid) ==
    [op |-> "decrement", role |-> role, valid |-> valid, id |-> id, quantity |-> 0]

(* One product with a single unit left: the races for it are the point. *)
LastUnit == <<[origin |-> "Caderno", quantity |-> 1]>>

(* Products are created and sold; identifier 2 is the first created one.   *)
TradeRequests == {Creation("admin", TRUE), Sale(1, "user", TRUE), Sale(2, "user", TRUE)}

(* Every way the handlers refuse. *)
RefusedRequests ==
    {Creation("user", TRUE), Creation("none", TRUE), Creation("admin", FALSE),
     Sale(1, "none", TRUE), Sale(1, "user", FALSE), Sale(1, "user", TRUE)}

BasicRequests == {Creation("admin", TRUE), Sale(1, "user", TRUE)}

EveryRequest == RefusedRequests \cup BasicRequests

WriteSymmetry == Permutations(Writes)
=============================================================================
