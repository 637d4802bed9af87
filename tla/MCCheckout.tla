---------------------------- MODULE MCCheckout ----------------------------
EXTENDS Checkout, TLC

(* One product, of which there are two units. *)
TwoUnits == <<[origin |-> "Caderno", quantity |-> 2]>>

Sales == {[op |-> "decrement", role |-> "user", valid |-> TRUE, id |-> 1, quantity |-> 0]}

(* The presses of the button are interchangeable. *)
PressSymmetry == Permutations(Writes)
=============================================================================
