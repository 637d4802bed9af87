------------------------------- MODULE Orders -------------------------------
(***************************************************************************)
(* The orders service (internal/orders) as operators on its table.  A row  *)
(* is inserted in one statement and is durable; an order's id is its       *)
(* position, and nothing deletes one.  The service never asks the product  *)
(* service whether a product exists.                                       *)
(***************************************************************************)
EXTENDS Integers, Sequences

(* The caller of a request is the user of a valid token, or nobody. *)
Nobody == 0

(* cause is the request that placed the order, for the properties only. *)
OrderType(Accounts, Products, Causes) ==
    [userId: Accounts, productId: Products, cause: Causes]

(* Mutant: the routes are mounted outside the group with RequireValidToken. *)
PlacementStatusUnchecked(caller, productId) == IF productId <= 0 THEN 400 ELSE 201

(* POST /orders: RequireValidToken, then the checks of the handler. *)
PlacementStatus(caller, productId) ==
    IF caller = Nobody THEN 401
    ELSE IF productId <= 0 THEN 400
    ELSE 201

(* Create takes the user from the token and the product from the body. *)
Create(orders, caller, productId, cause) ==
    Append(orders, [userId |-> caller, productId |-> productId, cause |-> cause])

(* Mutant: only the newest order is listed. *)
ListOnlyLast(orders, userId) ==
    LET own == {id \in DOMAIN orders : orders[id].userId = userId}
    IN {id \in own : \A other \in own : other <= id}

(* ListByUserID: the ids of the rows, which the query orders by them. *)
ListByUserID(orders, userId) == {id \in DOMAIN orders : orders[id].userId = userId}
=============================================================================
