------------------------------ MODULE Checkout ------------------------------
(***************************************************************************)
(* A purchase in the storefront (gateway/web/index.html): buyProduct sells *)
(* one unit through the gateway's replica manager, and when that was       *)
(* acknowledged places an order through its proxy (gateway/proxy.go) with  *)
(* the orders service.  No transaction spans the two: either call may be   *)
(* refused, lost, or carried out after the page has given up on it.        *)
(*                                                                         *)
(* The sale is what ReplicatedCatalogue promises; a write of that module   *)
(* is a press of the button "Pedir".  One page in one browser: presses     *)
(* overlap, and its user may log out and another one log in while they are *)
(* in progress.                                                            *)
(***************************************************************************)
EXTENDS ReplicatedCatalogue, FiniteSets

CONSTANTS
    Accounts    \* the ids of the users that log in

O == INSTANCE Orders
Nobody == O!Nobody
Products == DOMAIN InitialCatalogue

Origins == {InitialCatalogue[i].origin : i \in Products} \cup Writes

(* The button sells a product that the page lists. *)
ASSUME SalesAssumption ==
    Requests \subseteq {q \in RequestType : ~IsCreate(q) /\ q.id \in Products}
ASSUME WritesAssumption == IsFiniteSet(Writes)
ASSUME CatalogueAssumption == InitialCatalogue \in Seq(ProductType(Origins))
ASSUME AccountsAssumption == Accounts \subseteq Nat \ {Nobody}

VARIABLES
    session,    \* the account currentToken and currentUser belong to, or Nobody
    purchase,   \* per press: its stage, who pressed, and whose token the order call carries
    orderCall,  \* per press: "none", "sent" (on its way), "placed" (201 under way), "ended"
    orders,     \* the table of the orders service
    listCalls,  \* the calls of refreshOrders under way: whose orders, and, as history, the
                \* purchases the page had confirmed by then
    lists,      \* the answers to them on their way to the page: the ids of the rows
    shown       \* the orders in "Meus pedidos", which the page hides without a session

listVars == <<listCalls, lists, shown>>
shopVars == <<session, purchase, orderCall, orders, listVars>>
vars == <<replicationVars, shopVars>>

NoPurchase == [stage |-> "idle", buyer |-> Nobody, orderer |-> Nobody]

Init ==
    /\ InitReplication
    /\ session = Nobody
    /\ purchase = [w \in Writes |-> NoPurchase]
    /\ orderCall = [w \in Writes |-> "none"]
    /\ orders = <<>>
    /\ listCalls = {}
    /\ lists = {}
    /\ shown = {}

---------------------------------------------------------------------------
(* The session. *)

Confirmed == {w \in Writes : purchase[w].stage = "done"}

(* refreshOrders: the id in the path and the token are of one account;     *)
(* without a session the page only says that it cannot load them.          *)
RefreshOrders(account, confirmed) ==
    IF account = Nobody THEN {} ELSE {[of |-> account, confirmed |-> confirmed]}

(* doLogin, and render, which asks for the orders but leaves what is shown *)
(* as it was.                                                              *)
LogIn(account) ==
    /\ session = Nobody
    /\ session' = account
    /\ listCalls' = listCalls \cup RefreshOrders(account, Confirmed)
    /\ UNCHANGED <<replicationVars, purchase, orderCall, orders, lists, shown>>

LogOut ==
    /\ session # Nobody
    /\ session' = Nobody
    /\ UNCHANGED <<replicationVars, purchase, orderCall, orders, listVars>>

InProgress(w) == purchase[w].stage \in {"selling", "ordering"}

(* The page is loaded again: loadSession finds the session in the          *)
(* browser's storage, what was in progress is forgotten, render.           *)
Reload ==
    /\ purchase' = [w \in Writes |->
           IF InProgress(w) THEN [purchase[w] EXCEPT !.stage = "gone"] ELSE purchase[w]]
    /\ listCalls' = RefreshOrders(session, Confirmed)
    /\ lists' = {}
    /\ shown' = {}
    /\ UNCHANGED <<replicationVars, session, orderCall, orders>>

---------------------------------------------------------------------------
(* buyProduct *)

(* The button is pressed: the sale goes to /api/products/{id}/decrement. *)
Press(w) ==
    /\ purchase[w].stage = "idle"
    /\ session # Nobody
    /\ Begin(w)
    /\ purchase' = [purchase EXCEPT ![w].stage = "selling", ![w].buyer = session]
    /\ UNCHANGED <<session, orderCall, orders, listVars>>

(* Mutant: the two calls are made without waiting for the first. *)
SellWithoutWaiting(w) ==
    /\ purchase[w].stage = "selling"
    /\ purchase' = [purchase EXCEPT ![w].stage = "ordering", ![w].orderer = session]
    /\ orderCall' = [orderCall EXCEPT ![w] = "sent"]
    /\ UNCHANGED <<replicationVars, session, orders, listVars>>

(* The sale was acknowledged, and the order goes out with the token the    *)
(* page has by now.                                                        *)
SaleConfirmed(w) ==
    /\ purchase[w].stage = "selling"
    /\ verdict[w] = "acknowledged"
    /\ purchase' = [purchase EXCEPT ![w].stage = "ordering", ![w].orderer = session]
    /\ orderCall' = [orderCall EXCEPT ![w] = "sent"]
    /\ UNCHANGED <<replicationVars, session, orders, listVars>>

EndPurchase(w, stage) ==
    /\ purchase' = [purchase EXCEPT ![w].stage = stage]
    /\ UNCHANGED <<replicationVars, session, orders>>

(* The gateway's answer is an error, or the connection to it breaks before *)
(* the page has an answer: "Falha no pedido".                              *)
SaleFails(w) ==
    /\ purchase[w].stage = "selling"
    /\ EndPurchase(w, "failed")
    /\ UNCHANGED <<orderCall, listVars>>

(* The same for the order; what was sent may still reach the service, and  *)
(* an answer that comes too late is lost.                                  *)
OrderFails(w) ==
    /\ purchase[w].stage = "ordering"
    /\ EndPurchase(w, "failed")
    /\ orderCall' = [orderCall EXCEPT ![w] = IF @ = "placed" THEN "ended" ELSE @]
    /\ UNCHANGED listVars

(* "Pedido feito!", and the list of orders is asked for. *)
OrderConfirmed(w) ==
    /\ purchase[w].stage = "ordering"
    /\ orderCall[w] = "placed"
    /\ EndPurchase(w, "done")
    /\ orderCall' = [orderCall EXCEPT ![w] = "ended"]
    /\ listCalls' = listCalls \cup RefreshOrders(session, Confirmed \cup {w})
    /\ UNCHANGED <<lists, shown>>

---------------------------------------------------------------------------
(* The proxy and the orders service. *)

Placement(w) == O!PlacementStatus(purchase[w].orderer, request[w].id)

EndOrderCall(w, result) ==
    /\ orderCall[w] = "sent"
    /\ orderCall' = [orderCall EXCEPT ![w] =
           IF result = "placed" /\ purchase[w].stage # "ordering" THEN "ended" ELSE result]
    /\ UNCHANGED <<replicationVars, session, purchase, listVars>>

(* Mutant: the row is written after the answer, and may be lost with the   *)
(* process.                                                                *)
PlaceOrderLater(w) ==
    /\ Placement(w) = 201
    /\ EndOrderCall(w, "placed")
    /\ orders' \in {orders, O!Create(orders, purchase[w].orderer, request[w].id, w)}

PlaceOrder(w) ==
    /\ Placement(w) = 201
    /\ EndOrderCall(w, "placed")
    /\ orders' = O!Create(orders, purchase[w].orderer, request[w].id, w)

(* HandlerFor answers 503 for a service that is marked down; the request   *)
(* is lost (502); or the service refuses it: no valid token (401), which   *)
(* an expired one is not either, kill switch (503), a failed INSERT (500). *)
RefuseOrder(w) ==
    /\ EndOrderCall(w, "ended")
    /\ UNCHANGED orders

---------------------------------------------------------------------------
(* GET /orders/{userId}: the rows of the account, of which the token is    *)
(* too, so that the handler's check for another user's orders passes.      *)
OrdersShown(call) == O!ListByUserID(orders, call.of)

(* The service makes the answer, or the page never has one and says so.    *)
ListOrders(call) ==
    /\ listCalls' = listCalls \ {call}
    /\ lists' \in {lists, lists \cup {OrdersShown(call)}}
    /\ UNCHANGED <<replicationVars, session, purchase, orderCall, orders, shown>>

(* The answer replaces what the page shows, whoever is logged in by then.  *)
ShowOrders(rows) ==
    /\ lists' = lists \ {rows}
    /\ shown' = rows
    /\ UNCHANGED <<replicationVars, session, purchase, orderCall, orders, listCalls>>

---------------------------------------------------------------------------
(* The sale on its way through the gateway, as ReplicatedCatalogue has it. *)
SaleStep(w) ==
    /\ \/ Acknowledge(w) \/ (verdict[w] = "open" /\ Fail(w))
       \/ \E r \in Replicas : Apply(w, r) \/ Miss(w, r)
    /\ UNCHANGED shopVars

GatewayRestarts == Abort /\ UNCHANGED shopVars

PurchaseStep(w) ==
    \/ Press(w) \/ SaleStep(w) \/ SaleConfirmed(w) \/ SaleFails(w)
    \/ PlaceOrder(w) \/ RefuseOrder(w) \/ OrderConfirmed(w) \/ OrderFails(w)

Next ==
    \/ LogOut \/ Reload \/ GatewayRestarts
    \/ \E account \in Accounts : LogIn(account)
    \/ \E w \in Writes : PurchaseStep(w)
    \/ \E call \in listCalls : ListOrders(call)
    \/ \E rows \in lists : ShowOrders(rows)

Spec == Init /\ [][Next]_vars

---------------------------------------------------------------------------
(* Properties *)

Stages == {"idle", "selling", "ordering", "done", "failed", "gone"}
PurchaseType ==
    [stage: Stages,
     buyer: Accounts \cup {Nobody}, orderer: Accounts \cup {Nobody}]

ShopTypeOK ==
    /\ session \in Accounts \cup {Nobody}
    /\ purchase \in [Writes -> PurchaseType]
    /\ orderCall \in [Writes -> {"none", "sent", "placed", "ended"}]
    /\ orders \in Seq(O!OrderType(Accounts, Products, Writes))
    /\ listCalls \subseteq [of: Accounts, confirmed: SUBSET Writes]
    /\ lists \subseteq SUBSET DOMAIN orders
    /\ shown \subseteq DOMAIN orders

(* Every variable has its type. *)
TypeOK ==
    /\ ReplicationTypeOK(Origins)
    /\ ShopTypeOK

OrdersOf(i) == {k \in DOMAIN orders : orders[k].productId = i}

(* There is never an order without a unit behind it: at every replica at   *)
(* least as many units of a product are gone as there are orders for it,   *)
(* whatever calls of the two services fail, get lost or arrive late.       *)
OrdersAreBackedBySales ==
    \A r \in Replicas : \A i \in Products :
        Cardinality(OrdersOf(i)) <= InitialCatalogue[i].quantity - catalogue[r][i].quantity

(* A purchase the page has called done has exactly one order, for the      *)
(* product of the button; no press ever has two.                           *)
ConfirmedPurchasesAreOrdered ==
    \A w \in Writes :
        LET placed == {k \in DOMAIN orders : orders[k].cause = w} IN
        /\ \A j, k \in placed : j = k
        /\ w \in Confirmed => \E k \in placed : orders[k].productId = request[w].id

(* A list of orders that is asked for after "Pedido feito!" is answered    *)
(* with that order, if it is of the account that asks, whenever the answer *)
(* is made.                                                                *)
ListsShowConfirmedOrders ==
    \A call \in listCalls : \A w \in call.confirmed :
        purchase[w].orderer = call.of => \E k \in OrdersShown(call) : orders[k].cause = w

(* "Meus pedidos" shows the history of who is logged in: once nothing is   *)
(* on its way to the list any more, only orders for which that account has *)
(* pressed the button.                                                     *)
MyOrdersAreMine ==
    session # Nobody /\ listCalls = {} /\ lists = {} =>
        \A k \in shown : purchase[orders[k].cause].buyer = session
=============================================================================
