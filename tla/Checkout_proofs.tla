--------------------------- MODULE Checkout_proofs ---------------------------
(***************************************************************************)
(* Proofs about Checkout, for any number of replicas, any finite set of    *)
(* presses of the button, any accounts and any catalogue: an order always  *)
(* has a unit behind it at every replica.                                  *)
(***************************************************************************)
EXTENDS Checkout, Catalogue_proofs, FiniteSetTheorems, TLAPS

---------------------------------------------------------------------------
(* How a purchase moves on. *)

(* A new stage leaves the rest of the purchase, and the other purchases,   *)
(* as they are.                                                            *)
LEMMA StageMoves ==
    ASSUME purchase \in [Writes -> PurchaseType], NEW w \in Writes, NEW stage \in Stages,
           purchase' = [purchase EXCEPT ![w].stage = stage]
    PROVE  /\ purchase' \in [Writes -> PurchaseType]
           /\ purchase'[w].stage = stage
           /\ purchase'[w].buyer = purchase[w].buyer
           /\ purchase'[w].orderer = purchase[w].orderer
           /\ \A v \in Writes : v # w => purchase'[v] = purchase[v]
<1>1. purchase[w] \in PurchaseType
  OBVIOUS
<1>2. purchase' = [purchase EXCEPT ![w] = [purchase[w] EXCEPT !.stage = stage]]
  OBVIOUS
<1>3. [purchase[w] EXCEPT !.stage = stage] \in PurchaseType
  BY <1>1 DEF PurchaseType
<1>4. purchase'[w] = [purchase[w] EXCEPT !.stage = stage]
  BY <1>2
<1>. QED  BY <1>1, <1>2, <1>3, <1>4 DEF PurchaseType

(* The button is pressed by who is logged in.                              *)
LEMMA BuyerSet ==
    ASSUME purchase \in [Writes -> PurchaseType], NEW w \in Writes,
           session \in Accounts \cup {Nobody}, Press(w)
    PROVE  /\ purchase' \in [Writes -> PurchaseType]
           /\ purchase'[w].stage = "selling"
           /\ purchase'[w].buyer = session
           /\ purchase'[w].orderer = purchase[w].orderer
           /\ \A v \in Writes : v # w => purchase'[v] = purchase[v]
<1>1. purchase[w] \in PurchaseType
  OBVIOUS
<1>2. purchase' = [purchase EXCEPT ![w] =
                       [purchase[w] EXCEPT !.stage = "selling", !.buyer = session]]
  BY DEF Press
<1>3. [purchase[w] EXCEPT !.stage = "selling", !.buyer = session] \in PurchaseType
  BY <1>1 DEF PurchaseType, Stages
<1>4. purchase'[w] = [purchase[w] EXCEPT !.stage = "selling", !.buyer = session]
  BY <1>2
<1>. QED  BY <1>1, <1>2, <1>3, <1>4 DEF PurchaseType

(* The order goes out with the token of who is logged in by then.          *)
LEMMA OrdererSet ==
    ASSUME purchase \in [Writes -> PurchaseType], NEW w \in Writes,
           session \in Accounts \cup {Nobody}, SaleConfirmed(w)
    PROVE  /\ purchase' \in [Writes -> PurchaseType]
           /\ purchase'[w].stage = "ordering"
           /\ purchase'[w].buyer = purchase[w].buyer
           /\ purchase'[w].orderer = session
           /\ \A v \in Writes : v # w => purchase'[v] = purchase[v]
<1>1. purchase[w] \in PurchaseType
  OBVIOUS
<1>2. purchase' = [purchase EXCEPT ![w] =
                       [purchase[w] EXCEPT !.stage = "ordering", !.orderer = session]]
  BY DEF SaleConfirmed
<1>3. [purchase[w] EXCEPT !.stage = "ordering", !.orderer = session] \in PurchaseType
  BY <1>1 DEF PurchaseType, Stages
<1>4. purchase'[w] = [purchase[w] EXCEPT !.stage = "ordering", !.orderer = session]
  BY <1>2
<1>. QED  BY <1>1, <1>2, <1>3, <1>4 DEF PurchaseType

(* The page forgets what was in progress.                                  *)
LEMMA PageLeft ==
    ASSUME purchase \in [Writes -> PurchaseType], NEW w \in Writes, Reload
    PROVE  /\ purchase'[w] \in PurchaseType
           /\ purchase'[w].stage = IF InProgress(w) THEN "gone" ELSE purchase[w].stage
           /\ purchase'[w].buyer = purchase[w].buyer
           /\ purchase'[w].orderer = purchase[w].orderer
<1>1. purchase[w] \in PurchaseType
  OBVIOUS
<1>2. purchase'[w] = IF InProgress(w) THEN [purchase[w] EXCEPT !.stage = "gone"] ELSE purchase[w]
  BY DEF Reload
<1>3. [purchase[w] EXCEPT !.stage = "gone"] \in PurchaseType
  BY <1>1 DEF PurchaseType, Stages
<1>4. CASE InProgress(w)
  BY <1>1, <1>2, <1>3, <1>4 DEF PurchaseType
<1>5. CASE ~InProgress(w)
  BY <1>1, <1>2, <1>5
<1>. QED  BY <1>4, <1>5

---------------------------------------------------------------------------
(* Type correctness *)

(* What of a step concerns the replicated write.                           *)
LEMMA ReplicationStep ==
    ASSUME [Next]_vars
    PROVE  \/ UNCHANGED replicationVars
           \/ Abort
           \/ \E w \in Writes :
                \/ Begin(w) \/ Acknowledge(w) \/ (verdict[w] = "open" /\ Fail(w))
                \/ \E r \in Replicas : Apply(w, r) \/ Miss(w, r)
<1>1. CASE UNCHANGED vars
  BY <1>1 DEF vars
<1>2. CASE GatewayRestarts
  BY <1>2 DEF GatewayRestarts
<1>3. CASE LogOut \/ Reload \/ \E account \in Accounts : LogIn(account)
  BY <1>3 DEF LogOut, Reload, LogIn
<1>4. ASSUME (\E call \in listCalls : ListOrders(call)) \/ (\E rows \in lists : ShowOrders(rows))
      PROVE  UNCHANGED replicationVars
  BY <1>4 DEF ListOrders, ShowOrders
<1>5. ASSUME NEW w \in Writes, PurchaseStep(w)
      PROVE  \/ UNCHANGED replicationVars
             \/ Begin(w) \/ Acknowledge(w) \/ (verdict[w] = "open" /\ Fail(w))
             \/ \E r \in Replicas : Apply(w, r) \/ Miss(w, r)
  <2>1. CASE Press(w)
    BY <2>1 DEF Press
  <2>2. CASE SaleStep(w)
    BY <2>2 DEF SaleStep
  <2>3. CASE SaleConfirmed(w) \/ SaleFails(w) \/ OrderConfirmed(w) \/ OrderFails(w)
    BY <2>3 DEF SaleConfirmed, SaleFails, OrderConfirmed, OrderFails, EndPurchase
  <2>4. CASE PlaceOrder(w) \/ RefuseOrder(w)
    BY <2>4 DEF PlaceOrder, RefuseOrder, EndOrderCall
  <2>. QED  BY <1>5, <2>1, <2>2, <2>3, <2>4 DEF PurchaseStep
<1>. QED  BY <1>1, <1>2, <1>3, <1>4, <1>5 DEF Next

(* What is asked for is a sale of a product there is.                      *)
LEMMA RequestIsSale ==
    ASSUME request \in [Writes -> Requests], NEW w \in Writes
    PROVE  request[w] \in RequestType /\ ~IsCreate(request[w]) /\ request[w].id \in Products
BY SalesAssumption

(* The replicated write keeps its types; an accepted sale leaves a        *)
(* catalogue.                                                             *)
LEMMA ReplicationTypeStep ==
    ASSUME ReplicationTypeOK(Origins), [Next]_vars
    PROVE  ReplicationTypeOK(Origins)'
<1>0. /\ request \in [Writes -> Requests]
      /\ verdict \in [Writes -> {"new", "open", "acknowledged", "failed"}]
      /\ pending \in [Writes -> SUBSET Replicas]
      /\ accepted \in [Writes -> SUBSET Replicas]
      /\ catalogue \in [Replicas -> Seq(ProductType(Origins))]
  BY DEF ReplicationTypeOK
<1>1. CASE UNCHANGED replicationVars
  BY <1>0, <1>1 DEF replicationVars, ReplicationTypeOK
<1>2. CASE Abort
  <2>1. /\ verdict' \in [Writes -> {"new", "open", "acknowledged", "failed"}]
        /\ pending' \in [Writes -> SUBSET Replicas]
        /\ UNCHANGED <<request, accepted, catalogue>>
    BY <1>0, <1>2 DEF Abort
  <2>. QED  BY <1>0, <2>1 DEF ReplicationTypeOK
<1>3. ASSUME NEW w \in Writes, Begin(w) \/ Acknowledge(w) \/ Fail(w)
      PROVE  ReplicationTypeOK(Origins)'
  <2>1. /\ verdict' \in [Writes -> {"new", "open", "acknowledged", "failed"}]
        /\ pending' \in [Writes -> SUBSET Replicas]
        /\ UNCHANGED <<request, accepted, catalogue>>
    BY <1>0, <1>3 DEF Begin, Acknowledge, Fail
  <2>. QED  BY <1>0, <2>1 DEF ReplicationTypeOK
<1>4. ASSUME NEW w \in Writes, NEW r \in Replicas, Miss(w, r)
      PROVE  ReplicationTypeOK(Origins)'
  <2>1. pending' \in [Writes -> SUBSET Replicas] /\ UNCHANGED <<request, verdict, accepted, catalogue>>
    BY <1>0, <1>4 DEF Miss
  <2>. QED  BY <1>0, <2>1 DEF ReplicationTypeOK
<1>5. ASSUME NEW w \in Writes, NEW r \in Replicas, Apply(w, r)
      PROVE  ReplicationTypeOK(Origins)'
  <2>1. /\ pending' \in [Writes -> SUBSET Replicas] /\ accepted' \in [Writes -> SUBSET Replicas]
        /\ UNCHANGED <<request, verdict>>
    BY <1>0, <1>5 DEF Apply
  <2>2. request[w] \in RequestType /\ w \in Origins
    BY <1>0, RequestIsSale DEF Origins
  <2>3. Effect(request[w], w, catalogue[r]) \in Seq(ProductType(Origins))
    BY <1>0, <1>5, <2>2, EffectType DEF Apply
  <2>4. catalogue' \in [Replicas -> Seq(ProductType(Origins))]
    BY <1>0, <1>5, <2>3 DEF Apply
  <2>. QED  BY <1>0, <2>1, <2>4 DEF ReplicationTypeOK
<1>. QED  BY <1>1, <1>2, <1>3, <1>4, <1>5, ReplicationStep

(* A list of orders is only asked for by who is logged in.                 *)
LEMMA RefreshType ==
    ASSUME NEW account \in Accounts \cup {Nobody}, NEW confirmed \in SUBSET Writes
    PROVE  RefreshOrders(account, confirmed) \subseteq [of: Accounts, confirmed: SUBSET Writes]
BY DEF RefreshOrders

(* An order that the service accepts is a row of its table.                *)
LEMMA OrderRowType ==
    ASSUME TypeOK, NEW w \in Writes, PlaceOrder(w)
    PROVE  orders' \in Seq(O!OrderType(Accounts, Products, Writes))
<1>1. purchase[w].orderer \in Accounts \cup {Nobody}
  BY DEF TypeOK, ShopTypeOK, PurchaseType
<1>2. purchase[w].orderer \in Accounts
  BY <1>1 DEF PlaceOrder, Placement, O!PlacementStatus, Nobody
<1>3. request[w].id \in Products
  BY RequestIsSale DEF TypeOK, ReplicationTypeOK
<1>4. [userId |-> purchase[w].orderer, productId |-> request[w].id, cause |-> w]
          \in O!OrderType(Accounts, Products, Writes)
  BY <1>2, <1>3 DEF O!OrderType
<1>. QED  BY <1>4 DEF PlaceOrder, O!Create, TypeOK, ShopTypeOK

(* The orders in an answer and on the page are rows of the table, of which *)
(* none is removed.                                                        *)
LEMMA ListTypeStep ==
    ASSUME TypeOK, [Next]_vars
    PROVE  lists' \subseteq SUBSET DOMAIN orders' /\ shown' \subseteq DOMAIN orders'
<1>0. lists \subseteq SUBSET DOMAIN orders /\ shown \subseteq DOMAIN orders
  BY DEF TypeOK, ShopTypeOK
<1>1. CASE UNCHANGED <<orders, lists, shown>>
  BY <1>0, <1>1
<1>2. CASE Reload
  BY <1>2 DEF Reload
<1>3. ASSUME NEW call \in listCalls, ListOrders(call)
      PROVE  lists' \subseteq SUBSET DOMAIN orders' /\ shown' \subseteq DOMAIN orders'
  <2>1. OrdersShown(call) \subseteq DOMAIN orders
    BY DEF OrdersShown, O!ListByUserID
  <2>. QED  BY <1>0, <1>3, <2>1 DEF ListOrders
<1>4. ASSUME NEW rows \in lists, ShowOrders(rows)
      PROVE  lists' \subseteq SUBSET DOMAIN orders' /\ shown' \subseteq DOMAIN orders'
  BY <1>0, <1>4 DEF ShowOrders
<1>5. ASSUME NEW w \in Writes, PlaceOrder(w)
      PROVE  lists' \subseteq SUBSET DOMAIN orders' /\ shown' \subseteq DOMAIN orders'
  <2>1. DOMAIN orders \subseteq DOMAIN orders'
    <3>1. orders \in Seq(O!OrderType(Accounts, Products, Writes))
      BY DEF TypeOK, ShopTypeOK
    <3>2. \E row : orders' = Append(orders, row)
      BY <1>5 DEF PlaceOrder, O!Create
    <3>. QED  BY <3>1, <3>2
  <2>2. UNCHANGED <<lists, shown>>
    BY <1>5 DEF PlaceOrder, EndOrderCall, listVars
  <2>. QED  BY <1>0, <2>1, <2>2
<1>6. ASSUME NEW w \in Writes, PurchaseStep(w), ~PlaceOrder(w)
      PROVE  UNCHANGED <<orders, lists, shown>>
  BY <1>6 DEF PurchaseStep, Press, SaleStep, SaleConfirmed, SaleFails, RefuseOrder,
              EndOrderCall, OrderConfirmed, OrderFails, EndPurchase, shopVars, listVars
<1>7. CASE LogOut \/ GatewayRestarts \/ (\E account \in Accounts : LogIn(account)) \/ UNCHANGED vars
  BY <1>1, <1>7 DEF LogOut, GatewayRestarts, LogIn, shopVars, listVars, vars
<1>. QED  BY <1>1, <1>2, <1>3, <1>4, <1>5, <1>6, <1>7 DEF Next

(* The page's and the orders service's steps keep theirs.                 *)
LEMMA ShopTypeStep ==
    ASSUME TypeOK, [Next]_vars
    PROVE  ShopTypeOK'
<1>0. /\ session \in Accounts \cup {Nobody}
      /\ purchase \in [Writes -> PurchaseType]
      /\ orderCall \in [Writes -> {"none", "sent", "placed", "ended"}]
      /\ orders \in Seq(O!OrderType(Accounts, Products, Writes))
      /\ listCalls \subseteq [of: Accounts, confirmed: SUBSET Writes]
      /\ lists' \subseteq SUBSET DOMAIN orders' /\ shown' \subseteq DOMAIN orders'
  BY ListTypeStep DEF TypeOK, ShopTypeOK
<1>1. CASE UNCHANGED shopVars
  BY <1>0, <1>1 DEF shopVars, listVars, ShopTypeOK
<1>2. CASE LogOut
  BY <1>0, <1>2 DEF LogOut, listVars, ShopTypeOK
<1>3. CASE Reload
  <2>1. purchase' \in [Writes -> PurchaseType]
    BY <1>0, <1>3, PageLeft DEF Reload
  <2>2. listCalls' \subseteq [of: Accounts, confirmed: SUBSET Writes]
    BY <1>0, <1>3, RefreshType DEF Reload, Confirmed
  <2>. QED  BY <1>0, <1>3, <2>1, <2>2 DEF Reload, ShopTypeOK
<1>4. ASSUME NEW account \in Accounts, LogIn(account)
      PROVE  ShopTypeOK'
  <2>1. listCalls' \subseteq [of: Accounts, confirmed: SUBSET Writes]
    BY <1>0, <1>4, RefreshType DEF LogIn, Confirmed
  <2>. QED  BY <1>0, <1>4, <2>1 DEF LogIn, ShopTypeOK
<1>5. ASSUME NEW call \in listCalls, ListOrders(call)
      PROVE  ShopTypeOK'
  BY <1>0, <1>5 DEF ListOrders, ShopTypeOK
<1>11. ASSUME NEW rows \in lists, ShowOrders(rows)
       PROVE  ShopTypeOK'
  BY <1>0, <1>11 DEF ShowOrders, ShopTypeOK
<1>6. ASSUME NEW w \in Writes, Press(w)
      PROVE  ShopTypeOK'
  <2>1. UNCHANGED <<session, orderCall, orders, listCalls>>
    BY <1>6 DEF Press, listVars
  <2>. QED  BY <1>0, <1>6, <2>1, BuyerSet DEF ShopTypeOK
<1>7. ASSUME NEW w \in Writes, SaleConfirmed(w)
      PROVE  ShopTypeOK'
  <2>1. /\ orderCall' \in [Writes -> {"none", "sent", "placed", "ended"}]
        /\ UNCHANGED <<session, orders, listCalls>>
    BY <1>0, <1>7 DEF SaleConfirmed, listVars
  <2>. QED  BY <1>0, <1>7, <2>1, OrdererSet DEF ShopTypeOK
<1>8. ASSUME NEW w \in Writes, SaleFails(w) \/ OrderFails(w)
      PROVE  ShopTypeOK'
  <2>1. /\ purchase' = [purchase EXCEPT ![w].stage = "failed"]
        /\ orderCall' \in [Writes -> {"none", "sent", "placed", "ended"}]
        /\ UNCHANGED <<session, orders, listCalls>>
    BY <1>0, <1>8 DEF SaleFails, OrderFails, EndPurchase, listVars
  <2>. QED  BY <1>0, <2>1, StageMoves DEF ShopTypeOK, Stages
<1>9. ASSUME NEW w \in Writes, OrderConfirmed(w)
      PROVE  ShopTypeOK'
  <2>1. /\ purchase' = [purchase EXCEPT ![w].stage = "done"]
        /\ orderCall' \in [Writes -> {"none", "sent", "placed", "ended"}]
        /\ UNCHANGED <<session, orders>>
    BY <1>0, <1>9 DEF OrderConfirmed, EndPurchase
  <2>2. listCalls' \subseteq [of: Accounts, confirmed: SUBSET Writes]
    BY <1>0, <1>9, RefreshType DEF OrderConfirmed, Confirmed
  <2>. QED  BY <1>0, <2>1, <2>2, StageMoves DEF ShopTypeOK, Stages
<1>10. ASSUME NEW w \in Writes, PlaceOrder(w) \/ RefuseOrder(w)
       PROVE  ShopTypeOK'
  <2>1. /\ orderCall' \in [Writes -> {"none", "sent", "placed", "ended"}]
        /\ UNCHANGED <<session, purchase, listCalls>>
    BY <1>0, <1>10 DEF PlaceOrder, RefuseOrder, EndOrderCall, listVars
  <2>2. orders' \in Seq(O!OrderType(Accounts, Products, Writes))
    BY <1>0, <1>10, OrderRowType DEF RefuseOrder
  <2>. QED  BY <1>0, <2>1, <2>2 DEF ShopTypeOK
<1>. QED
  BY <1>1, <1>2, <1>3, <1>4, <1>5, <1>6, <1>7, <1>8, <1>9, <1>10, <1>11
     DEF Next, PurchaseStep, GatewayRestarts, SaleStep, vars

(* The initial state is well typed.                                       *)
LEMMA TypeInit == Init => TypeOK
<1>. SUFFICES ASSUME Init PROVE TypeOK
  OBVIOUS
<1>1. ReplicationTypeOK(Origins)
  BY CatalogueAssumption DEF Init, InitReplication, ReplicationTypeOK
<1>2. NoPurchase \in PurchaseType
  BY DEF NoPurchase, PurchaseType, Stages
<1>. QED  BY <1>1, <1>2 DEF Init, TypeOK, ShopTypeOK

(* Every step keeps the types.                                            *)
LEMMA TypeStep == TypeOK /\ [Next]_vars => TypeOK'
BY ReplicationTypeStep, ShopTypeStep DEF TypeOK

(* Every reachable state is well typed; in particular no stock is          *)
(* negative, and no row of the orders table is nobody's.                   *)
THEOREM CheckoutTypeCorrect == Spec => []TypeOK
BY TypeInit, TypeStep, PTL DEF Spec

---------------------------------------------------------------------------
(* The sales *)

(* Each replica carries a write out at most once, and all have carried out *)
(* what was acknowledged.                                                  *)
SaleInv ==
    \A w \in Writes :
        /\ verdict[w] = "new" => pending[w] = {} /\ accepted[w] = {}
        /\ verdict[w] = "acknowledged" => accepted[w] = Replicas
        /\ pending[w] \cap accepted[w] = {}

(* At each replica a product's stock is what the sales have left.          *)
SoldAt(r, i) == {w \in Writes : r \in accepted[w] /\ request[w].id = i}

StockInv ==
    \A r \in Replicas :
        /\ DOMAIN catalogue[r] = Products
        /\ \A i \in Products :
             catalogue[r][i].quantity + Cardinality(SoldAt(r, i)) = InitialCatalogue[i].quantity

(* Every step keeps SaleInv: what has reached a replica is no longer      *)
(* pending there.                                                         *)
LEMMA SaleInvStep ==
    ASSUME TypeOK, SaleInv, [Next]_vars
    PROVE  SaleInv'
<1>0. /\ verdict \in [Writes -> {"new", "open", "acknowledged", "failed"}]
      /\ pending \in [Writes -> SUBSET Replicas]
      /\ accepted \in [Writes -> SUBSET Replicas]
  BY DEF TypeOK, ReplicationTypeOK
<1>1. CASE UNCHANGED replicationVars
  BY <1>1 DEF replicationVars, SaleInv
<1>2. CASE Abort
  <2>. SUFFICES ASSUME NEW v \in Writes
                PROVE  /\ verdict'[v] = "new" => pending'[v] = {} /\ accepted'[v] = {}
                       /\ verdict'[v] = "acknowledged" => accepted'[v] = Replicas
                       /\ pending'[v] \cap accepted'[v] = {}
    BY DEF SaleInv
  <2>1. /\ verdict'[v] = verdict[v] \/ verdict'[v] = "failed"
        /\ pending'[v] \subseteq pending[v] /\ accepted'[v] = accepted[v]
    BY <1>2 DEF Abort
  <2>. QED  BY <2>1 DEF SaleInv
<1>3. ASSUME NEW w \in Writes, Begin(w)
      PROVE  SaleInv'
  BY <1>0, <1>3 DEF Begin, SaleInv
<1>4. ASSUME NEW w \in Writes, Acknowledge(w)
      PROVE  SaleInv'
  BY <1>0, <1>4 DEF Acknowledge, SaleInv
<1>5. ASSUME NEW w \in Writes, verdict[w] = "open", Fail(w)
      PROVE  SaleInv'
  BY <1>0, <1>5 DEF Fail, SaleInv
<1>6. ASSUME NEW w \in Writes, NEW r \in Replicas, Apply(w, r)
      PROVE  SaleInv'
  <2>1. /\ verdict' = verdict /\ r \in pending[w]
        /\ pending' = [pending EXCEPT ![w] = pending[w] \ {r}]
        /\ accepted' = [accepted EXCEPT ![w] = accepted[w] \cup {r}]
    BY <1>6 DEF Apply
  <2>2. verdict[w] # "acknowledged" /\ verdict[w] # "new"
    BY <2>1 DEF SaleInv
  <2>. QED  BY <1>0, <2>1, <2>2 DEF SaleInv
<1>7. ASSUME NEW w \in Writes, NEW r \in Replicas, Miss(w, r)
      PROVE  SaleInv'
  BY <1>0, <1>7 DEF Miss, SaleInv
<1>. QED  BY <1>1, <1>2, <1>3, <1>4, <1>5, <1>6, <1>7, ReplicationStep

(* The sales of a product can be counted.                                 *)
LEMMA SoldFinite ==
    ASSUME NEW r \in Replicas, NEW i
    PROVE  IsFiniteSet(SoldAt(r, i)) /\ Cardinality(SoldAt(r, i)) \in Nat
<1>1. SoldAt(r, i) \subseteq Writes
  BY DEF SoldAt
<1>. QED  BY <1>1, WritesAssumption, FS_Subset, FS_CardinalityType

(* A sale takes a unit from the stock and adds one to the units sold; the  *)
(* replica has not sold it before.                                         *)
LEMMA ApplySells ==
    ASSUME TypeOK, SaleInv, StockInv, NEW w \in Writes, NEW s \in Replicas, Apply(w, s)
    PROVE  StockInv'
<1>0. /\ request \in [Writes -> Requests]
      /\ accepted \in [Writes -> SUBSET Replicas]
      /\ catalogue \in [Replicas -> Seq(ProductType(Origins))]
  BY DEF TypeOK, ReplicationTypeOK
<1>. DEFINE q == request[w]
            d == DecrementStock(q, catalogue[s])
<1>1. q \in RequestType /\ ~IsCreate(q) /\ q.id \in Products /\ Accepts(q, catalogue[s])
  BY <1>0, RequestIsSale DEF Apply
<1>2. /\ catalogue' = [catalogue EXCEPT ![s] = d]
      /\ accepted' = [accepted EXCEPT ![w] = accepted[w] \cup {s}]
      /\ UNCHANGED request
  <2>1. Effect(q, w, catalogue[s]) = d
    BY <1>1 DEF Effect
  <2>. QED  BY <2>1 DEF Apply
<1>3. s \notin accepted[w]
  BY DEF Apply, SaleInv
<1>4. /\ DOMAIN d = DOMAIN catalogue[s]
      /\ \A i \in DOMAIN catalogue[s] : i # q.id => d[i].quantity = catalogue[s][i].quantity
      /\ d[q.id].quantity = catalogue[s][q.id].quantity - 1
      /\ catalogue[s][q.id].quantity \in Nat
  <2>1. catalogue[s] \in Seq(ProductType(Origins))
    BY <1>0
  <2>2. q.id \in DOMAIN catalogue[s] /\ catalogue[s][q.id] \in ProductType(Origins)
    BY <1>1, <2>1, AcceptedSale
  <2>3. catalogue[s][q.id].quantity \in Nat
    BY <2>2 DEF ProductType
  <2>4. /\ DOMAIN d = DOMAIN catalogue[s]
        /\ \A i \in DOMAIN catalogue[s] : i # q.id => d[i].quantity = catalogue[s][i].quantity
        /\ d[q.id].quantity = catalogue[s][q.id].quantity - 1
    BY <1>1, <2>1, SoldUnit
  <2>. QED  BY <2>3, <2>4
<1>. HIDE DEF d
<1>. SUFFICES ASSUME NEW r \in Replicas
              PROVE  /\ DOMAIN catalogue'[r] = Products
                     /\ \A i \in Products : catalogue'[r][i].quantity + Cardinality(SoldAt(r, i)')
                                                = InitialCatalogue[i].quantity
  BY DEF StockInv
<1>5. CASE r # s
  <2>1. catalogue'[r] = catalogue[r]
    BY <1>0, <1>2, <1>5
  <2>2. \A i \in Products : SoldAt(r, i)' = SoldAt(r, i)
    BY <1>0, <1>2, <1>5 DEF SoldAt
  <2>. QED  BY <2>1, <2>2 DEF StockInv
<1>6. CASE r = s
  <2>1. catalogue'[r] = d /\ DOMAIN d = Products
    BY <1>0, <1>2, <1>4, <1>6 DEF StockInv
  <2>2. ASSUME NEW i \in Products, i # q.id
        PROVE  d[i].quantity + Cardinality(SoldAt(r, i)') = InitialCatalogue[i].quantity
    <3>1. SoldAt(r, i)' = SoldAt(r, i)
      BY <1>0, <1>2, <2>2 DEF SoldAt
    <3>2. d[i].quantity = catalogue[s][i].quantity
      BY <1>4, <2>2 DEF StockInv
    <3>. QED  BY <1>6, <3>1, <3>2 DEF StockInv
  <2>3. ASSUME NEW i \in Products, i = q.id
        PROVE  d[i].quantity + Cardinality(SoldAt(r, i)') = InitialCatalogue[i].quantity
    <3>1. SoldAt(r, i)' = SoldAt(r, i) \cup {w} /\ w \notin SoldAt(r, i)
      <4>1. \A v \in Writes : r \in accepted'[v] <=> r \in accepted[v] \/ v = w
        BY <1>0, <1>2, <1>6
      <4>. QED  BY <1>2, <1>3, <1>6, <2>3, <4>1 DEF SoldAt
    <3>2. Cardinality(SoldAt(r, i) \cup {w}) = Cardinality(SoldAt(r, i)) + 1
      BY <3>1, SoldFinite, FS_AddElement
    <3>3. Cardinality(SoldAt(r, i)) \in Nat
      BY SoldFinite
    <3>4. catalogue[s][i].quantity + Cardinality(SoldAt(r, i)) = InitialCatalogue[i].quantity
      BY <1>6 DEF StockInv
    <3>5. d[i].quantity = catalogue[s][i].quantity - 1 /\ catalogue[s][i].quantity \in Nat
      BY <1>4, <2>3
    <3>. QED  BY <3>1, <3>2, <3>3, <3>4, <3>5
  <2>4. \A i \in Products : d[i].quantity + Cardinality(SoldAt(r, i)') = InitialCatalogue[i].quantity
    BY <2>2, <2>3
  <2>. QED  BY <2>1, <2>4
<1>. QED  BY <1>5, <1>6

(* No other step touches a stock.                                         *)
LEMMA StockInvStep ==
    ASSUME TypeOK, SaleInv, StockInv, [Next]_vars
    PROVE  StockInv'
<1>1. ASSUME UNCHANGED <<request, accepted, catalogue>>
      PROVE  StockInv'
  BY <1>1 DEF StockInv, SoldAt
<1>2. CASE UNCHANGED replicationVars
  BY <1>1, <1>2 DEF replicationVars
<1>3. CASE Abort
  BY <1>1, <1>3 DEF Abort
<1>4. ASSUME NEW w \in Writes, Begin(w) \/ Acknowledge(w) \/ Fail(w)
      PROVE  StockInv'
  BY <1>1, <1>4 DEF Begin, Acknowledge, Fail
<1>5. ASSUME NEW w \in Writes, NEW r \in Replicas, Miss(w, r)
      PROVE  StockInv'
  BY <1>1, <1>5 DEF Miss
<1>. QED  BY <1>2, <1>3, <1>4, <1>5, ApplySells, ReplicationStep

---------------------------------------------------------------------------
(* The orders *)

HasOrder(w) == \E k \in DOMAIN orders : orders[k].cause = w

(* An order call is only made after the sale was acknowledged, and only a  *)
(* call that has arrived has left an order; what the page calls done has   *)
(* one.                                                                    *)
CallInv ==
    \A w \in Writes :
        /\ purchase[w].stage \in {"idle", "selling"} => orderCall[w] = "none"
        /\ orderCall[w] # "none" => verdict[w] = "acknowledged"
        /\ orderCall[w] = "placed" \/ purchase[w].stage = "done" => HasOrder(w)

(* Each row is of the one call of a press, and says what was sold to whom. *)
RowInv ==
    /\ \A k \in DOMAIN orders :
         LET w == orders[k].cause IN
         /\ orderCall[w] \in {"placed", "ended"}
         /\ orders[k].productId = request[w].id
         /\ orders[k].userId = purchase[w].orderer
    /\ \A j, k \in DOMAIN orders : orders[j].cause = orders[k].cause => j = k

(* The causes of rows are presses.                                         *)
LEMMA CauseType ==
    ASSUME TypeOK, NEW k \in DOMAIN orders
    PROVE  orders[k].cause \in Writes
<1>1. orders[k] \in O!OrderType(Accounts, Products, Writes)
  BY DEF TypeOK, ShopTypeOK
<1>. QED  BY <1>1 DEF O!OrderType

(* An acknowledgement stands, and nobody changes what was asked for.       *)
LEMMA VerdictsStand ==
    ASSUME TypeOK, [Next]_vars
    PROVE  /\ request' = request
           /\ \A w \in Writes : verdict[w] = "acknowledged" => verdict'[w] = "acknowledged"
<1>0. verdict \in [Writes -> {"new", "open", "acknowledged", "failed"}]
  BY DEF TypeOK, ReplicationTypeOK
<1>1. CASE UNCHANGED replicationVars
  BY <1>1 DEF replicationVars
<1>2. CASE Abort
  BY <1>0, <1>2 DEF Abort
<1>3. ASSUME NEW w \in Writes, Begin(w) \/ Acknowledge(w) \/ (verdict[w] = "open" /\ Fail(w))
      PROVE  /\ request' = request
             /\ \A v \in Writes : verdict[v] = "acknowledged" => verdict'[v] = "acknowledged"
  BY <1>0, <1>3 DEF Begin, Acknowledge, Fail
<1>4. ASSUME NEW w \in Writes, NEW r \in Replicas, Apply(w, r) \/ Miss(w, r)
      PROVE  request' = request /\ verdict' = verdict
  BY <1>4 DEF Apply, Miss
<1>. QED  BY <1>1, <1>2, <1>3, <1>4, ReplicationStep

(* What PlaceOrder does to the table: one more row.                        *)
LEMMA OrderPlaced ==
    ASSUME TypeOK, NEW w \in Writes, PlaceOrder(w)
    PROVE  /\ DOMAIN orders' = DOMAIN orders \cup {Len(orders) + 1}
           /\ Len(orders) + 1 \notin DOMAIN orders
           /\ \A k \in DOMAIN orders : orders'[k] = orders[k]
           /\ orders'[Len(orders) + 1].cause = w
           /\ orders'[Len(orders) + 1].productId = request[w].id
           /\ orders'[Len(orders) + 1].userId = purchase[w].orderer
<1>. DEFINE row == [userId |-> purchase[w].orderer, productId |-> request[w].id, cause |-> w]
<1>1. orders \in Seq(O!OrderType(Accounts, Products, Writes)) /\ orders' = Append(orders, row)
  BY DEF TypeOK, ShopTypeOK, PlaceOrder, O!Create
<1>2. row.cause = w /\ row.productId = request[w].id /\ row.userId = purchase[w].orderer
  OBVIOUS
<1>. HIDE DEF row
<1>. QED  BY <1>1, <1>2

(* Orders change in PlaceOrder only.                                       *)
LEMMA OrdersChange ==
    ASSUME [Next]_vars, ~\E w \in Writes : PlaceOrder(w)
    PROVE  orders' = orders
<1>1. CASE UNCHANGED vars
  BY <1>1 DEF vars, shopVars
<1>2. CASE GatewayRestarts \/ LogOut \/ Reload
  BY <1>2 DEF GatewayRestarts, LogOut, Reload, shopVars
<1>3. ASSUME NEW account \in Accounts, LogIn(account)
      PROVE  orders' = orders
  BY <1>3 DEF LogIn
<1>4. ASSUME (\E call \in listCalls : ListOrders(call)) \/ (\E rows \in lists : ShowOrders(rows))
      PROVE  orders' = orders
  BY <1>4 DEF ListOrders, ShowOrders
<1>5. ASSUME NEW w \in Writes, PurchaseStep(w)
      PROVE  orders' = orders
  BY <1>5 DEF PurchaseStep, Press, SaleStep, SaleConfirmed, SaleFails, RefuseOrder,
              OrderConfirmed, OrderFails, EndPurchase, shopVars
<1>. QED  BY <1>1, <1>2, <1>3, <1>4, <1>5 DEF Next

(* Where a step takes a purchase and its order call.                       *)
LEMMA CallStep ==
    ASSUME TypeOK, CallInv, RowInv, [Next]_vars, NEW v \in Writes
    PROVE  /\ purchase'[v].stage \in {"idle", "selling"} =>
                orderCall'[v] = "none" /\ purchase[v].stage \in {"idle", "selling"}
           /\ orderCall'[v] # "none" => orderCall[v] # "none" \/ verdict[v] = "acknowledged"
           /\ purchase'[v].stage = "done" => purchase[v].stage = "done" \/ orderCall[v] = "placed"
           /\ orderCall'[v] = "placed" => orderCall[v] = "placed" \/ PlaceOrder(v)
           /\ orderCall[v] \in {"placed", "ended"} =>
                /\ orderCall'[v] \in {"placed", "ended"}
                /\ purchase'[v].orderer = purchase[v].orderer
<1>0. /\ session \in Accounts \cup {Nobody}
      /\ purchase \in [Writes -> PurchaseType]
      /\ orderCall \in [Writes -> {"none", "sent", "placed", "ended"}]
      /\ purchase[v].stage \in {"idle", "selling"} => orderCall[v] = "none"
  BY DEF TypeOK, ShopTypeOK, CallInv
<1>1. CASE UNCHANGED <<purchase, orderCall>>
  BY <1>0, <1>1
<1>2. CASE Reload
  <2>1. orderCall' = orderCall  BY <1>2 DEF Reload
  <2>. QED  BY <1>0, <1>2, <2>1, PageLeft DEF InProgress
<1>3. ASSUME NEW w \in Writes, Press(w)
      PROVE  orderCall' = orderCall /\ purchase[w].stage = "idle" /\ purchase'[w].stage = "selling"
             /\ purchase'[w].orderer = purchase[w].orderer
             /\ \A u \in Writes : u # w => purchase'[u] = purchase[u]
  BY <1>0, <1>3, BuyerSet DEF Press
<1>4. ASSUME NEW w \in Writes, SaleConfirmed(w)
      PROVE  /\ purchase[w].stage = "selling" /\ verdict[w] = "acknowledged"
             /\ orderCall' = [orderCall EXCEPT ![w] = "sent"]
             /\ purchase'[w].stage = "ordering"
             /\ \A u \in Writes : u # w => purchase'[u] = purchase[u]
  BY <1>0, <1>4, OrdererSet DEF SaleConfirmed
<1>5. ASSUME NEW w \in Writes, SaleFails(w) \/ OrderFails(w)
      PROVE  /\ purchase'[w].stage = "failed"
             /\ purchase'[w].orderer = purchase[w].orderer
             /\ \A u \in Writes : u # w => purchase'[u] = purchase[u]
             /\ \/ orderCall' = orderCall
                \/ orderCall[w] = "placed" /\ orderCall' = [orderCall EXCEPT ![w] = "ended"]
  <2>1. purchase' = [purchase EXCEPT ![w].stage = "failed"]
    BY <1>5 DEF SaleFails, OrderFails, EndPurchase
  <2>2. \/ orderCall' = orderCall
        \/ orderCall[w] = "placed" /\ orderCall' = [orderCall EXCEPT ![w] = "ended"]
    BY <1>0, <1>5 DEF SaleFails, OrderFails
  <2>. QED  BY <1>0, <2>1, <2>2, StageMoves DEF Stages
<1>6. ASSUME NEW w \in Writes, OrderConfirmed(w)
      PROVE  /\ purchase'[w].stage = "done" /\ orderCall[w] = "placed"
             /\ purchase'[w].orderer = purchase[w].orderer
             /\ \A u \in Writes : u # w => purchase'[u] = purchase[u]
             /\ orderCall' = [orderCall EXCEPT ![w] = "ended"]
  <2>1. /\ purchase' = [purchase EXCEPT ![w].stage = "done"] /\ orderCall[w] = "placed"
        /\ orderCall' = [orderCall EXCEPT ![w] = "ended"]
    BY <1>6 DEF OrderConfirmed, EndPurchase
  <2>. QED  BY <1>0, <2>1, StageMoves DEF Stages
<1>7. ASSUME NEW w \in Writes, PlaceOrder(w) \/ RefuseOrder(w)
      PROVE  /\ purchase' = purchase /\ orderCall[w] = "sent"
             /\ \/ PlaceOrder(w) /\ orderCall' = [orderCall EXCEPT ![w] = "placed"]
                \/ orderCall' = [orderCall EXCEPT ![w] = "ended"]
  BY <1>7 DEF PlaceOrder, RefuseOrder, EndOrderCall
<1>8. ASSUME NEW w \in Writes, PurchaseStep(w), ~SaleStep(w)
      PROVE  Press(w) \/ SaleConfirmed(w) \/ SaleFails(w) \/ OrderFails(w)
             \/ OrderConfirmed(w) \/ PlaceOrder(w) \/ RefuseOrder(w)
  BY <1>8 DEF PurchaseStep
<1>9. ASSUME NEW w \in Writes, SaleStep(w)
      PROVE  UNCHANGED <<purchase, orderCall>>
  BY <1>9 DEF SaleStep, shopVars
<1>10. CASE UNCHANGED vars
  BY <1>1, <1>10 DEF vars, shopVars
<1>11. CASE GatewayRestarts \/ LogOut
  BY <1>1, <1>11 DEF GatewayRestarts, LogOut, shopVars
<1>12. ASSUME NEW account \in Accounts, LogIn(account)
       PROVE  UNCHANGED <<purchase, orderCall>>
  BY <1>12 DEF LogIn
<1>13. ASSUME (\E call \in listCalls : ListOrders(call)) \/ (\E rows \in lists : ShowOrders(rows))
       PROVE  UNCHANGED <<purchase, orderCall>>
  BY <1>13 DEF ListOrders, ShowOrders
<1>14. CASE \E w \in Writes : Press(w)
  BY <1>0, <1>3, <1>14
<1>15. CASE \E w \in Writes : SaleConfirmed(w)
  BY <1>0, <1>4, <1>15
<1>16. CASE \E w \in Writes : SaleFails(w) \/ OrderFails(w)
  BY <1>0, <1>5, <1>16
<1>17. CASE \E w \in Writes : OrderConfirmed(w)
  BY <1>0, <1>6, <1>17
<1>18. CASE \E w \in Writes : PlaceOrder(w) \/ RefuseOrder(w)
  BY <1>0, <1>7, <1>18
<1>19. CASE \E w \in Writes : PurchaseStep(w)
  BY <1>1, <1>8, <1>9, <1>14, <1>15, <1>16, <1>17, <1>18, <1>19
<1>. QED
  BY <1>1, <1>2, <1>10, <1>11, <1>12, <1>13, <1>19 DEF Next

(* An order stays in the table.                                            *)
LEMMA OrdersStay ==
    ASSUME TypeOK, [Next]_vars, NEW w \in Writes, HasOrder(w)
    PROVE  HasOrder(w)'
<1>1. CASE \E v \in Writes : PlaceOrder(v)
  BY <1>1, OrderPlaced DEF HasOrder
<1>2. CASE ~\E v \in Writes : PlaceOrder(v)
  <2>1. orders' = orders
    BY <1>2, OrdersChange
  <2>. QED  BY <2>1 DEF HasOrder
<1>. QED  BY <1>1, <1>2

(* Every step keeps CallInv.                                              *)
LEMMA CallInvStep ==
    ASSUME TypeOK, CallInv, RowInv, [Next]_vars
    PROVE  CallInv'
<1>. SUFFICES ASSUME NEW v \in Writes
              PROVE  /\ purchase'[v].stage \in {"idle", "selling"} => orderCall'[v] = "none"
                     /\ orderCall'[v] # "none" => verdict'[v] = "acknowledged"
                     /\ orderCall'[v] = "placed" \/ purchase'[v].stage = "done" => HasOrder(v)'
  BY DEF CallInv
<1>1. purchase'[v].stage \in {"idle", "selling"} => orderCall'[v] = "none"
  BY CallStep
<1>2. orderCall'[v] # "none" => verdict'[v] = "acknowledged"
  BY CallStep, VerdictsStand DEF CallInv
<1>3. ASSUME PlaceOrder(v) PROVE HasOrder(v)'
  BY <1>3, OrderPlaced DEF HasOrder
<1>4. orderCall'[v] = "placed" \/ purchase'[v].stage = "done" => HasOrder(v) \/ PlaceOrder(v)
  BY CallStep DEF CallInv
<1>. QED  BY <1>1, <1>2, <1>3, <1>4, OrdersStay

(* Every step keeps RowInv: a call that arrives has not left an order     *)
(* before.                                                                *)
LEMMA RowInvStep ==
    ASSUME TypeOK, CallInv, RowInv, [Next]_vars
    PROVE  RowInv'
<1>1. \A k \in DOMAIN orders : orders[k].cause \in Writes
  BY CauseType
(* The rows there were keep what they say. *)
<1>2. \A k \in DOMAIN orders :
          /\ orderCall'[orders[k].cause] \in {"placed", "ended"}
          /\ orders[k].productId = request'[orders[k].cause].id
          /\ orders[k].userId = purchase'[orders[k].cause].orderer
  BY <1>1, CallStep, VerdictsStand DEF RowInv
<1>3. CASE ~\E w \in Writes : PlaceOrder(w)
  <2>1. orders' = orders
    BY <1>3, OrdersChange
  <2>. QED  BY <1>2, <2>1 DEF RowInv
<1>4. ASSUME NEW w \in Writes, PlaceOrder(w)
      PROVE  RowInv'
  <2>. DEFINE n == Len(orders) + 1
  <2>1. /\ DOMAIN orders' = DOMAIN orders \cup {n} /\ n \notin DOMAIN orders
        /\ \A k \in DOMAIN orders : orders'[k] = orders[k]
        /\ orders'[n].cause = w
        /\ orders'[n].productId = request[w].id
        /\ orders'[n].userId = purchase[w].orderer
    BY <1>4, OrderPlaced
  <2>. HIDE DEF n
  <2>2. orderCall[w] = "sent"
    BY <1>4 DEF PlaceOrder, EndOrderCall
  <2>3. orderCall'[w] \in {"placed", "ended"} /\ purchase' = purchase /\ request' = request
    BY <1>4 DEF PlaceOrder, EndOrderCall, replicationVars, TypeOK, ShopTypeOK
  <2>4. \A k \in DOMAIN orders : orders[k].cause # w
    BY <2>2 DEF RowInv
  <2>5. ASSUME NEW k \in DOMAIN orders'
        PROVE  /\ orderCall'[orders'[k].cause] \in {"placed", "ended"}
               /\ orders'[k].productId = request'[orders'[k].cause].id
               /\ orders'[k].userId = purchase'[orders'[k].cause].orderer
    BY <1>2, <2>1, <2>3
  <2>6. ASSUME NEW j \in DOMAIN orders', NEW k \in DOMAIN orders', orders'[j].cause = orders'[k].cause
        PROVE  j = k
    BY <2>1, <2>4, <2>6 DEF RowInv
  <2>. QED  BY <2>5, <2>6 DEF RowInv
<1>. QED  BY <1>3, <1>4

---------------------------------------------------------------------------
(* The invariant, and what follows from it. *)

IInv == TypeOK /\ SaleInv /\ StockInv /\ CallInv /\ RowInv

(* The parts together hold initially and are inductive.                   *)
LEMMA InvInit == Init => IInv
<1>. SUFFICES ASSUME Init PROVE IInv
  OBVIOUS
<1>1. TypeOK
  BY TypeInit
<1>2. SaleInv
  BY DEF Init, InitReplication, SaleInv
<1>3. StockInv
  <2>1. \A r \in Replicas : \A i \in Products : SoldAt(r, i) = {} /\ Cardinality(SoldAt(r, i)) = 0
    BY FS_EmptySet DEF Init, InitReplication, SoldAt
  <2>2. ASSUME NEW i \in Products PROVE InitialCatalogue[i].quantity \in Nat
    <3>1. InitialCatalogue[i] \in ProductType(Origins)
      BY CatalogueAssumption DEF Products
    <3>. QED  BY <3>1 DEF ProductType
  <2>3. \A r \in Replicas : catalogue[r] = InitialCatalogue
    BY DEF Init, InitReplication
  <2>. QED  BY <2>1, <2>2, <2>3 DEF StockInv, Products
<1>4. CallInv /\ RowInv
  BY DEF Init, CallInv, RowInv, NoPurchase
<1>. QED  BY <1>1, <1>2, <1>3, <1>4 DEF IInv

LEMMA InvStep == IInv /\ [Next]_vars => IInv'
BY TypeStep, SaleInvStep, StockInvStep, CallInvStep, RowInvStep DEF IInv

LEMMA Invariance == Spec => []IInv
BY InvInit, InvStep, PTL DEF Spec

(* The orders for a product are at most the sales of it at a replica: each *)
(* order has a press of its own, whose sale every replica has carried out. *)
LEMMA OrdersHaveSales ==
    ASSUME IInv, NEW r \in Replicas, NEW i \in Products
    PROVE  Cardinality(OrdersOf(i)) <= Cardinality(SoldAt(r, i))
<1>. DEFINE f == [k \in OrdersOf(i) |-> orders[k].cause]
<1>1. ASSUME NEW k \in OrdersOf(i)
      PROVE  orders[k].cause \in SoldAt(r, i)
  <2>1. k \in DOMAIN orders /\ orders[k].productId = i
    BY DEF OrdersOf
  <2>2. orders[k].cause \in Writes
    BY <2>1, CauseType DEF IInv
  <2>3. orderCall[orders[k].cause] # "none" /\ request[orders[k].cause].id = i
    BY <2>1 DEF IInv, RowInv
  <2>4. r \in accepted[orders[k].cause]
    BY <2>2, <2>3 DEF IInv, CallInv, SaleInv
  <2>. QED  BY <2>2, <2>3, <2>4 DEF SoldAt
<1>2. \A j, k \in OrdersOf(i) : f[j] = f[k] => j = k
  BY DEF OrdersOf, IInv, RowInv
<1>3. f \in Injection(OrdersOf(i), SoldAt(r, i))
  BY <1>1, <1>2 DEF Injection, IsInjective
<1>. QED  BY <1>3, SoldFinite, FS_Injection

(* Whatever the two services and the calls to them go through, at every    *)
(* replica at least as many units are gone as there are orders.            *)
THEOREM OrdersBacked == Spec => []OrdersAreBackedBySales
<1>1. IInv => OrdersAreBackedBySales
  <2>. SUFFICES ASSUME IInv, NEW r \in Replicas, NEW i \in Products
                PROVE  Cardinality(OrdersOf(i))
                           <= InitialCatalogue[i].quantity - catalogue[r][i].quantity
    BY DEF OrdersAreBackedBySales
  <2>1. Cardinality(OrdersOf(i)) <= Cardinality(SoldAt(r, i))
    BY OrdersHaveSales
  <2>2. catalogue[r][i].quantity + Cardinality(SoldAt(r, i)) = InitialCatalogue[i].quantity
    BY DEF IInv, StockInv
  <2>3. catalogue[r][i].quantity \in Nat
    <3>1. catalogue[r] \in Seq(ProductType(Origins)) /\ i \in DOMAIN catalogue[r]
      BY DEF IInv, TypeOK, ReplicationTypeOK, StockInv
    <3>2. catalogue[r][i] \in ProductType(Origins)
      BY <3>1
    <3>. QED  BY <3>2 DEF ProductType
  <2>4. Cardinality(SoldAt(r, i)) \in Nat
    BY SoldFinite
  <2>5. Cardinality(SoldAt(r, i)) = InitialCatalogue[i].quantity - catalogue[r][i].quantity
    BY <2>2, <2>3, <2>4
  <2>. QED  BY <2>1, <2>5
<1>. QED  BY <1>1, Invariance, PTL

(* What the page calls done is ordered, once, and no press has two orders. *)
THEOREM ConfirmedAreOrdered == Spec => []ConfirmedPurchasesAreOrdered
<1>1. IInv => ConfirmedPurchasesAreOrdered
  BY DEF IInv, CallInv, RowInv, HasOrder, ConfirmedPurchasesAreOrdered, Confirmed
<1>. QED  BY <1>1, Invariance, PTL

---------------------------------------------------------------------------
(* The list of orders *)

(* What the page had confirmed when it asked for a list is in the table.   *)
ListInv == \A call \in listCalls : \A w \in call.confirmed : w \in Writes /\ HasOrder(w)

(* The calls a step leaves under way: those there were, and one for what   *)
(* is confirmed by now.                                                    *)
LEMMA ListCallsStep ==
    ASSUME IInv, [Next]_vars, NEW call \in listCalls'
    PROVE  \/ call \in listCalls
           \/ \A w \in call.confirmed :
                 w \in Writes /\ (purchase[w].stage = "done" \/ orderCall[w] = "placed")
<1>1. ASSUME NEW account, NEW confirmed, call \in RefreshOrders(account, confirmed)
      PROVE  call.confirmed = confirmed
  BY <1>1 DEF RefreshOrders
<1>2. CASE \E account \in Accounts : LogIn(account)
  BY <1>1, <1>2 DEF LogIn, Confirmed
<1>3. CASE Reload
  BY <1>1, <1>3 DEF Reload, Confirmed
<1>4. ASSUME NEW w \in Writes, PurchaseStep(w)
      PROVE  \/ call \in listCalls
             \/ \A v \in call.confirmed :
                   v \in Writes /\ (purchase[v].stage = "done" \/ orderCall[v] = "placed")
  <2>1. CASE OrderConfirmed(w)
    BY <1>1, <2>1 DEF OrderConfirmed, Confirmed
  <2>2. CASE ~OrderConfirmed(w)
    BY <1>4, <2>2 DEF PurchaseStep, Press, SaleStep, SaleConfirmed, SaleFails, PlaceOrder,
                      RefuseOrder, EndOrderCall, OrderFails, shopVars, listVars
  <2>. QED  BY <2>1, <2>2
<1>5. CASE \/ LogOut \/ GatewayRestarts \/ UNCHANGED vars
           \/ \E c \in listCalls : ListOrders(c)
           \/ \E rows \in lists : ShowOrders(rows)
  BY <1>5 DEF LogOut, GatewayRestarts, ListOrders, ShowOrders, shopVars, listVars, vars
<1>. QED  BY <1>2, <1>3, <1>4, <1>5 DEF Next

LEMMA ListInvStep == IInv /\ ListInv /\ [Next]_vars => ListInv'
<1>. SUFFICES ASSUME IInv, ListInv, [Next]_vars,
                     NEW call \in listCalls', NEW w \in call.confirmed
              PROVE  w \in Writes /\ HasOrder(w)'
  BY DEF ListInv
<1>1. w \in Writes /\ HasOrder(w)
  BY ListCallsStep DEF IInv, ListInv, CallInv
<1>. QED  BY <1>1, OrdersStay DEF IInv

(* refreshOrders after "Pedido feito!": whenever the orders service makes  *)
(* the answer, that order is in it, if it is of the account that asks.     *)
THEOREM ListsShowConfirmed == Spec => []ListsShowConfirmedOrders
<1>1. Init => ListInv
  BY DEF Init, ListInv
<1>2. IInv /\ ListInv => ListsShowConfirmedOrders
  BY DEF IInv, RowInv, ListInv, HasOrder, ListsShowConfirmedOrders, OrdersShown,
         O!ListByUserID
<1>. QED  BY <1>1, <1>2, InvInit, InvStep, ListInvStep, PTL DEF Spec
=============================================================================
