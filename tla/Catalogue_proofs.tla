-------------------------- MODULE Catalogue_proofs --------------------------
(***************************************************************************)
(* Lemmas about the operators of Catalogue, for the proofs of the modules  *)
(* that are built on them.                                                 *)
(***************************************************************************)
EXTENDS Catalogue, TLAPS

(* A service that accepts a decrement has the product, and in stock.       *)
LEMMA AcceptedSale ==
    ASSUME NEW q \in RequestType, NEW O, NEW c \in Seq(ProductType(O)),
           Accepts(q, c), ~IsCreate(q)
    PROVE  /\ q.id \in DOMAIN c
           /\ c[q.id] \in ProductType(O)
           /\ c[q.id].quantity > 0
<1>1. Status(q, c) \in {200, 201}
  BY DEF Accepts, Success
<1>2. q.id \in DOMAIN c /\ c[q.id].quantity # 0
  BY <1>1 DEF Status
<1>3. c[q.id] \in ProductType(O)
  BY <1>2
<1>. QED  BY <1>2, <1>3 DEF ProductType

(* An accepted write leaves a catalogue, and the stock it leaves is not    *)
(* negative.                                                               *)
LEMMA EffectType ==
    ASSUME NEW q \in RequestType, NEW O, NEW w \in O, NEW c \in Seq(ProductType(O)),
           Accepts(q, c)
    PROVE  Effect(q, w, c) \in Seq(ProductType(O))
<1>1. CASE IsCreate(q)
  <2>1. [origin |-> w, quantity |-> q.quantity] \in ProductType(O)
    BY DEF ProductType, RequestType
  <2>. QED  BY <1>1, <2>1 DEF Effect, Create
<1>2. CASE ~IsCreate(q)
  <2>1. q.id \in DOMAIN c /\ c[q.id] \in ProductType(O) /\ c[q.id].quantity > 0
    BY <1>2, AcceptedSale
  <2>2. [c[q.id] EXCEPT !.quantity = @ - 1] \in ProductType(O)
    <3>. DEFINE p == c[q.id]
    <3>1. p \in [origin: O, quantity: Nat] /\ p.quantity - 1 \in Nat
      BY <2>1 DEF ProductType
    <3>. HIDE DEF p
    <3>2. [p EXCEPT !.quantity = p.quantity - 1] \in [origin: O, quantity: Nat]
      BY <3>1
    <3>. QED  BY <3>2 DEF p, ProductType
  <2>3. Effect(q, w, c) = [c EXCEPT ![q.id] = [c[q.id] EXCEPT !.quantity = @ - 1]]
    BY <1>2, <2>1 DEF Effect, DecrementStock
  <2>. QED  BY <2>1, <2>2, <2>3
<1>. QED  BY <1>1, <1>2

(* A sale takes one unit of one product and leaves everything else.        *)
LEMMA SoldUnit ==
    ASSUME NEW q \in RequestType, NEW O, NEW c \in Seq(ProductType(O)),
           Accepts(q, c), ~IsCreate(q)
    PROVE  /\ DOMAIN DecrementStock(q, c) = DOMAIN c
           /\ Len(DecrementStock(q, c)) = Len(c)
           /\ \A i \in DOMAIN c : DecrementStock(q, c)[i].origin = c[i].origin
           /\ \A i \in DOMAIN c : i # q.id => DecrementStock(q, c)[i].quantity = c[i].quantity
           /\ DecrementStock(q, c)[q.id].quantity = c[q.id].quantity - 1
<1>. DEFINE k == q.id
            d == DecrementStock(q, c)
<1>0. k \in DOMAIN c /\ c[k] \in ProductType(O)
  BY AcceptedSale
<1>1. d = [c EXCEPT ![k] = [c[k] EXCEPT !.quantity = @ - 1]]
  BY DEF DecrementStock
<1>2. \A i \in DOMAIN c : d[i] = IF i = k THEN [c[k] EXCEPT !.quantity = @ - 1] ELSE c[i]
  BY <1>1
<1>3. DOMAIN d = DOMAIN c /\ Len(d) = Len(c)
  BY <1>0, <1>1
<1>4. /\ [c[k] EXCEPT !.quantity = @ - 1].origin = c[k].origin
      /\ [c[k] EXCEPT !.quantity = @ - 1].quantity = c[k].quantity - 1
  BY <1>0 DEF ProductType
<1>. QED  BY <1>0, <1>2, <1>3, <1>4

(* What a service answers to an accepted write is an answer: the stock it  *)
(* reports is not negative.                                                *)
LEMMA AcceptanceType ==
    ASSUME NEW q \in RequestType, NEW O, NEW c \in Seq(ProductType(O)), Accepts(q, c)
    PROVE  Acceptance(q, c) \in Answers
<1>1. CASE IsCreate(q)
  BY <1>1 DEF Acceptance, Answers, Statuses, RequestType
<1>2. CASE ~IsCreate(q)
  <2>1. q.id \in DOMAIN c /\ c[q.id] \in ProductType(O) /\ c[q.id].quantity > 0
    BY <1>2, AcceptedSale
  <2>2. c[q.id].quantity - 1 \in Nat
    BY <2>1 DEF ProductType
  <2>. QED  BY <1>2, <2>2 DEF Acceptance, Answers, Statuses, RequestType
<1>. QED  BY <1>1, <1>2

(* A refusal with a known status is an answer.                             *)
LEMMA RefusalType ==
    ASSUME NEW status \in Statuses
    PROVE  Refusal(status) \in Answers
BY DEF Refusal, Answers

(* A service answers one of the known statuses.                            *)
LEMMA StatusType ==
    ASSUME NEW q, NEW c
    PROVE  Status(q, c) \in Statuses
BY DEF Status, Statuses

(* So is an outcome that carries a FailureReason.                          *)
LEMMA FailedType == Failed \in Answers
BY RefusalType DEF Failed, Statuses
=============================================================================
