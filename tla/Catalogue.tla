---------------------------- MODULE Catalogue ----------------------------
(***************************************************************************)
(* What one product service does to its catalogue when a write reaches it: *)
(* the middleware chain of products/server.go, the handlers of             *)
(* products/handlers.go and the operations of products/store.go, as        *)
(* operators on a catalogue.                                               *)
(*                                                                         *)
(* The store's map of products with its highestID counter is a sequence:   *)
(* identifiers are handed out from 1 upwards and nothing deletes a         *)
(* product, so the product with identifier i is element i.  A product's    *)
(* name, price and description are represented by its origin, the write    *)
(* (or the seed) that created it.                                          *)
(***************************************************************************)
EXTENDS Integers, Sequences

Roles == {"admin", "user", "none"}

(* A write as the services see it.  valid stands for everything the        *)
(* handler checks before it looks at the catalogue: the JSON decodes, the  *)
(* name is not empty, price and quantity are not negative, the identifier  *)
(* in the path is a positive integer.                                      *)
RequestType ==
    [op: {"create", "decrement"}, role: Roles, valid: BOOLEAN, id: Nat, quantity: Nat]

Success == {200, 201}
Statuses == {0, 200, 201, 400, 401, 403, 404, 409, 500, 502, 503}

(* A response: its status and the product it describes.  Errors describe   *)
(* none.  Status 0 is an outcome that carries a FailureReason instead.     *)
Answers == [status: Statuses, id: Nat, quantity: Nat]
Refusal(status) == [status |-> status, id |-> 0, quantity |-> 0]
Failed == Refusal(0)

ProductType(Origins) == [origin: Origins, quantity: Nat]

IsCreate(request) == request.op = "create"

(* Mutant: DecrementStock without its check for an empty shelf. *)
StatusWithoutStockCheck(request, catalogue) ==
    IF request.role = "none" THEN 401
    ELSE IF IsCreate(request) /\ request.role # "admin" THEN 403
    ELSE IF ~request.valid THEN 400
    ELSE IF IsCreate(request) THEN 201
    ELSE IF request.id \notin DOMAIN catalogue THEN 404
    ELSE 200

(* The status a service answers, in the order of its checks. *)
Status(request, catalogue) ==
    IF request.role = "none" THEN 401
    ELSE IF IsCreate(request) /\ request.role # "admin" THEN 403
    ELSE IF ~request.valid THEN 400
    ELSE IF IsCreate(request) THEN 201
    ELSE IF request.id \notin DOMAIN catalogue THEN 404
    ELSE IF catalogue[request.id].quantity = 0 THEN 409
    ELSE 200

Accepts(request, catalogue) == Status(request, catalogue) \in Success

(* Create: append under the next identifier. *)
Create(request, origin, catalogue) ==
    Append(catalogue, [origin |-> origin, quantity |-> request.quantity])

(* DecrementStock: one unit less of the product. *)
DecrementStock(request, catalogue) ==
    [catalogue EXCEPT ![request.id].quantity = @ - 1]

(* The catalogue after an accepted write, and the response to it. *)
Effect(request, origin, catalogue) ==
    IF IsCreate(request)
    THEN Create(request, origin, catalogue)
    ELSE DecrementStock(request, catalogue)

Acceptance(request, catalogue) ==
    IF IsCreate(request)
    THEN [status |-> 201, id |-> Len(catalogue) + 1, quantity |-> request.quantity]
    ELSE [status |-> 200, id |-> request.id,
          quantity |-> catalogue[request.id].quantity - 1]
=============================================================================
