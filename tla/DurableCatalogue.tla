------------------------- MODULE DurableCatalogue -------------------------
(***************************************************************************)
(* What a product service promises, and what ProductReplicas assumes of    *)
(* it: a catalogue that survives crashes and that every write changes in   *)
(* one step or not at all, a 2xx for exactly the writes that changed it,   *)
(* and reads that see whole steps only.  A crash may lose requests and     *)
(* responses, never an accepted write.                                     *)
(***************************************************************************)
EXTENDS Catalogue

CONSTANTS Writes, Reads, Requests, SeedProducts

VARIABLES
    request,     \* what each write asks for
    catalogue,   \* the durable catalogue
    call,        \* per write: "sent", "handled", "lost"
    answer,      \* per handled write: the response
    listing      \* per read: what it was answered last

vars == <<request, catalogue, call, answer, listing>>

Init ==
    /\ request \in [Writes -> Requests]
    /\ catalogue = <<>>
    /\ call = [w \in Writes |-> "sent"]
    /\ answer = [w \in Writes |-> Failed]
    /\ listing = [d \in Reads |-> <<>>]

Seed ==
    /\ Len(catalogue) < Len(SeedProducts)
    /\ catalogue = SubSeq(SeedProducts, 1, Len(catalogue))
    /\ catalogue' = SubSeq(SeedProducts, 1, Len(catalogue) + 1)
    /\ UNCHANGED <<request, call, answer, listing>>

Handle(w, result) ==
    /\ call[w] = "sent"
    /\ call' = [call EXCEPT ![w] = "handled"]
    /\ answer' = [answer EXCEPT ![w] = result]

Serve(w) ==
    /\ Accepts(request[w], catalogue)
    /\ catalogue' = Effect(request[w], w, catalogue)
    /\ Handle(w, Acceptance(request[w], catalogue))
    /\ UNCHANGED <<request, listing>>

Refuse(w) ==
    /\ \E status \in {500, 503} \cup ({Status(request[w], catalogue)} \ Success) :
          Handle(w, Refusal(status))
    /\ UNCHANGED <<request, catalogue, listing>>

(* A crash: some requests and responses are lost. *)
Crash ==
    /\ \E lost \in SUBSET Writes :
          /\ call' = [w \in Writes |-> IF w \in lost THEN "lost" ELSE call[w]]
          /\ answer' = [w \in Writes |-> IF w \in lost THEN Failed ELSE answer[w]]
    /\ UNCHANGED <<request, catalogue, listing>>

Read(d) ==
    /\ listing' = [listing EXCEPT ![d] = catalogue]
    /\ UNCHANGED <<request, catalogue, call, answer>>

Next ==
    \/ Seed \/ Crash
    \/ \E w \in Writes : Serve(w) \/ Refuse(w)
    \/ \E d \in Reads : Read(d)

Spec == Init /\ [][Next]_vars
=============================================================================
