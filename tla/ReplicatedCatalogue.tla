----------------------- MODULE ReplicatedCatalogue -----------------------
(***************************************************************************)
(* What the gateway promises of a write to the products, whatever its      *)
(* goroutines, connections and time-outs do: it reaches each replica at    *)
(* most once, replica by replica and possibly after the client has had its *)
(* answer, and success is what a client is told only when every replica    *)
(* has accepted it.  Failure promises nothing: none, some or all of the    *)
(* replicas may have changed, or still may.                                *)
(*                                                                         *)
(* ProductReplicas implements this specification; Checkout builds on it.   *)
(***************************************************************************)
EXTENDS Catalogue

CONSTANTS
    Replicas,
    Writes,
    Requests,           \* what the writes may ask for
    InitialCatalogue    \* the same at every replica

VARIABLES
    request,    \* what each write asks for
    verdict,    \* per write: "new", "open", "acknowledged", "failed"
    pending,    \* per write: the replicas it may still reach
    accepted,   \* per write: the replicas that have carried it out
    catalogue   \* per replica

replicationVars == <<request, verdict, pending, accepted, catalogue>>

InitReplication ==
    /\ request \in [Writes -> Requests]
    /\ verdict = [w \in Writes |-> "new"]
    /\ pending = [w \in Writes |-> {}]
    /\ accepted = [w \in Writes |-> {}]
    /\ catalogue = [r \in Replicas |-> InitialCatalogue]

Begin(w) ==
    /\ verdict[w] = "new"
    /\ verdict' = [verdict EXCEPT ![w] = "open"]
    /\ pending' = [pending EXCEPT ![w] = Replicas]
    /\ UNCHANGED <<request, accepted, catalogue>>

(* A replica carries the write out. *)
Apply(w, r) ==
    /\ r \in pending[w]
    /\ Accepts(request[w], catalogue[r])
    /\ catalogue' = [catalogue EXCEPT ![r] = Effect(request[w], w, @)]
    /\ pending' = [pending EXCEPT ![w] = @ \ {r}]
    /\ accepted' = [accepted EXCEPT ![w] = @ \cup {r}]
    /\ UNCHANGED <<request, verdict>>

(* It does not get there, or is refused. *)
Miss(w, r) ==
    /\ r \in pending[w]
    /\ pending' = [pending EXCEPT ![w] = @ \ {r}]
    /\ UNCHANGED <<request, verdict, accepted, catalogue>>

Acknowledge(w) ==
    /\ verdict[w] = "open"
    /\ accepted[w] = Replicas
    /\ verdict' = [verdict EXCEPT ![w] = "acknowledged"]
    /\ UNCHANGED <<request, pending, accepted, catalogue>>

Fail(w) ==
    /\ verdict[w] \in {"new", "open"}
    /\ verdict' = [verdict EXCEPT ![w] = "failed"]
    /\ UNCHANGED <<request, pending, accepted, catalogue>>

(* A new gateway process: the writes under way fail, and of what was on    *)
(* its way to a replica some is lost.                                      *)
Abort ==
    LET open == {w \in Writes : verdict[w] = "open"} IN
    /\ verdict' = [w \in Writes |-> IF w \in open THEN "failed" ELSE verdict[w]]
    /\ pending' \in [Writes -> SUBSET Replicas]
    /\ \A w \in Writes : pending'[w] \subseteq pending[w]
    /\ UNCHANGED <<request, accepted, catalogue>>

NextReplication ==
    \/ Abort
    \/ \E w \in Writes :
         \/ Begin(w) \/ Acknowledge(w) \/ Fail(w)
         \/ \E r \in Replicas : Apply(w, r) \/ Miss(w, r)

ReplicationSpec == InitReplication /\ [][NextReplication]_replicationVars

---------------------------------------------------------------------------
(* Every variable has its type. *)
ReplicationTypeOK(Origins) ==
    /\ request \in [Writes -> Requests]
    /\ verdict \in [Writes -> {"new", "open", "acknowledged", "failed"}]
    /\ pending \in [Writes -> SUBSET Replicas]
    /\ accepted \in [Writes -> SUBSET Replicas]
    /\ catalogue \in [Replicas -> Seq(ProductType(Origins))]
=============================================================================
