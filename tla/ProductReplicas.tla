------------------------- MODULE ProductReplicas -------------------------
(***************************************************************************)
(* The gateway's ProductReplicaManager (internal/gateway/replica.go) with  *)
(* the product services behind it: a write is sent to every replica at     *)
(* once, by one goroutine per replica, and acknowledged when all of them   *)
(* answer 2xx; a read goes to one replica, chosen round-robin.             *)
(*                                                                         *)
(* A product service handles a request in one step (ProductStore.tla is    *)
(* the detailed service and implements that step).  Everything else        *)
(* interleaves: goroutines of several writes, requests and responses in    *)
(* flight, lost connections, time-outs after which the replica still       *)
(* carries the write out, the heartbeat flipping a replica's availability, *)
(* and a restart of the gateway.                                           *)
(***************************************************************************)
EXTENDS Catalogue, FiniteSets

CONSTANTS
    ReplicaCount,       \* productReplicaCount
    Writes,             \* the HTTP writes that ever arrive at /api/products
    Reads,              \* the HTTP reads that ever arrive at /api/products
    Requests,           \* what those writes may ask for
    Seeds,              \* the products the catalogue is seeded with
    InitialCatalogue    \* the seeded catalogue, the same at every replica

Replicas == 0 .. ReplicaCount - 1
Origins == Seeds \cup Writes
SeedCount == Len(InitialCatalogue)

ASSUME ReplicaCountAssumption == ReplicaCount \in Nat \ {0}
ASSUME RequestsAssumption == Requests \subseteq RequestType
ASSUME WritesAssumption == IsFiniteSet(Writes)
ASSUME SeedsAssumption == InitialCatalogue \in Seq(ProductType(Seeds))

VARIABLES
    \* The gateway, per write
    request,        \* what the client asked for
    phase,          \* "new", "writing" (inside HandleWrite), "answered", "aborted"
    call,           \* per replica: "none", "sent", "handled" (response under way), "done"
    answer,         \* per replica: the response under way
    outcome,        \* per replica: what the goroutine put into outcomeChannel
    collected,      \* the replicas whose outcome has arrived
    first,          \* whose outcome arrived first, collectedOutcomes[0]
    reply,          \* the response to the client
    \* The gateway, shared
    available,      \* what IsAvailable says of each replica
    roundRobin,     \* roundRobinCounter, modulo ReplicaCount
    \* The gateway, per read
    read,           \* progress and result of HandleRead; as history, the writes
                    \* acknowledged when it began
    \* The product services
    catalogue,      \* per replica
    \* History, for the properties only
    applied,        \* per replica: the writes its catalogue contains
    overlapped      \* has a write ever begun while another one was under way?

callVars == <<call, answer, outcome, collected, first>>
writeVars == <<phase, callVars, reply>>
readVars == <<roundRobin, read>>
storeVars == <<catalogue, applied>>
vars == <<request, writeVars, available, readVars, storeVars, overlapped>>

IdleRead ==
    [phase |-> "new", start |-> 0, offset |-> 0, status |-> 0, listing |-> <<>>,
     acknowledged |-> {}]

Init ==
    /\ request \in [Writes -> Requests]
    /\ phase = [w \in Writes |-> "new"]
    /\ call = [w \in Writes |-> [r \in Replicas |-> "none"]]
    /\ answer = [w \in Writes |-> [r \in Replicas |-> Failed]]
    /\ outcome = [w \in Writes |-> [r \in Replicas |-> Failed]]
    /\ collected = [w \in Writes |-> {}]
    /\ first = [w \in Writes |-> 0]
    /\ reply = [w \in Writes |-> Failed]
    /\ available = [r \in Replicas |-> TRUE]
    /\ roundRobin = 0
    /\ read = [d \in Reads |-> IdleRead]
    /\ catalogue = [r \in Replicas |-> InitialCatalogue]
    /\ applied = [r \in Replicas |-> {}]
    /\ overlapped = FALSE

---------------------------------------------------------------------------
(* HandleWrite: accepting and refusing the client's request. *)

Active(w) == phase[w] = "writing" \/ \E r \in Replicas : call[w][r] = "sent"

AcceptWrite(w) ==
    /\ phase[w] = "new"
    /\ phase' = [phase EXCEPT ![w] = "writing"]
    /\ overlapped' = (overlapped \/ \E v \in Writes : Active(v))
    /\ UNCHANGED <<request, callVars, reply, available, readVars, storeVars>>

(* The body could not be read (400) or is too large (413, not told apart). *)
RefuseBody(w) ==
    /\ phase[w] = "new"
    /\ phase' = [phase EXCEPT ![w] = "answered"]
    /\ reply' = [reply EXCEPT ![w] = Refusal(400)]
    /\ UNCHANGED <<request, callVars, available, readVars, storeVars, overlapped>>

(* A goroutine puts its outcome into the channel and HandleWrite takes it. *)
Deliver(w, r, result) ==
    /\ outcome' = [outcome EXCEPT ![w][r] = result]
    /\ collected' = [collected EXCEPT ![w] = @ \cup {r}]
    /\ first' = IF collected[w] = {} THEN [first EXCEPT ![w] = r] ELSE first

ForgetOutcomes(done) ==
    /\ outcome' = [w \in Writes |-> IF w \in done THEN [r \in Replicas |-> Failed] ELSE outcome[w]]
    /\ collected' = [w \in Writes |-> IF w \in done THEN {} ELSE collected[w]]
    /\ first' = [w \in Writes |-> IF w \in done THEN 0 ELSE first[w]]

Waiting(w, r) == phase[w] = "writing" /\ r \notin collected[w]

---------------------------------------------------------------------------
(* callReplicaForWrite. *)

(* No request goes out: the replica is marked unavailable, or the          *)
(* identifier in the path makes the request impossible to build.           *)
SkipReplica(w, r) ==
    /\ Waiting(w, r)
    /\ call[w][r] = "none"
    /\ \/ ~available[r]
       \/ ~IsCreate(request[w]) /\ ~request[w].valid
    /\ call' = [call EXCEPT ![w][r] = "done"]
    /\ Deliver(w, r, Failed)
    /\ UNCHANGED <<request, phase, answer, reply, available, readVars, storeVars, overlapped>>

SendCall(w, r) ==
    /\ Waiting(w, r)
    /\ call[w][r] = "none"
    /\ available[r]
    /\ call' = [call EXCEPT ![w][r] = "sent"]
    /\ UNCHANGED <<request, phase, answer, outcome, collected, first, reply,
                   available, readVars, storeVars, overlapped>>

ReceiveAnswer(w, r) ==
    /\ Waiting(w, r)
    /\ call[w][r] = "handled"
    /\ call' = [call EXCEPT ![w][r] = "done"]
    /\ Deliver(w, r, answer[w][r])
    /\ answer' = [answer EXCEPT ![w][r] = Failed]
    /\ UNCHANGED <<request, phase, reply, available, readVars, storeVars, overlapped>>

(* Mutant: a client without a time-out; only a connection that breaks ends *)
(* a call the replica has answered.                                        *)
CallFailsWithoutTimeout(w, r) ==
    /\ Waiting(w, r)
    /\ call[w][r] = "handled"
    /\ call' = [call EXCEPT ![w][r] = "done"]
    /\ Deliver(w, r, Failed)
    /\ answer' = [answer EXCEPT ![w][r] = Failed]
    /\ UNCHANGED <<request, phase, reply, available, readVars, storeVars, overlapped>>

(* The call ends without a response: the connection is refused or breaks,  *)
(* the client's time-out expires, or the caller of the gateway goes away   *)
(* and its context is cancelled.  A request that was sent is lost with the *)
(* connection, or still reaches the replica later.                         *)
CallFails(w, r) ==
    /\ Waiting(w, r)
    /\ call[w][r] \in {"sent", "handled"}
    /\ \/ call' = [call EXCEPT ![w][r] = "done"]
       \/ call[w][r] = "sent" /\ UNCHANGED call
    /\ Deliver(w, r, Failed)
    /\ answer' = [answer EXCEPT ![w][r] = Failed]
    /\ UNCHANGED <<request, phase, reply, available, readVars, storeVars, overlapped>>

---------------------------------------------------------------------------
(* HandleWrite: the reply, once every outcome is there. *)

Succeeded(result) == result.status \in Success

(* Mutants: one success is enough; an outcome that carries no status, only *)
(* a FailureReason, is not taken for a failure.                            *)
AllOutcomesFailed(w) == \A r \in Replicas : ~Succeeded(outcome[w][r])
AnyOutcomeRefused(w) ==
    \E r \in Replicas : ~Succeeded(outcome[w][r]) /\ outcome[w][r].status # 0

AnyOutcomeFailed(w) == \E r \in Replicas : ~Succeeded(outcome[w][r])

ReplyTo(w) == IF AnyOutcomeFailed(w) THEN Refusal(500) ELSE outcome[w][first[w]]

(* The reply goes out and the collected outcomes go out of scope. *)
Reply(w) ==
    /\ phase[w] = "writing"
    /\ collected[w] = Replicas
    /\ reply' = [reply EXCEPT ![w] = ReplyTo(w)]
    /\ phase' = [phase EXCEPT ![w] = "answered"]
    /\ ForgetOutcomes({w})
    /\ UNCHANGED <<request, call, answer, available, readVars, storeVars, overlapped>>

---------------------------------------------------------------------------
(* The product services. *)

(* The response travels back, unless nobody waits for it any more. *)
Respond(w, r, result) ==
    IF Waiting(w, r)
    THEN /\ call' = [call EXCEPT ![w][r] = "handled"]
         /\ answer' = [answer EXCEPT ![w][r] = result]
    ELSE /\ call' = [call EXCEPT ![w][r] = "done"]
         /\ UNCHANGED answer

(* The handler accepts the write: new catalogue, on disk, 2xx. *)
ServeWrite(w, r) ==
    /\ call[w][r] = "sent"
    /\ Accepts(request[w], catalogue[r])
    /\ catalogue' = [catalogue EXCEPT ![r] = Effect(request[w], w, @)]
    /\ applied' = [applied EXCEPT ![r] = @ \cup {w}]
    /\ Respond(w, r, Acceptance(request[w], catalogue[r]))
    /\ UNCHANGED <<request, phase, outcome, collected, first, reply,
                   available, readVars, overlapped>>

(* Mutant: the file could not be replaced, and the store does not roll back. *)
RefuseWriteWithoutRollback(w, r) ==
    /\ call[w][r] = "sent"
    /\ Accepts(request[w], catalogue[r])
    /\ catalogue' = [catalogue EXCEPT ![r] = Effect(request[w], w, @)]
    /\ Respond(w, r, Refusal(500))
    /\ UNCHANGED <<request, phase, outcome, collected, first, reply,
                   available, readVars, applied, overlapped>>

(* The write is turned away and the catalogue stays as it was: by the      *)
(* middleware or the handler, or for a reason that has nothing to do with  *)
(* the request, for which 503 stands: an engaged kill switch (503), a      *)
(* token that has expired meanwhile (401), a file that could not be        *)
(* replaced, after which the store rolls back (500).                       *)
RefuseWrite(w, r) ==
    /\ call[w][r] = "sent"
    /\ \E status \in {503} \cup ({Status(request[w], catalogue[r])} \ Success) :
          Respond(w, r, Refusal(status))
    /\ UNCHANGED <<request, phase, outcome, collected, first, reply,
                   available, readVars, storeVars, overlapped>>

---------------------------------------------------------------------------
(* HandleRead and forwardSingleRequest. *)

Acknowledged == {w \in Writes : phase[w] = "answered" /\ Succeeded(reply[w])}

Candidate(d) == (read[d].start + read[d].offset) % ReplicaCount

StartRead(d) ==
    /\ read[d].phase = "new"
    /\ roundRobin' = (roundRobin + 1) % ReplicaCount
    /\ read' = [read EXCEPT ![d] =
           [IdleRead EXCEPT !.phase = "choosing", !.start = roundRobin',
                            !.acknowledged = Acknowledged]]
    /\ UNCHANGED <<request, writeVars, available, storeVars, overlapped>>

(* One turn of the loop: the candidate is unavailable, or it is taken. *)
SkipCandidate(d) ==
    /\ read[d].phase = "choosing"
    /\ read[d].offset < ReplicaCount
    /\ ~available[Candidate(d)]
    /\ read' = [read EXCEPT ![d].offset = @ + 1]
    /\ UNCHANGED <<request, writeVars, available, roundRobin, storeVars, overlapped>>

TakeCandidate(d) ==
    /\ read[d].phase = "choosing"
    /\ read[d].offset < ReplicaCount
    /\ available[Candidate(d)]
    /\ read' = [read EXCEPT ![d].phase = "sent"]
    /\ UNCHANGED <<request, writeVars, available, roundRobin, storeVars, overlapped>>

EndRead(d, status, listing) ==
    /\ read' = [read EXCEPT ![d] =
           [@ EXCEPT !.phase = "done", !.start = 0, !.offset = 0,
                     !.status = status, !.listing = listing]]
    /\ UNCHANGED <<request, writeVars, available, roundRobin, storeVars, overlapped>>

(* Mutant: the loop ends with the first candidate that is unavailable.     *)
NoCandidateTriedTwice(d) ==
    /\ read[d].phase = "choosing"
    /\ read[d].offset > 0
    /\ EndRead(d, 503, <<>>)

NoCandidateLeft(d) ==
    /\ read[d].phase = "choosing"
    /\ read[d].offset = ReplicaCount
    /\ EndRead(d, 503, <<>>)

ServeRead(d) ==
    /\ read[d].phase = "sent"
    /\ EndRead(d, 200, catalogue[Candidate(d)])

(* The replica answers 503 (kill switch), which is passed on, or not at    *)
(* all, which becomes 502.  There is no second attempt.                    *)
ReadFails(d) ==
    /\ read[d].phase = "sent"
    /\ \E status \in {502, 503} : EndRead(d, status, <<>>)

---------------------------------------------------------------------------
(* The surroundings. *)

(* The heartbeat marks a replica down or recovered. *)
AvailabilityChanges(r) ==
    /\ available' = [available EXCEPT ![r] = ~@]
    /\ UNCHANGED <<request, writeVars, readVars, storeVars, overlapped>>

(* The gateway process ends and comes back.  Writes and reads in progress  *)
(* are never answered; requests already sent may still be carried out.     *)
GatewayRestarts ==
    LET open == {w \in Writes : phase[w] = "writing"} IN
    /\ phase' = [w \in Writes |-> IF w \in open THEN "aborted" ELSE phase[w]]
    /\ call' = [w \in Writes |-> [r \in Replicas |->
           IF w \in open /\ call[w][r] # "sent" THEN "done" ELSE call[w][r]]]
    /\ answer' = [w \in Writes |-> [r \in Replicas |-> Failed]]
    /\ read' = [d \in Reads |->
           IF read[d].phase \in {"choosing", "sent"}
           THEN [IdleRead EXCEPT !.phase = "aborted"] ELSE read[d]]
    /\ roundRobin' = 0
    /\ available' = [r \in Replicas |-> TRUE]
    /\ ForgetOutcomes(open)
    /\ UNCHANGED <<request, reply, storeVars, overlapped>>

---------------------------------------------------------------------------
WriteStep(w) ==
    \/ AcceptWrite(w) \/ RefuseBody(w) \/ Reply(w)
    \/ \E r \in Replicas :
         \/ SkipReplica(w, r) \/ SendCall(w, r) \/ ReceiveAnswer(w, r) \/ CallFails(w, r)
         \/ ServeWrite(w, r) \/ RefuseWrite(w, r)

ReadStep(d) ==
    \/ StartRead(d) \/ SkipCandidate(d) \/ TakeCandidate(d) \/ NoCandidateLeft(d)
    \/ ServeRead(d) \/ ReadFails(d)

Next ==
    \/ \E w \in Writes : WriteStep(w)
    \/ \E d \in Reads : ReadStep(d)
    \/ \E r \in Replicas : AvailabilityChanges(r)
    \/ GatewayRestarts

Spec == Init /\ [][Next]_vars

(***************************************************************************)
(* Fairness: HandleWrite's goroutines run, and the client's time-out (10   *)
(* seconds unless configured) ends every call that gets no response, so a  *)
(* pending call receives its answer or fails; HandleRead's loop runs.      *)
(* Nothing is assumed of the replicas.                                     *)
(***************************************************************************)
Fairness ==
    /\ \A w \in Writes :
         /\ WF_vars(Reply(w))
         /\ \A r \in Replicas :
              /\ WF_vars(SkipReplica(w, r) \/ SendCall(w, r))
              /\ WF_vars(ReceiveAnswer(w, r) \/ CallFails(w, r))
    /\ \A d \in Reads :
         /\ WF_vars(SkipCandidate(d) \/ TakeCandidate(d) \/ NoCandidateLeft(d))
         /\ WF_vars(ServeRead(d) \/ ReadFails(d))

FairSpec == Spec /\ Fairness

---------------------------------------------------------------------------
(* Properties *)

WritePhases == {"new", "writing", "answered", "aborted"}
CallStates == {"none", "sent", "handled", "done"}
ReadType ==
    [phase: {"new", "choosing", "sent", "done", "aborted"}, start: Replicas,
     offset: 0 .. ReplicaCount, status: Statuses, listing: Seq(ProductType(Origins)),
     acknowledged: SUBSET Writes]

(* Every variable has its type; in particular no stock is ever negative,   *)
(* at either replica, whatever decrements race.                            *)
TypeOK ==
    /\ request \in [Writes -> Requests]
    /\ phase \in [Writes -> WritePhases]
    /\ call \in [Writes -> [Replicas -> CallStates]]
    /\ answer \in [Writes -> [Replicas -> Answers]]
    /\ outcome \in [Writes -> [Replicas -> Answers]]
    /\ collected \in [Writes -> SUBSET Replicas]
    /\ first \in [Writes -> Replicas]
    /\ reply \in [Writes -> Answers]
    /\ available \in [Replicas -> BOOLEAN]
    /\ roundRobin \in Replicas
    /\ read \in [Reads -> ReadType]
    /\ catalogue \in [Replicas -> Seq(ProductType(Origins))]
    /\ applied \in [Replicas -> SUBSET Writes]
    /\ overlapped \in BOOLEAN

ListsOnce(w, listing) ==
    \E i \in DOMAIN listing :
        /\ i > SeedCount
        /\ listing[i].origin = w
        /\ \A j \in DOMAIN listing : j > SeedCount /\ listing[j].origin = w => j = i

(* A product whose creation was acknowledged is in the catalogue of every  *)
(* replica, and there once (HandleWrite replies 2xx only when no outcome   *)
(* failed).                                                                *)
AcknowledgedCreationsAreEverywhere ==
    \A w \in Acknowledged, r \in Replicas :
        IsCreate(request[w]) => ListsOnce(w, catalogue[r])

SalesOf(i, writes) == {w \in writes : ~IsCreate(request[w]) /\ request[w].id = i}
Accepted == {w \in Writes : phase[w] # "new"}

(* The stock the product with identifier i of a catalogue began with. *)
InitialStock(i, listing) ==
    IF i <= SeedCount THEN InitialCatalogue[i].quantity
    ELSE request[listing[i].origin].quantity

(* At every replica, the units missing from a product's stock are at least *)
(* the sales of it that were acknowledged and at most those that were ever *)
(* asked for: an acknowledged sale is never lost by a replica, nothing is  *)
(* deducted twice, and no more is sold than there was.                     *)
StockAccountsForSales ==
    \A r \in Replicas : \A i \in DOMAIN catalogue[r] :
        LET missing == InitialStock(i, catalogue[r]) - catalogue[r][i].quantity IN
        /\ Cardinality(SalesOf(i, Acknowledged)) <= missing
        /\ missing <= Cardinality(SalesOf(i, Accepted))

(* As long as writes come one at a time, the replicas hold the same        *)
(* catalogue whenever every write was carried out by all of them or by     *)
(* none: nothing but a partial failure or an overlap makes them differ.    *)
SerialWritesKeepReplicasIdentical ==
    (/\ ~overlapped
     /\ \A w \in Writes : \A r, s \in Replicas : w \in applied[r] => w \in applied[s])
        => \A r, s \in Replicas : catalogue[r] = catalogue[s]

Answered == {d \in Reads : read[d].phase = "done" /\ read[d].status = 200}

(* A read shows every write that was acknowledged before it began, from    *)
(* whichever replica it is answered: created products are listed and sold  *)
(* units are gone.                                                         *)
ReadsShowAcknowledgedWrites ==
    \A d \in Answered :
        /\ \A w \in read[d].acknowledged :
              IsCreate(request[w]) => ListsOnce(w, read[d].listing)
        /\ \A i \in 1 .. SeedCount :
              Cardinality(SalesOf(i, read[d].acknowledged))
                  <= InitialCatalogue[i].quantity - read[d].listing[i].quantity

(* A write that HandleWrite has begun is answered, and so is a read, even  *)
(* when no replica ever responds; unless the gateway restarts.             *)
RequestsAreAnswered ==
    /\ \A w \in Writes : phase[w] = "writing" ~> phase[w] \in {"answered", "aborted"}
    /\ \A d \in Reads :
         read[d].phase = "choosing" ~> read[d].phase \in {"done", "aborted"}

(* All of this implements the abstract ReplicatedCatalogue: a write may    *)
(* still reach the replicas its goroutines have not yet called or to which *)
(* its call is on the way, and is accepted where it was applied.           *)
VerdictOn(w) ==
    CASE phase[w] = "new" -> "new"
      [] phase[w] = "writing" -> "open"
      [] w \in Acknowledged -> "acknowledged"
      [] OTHER -> "failed"
MayReach(w) ==
    {r \in Replicas : call[w][r] = "sent" \/ (call[w][r] = "none" /\ phase[w] = "writing")}
AppliedAt(w) == {r \in Replicas : w \in applied[r]}

Replicated ==
    INSTANCE ReplicatedCatalogue WITH
        verdict <- [w \in Writes |-> VerdictOn(w)],
        pending <- [w \in Writes |-> MayReach(w)],
        accepted <- [w \in Writes |-> AppliedAt(w)]

ImplementsReplicatedCatalogue == Replicated!ReplicationSpec

(* What the comment in HandleWrite says of the two accepted responses:     *)
(* "any of the two will do", the input being the same.                     *)
AnyAcceptedAnswerWillDo ==
    \A w \in Writes :
        collected[w] = Replicas /\ ~AnyOutcomeFailed(w)
            => \A r, s \in Replicas : outcome[w][r] = outcome[w][s]
=============================================================================
