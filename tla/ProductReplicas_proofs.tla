---------------------- MODULE ProductReplicas_proofs ----------------------
(***************************************************************************)
(* Proofs about ProductReplicas, for any number of replicas, any finite    *)
(* set of writes, any set of reads and any seeded catalogue.               *)
(***************************************************************************)
EXTENDS ProductReplicas, Catalogue_proofs, FiniteSetTheorems, TLAPS

---------------------------------------------------------------------------
(* Type correctness. *)

(* Sequences over a set are sequences over every larger set.               *)
LEMMA SeqMonotone ==
    ASSUME NEW S, NEW T, S \subseteq T
    PROVE  Seq(S) \subseteq Seq(T)
OBVIOUS

(* There is a replica 0, from which the counters begin.                    *)
LEMMA ReplicasNonEmpty == 0 \in Replicas
BY ReplicaCountAssumption DEF Replicas

(* The record of a read that has not begun is typed.                       *)
LEMMA IdleReadType == IdleRead \in ReadType
BY ReplicaCountAssumption DEF IdleRead, ReadType, Statuses, Replicas

(* The initial state is well typed.                                        *)
LEMMA TypeInit == Init => TypeOK
<1>. SUFFICES ASSUME Init PROVE TypeOK
  OBVIOUS
<1>1. Failed \in Answers /\ 0 \in Replicas
  BY FailedType, ReplicasNonEmpty
<1>2. Seq(ProductType(Seeds)) \subseteq Seq(ProductType(Origins))
  <2>1. ProductType(Seeds) \subseteq ProductType(Origins)
    BY DEF ProductType, Origins
  <2>. QED  BY <2>1, SeqMonotone
<1>4. read \in [Reads -> ReadType]
  BY IdleReadType DEF Init
<1>5. catalogue \in [Replicas -> Seq(ProductType(Origins))]
  BY <1>2, SeedsAssumption DEF Init
<1>. QED
  BY <1>1, <1>4, <1>5 DEF Init, TypeOK, WritePhases, CallStates

(* What Deliver leaves is typed. *)
LEMMA DeliverType ==
    ASSUME TypeOK, NEW w \in Writes, NEW r \in Replicas, NEW result \in Answers,
           Deliver(w, r, result)
    PROVE  /\ outcome' \in [Writes -> [Replicas -> Answers]]
           /\ collected' \in [Writes -> SUBSET Replicas]
           /\ first' \in [Writes -> Replicas]
BY DEF TypeOK, Deliver

(* What ForgetOutcomes leaves is typed.                                    *)
LEMMA ForgetType ==
    ASSUME TypeOK, NEW W, ForgetOutcomes(W)
    PROVE  /\ outcome' \in [Writes -> [Replicas -> Answers]]
           /\ collected' \in [Writes -> SUBSET Replicas]
           /\ first' \in [Writes -> Replicas]
BY FailedType, ReplicasNonEmpty DEF TypeOK, ForgetOutcomes

(* What Respond leaves is typed.                                           *)
LEMMA RespondType ==
    ASSUME TypeOK, NEW w \in Writes, NEW r \in Replicas, NEW result \in Answers,
           Respond(w, r, result)
    PROVE  /\ call' \in [Writes -> [Replicas -> CallStates]]
           /\ answer' \in [Writes -> [Replicas -> Answers]]
<1>1. CASE Waiting(w, r)
  <2>1. /\ call' = [call EXCEPT ![w][r] = "handled"]
        /\ answer' = [answer EXCEPT ![w][r] = result]
    BY <1>1 DEF Respond
  <2>. QED  BY <2>1 DEF TypeOK, CallStates
<1>2. CASE ~Waiting(w, r)
  <2>1. call' = [call EXCEPT ![w][r] = "done"] /\ answer' = answer
    BY <1>2 DEF Respond
  <2>. QED  BY <2>1 DEF TypeOK, CallStates
<1>. QED  BY <1>1, <1>2

(* The write-path steps keep the types. *)
LEMMA TypeWriteStep ==
    ASSUME TypeOK, NEW w \in Writes, WriteStep(w)
    PROVE  TypeOK'
<1>. USE FailedType
<1>1. CASE AcceptWrite(w)
  BY <1>1 DEF TypeOK, AcceptWrite, WritePhases, callVars, readVars, storeVars
<1>2. CASE RefuseBody(w)
  <2>1. Refusal(400) \in Answers
    BY RefusalType DEF Statuses
  <2>. QED
    BY <1>2, <2>1 DEF TypeOK, RefuseBody, WritePhases, callVars, readVars, storeVars
<1>3. CASE Reply(w)
  <2>1. Refusal(500) \in Answers
    BY RefusalType DEF Statuses
  <2>2. ReplyTo(w) \in Answers
    BY <2>1 DEF ReplyTo, TypeOK
  <2>3. ForgetOutcomes({w})
    BY <1>3 DEF Reply
  <2>. QED
    BY <1>3, <2>2, <2>3, ForgetType DEF TypeOK, Reply, WritePhases, readVars, storeVars
<1>4. ASSUME NEW r \in Replicas, SkipReplica(w, r) PROVE TypeOK'
  BY <1>4, DeliverType DEF TypeOK, SkipReplica, CallStates, readVars, storeVars
<1>5. ASSUME NEW r \in Replicas, SendCall(w, r) PROVE TypeOK'
  BY <1>5 DEF TypeOK, SendCall, CallStates, readVars, storeVars
<1>6. ASSUME NEW r \in Replicas, ReceiveAnswer(w, r) PROVE TypeOK'
  <2>1. answer[w][r] \in Answers
    BY DEF TypeOK
  <2>. QED
    BY <1>6, <2>1, DeliverType DEF TypeOK, ReceiveAnswer, CallStates, readVars, storeVars
<1>7. ASSUME NEW r \in Replicas, CallFails(w, r) PROVE TypeOK'
  <2>1. call' = [call EXCEPT ![w][r] = "done"] \/ call' = call
    BY <1>7 DEF CallFails
  <2>2. call' \in [Writes -> [Replicas -> CallStates]]
    <3>1. CASE call' = [call EXCEPT ![w][r] = "done"]
      BY <3>1 DEF TypeOK, CallStates
    <3>2. CASE call' = call
      BY <3>2 DEF TypeOK
    <3>. QED  BY <2>1, <3>1, <3>2
  <2>3. Deliver(w, r, Failed)
    BY <1>7 DEF CallFails
  <2>4. /\ outcome' \in [Writes -> [Replicas -> Answers]]
        /\ collected' \in [Writes -> SUBSET Replicas]
        /\ first' \in [Writes -> Replicas]
    BY <2>3, DeliverType
  <2>. QED
    BY <1>7, <2>2, <2>4 DEF TypeOK, CallFails, readVars, storeVars
<1>8. ASSUME NEW r \in Replicas, ServeWrite(w, r) PROVE TypeOK'
  <2>1. request[w] \in RequestType /\ catalogue[r] \in Seq(ProductType(Origins))
    BY RequestsAssumption DEF TypeOK
  <2>2. w \in Origins /\ Accepts(request[w], catalogue[r])
    BY <1>8 DEF Origins, ServeWrite
  <2>3. Effect(request[w], w, catalogue[r]) \in Seq(ProductType(Origins))
    BY <2>1, <2>2, EffectType
  <2>4. Acceptance(request[w], catalogue[r]) \in Answers
    BY <2>1, <2>2, AcceptanceType
  <2>5. /\ call' \in [Writes -> [Replicas -> CallStates]]
        /\ answer' \in [Writes -> [Replicas -> Answers]]
    BY <1>8, <2>4, RespondType DEF ServeWrite
  <2>. QED
    BY <1>8, <2>3, <2>5 DEF TypeOK, ServeWrite, readVars
<1>9. ASSUME NEW r \in Replicas, RefuseWrite(w, r) PROVE TypeOK'
  <2>1. PICK status \in {503} \cup ({Status(request[w], catalogue[r])} \ Success) :
            Respond(w, r, Refusal(status))
    BY <1>9 DEF RefuseWrite
  <2>2. Refusal(status) \in Answers
    BY StatusType, RefusalType DEF Statuses
  <2>3. /\ call' \in [Writes -> [Replicas -> CallStates]]
        /\ answer' \in [Writes -> [Replicas -> Answers]]
    BY <2>1, <2>2, RespondType
  <2>. QED
    BY <1>9, <2>3 DEF TypeOK, RefuseWrite, readVars, storeVars
<1>. QED
  BY <1>1, <1>2, <1>3, <1>4, <1>5, <1>6, <1>7, <1>8, <1>9 DEF WriteStep

(* A read's record stays typed when it gets another phase,                *)
LEMMA ReadPhaseType ==
    ASSUME NEW x \in ReadType, NEW p \in {"new", "choosing", "sent", "done", "aborted"}
    PROVE  [x EXCEPT !.phase = p] \in ReadType
BY DEF ReadType

(* ... its start,                                                          *)
LEMMA ReadStartType ==
    ASSUME NEW x \in ReadType, NEW r \in Replicas
    PROVE  [x EXCEPT !.start = r] \in ReadType
BY DEF ReadType

(* ... its offset,                                                         *)
LEMMA ReadOffsetType ==
    ASSUME NEW x \in ReadType, NEW n \in 0 .. ReplicaCount
    PROVE  [x EXCEPT !.offset = n] \in ReadType
BY DEF ReadType

(* ... its result,                                                         *)
LEMMA ReadResultType ==
    ASSUME NEW x \in ReadType, NEW s \in Statuses, NEW l \in Seq(ProductType(Origins))
    PROVE  [x EXCEPT !.status = s, !.listing = l] \in ReadType
BY DEF ReadType

(* ... and its histories.                                                  *)
LEMMA ReadHistoryType ==
    ASSUME NEW x \in ReadType, NEW W \in SUBSET Writes
    PROVE  [x EXCEPT !.acknowledged = W] \in ReadType
BY DEF ReadType

(* Ending a read keeps the types.                                          *)
LEMMA EndReadType ==
    ASSUME TypeOK, NEW d \in Reads, NEW s \in Statuses,
           NEW l \in Seq(ProductType(Origins)), EndRead(d, s, l)
    PROVE  TypeOK'
<1>. DEFINE x1 == [read[d] EXCEPT !.phase = "done"]
            x2 == [x1 EXCEPT !.start = 0]
            x3 == [x2 EXCEPT !.offset = 0]
            x4 == [x3 EXCEPT !.status = s, !.listing = l]
<1>1. x1 \in ReadType
  BY ReadPhaseType DEF TypeOK
<1>2. x2 \in ReadType
  <2>. HIDE DEF x1
  <2>. QED  BY <1>1, ReplicasNonEmpty, ReadStartType
<1>3. x3 \in ReadType
  <2>1. 0 \in 0 .. ReplicaCount
    BY ReplicaCountAssumption
  <2>. HIDE DEF x2
  <2>. QED  BY <1>2, <2>1, ReadOffsetType
<1>4. x4 \in ReadType
  <2>. HIDE DEF x3
  <2>. QED  BY <1>3, ReadResultType
<1>5. read' = [read EXCEPT ![d] = x4]
  BY DEF EndRead
<1>. HIDE DEF x4
<1>. QED
  BY <1>4, <1>5 DEF TypeOK, EndRead, writeVars, callVars, storeVars

(* The read-path steps keep the types, too. *)
LEMMA TypeReadStep ==
    ASSUME TypeOK, NEW d \in Reads, ReadStep(d)
    PROVE  TypeOK'
<1>. USE ReplicaCountAssumption
<1>0. /\ <<>> \in Seq(ProductType(Origins))
      /\ 502 \in Statuses /\ 503 \in Statuses /\ 200 \in Statuses
  BY DEF Statuses
<1>1. CASE StartRead(d)
  <2>. DEFINE x1 == [IdleRead EXCEPT !.phase = "choosing"]
              x2 == [x1 EXCEPT !.start = roundRobin']
              x3 == [x2 EXCEPT !.acknowledged = Acknowledged]
  <2>1. roundRobin' \in Replicas
    BY <1>1 DEF StartRead, TypeOK, Replicas
  <2>2. x2 \in ReadType
    BY <2>1, IdleReadType, ReadPhaseType, ReadStartType
  <2>3. Acknowledged \in SUBSET Writes
    BY DEF Acknowledged
  <2>4. x3 \in ReadType
    BY <2>2, <2>3, ReadHistoryType
  <2>5. read' = [read EXCEPT ![d] = x3]
    BY <1>1 DEF StartRead
  <2>. HIDE DEF x3
  <2>. QED
    BY <1>1, <2>1, <2>4, <2>5 DEF TypeOK, StartRead, writeVars, callVars, storeVars
<1>2. CASE SkipCandidate(d)
  <2>1. read[d] \in ReadType /\ read[d].offset + 1 \in 0 .. ReplicaCount
    BY <1>2 DEF TypeOK, SkipCandidate, ReadType
  <2>2. [read[d] EXCEPT !.offset = read[d].offset + 1] \in ReadType
    BY <2>1, ReadOffsetType
  <2>. QED
    BY <1>2, <2>2 DEF TypeOK, SkipCandidate, writeVars, callVars, storeVars
<1>3. CASE TakeCandidate(d)
  <2>1. [read[d] EXCEPT !.phase = "sent"] \in ReadType
    BY ReadPhaseType DEF TypeOK
  <2>. QED
    BY <1>3, <2>1 DEF TypeOK, TakeCandidate, writeVars, callVars, storeVars
<1>4. CASE NoCandidateLeft(d)
  BY <1>0, <1>4, EndReadType DEF NoCandidateLeft
<1>5. CASE ServeRead(d)
  <2>1. Candidate(d) \in Replicas
    BY DEF Candidate, TypeOK, ReadType, Replicas
  <2>2. catalogue[Candidate(d)] \in Seq(ProductType(Origins))
    BY <2>1 DEF TypeOK
  <2>. QED
    BY <1>0, <1>5, <2>2, EndReadType DEF ServeRead
<1>6. CASE ReadFails(d)
  <2>1. EndRead(d, 502, <<>>) \/ EndRead(d, 503, <<>>)
    BY <1>6 DEF ReadFails
  <2>. QED  BY <1>0, <2>1, EndReadType
<1>. QED
  BY <1>1, <1>2, <1>3, <1>4, <1>5, <1>6 DEF ReadStep

(* Every step keeps the types.                                             *)
LEMMA TypeStep == TypeOK /\ [Next]_vars => TypeOK'
<1>. SUFFICES ASSUME TypeOK, [Next]_vars PROVE TypeOK'
  OBVIOUS
<1>1. ASSUME NEW w \in Writes, WriteStep(w) PROVE TypeOK'
  BY <1>1, TypeWriteStep
<1>2. ASSUME NEW d \in Reads, ReadStep(d) PROVE TypeOK'
  BY <1>2, TypeReadStep
<1>3. ASSUME NEW r \in Replicas, AvailabilityChanges(r) PROVE TypeOK'
  BY <1>3 DEF TypeOK, AvailabilityChanges, writeVars, callVars, readVars, storeVars
<1>4. CASE GatewayRestarts
  <2>. DEFINE open == {w \in Writes : phase[w] = "writing"}
  <2>1. ForgetOutcomes(open)
    BY <1>4 DEF GatewayRestarts
  <2>2. [IdleRead EXCEPT !.phase = "aborted"] \in ReadType
    BY IdleReadType, ReadPhaseType
  <2>3. read' \in [Reads -> ReadType]
    BY <1>4, <2>2 DEF GatewayRestarts, TypeOK
  <2>4. /\ outcome' \in [Writes -> [Replicas -> Answers]]
        /\ collected' \in [Writes -> SUBSET Replicas]
        /\ first' \in [Writes -> Replicas]
    BY <2>1, ForgetType
  <2>. QED
    BY <1>4, <2>3, <2>4, FailedType, ReplicasNonEmpty
    DEF TypeOK, GatewayRestarts, WritePhases, CallStates, storeVars
<1>5. CASE UNCHANGED vars
  BY <1>5 DEF TypeOK, vars, writeVars, callVars, readVars, storeVars
<1>. QED
  BY <1>1, <1>2, <1>3, <1>4, <1>5 DEF Next

(* Every reachable state is well typed; no product's stock is negative.    *)
THEOREM TypeCorrect == Spec => []TypeOK
<1>1. Init => TypeOK
  BY TypeInit
<1>2. TypeOK /\ [Next]_vars => TypeOK'
  BY TypeStep
<1>. QED
  BY <1>1, <1>2, PTL DEF Spec

---------------------------------------------------------------------------
(***************************************************************************)
(* Safety.  The properties follow from two facts that are inductive        *)
(* together with TypeOK: what the gateway was told by a replica is true of *)
(* that replica (OutcomesAreTrue), and a replica's catalogue is exactly    *)
(* what the writes applied to it make of the seeds (Recorded).  Recorded   *)
(* is stated for any catalogue c, any set A of writes and any assignment q *)
(* of requests to writes, so that the lemma about it needs no state.       *)
(***************************************************************************)

SalesIn(q, i, A) == {w \in A : ~IsCreate(q[w]) /\ q[w].id = i}

StockIn(q, i, c) ==
    IF i <= SeedCount THEN InitialCatalogue[i].quantity ELSE q[c[i].origin].quantity

(* Products beyond the seeds come from applied writes; applied writes have *)
(* left their trace; stock is what there was less the sales.               *)
Recorded(q, c, A) ==
    /\ SeedCount <= Len(c)
    /\ \A i \in DOMAIN c : i > SeedCount => c[i].origin \in A
    /\ \A w \in A : IsCreate(q[w]) => ListsOnce(w, c)
    /\ \A w \in A : ~IsCreate(q[w]) => q[w].id \in DOMAIN c
    /\ \A i \in DOMAIN c :
          c[i].quantity + Cardinality(SalesIn(q, i, A)) = StockIn(q, i, c)

OutcomeIsTrue(w, r) ==
    /\ call[w][r] \in {"none", "sent"} => w \notin applied[r]
    /\ call[w][r] = "handled" /\ Succeeded(answer[w][r]) => w \in applied[r]
    /\ r \in collected[w] /\ Succeeded(outcome[w][r]) => w \in applied[r]
    /\ phase[w] = "new" => call[w][r] = "none"

OutcomesAreTrue == \A w \in Writes, r \in Replicas : OutcomeIsTrue(w, r)

AcknowledgedIsApplied ==
    \A w \in Acknowledged, r \in Replicas : w \in applied[r]

CataloguesAreRecorded ==
    \A r \in Replicas : Recorded(request, catalogue[r], applied[r])

IInv ==
    /\ TypeOK
    /\ OutcomesAreTrue
    /\ AcknowledgedIsApplied
    /\ CataloguesAreRecorded

(* The number of sales in a set of writes, and what one more write adds.   *)
LEMMA SalesCount ==
    ASSUME NEW q, NEW i, NEW A \in SUBSET Writes
    PROVE  IsFiniteSet(SalesIn(q, i, A)) /\ Cardinality(SalesIn(q, i, A)) \in Nat
<1>1. SalesIn(q, i, A) \subseteq Writes
  BY DEF SalesIn
<1>. QED  BY <1>1, WritesAssumption, FS_Subset, FS_CardinalityType

(* A sale that is not yet in a set of writes counts one more in it.        *)
LEMMA OneMoreSale ==
    ASSUME NEW q, NEW A \in SUBSET Writes, NEW w \in Writes, w \notin A, ~IsCreate(q[w])
    PROVE  Cardinality(SalesIn(q, q[w].id, A \cup {w}))
               = Cardinality(SalesIn(q, q[w].id, A)) + 1
<1>1. SalesIn(q, q[w].id, A \cup {w}) = SalesIn(q, q[w].id, A) \cup {w}
  BY DEF SalesIn
<1>2. w \notin SalesIn(q, q[w].id, A)
  BY DEF SalesIn
<1>3. IsFiniteSet(SalesIn(q, q[w].id, A))
  BY SalesCount
<1>. QED  BY <1>1, <1>2, <1>3, FS_AddElement

(* A creation, or the sale of another product, does not.                   *)
LEMMA NoMoreSales ==
    ASSUME NEW q, NEW A \in SUBSET Writes, NEW w \in Writes, NEW i,
           IsCreate(q[w]) \/ q[w].id # i
    PROVE  SalesIn(q, i, A \cup {w}) = SalesIn(q, i, A)
BY DEF SalesIn

(* The number of seeds is a natural number.                                *)
LEMMA SeedCountType == SeedCount \in Nat
BY SeedsAssumption DEF SeedCount

(* Creating a product that was not created before keeps a catalogue and    *)
(* the set of writes applied to it in step.                                *)
LEMMA RecordedCreate ==
    ASSUME NEW q \in [Writes -> RequestType], NEW c \in Seq(ProductType(Origins)),
           NEW A \in SUBSET Writes, NEW w \in Writes, w \notin A,
           Recorded(q, c, A), IsCreate(q[w])
    PROVE  Recorded(q, Create(q[w], w, c), A \cup {w})
<1>. DEFINE p == [origin |-> w, quantity |-> q[w].quantity]
            d == Create(q[w], w, c)
            n == Len(c) + 1
<1>0. /\ Len(c) \in Nat /\ DOMAIN c = 1 .. Len(c)
      /\ q[w].quantity \in Nat
  BY DEF RequestType
<1>1. /\ Len(d) = n
      /\ DOMAIN d = 1 .. n
      /\ \A i \in DOMAIN c : d[i] = c[i]
      /\ d[n] = p
  BY <1>0 DEF Create
<1>. HIDE DEF d
<1>2. SeedCount <= Len(c) /\ SeedCount <= Len(d) /\ n > SeedCount /\ n \in DOMAIN d
  BY <1>0, <1>1, SeedCountType DEF Recorded
<1>3. \A i \in DOMAIN d : i > SeedCount => d[i].origin \in A \cup {w}
  BY <1>0, <1>1 DEF Recorded
<1>4. ASSUME NEW v \in A \cup {w}, IsCreate(q[v]) PROVE ListsOnce(v, d)
  <2>1. CASE v = w
    <3>1. ASSUME NEW j \in DOMAIN d, j > SeedCount, d[j].origin = w PROVE j = n
      BY <1>0, <1>1, <3>1 DEF Recorded
    <3>. QED  BY <1>1, <1>2, <2>1, <3>1 DEF ListsOnce
  <2>2. CASE v \in A
    <3>1. PICK i \in DOMAIN c : /\ i > SeedCount
                                /\ c[i].origin = v
                                /\ \A j \in DOMAIN c :
                                      j > SeedCount /\ c[j].origin = v => j = i
      BY <1>4, <2>2 DEF Recorded, ListsOnce
    <3>2. ASSUME NEW j \in DOMAIN d, j > SeedCount, d[j].origin = v PROVE j = i
      BY <1>0, <1>1, <2>2, <3>1, <3>2
    <3>3. i \in DOMAIN d /\ d[i].origin = v
      BY <1>0, <1>1, <3>1
    <3>. QED  BY <3>1, <3>2, <3>3 DEF ListsOnce
  <2>. QED  BY <2>1, <2>2
<1>5. \A v \in A \cup {w} : ~IsCreate(q[v]) => q[v].id \in DOMAIN d
  BY <1>0, <1>1 DEF Recorded
<1>6. ASSUME NEW i \in DOMAIN d
      PROVE  d[i].quantity + Cardinality(SalesIn(q, i, A \cup {w})) = StockIn(q, i, d)
  <2>1. SalesIn(q, i, A \cup {w}) = SalesIn(q, i, A)
    BY NoMoreSales
  <2>2. CASE i \in DOMAIN c
    <3>1. d[i] = c[i] /\ StockIn(q, i, d) = StockIn(q, i, c)
      BY <1>1, <2>2 DEF StockIn
    <3>2. c[i].quantity + Cardinality(SalesIn(q, i, A)) = StockIn(q, i, c)
      BY <2>2 DEF Recorded
    <3>. QED  BY <2>1, <3>1, <3>2
  <2>3. CASE i = n
    <3>1. SalesIn(q, i, A) = {}
      BY <1>0, <2>3 DEF Recorded, SalesIn
    <3>2. StockIn(q, i, d) = q[w].quantity
      BY <1>1, <1>2, <2>3, <1>0, SeedCountType DEF StockIn
    <3>3. Cardinality(SalesIn(q, i, A \cup {w})) = 0
      BY <2>1, <3>1, FS_EmptySet
    <3>4. d[i].quantity = q[w].quantity
      BY <1>1, <2>3
    <3>. QED  BY <1>0, <3>2, <3>3, <3>4
  <2>. QED  BY <1>0, <1>1, <2>2, <2>3
<1>7. Recorded(q, d, A \cup {w})
  BY <1>2, <1>3, <1>4, <1>5, <1>6 DEF Recorded
<1>. QED  BY <1>7 DEF d

(* So does the sale of one unit.                                           *)
LEMMA RecordedSale ==
    ASSUME NEW q \in [Writes -> RequestType], NEW c \in Seq(ProductType(Origins)),
           NEW A \in SUBSET Writes, NEW w \in Writes, w \notin A,
           Recorded(q, c, A), ~IsCreate(q[w]), Accepts(q[w], c)
    PROVE  Recorded(q, DecrementStock(q[w], c), A \cup {w})
<1>. DEFINE k == q[w].id
            d == DecrementStock(q[w], c)
<1>0. k \in DOMAIN c /\ c[k] \in ProductType(Origins) /\ q[w] \in RequestType
  BY AcceptedSale
<1>1. /\ DOMAIN d = DOMAIN c /\ Len(d) = Len(c)
      /\ \A i \in DOMAIN c : d[i].origin = c[i].origin
      /\ \A i \in DOMAIN c : i # k => d[i].quantity = c[i].quantity
      /\ d[k].quantity = c[k].quantity - 1
  BY SoldUnit
<1>. HIDE DEF d
<1>2. ASSUME NEW v, ListsOnce(v, c) PROVE ListsOnce(v, d)
  BY <1>1, <1>2 DEF ListsOnce
<1>3. ASSUME NEW i \in DOMAIN d
      PROVE  d[i].quantity + Cardinality(SalesIn(q, i, A \cup {w})) = StockIn(q, i, d)
  <2>1. /\ StockIn(q, i, d) = StockIn(q, i, c)
        /\ c[i].quantity + Cardinality(SalesIn(q, i, A)) = StockIn(q, i, c)
        /\ Cardinality(SalesIn(q, i, A)) \in Nat
    BY <1>1, SalesCount DEF StockIn, Recorded
  <2>2. CASE i = k
    <3>1. Cardinality(SalesIn(q, i, A \cup {w})) = Cardinality(SalesIn(q, i, A)) + 1
      BY <2>2, OneMoreSale
    <3>2. c[i].quantity \in Nat
      BY <1>0, <2>2 DEF ProductType
    <3>3. d[i].quantity = c[i].quantity - 1
      BY <1>1, <2>2
    <3>. QED  BY <2>1, <3>1, <3>2, <3>3
  <2>3. CASE i # k
    BY <1>1, <2>1, <2>3, NoMoreSales
  <2>. QED  BY <2>2, <2>3
<1>4. /\ SeedCount <= Len(d)
      /\ \A i \in DOMAIN d : i > SeedCount => d[i].origin \in A \cup {w}
  BY <1>1 DEF Recorded
<1>5. \A v \in A \cup {w} : IsCreate(q[v]) => ListsOnce(v, d)
  BY <1>2 DEF Recorded
<1>6. \A v \in A \cup {w} : ~IsCreate(q[v]) => q[v].id \in DOMAIN d
  BY <1>0, <1>1 DEF Recorded
<1>7. Recorded(q, d, A \cup {w})
  BY <1>3, <1>4, <1>5, <1>6 DEF Recorded
<1>. QED  BY <1>7 DEF d

(* So every accepted write keeps them in step.                             *)
LEMMA RecordedEffect ==
    ASSUME NEW q \in [Writes -> RequestType], NEW c \in Seq(ProductType(Origins)),
           NEW A \in SUBSET Writes, NEW w \in Writes, w \notin A,
           Recorded(q, c, A), Accepts(q[w], c)
    PROVE  Recorded(q, Effect(q[w], w, c), A \cup {w})
<1>1. CASE IsCreate(q[w])
  BY <1>1, RecordedCreate DEF Effect
<1>2. CASE ~IsCreate(q[w])
  BY <1>2, RecordedSale DEF Effect
<1>. QED  BY <1>1, <1>2

---------------------------------------------------------------------------
(* The invariant is inductive. *)

(* The invariant holds at first.                                           *)
LEMMA InvInit == Init => IInv
<1>. SUFFICES ASSUME Init PROVE IInv
  OBVIOUS
<1>1. TypeOK
  BY TypeInit
<1>2. OutcomesAreTrue
  BY DEF Init, OutcomesAreTrue, OutcomeIsTrue
<1>3. AcknowledgedIsApplied
  BY DEF Init, AcknowledgedIsApplied, Acknowledged
<1>4. ASSUME NEW r \in Replicas PROVE Recorded(request, catalogue[r], applied[r])
  <2>1. catalogue[r] = InitialCatalogue /\ applied[r] = {}
    BY DEF Init
  <2>2. \A i : SalesIn(request, i, {}) = {}
    BY DEF SalesIn
  <2>3. DOMAIN InitialCatalogue = 1 .. SeedCount /\ SeedCount \in Nat
    BY SeedsAssumption DEF SeedCount
  <2>4. ASSUME NEW i \in DOMAIN InitialCatalogue
        PROVE  /\ ~(i > SeedCount)
               /\ InitialCatalogue[i].quantity + Cardinality(SalesIn(request, i, {}))
                      = StockIn(request, i, InitialCatalogue)
    <3>1. InitialCatalogue[i] \in ProductType(Seeds)
      BY SeedsAssumption
    <3>2. InitialCatalogue[i].quantity \in Nat
      BY <3>1 DEF ProductType
    <3>3. i \in Nat /\ i <= SeedCount
      BY <2>3
    <3>. QED  BY <2>2, <3>2, <3>3, SeedCountType, FS_EmptySet DEF StockIn
  <2>5. SeedCount <= Len(InitialCatalogue)
    BY <2>3 DEF SeedCount
  <2>6. Recorded(request, InitialCatalogue, {})
    BY <2>4, <2>5 DEF Recorded
  <2>. QED  BY <2>1, <2>6
<1>. QED
  BY <1>1, <1>2, <1>3, <1>4 DEF IInv, CataloguesAreRecorded

(* The requests are fixed from the start, and only ServeWrite touches a    *)
(* replica's catalogue and its history.                                    *)
LEMMA StoresChangeOnlyInServeWrite ==
    ASSUME [Next]_vars
    PROVE  /\ request' = request
           /\ \/ UNCHANGED storeVars
              \/ \E w \in Writes, r \in Replicas : ServeWrite(w, r)
<1>1. ASSUME NEW w \in Writes, WriteStep(w)
      PROVE  /\ request' = request
             /\ UNCHANGED storeVars \/ \E r \in Replicas : ServeWrite(w, r)
  <2>1. CASE AcceptWrite(w) \/ RefuseBody(w) \/ Reply(w)
    BY <2>1 DEF AcceptWrite, RefuseBody, Reply
  <2>2. ASSUME NEW r \in Replicas,
               SkipReplica(w, r) \/ SendCall(w, r) \/ ReceiveAnswer(w, r) \/ CallFails(w, r)
        PROVE  request' = request /\ UNCHANGED storeVars
    BY <2>2 DEF SkipReplica, SendCall, ReceiveAnswer, CallFails
  <2>3. ASSUME NEW r \in Replicas, RefuseWrite(w, r)
        PROVE  request' = request /\ UNCHANGED storeVars
    BY <2>3 DEF RefuseWrite
  <2>4. ASSUME NEW r \in Replicas, ServeWrite(w, r)
        PROVE  request' = request
    BY <2>4 DEF ServeWrite
  <2>. QED  BY <1>1, <2>1, <2>2, <2>3, <2>4 DEF WriteStep
<1>2. ASSUME NEW d \in Reads, ReadStep(d)
      PROVE  request' = request /\ UNCHANGED storeVars
  BY <1>2 DEF ReadStep, StartRead, SkipCandidate, TakeCandidate, NoCandidateLeft, ServeRead,
              ReadFails, EndRead
<1>3. ASSUME NEW r \in Replicas, AvailabilityChanges(r)
      PROVE  request' = request /\ UNCHANGED storeVars
  BY <1>3 DEF AvailabilityChanges
<1>4. CASE GatewayRestarts
  BY <1>4 DEF GatewayRestarts
<1>5. CASE UNCHANGED vars
  BY <1>5 DEF vars
<1>. QED  BY <1>1, <1>2, <1>3, <1>4, <1>5 DEF Next

(* Nothing is ever taken out of a replica's history. *)
LEMMA AppliedGrows ==
    ASSUME TypeOK, [Next]_vars, NEW r \in Replicas
    PROVE  applied[r] \subseteq applied'[r]
<1>1. CASE UNCHANGED storeVars
  BY <1>1 DEF storeVars
<1>2. ASSUME NEW w \in Writes, NEW s \in Replicas, ServeWrite(w, s)
      PROVE  applied[r] \subseteq applied'[r]
  BY <1>2 DEF ServeWrite, TypeOK
<1>. QED  BY <1>1, <1>2, StoresChangeOnlyInServeWrite

(* Every step keeps the outcomes true: a 2xx under way or delivered comes  *)
(* from a replica that has applied the write.                              *)
LEMMA OutcomesStep ==
    ASSUME IInv, [Next]_vars
    PROVE  OutcomesAreTrue'
<1>. SUFFICES ASSUME NEW v \in Writes, NEW s \in Replicas
              PROVE  OutcomeIsTrue(v, s)'
  BY DEF OutcomesAreTrue
<1>. USE DEF Succeeded
<1>0. /\ TypeOK
      /\ OutcomeIsTrue(v, s)
      /\ ~Succeeded(Failed)
  BY DEF IInv, OutcomesAreTrue, Failed, Refusal, Success
<1>1. ASSUME NEW w \in Writes, AcceptWrite(w) PROVE OutcomeIsTrue(v, s)'
  BY <1>0, <1>1 DEF TypeOK, OutcomeIsTrue, AcceptWrite, callVars, storeVars
<1>2. ASSUME NEW w \in Writes, RefuseBody(w) PROVE OutcomeIsTrue(v, s)'
  BY <1>0, <1>2 DEF TypeOK, OutcomeIsTrue, RefuseBody, callVars, storeVars
<1>3. ASSUME NEW w \in Writes, Reply(w) PROVE OutcomeIsTrue(v, s)'
  BY <1>0, <1>3 DEF TypeOK, OutcomeIsTrue, Reply, ForgetOutcomes, storeVars
<1>4. ASSUME NEW w \in Writes, NEW r \in Replicas, SkipReplica(w, r)
      PROVE  OutcomeIsTrue(v, s)'
  BY <1>0, <1>4 DEF TypeOK, OutcomeIsTrue, SkipReplica, Deliver, Waiting, storeVars
<1>5. ASSUME NEW w \in Writes, NEW r \in Replicas, SendCall(w, r)
      PROVE  OutcomeIsTrue(v, s)'
  BY <1>0, <1>5 DEF TypeOK, OutcomeIsTrue, SendCall, Waiting, storeVars
<1>6. ASSUME NEW w \in Writes, NEW r \in Replicas, ReceiveAnswer(w, r)
      PROVE  OutcomeIsTrue(v, s)'
  BY <1>0, <1>6 DEF TypeOK, OutcomeIsTrue, ReceiveAnswer, Deliver, Waiting, storeVars
<1>7. ASSUME NEW w \in Writes, NEW r \in Replicas, CallFails(w, r)
      PROVE  OutcomeIsTrue(v, s)'
  BY <1>0, <1>7 DEF TypeOK, OutcomeIsTrue, CallFails, Deliver, Waiting, storeVars
<1>8. ASSUME NEW w \in Writes, NEW r \in Replicas, ServeWrite(w, r)
      PROVE  OutcomeIsTrue(v, s)'
  BY <1>0, <1>8 DEF TypeOK, OutcomeIsTrue, ServeWrite, Respond, Waiting
<1>9. ASSUME NEW w \in Writes, NEW r \in Replicas, RefuseWrite(w, r)
      PROVE  OutcomeIsTrue(v, s)'
  <2>1. PICK status \in {503} \cup ({Status(request[w], catalogue[r])} \ Success) :
            Respond(w, r, Refusal(status))
    BY <1>9 DEF RefuseWrite
  <2>2. ~Succeeded(Refusal(status))
    BY DEF Refusal, Success
  <2>3. /\ call[w][r] = "sent"
        /\ UNCHANGED <<phase, collected, outcome, applied>>
    BY <1>9 DEF RefuseWrite, storeVars
  <2>4. CASE Waiting(w, r)
    <3>1. /\ call' = [call EXCEPT ![w][r] = "handled"]
          /\ answer' = [answer EXCEPT ![w][r] = Refusal(status)]
      BY <2>1, <2>4 DEF Respond
    <3>. QED  BY <1>0, <2>2, <2>3, <3>1 DEF TypeOK, OutcomeIsTrue
  <2>5. CASE ~Waiting(w, r)
    <3>1. call' = [call EXCEPT ![w][r] = "done"] /\ answer' = answer
      BY <2>1, <2>5 DEF Respond
    <3>. QED  BY <1>0, <2>3, <3>1 DEF TypeOK, OutcomeIsTrue
  <2>. QED  BY <2>4, <2>5
<1>10. CASE GatewayRestarts
  BY <1>0, <1>10 DEF TypeOK, OutcomeIsTrue, GatewayRestarts, ForgetOutcomes, storeVars
<1>11. CASE UNCHANGED <<writeVars, applied>>
  BY <1>0, <1>11 DEF OutcomeIsTrue, writeVars, callVars
<1>12. ASSUME NEW d \in Reads, ReadStep(d) PROVE UNCHANGED <<writeVars, applied>>
  BY <1>12 DEF ReadStep, StartRead, SkipCandidate, TakeCandidate, NoCandidateLeft, ServeRead,
               ReadFails, EndRead, storeVars
<1>13. ASSUME NEW r \in Replicas, AvailabilityChanges(r) PROVE UNCHANGED <<writeVars, applied>>
  BY <1>13 DEF AvailabilityChanges, storeVars
<1>14. CASE UNCHANGED vars
  BY <1>11, <1>14 DEF vars, storeVars
<1>. QED
  BY <1>1, <1>2, <1>3, <1>4, <1>5, <1>6, <1>7, <1>8, <1>9, <1>10, <1>11, <1>12, <1>13, <1>14
  DEF Next, WriteStep

(* A write that was acknowledged before stays acknowledged, and one that   *)
(* is acknowledged now has a success from every replica.                   *)
LEMMA AcknowledgedStep ==
    ASSUME IInv, [Next]_vars
    PROVE  AcknowledgedIsApplied'
<1>. SUFFICES ASSUME NEW v \in Acknowledged', NEW s \in Replicas
              PROVE  v \in applied'[s]
  BY DEF AcknowledgedIsApplied
<1>0. TypeOK /\ OutcomesAreTrue /\ AcknowledgedIsApplied
  BY DEF IInv
<1>1. applied[s] \subseteq applied'[s]
  BY <1>0, AppliedGrows
<1>2. v \in Writes /\ phase'[v] = "answered" /\ Succeeded(reply'[v])
  BY DEF Acknowledged, Succeeded
<1>3. v \in Acknowledged \/ v \in applied[s] => v \in applied'[s]
  BY <1>0, <1>1 DEF AcknowledgedIsApplied
<1>4. ASSUME NEW w \in Writes, Reply(w) PROVE v \in Acknowledged \/ v \in applied[s]
  <2>1. CASE v # w
    BY <1>0, <1>2, <1>4, <2>1 DEF Reply, TypeOK, Acknowledged
  <2>2. CASE v = w
    <3>1. reply'[w] = ReplyTo(w)
      BY <1>0, <1>4 DEF Reply, TypeOK
    <3>2. ~Succeeded(Refusal(500))
      BY DEF Succeeded, Refusal, Success
    <3>3. ~AnyOutcomeFailed(w)
      BY <1>2, <2>2, <3>1, <3>2 DEF ReplyTo
    <3>4. Succeeded(outcome[w][s]) /\ s \in collected[w]
      BY <1>4, <3>3 DEF AnyOutcomeFailed, Reply
    <3>. QED  BY <1>0, <2>2, <3>4 DEF OutcomesAreTrue, OutcomeIsTrue
  <2>. QED  BY <2>1, <2>2
<1>5. ASSUME NEW w \in Writes, RefuseBody(w) PROVE v \in Acknowledged
  <2>1. v # w
    BY <1>0, <1>2, <1>5 DEF RefuseBody, TypeOK, Succeeded, Refusal, Success
  <2>. QED  BY <1>0, <1>2, <1>5, <2>1 DEF RefuseBody, TypeOK, Acknowledged
<1>6. ASSUME NEW w \in Writes, AcceptWrite(w) PROVE v \in Acknowledged
  BY <1>0, <1>2, <1>6 DEF AcceptWrite, TypeOK, Acknowledged
<1>7. ASSUME GatewayRestarts PROVE v \in Acknowledged
  BY <1>0, <1>2, <1>7 DEF GatewayRestarts, TypeOK, Acknowledged
<1>8. ASSUME UNCHANGED <<phase, reply>> PROVE v \in Acknowledged
  BY <1>2, <1>8 DEF Acknowledged
<1>9. ASSUME NEW w \in Writes, NEW r \in Replicas,
             \/ SkipReplica(w, r) \/ SendCall(w, r) \/ ReceiveAnswer(w, r) \/ CallFails(w, r)
             \/ ServeWrite(w, r) \/ RefuseWrite(w, r)
      PROVE  UNCHANGED <<phase, reply>>
  BY <1>9 DEF SkipReplica, SendCall, ReceiveAnswer, CallFails, ServeWrite, RefuseWrite
<1>10. ASSUME NEW d \in Reads, ReadStep(d) PROVE UNCHANGED <<phase, reply>>
  BY <1>10 DEF ReadStep, StartRead, SkipCandidate, TakeCandidate, NoCandidateLeft, ServeRead,
               ReadFails, EndRead, writeVars
<1>11. ASSUME NEW r \in Replicas, AvailabilityChanges(r) PROVE UNCHANGED <<phase, reply>>
  BY <1>11 DEF AvailabilityChanges, writeVars
<1>12. ASSUME UNCHANGED vars PROVE UNCHANGED <<phase, reply>>
  BY <1>12 DEF vars, writeVars
<1>13. ASSUME NEW w \in Writes, WriteStep(w) PROVE v \in Acknowledged \/ v \in applied[s]
  BY <1>4, <1>5, <1>6, <1>8, <1>9, <1>13 DEF WriteStep
<1>. QED
  BY <1>3, <1>7, <1>8, <1>10, <1>11, <1>12, <1>13 DEF Next

(* Every step keeps each catalogue in step with its history.               *)
LEMMA RecordedStep ==
    ASSUME IInv, [Next]_vars
    PROVE  CataloguesAreRecorded'
<1>. SUFFICES ASSUME NEW s \in Replicas
              PROVE  Recorded(request, catalogue'[s], applied'[s])
  BY StoresChangeOnlyInServeWrite DEF CataloguesAreRecorded
<1>0. TypeOK /\ OutcomesAreTrue /\ Recorded(request, catalogue[s], applied[s])
  BY DEF IInv, CataloguesAreRecorded
<1>1. CASE UNCHANGED storeVars
  BY <1>0, <1>1 DEF storeVars
<1>2. ASSUME NEW w \in Writes, NEW r \in Replicas, ServeWrite(w, r)
      PROVE  Recorded(request, catalogue'[s], applied'[s])
  <2>1. CASE r # s
    BY <1>0, <1>2, <2>1 DEF ServeWrite, TypeOK
  <2>2. CASE r = s
    <3>1. /\ catalogue'[s] = Effect(request[w], w, catalogue[s])
          /\ applied'[s] = applied[s] \cup {w}
          /\ Accepts(request[w], catalogue[s])
      BY <1>0, <1>2, <2>2 DEF ServeWrite, TypeOK
    <3>2. w \notin applied[s]
      BY <1>0, <1>2, <2>2 DEF ServeWrite, OutcomesAreTrue, OutcomeIsTrue
    <3>3. /\ request \in [Writes -> RequestType]
          /\ catalogue[s] \in Seq(ProductType(Origins))
          /\ applied[s] \in SUBSET Writes
      BY <1>0, RequestsAssumption DEF TypeOK
    <3>4. Recorded(request, Effect(request[w], w, catalogue[s]), applied[s] \cup {w})
      BY <1>0, <3>1, <3>2, <3>3, RecordedEffect
    <3>. QED  BY <3>1, <3>4
  <2>. QED  BY <2>1, <2>2
<1>. QED  BY <1>1, <1>2, StoresChangeOnlyInServeWrite

(* Every step keeps the invariant.                                         *)
LEMMA InvStep == IInv /\ [Next]_vars => IInv'
<1>. SUFFICES ASSUME IInv, [Next]_vars PROVE IInv'
  OBVIOUS
<1>1. TypeOK'
  BY TypeStep DEF IInv
<1>. QED
  BY <1>1, OutcomesStep, AcknowledgedStep, RecordedStep DEF IInv

(* The invariant holds in every reachable state.                           *)
LEMMA Invariance == Spec => []IInv
<1>1. Init => IInv
  BY InvInit
<1>2. IInv /\ [Next]_vars => IInv'
  BY InvStep
<1>. QED  BY <1>1, <1>2, PTL DEF Spec

---------------------------------------------------------------------------
(* The safety properties. *)

(* HandleWrite acknowledges a creation only when every replica has the new *)
(* product, and no replica ever has it twice.                              *)
LEMMA CreationsFollow == IInv => AcknowledgedCreationsAreEverywhere
<1>. SUFFICES ASSUME IInv, NEW w \in Acknowledged, NEW r \in Replicas, IsCreate(request[w])
              PROVE  ListsOnce(w, catalogue[r])
  BY DEF AcknowledgedCreationsAreEverywhere
<1>1. w \in applied[r] /\ Recorded(request, catalogue[r], applied[r])
  BY DEF IInv, AcknowledgedIsApplied, CataloguesAreRecorded
<1>. QED  BY <1>1 DEF Recorded

(* An acknowledged creation is listed at every replica, once.              *)
THEOREM AcknowledgedCreations == Spec => []AcknowledgedCreationsAreEverywhere
BY Invariance, CreationsFollow, PTL

(* Between the acknowledged and the attempted sales of a product lies what *)
(* each replica has deducted.                                              *)
LEMMA SalesBetween ==
    ASSUME IInv, NEW r \in Replicas, NEW i \in DOMAIN catalogue[r]
    PROVE  LET missing == InitialStock(i, catalogue[r]) - catalogue[r][i].quantity IN
           /\ Cardinality(SalesOf(i, Acknowledged)) <= missing
           /\ missing <= Cardinality(SalesOf(i, Accepted))
<1>. DEFINE A == SalesIn(request, i, applied[r])
<1>0. TypeOK /\ OutcomesAreTrue /\ Recorded(request, catalogue[r], applied[r])
  BY DEF IInv, CataloguesAreRecorded
<1>1. /\ IsFiniteSet(A) /\ Cardinality(A) \in Nat
      /\ applied[r] \subseteq Writes
  BY <1>0, SalesCount DEF TypeOK
<1>2. SalesOf(i, Acknowledged) \in SUBSET A
  BY DEF IInv, AcknowledgedIsApplied, SalesOf, SalesIn
<1>3. A \in SUBSET SalesOf(i, Accepted)
  <2>1. ASSUME NEW w \in applied[r] PROVE w \in Accepted
    BY <1>0, <1>1 DEF OutcomesAreTrue, OutcomeIsTrue, Accepted
  <2>. QED  BY <2>1 DEF SalesOf, SalesIn
<1>4. IsFiniteSet(SalesOf(i, Accepted))
  BY WritesAssumption, FS_Subset DEF SalesOf, Accepted
<1>5. /\ Cardinality(SalesOf(i, Acknowledged)) <= Cardinality(A)
      /\ Cardinality(A) <= Cardinality(SalesOf(i, Accepted))
  BY <1>1, <1>2, <1>3, <1>4, FS_Subset
<1>6. catalogue[r][i].quantity \in Nat
  <2>1. catalogue[r] \in Seq(ProductType(Origins))
    BY <1>0 DEF TypeOK
  <2>2. catalogue[r][i] \in ProductType(Origins)
    BY <2>1
  <2>. QED  BY <2>2 DEF ProductType
<1>7. InitialStock(i, catalogue[r]) = catalogue[r][i].quantity + Cardinality(A)
  BY <1>0 DEF Recorded, StockIn, InitialStock
<1>8. Cardinality(A) = InitialStock(i, catalogue[r]) - catalogue[r][i].quantity
  BY <1>1, <1>6, <1>7
<1>. QED  BY <1>5, <1>8

(* No acknowledged sale is missing from a replica's stock, nothing is      *)
(* deducted that was not asked for, and no more is sold than there was.    *)
THEOREM StockAccounts == Spec => []StockAccountsForSales
<1>1. IInv => StockAccountsForSales
  BY SalesBetween DEF StockAccountsForSales
<1>. QED  BY <1>1, Invariance, PTL

---------------------------------------------------------------------------
(* Reads. *)

(* A listing that shows a set of writes. *)
Shows(q, listing, W) ==
    /\ \A w \in W : IsCreate(q[w]) => ListsOnce(w, listing)
    /\ \A i \in 1 .. SeedCount :
          Cardinality(SalesIn(q, i, W)) <= InitialCatalogue[i].quantity - listing[i].quantity

ReadIsTrue(d) ==
    /\ read[d].acknowledged \subseteq Acknowledged
    /\ read[d].phase = "done" /\ read[d].status = 200
          => Shows(request, read[d].listing, read[d].acknowledged)

RInv == \A d \in Reads : ReadIsTrue(d)

(* What was acknowledged stays acknowledged.                               *)
LEMMA AcknowledgedGrows ==
    ASSUME TypeOK, [Next]_vars
    PROVE  Acknowledged \subseteq Acknowledged'
<1>. SUFFICES ASSUME NEW v \in Acknowledged PROVE v \in Acknowledged'
  OBVIOUS
<1>0. v \in Writes /\ phase[v] = "answered" /\ Succeeded(reply[v])
  BY DEF Acknowledged
<1>1. ASSUME NEW w \in Writes, AcceptWrite(w) \/ RefuseBody(w) \/ Reply(w)
      PROVE  v \in Acknowledged'
  <2>1. /\ phase[w] # "answered"
        /\ \A u \in Writes : u # w => phase'[u] = phase[u] /\ reply'[u] = reply[u]
    BY <1>1 DEF AcceptWrite, RefuseBody, Reply, TypeOK
  <2>. QED  BY <1>0, <2>1 DEF Acknowledged, Succeeded
<1>2. CASE GatewayRestarts
  BY <1>0, <1>2 DEF GatewayRestarts, Acknowledged, Succeeded
<1>3. ASSUME UNCHANGED <<phase, reply>> PROVE v \in Acknowledged'
  BY <1>0, <1>3 DEF Acknowledged, Succeeded
<1>4. ASSUME NEW w \in Writes, NEW r \in Replicas,
             \/ SkipReplica(w, r) \/ SendCall(w, r) \/ ReceiveAnswer(w, r) \/ CallFails(w, r)
             \/ ServeWrite(w, r) \/ RefuseWrite(w, r)
      PROVE  UNCHANGED <<phase, reply>>
  BY <1>4 DEF SkipReplica, SendCall, ReceiveAnswer, CallFails, ServeWrite, RefuseWrite
<1>5. ASSUME NEW d \in Reads, ReadStep(d) PROVE UNCHANGED <<phase, reply>>
  BY <1>5 DEF ReadStep, StartRead, SkipCandidate, TakeCandidate, NoCandidateLeft, ServeRead,
              ReadFails, EndRead, writeVars
<1>6. ASSUME NEW r \in Replicas, AvailabilityChanges(r) PROVE UNCHANGED <<phase, reply>>
  BY <1>6 DEF AvailabilityChanges, writeVars
<1>7. ASSUME UNCHANGED vars PROVE UNCHANGED <<phase, reply>>
  BY <1>7 DEF vars, writeVars
<1>8. ASSUME NEW w \in Writes, WriteStep(w) PROVE v \in Acknowledged'
  BY <1>1, <1>3, <1>4, <1>8 DEF WriteStep
<1>. QED  BY <1>2, <1>3, <1>5, <1>6, <1>7, <1>8 DEF Next

(* What a replica holds shows every acknowledged write. *)
LEMMA ReplicaShowsAcknowledged ==
    ASSUME IInv, NEW r \in Replicas, NEW W, W \subseteq Acknowledged
    PROVE  Shows(request, catalogue[r], W)
<1>0. TypeOK /\ Recorded(request, catalogue[r], applied[r])
  BY DEF IInv, CataloguesAreRecorded
<1>1. \A w \in W : IsCreate(request[w]) => ListsOnce(w, catalogue[r])
  BY CreationsFollow DEF AcknowledgedCreationsAreEverywhere
<1>2. ASSUME NEW i \in 1 .. SeedCount
      PROVE  Cardinality(SalesIn(request, i, W))
                 <= InitialCatalogue[i].quantity - catalogue[r][i].quantity
  <2>1. catalogue[r] \in Seq(ProductType(Origins)) /\ SeedCount <= Len(catalogue[r])
    BY <1>0 DEF TypeOK, Recorded
  <2>2. i \in DOMAIN catalogue[r] /\ i <= SeedCount
    BY <2>1, SeedCountType
  <2>3. InitialStock(i, catalogue[r]) = InitialCatalogue[i].quantity
    BY <2>2 DEF InitialStock
  <2>4. Cardinality(SalesOf(i, Acknowledged))
            <= InitialCatalogue[i].quantity - catalogue[r][i].quantity
    BY <2>2, <2>3, SalesBetween
  <2>5. SalesIn(request, i, W) \in SUBSET SalesOf(i, Acknowledged)
    BY DEF SalesIn, SalesOf
  <2>6. IsFiniteSet(SalesOf(i, Acknowledged))
    BY WritesAssumption, FS_Subset DEF SalesOf, Acknowledged
  <2>7. /\ Cardinality(SalesIn(request, i, W)) <= Cardinality(SalesOf(i, Acknowledged))
        /\ Cardinality(SalesIn(request, i, W)) \in Nat
        /\ Cardinality(SalesOf(i, Acknowledged)) \in Nat
    BY <2>5, <2>6, FS_Subset, FS_CardinalityType
  <2>8. InitialCatalogue[i].quantity \in Nat /\ catalogue[r][i].quantity \in Nat
    <3>1. catalogue[r][i] \in ProductType(Origins)
      BY <2>1, <2>2
    <3>2. i \in DOMAIN InitialCatalogue
      BY SeedsAssumption, SeedCountType DEF SeedCount
    <3>3. InitialCatalogue[i] \in ProductType(Seeds)
      BY <3>2, SeedsAssumption
    <3>. QED  BY <3>1, <3>3 DEF ProductType
  <2>. QED  BY <2>4, <2>7, <2>8
<1>. QED  BY <1>1, <1>2 DEF Shows

(* What EndRead changes of a read's record, and what it keeps. *)
LEMMA EndReadFields ==
    ASSUME NEW x \in ReadType, NEW s, NEW l
    PROVE  LET y == [x EXCEPT !.phase = "done", !.start = 0, !.offset = 0,
                              !.status = s, !.listing = l] IN
           /\ y.phase = "done" /\ y.status = s /\ y.listing = l
           /\ y.acknowledged = x.acknowledged
BY DEF ReadType

(* Every step keeps the truth of every read.                               *)
LEMMA ReadsInvStep ==
    ASSUME IInv, RInv, [Next]_vars
    PROVE  RInv'
<1>. SUFFICES ASSUME NEW e \in Reads PROVE ReadIsTrue(e)'
  BY DEF RInv
<1>0. /\ TypeOK /\ ReadIsTrue(e) /\ read[e] \in ReadType
      /\ read \in [Reads -> ReadType]
      /\ Acknowledged \subseteq Acknowledged'
      /\ request' = request
  BY AcknowledgedGrows, StoresChangeOnlyInServeWrite DEF IInv, RInv, TypeOK
<1>1. ASSUME read'[e] = read[e] PROVE ReadIsTrue(e)'
  BY <1>0, <1>1 DEF ReadIsTrue
<1>2. ASSUME NEW d \in Reads, ReadStep(d), d # e PROVE read'[e] = read[e]
  BY <1>0, <1>2 DEF ReadStep, StartRead, SkipCandidate, TakeCandidate, NoCandidateLeft,
                    ServeRead, ReadFails, EndRead
<1>3. ASSUME StartRead(e) PROVE ReadIsTrue(e)'
  <2>1. read'[e] = [IdleRead EXCEPT !.phase = "choosing", !.start = roundRobin',
                       !.acknowledged = Acknowledged]
    BY <1>0, <1>3 DEF StartRead
  <2>2. read'[e].phase = "choosing" /\ read'[e].acknowledged = Acknowledged
    BY <2>1 DEF IdleRead
  <2>. QED  BY <1>0, <2>2 DEF ReadIsTrue
<1>4. ASSUME SkipCandidate(e) \/ TakeCandidate(e) PROVE ReadIsTrue(e)'
  <2>1. \/ read'[e] = [read[e] EXCEPT !.offset = read[e].offset + 1]
        \/ read'[e] = [read[e] EXCEPT !.phase = "sent"]
    BY <1>0, <1>4 DEF SkipCandidate, TakeCandidate
  <2>2. read[e].phase = "choosing"
    BY <1>4 DEF SkipCandidate, TakeCandidate
  <2>3. read'[e].acknowledged = read[e].acknowledged
    BY <1>0, <2>1 DEF ReadType
  <2>4. read'[e].phase # "done"
    BY <1>0, <2>1, <2>2 DEF ReadType
  <2>. QED  BY <1>0, <2>3, <2>4 DEF ReadIsTrue
<1>5. ASSUME NEW s, NEW l, EndRead(e, s, l),
             s = 200 => Shows(request, l, read[e].acknowledged)
      PROVE  ReadIsTrue(e)'
  <2>. DEFINE x == read[e]
              y == [x EXCEPT !.phase = "done", !.start = 0, !.offset = 0,
                             !.status = s, !.listing = l]
  <2>1. read'[e] = y
    BY <1>0, <1>5 DEF EndRead
  <2>2. y.status = s /\ y.listing = l /\ y.acknowledged = read[e].acknowledged
    <3>1. x \in ReadType
      BY <1>0
    <3>. HIDE DEF x
    <3>2. y.status = s /\ y.listing = l /\ y.acknowledged = x.acknowledged
      BY <3>1, EndReadFields
    <3>. QED  BY <3>2 DEF x
  <2>3. /\ read'[e].status = s /\ read'[e].listing = l
        /\ read'[e].acknowledged = read[e].acknowledged
    BY <2>1, <2>2
  <2>. QED  BY <1>0, <1>5, <2>3 DEF ReadIsTrue
<1>6. ASSUME ServeRead(e) PROVE ReadIsTrue(e)'
  <2>1. Candidate(e) \in Replicas
    BY <1>0, ReplicaCountAssumption DEF Candidate, ReadType, Replicas
  <2>2. Shows(request, catalogue[Candidate(e)], read[e].acknowledged)
    BY <1>0, <2>1, ReplicaShowsAcknowledged DEF ReadIsTrue
  <2>. QED  BY <1>5, <1>6, <2>2 DEF ServeRead
<1>7. ASSUME NoCandidateLeft(e) \/ ReadFails(e) PROVE ReadIsTrue(e)'
  <2>1. EndRead(e, 502, <<>>) \/ EndRead(e, 503, <<>>)
    BY <1>7 DEF NoCandidateLeft, ReadFails
  <2>. QED  BY <1>5, <2>1
<1>8. ASSUME GatewayRestarts PROVE ReadIsTrue(e)'
  <2>1. read'[e] = IF read[e].phase \in {"choosing", "sent"}
                   THEN [IdleRead EXCEPT !.phase = "aborted"] ELSE read[e]
    BY <1>8 DEF GatewayRestarts
  <2>2. CASE read'[e] = [IdleRead EXCEPT !.phase = "aborted"]
    <3>1. read'[e].phase = "aborted" /\ read'[e].acknowledged = {}
      BY <2>2 DEF IdleRead
    <3>. QED  BY <3>1 DEF ReadIsTrue
  <2>. QED  BY <1>1, <2>1, <2>2
<1>9. ASSUME NEW w \in Writes, WriteStep(w) PROVE read' = read
  BY <1>9 DEF WriteStep, AcceptWrite, RefuseBody, Reply, SkipReplica, SendCall, ReceiveAnswer,
              CallFails, ServeWrite, RefuseWrite, readVars
<1>10. ASSUME NEW r \in Replicas, AvailabilityChanges(r) PROVE read' = read
  BY <1>10 DEF AvailabilityChanges, readVars
<1>11. ASSUME UNCHANGED vars PROVE read' = read
  BY <1>11 DEF vars, readVars
<1>12. ASSUME NEW d \in Reads, ReadStep(d) PROVE ReadIsTrue(e)'
  <2>1. CASE d # e
    BY <1>1, <1>2, <1>12, <2>1
  <2>2. CASE d = e
    BY <1>3, <1>4, <1>6, <1>7, <1>12, <2>2 DEF ReadStep
  <2>. QED  BY <2>1, <2>2
<1>. QED  BY <1>1, <1>8, <1>9, <1>10, <1>11, <1>12 DEF Next

(* From whichever replica HandleRead gets its answer, it shows every write *)
(* that HandleWrite had acknowledged when the read began.                  *)
THEOREM ReadsShowAcknowledged == Spec => []ReadsShowAcknowledgedWrites
<1>1. Init => IInv /\ RInv
  <2>1. ASSUME Init PROVE RInv
    BY <2>1 DEF Init, RInv, ReadIsTrue, IdleRead
  <2>. QED  BY <2>1, InvInit
<1>2. (IInv /\ RInv) /\ [Next]_vars => (IInv /\ RInv)'
  BY InvStep, ReadsInvStep
<1>3. RInv => ReadsShowAcknowledgedWrites
  BY DEF RInv, ReadIsTrue, ReadsShowAcknowledgedWrites, Answered, Shows, SalesOf, SalesIn
<1>. QED  BY <1>1, <1>2, <1>3, PTL DEF Spec
---------------------------------------------------------------------------
(* Writes that come one at a time *)

(* Replica s has missed a write that replica r has: no call of it is left  *)
(* that could still reach s.                                               *)
Parted(w, r, s) == w \in applied[r] /\ w \notin applied[s] /\ s \notin MayReach(w)

(* Replica r has carried out one write more than s.                        *)
Ahead(w, r, s) ==
    /\ w \notin applied[s]
    /\ applied[r] = applied[s] \cup {w}
    /\ catalogue[r] = Effect(request[w], w, catalogue[s])

Alike(r, s) == applied[r] = applied[s] /\ catalogue[r] = catalogue[s]

InStep(r, s) == Alike(r, s) \/ \E w \in Writes : Ahead(w, r, s) \/ Ahead(w, s, r)

OneAtATime == \A v, w \in Writes : Active(v) /\ Active(w) => v = w

SomeMissed == \E w \in Writes : \E r, s \in Replicas : Parted(w, r, s)

(* The property says nothing of a write that only some replicas have       *)
(* carried out so far; the invariant does.  While writes come one at a     *)
(* time, either some replica has missed a write for good, or any two are   *)
(* at most the one write apart that is under way.                          *)
SerialInv ==
    ~overlapped => OneAtATime /\ (SomeMissed \/ \A r, s \in Replicas : InStep(r, s))

(* A write under way calls ever fewer replicas, and ends; only AcceptWrite *)
(* begins one.                                                             *)
LEMMA CallsRunOut ==
    ASSUME TypeOK, [Next]_vars, NEW v \in Writes, NEW s \in Replicas, ~AcceptWrite(v)
    PROVE  /\ phase'[v] = "writing" => phase[v] = "writing"
           /\ call'[v][s] = "sent" => call[v][s] = "sent" \/ phase[v] = "writing"
           /\ s \in MayReach(v)' => s \in MayReach(v)
<1>. DEFINE Goal == /\ phase'[v] = "writing" => phase[v] = "writing"
                    /\ call'[v][s] = "sent" => call[v][s] = "sent" \/ phase[v] = "writing"
                    /\ s \in MayReach(v)' => s \in MayReach(v)
<1>1. ASSUME phase'[v] = "writing" => phase[v] = "writing",
             \/ call'[v][s] = call[v][s]
             \/ call'[v][s] \in {"handled", "done"}
             \/ call'[v][s] = "sent" /\ call[v][s] = "none" /\ phase[v] = "writing"
      PROVE  Goal
  BY <1>1 DEF MayReach
<1>2. ASSUME NEW w \in Writes, AcceptWrite(w) PROVE Goal
  <2>1. v # w
    BY <1>2
  <2>2. phase'[v] = phase[v] /\ call' = call
    BY <1>2, <2>1 DEF AcceptWrite, callVars, TypeOK
  <2>. QED  BY <1>1, <2>2
<1>3. ASSUME NEW w \in Writes, RefuseBody(w) \/ Reply(w) PROVE Goal
  <2>1. phase' = [phase EXCEPT ![w] = "answered"] /\ call' = call
    BY <1>3 DEF RefuseBody, Reply, callVars
  <2>2. phase'[v] \in {phase[v], "answered"}
    BY <2>1 DEF TypeOK
  <2>. QED  BY <1>1, <2>1, <2>2
<1>4. ASSUME NEW w \in Writes, NEW r \in Replicas, SendCall(w, r) PROVE Goal
  <2>1. /\ call' = [call EXCEPT ![w][r] = "sent"] /\ UNCHANGED phase
        /\ call[w][r] = "none" /\ phase[w] = "writing"
    BY <1>4 DEF SendCall, Waiting
  <2>2. call'[v][s] = IF v = w /\ s = r THEN "sent" ELSE call[v][s]
    BY <2>1 DEF TypeOK
  <2>. QED  BY <1>1, <2>1, <2>2
<1>5. ASSUME NEW w \in Writes, NEW r \in Replicas,
             \/ SkipReplica(w, r) \/ ReceiveAnswer(w, r) \/ CallFails(w, r)
             \/ ServeWrite(w, r) \/ RefuseWrite(w, r)
      PROVE  Goal
  <2>1. \/ UNCHANGED call
        \/ \E to \in {"handled", "done"} : call' = [call EXCEPT ![w][r] = to]
    BY <1>5 DEF SkipReplica, ReceiveAnswer, CallFails, ServeWrite, RefuseWrite, Respond
  <2>2. UNCHANGED phase
    BY <1>5 DEF SkipReplica, ReceiveAnswer, CallFails, ServeWrite, RefuseWrite
  <2>3. call'[v][s] = call[v][s] \/ call'[v][s] \in {"handled", "done"}
    <3>1. ASSUME NEW to \in {"handled", "done"}, call' = [call EXCEPT ![w][r] = to]
          PROVE  call'[v][s] = IF v = w /\ s = r THEN to ELSE call[v][s]
      BY <3>1 DEF TypeOK
    <3>. QED  BY <2>1, <3>1
  <2>. QED  BY <1>1, <2>2, <2>3
<1>6. CASE GatewayRestarts
  <2>1. /\ phase'[v] = IF phase[v] = "writing" THEN "aborted" ELSE phase[v]
        /\ call'[v][s] = IF phase[v] = "writing" /\ call[v][s] # "sent"
                         THEN "done" ELSE call[v][s]
    BY <1>6 DEF GatewayRestarts
  <2>. QED  BY <1>1, <2>1
<1>7. CASE UNCHANGED <<phase, call>>
  BY <1>1, <1>7
<1>8. ASSUME NEW d \in Reads, ReadStep(d) PROVE UNCHANGED <<phase, call>>
  BY <1>8 DEF ReadStep, StartRead, SkipCandidate, TakeCandidate, NoCandidateLeft, ServeRead,
              ReadFails, EndRead, writeVars, callVars
<1>9. ASSUME NEW r \in Replicas, AvailabilityChanges(r) PROVE UNCHANGED <<phase, call>>
  BY <1>9 DEF AvailabilityChanges, writeVars, callVars
<1>10. CASE UNCHANGED vars
  BY <1>7, <1>10 DEF vars, writeVars, callVars
<1>. QED
  BY <1>2, <1>3, <1>4, <1>5, <1>6, <1>7, <1>8, <1>9, <1>10 DEF Next, WriteStep

LEMMA StaysQuiet ==
    ASSUME TypeOK, [Next]_vars, NEW v \in Writes, ~AcceptWrite(v), Active(v)'
    PROVE  Active(v)
<1>1. CASE phase'[v] = "writing"
  BY <1>1, CallsRunOut, ReplicasNonEmpty DEF Active
<1>2. ASSUME NEW s \in Replicas, call'[v][s] = "sent" PROVE Active(v)
  BY <1>2, CallsRunOut DEF Active
<1>. QED  BY <1>1, <1>2 DEF Active

(* The history remembers that writes have overlapped.                      *)
LEMMA OverlapRemembered ==
    ASSUME [Next]_vars, ~overlapped'
    PROVE  /\ ~overlapped
           /\ \A w \in Writes : AcceptWrite(w) => \A v \in Writes : ~Active(v)
<1>1. ASSUME NEW w \in Writes, WriteStep(w), ~AcceptWrite(w) PROVE overlapped' = overlapped
  BY <1>1 DEF WriteStep, RefuseBody, Reply, SkipReplica, SendCall, ReceiveAnswer, CallFails,
              ServeWrite, RefuseWrite
<1>2. ASSUME NEW w \in Writes, AcceptWrite(w)
      PROVE  ~overlapped /\ \A v \in Writes : ~Active(v)
  BY <1>2 DEF AcceptWrite
<1>3. ASSUME NEW d \in Reads, ReadStep(d) PROVE overlapped' = overlapped
  BY <1>3 DEF ReadStep, StartRead, SkipCandidate, TakeCandidate, NoCandidateLeft, ServeRead,
              ReadFails, EndRead
<1>4. ASSUME NEW r \in Replicas, AvailabilityChanges(r) PROVE overlapped' = overlapped
  BY <1>4 DEF AvailabilityChanges
<1>5. ASSUME GatewayRestarts PROVE overlapped' = overlapped
  BY <1>5 DEF GatewayRestarts
<1>6. ASSUME UNCHANGED vars PROVE overlapped' = overlapped
  BY <1>6 DEF vars
<1>7. ~overlapped
  BY <1>1, <1>2, <1>3, <1>4, <1>5, <1>6 DEF Next
<1>. QED  BY <1>2, <1>7

(* Writes go on coming one at a time.                                      *)
LEMMA OneAtATimeStep ==
    ASSUME TypeOK, OneAtATime, [Next]_vars, ~overlapped'
    PROVE  OneAtATime'
<1>. SUFFICES ASSUME NEW v \in Writes, NEW w \in Writes, Active(v)', Active(w)'
              PROVE  v = w
  BY DEF OneAtATime
<1>1. CASE ~AcceptWrite(v) /\ ~AcceptWrite(w)
  BY <1>1, StaysQuiet DEF OneAtATime
<1>2. ASSUME NEW u \in Writes, NEW x \in Writes, AcceptWrite(u), x # u
      PROVE  ~AcceptWrite(x)
  <2>1. phase'[u] = "writing" /\ phase[u] = "new" /\ phase'[x] = phase[x]
    BY <1>2 DEF AcceptWrite, TypeOK
  <2>. QED  BY <2>1 DEF AcceptWrite, TypeOK
<1>3. ASSUME NEW u \in Writes, NEW x \in Writes, AcceptWrite(u), Active(x)'
      PROVE  x = u
  BY <1>2, <1>3, StaysQuiet, OverlapRemembered
<1>. QED  BY <1>1, <1>3

(* A write a replica has missed stays missed.                              *)
LEMMA MissedStays ==
    ASSUME IInv, [Next]_vars, NEW w \in Writes, NEW r \in Replicas, NEW s \in Replicas,
           Parted(w, r, s)
    PROVE  Parted(w, r, s)'
<1>0. TypeOK /\ OutcomesAreTrue
  BY DEF IInv
<1>1. w \in applied'[r]
  BY <1>0, AppliedGrows DEF Parted
<1>2. ~AcceptWrite(w)
  BY <1>0 DEF AcceptWrite, OutcomesAreTrue, OutcomeIsTrue, Parted
<1>3. s \notin MayReach(w)'
  BY <1>0, <1>2, CallsRunOut DEF Parted
<1>4. w \notin applied'[s]
  <2>1. CASE UNCHANGED storeVars
    BY <2>1 DEF storeVars, Parted
  <2>2. ASSUME NEW v \in Writes, NEW t \in Replicas, ServeWrite(v, t)
        PROVE  w \notin applied'[s]
    <3>1. ~(v = w /\ t = s)
      BY <2>2 DEF ServeWrite, Parted, MayReach
    <3>. QED  BY <1>0, <2>2, <3>1 DEF ServeWrite, Parted, TypeOK
  <2>. QED  BY <2>1, <2>2, StoresChangeOnlyInServeWrite
<1>. QED  BY <1>1, <1>3, <1>4 DEF Parted

(* Carrying a write out at replica t either catches up with a replica that *)
(* has it or gets ahead of one that has not; or one of the two has missed  *)
(* the write before it.                                                    *)
LEMMA ServeKeepsInStep ==
    ASSUME IInv, OneAtATime, NEW v \in Writes, NEW t \in Replicas, ServeWrite(v, t),
           NEW s \in Replicas, s # t, InStep(t, s), ~SomeMissed
    PROVE  Alike(t, s)' \/ Ahead(v, t, s)'
<1>0. TypeOK /\ OutcomesAreTrue
  BY DEF IInv
<1>1. /\ call[v][t] = "sent"
      /\ applied'[t] = applied[t] \cup {v} /\ applied'[s] = applied[s]
      /\ catalogue'[t] = Effect(request[v], v, catalogue[t]) /\ catalogue'[s] = catalogue[s]
      /\ request' = request
  BY <1>0 DEF ServeWrite, TypeOK
<1>2. v \notin applied[t] /\ Active(v)
  BY <1>0, <1>1 DEF OutcomesAreTrue, OutcomeIsTrue, Active
<1>3. \A w \in Writes : w # v => MayReach(w) = {}
  <2>1. ASSUME NEW w \in Writes, w # v PROVE ~Active(w)
    BY <1>2, <2>1 DEF OneAtATime
  <2>. QED  BY <2>1 DEF Active, MayReach
<1>4. CASE Alike(t, s)
  <2>1. v \notin applied'[s] /\ applied'[t] = applied'[s] \cup {v}
    BY <1>1, <1>2, <1>4 DEF Alike
  <2>2. catalogue'[t] = Effect(request'[v], v, catalogue'[s])
    BY <1>1, <1>4 DEF Alike
  <2>. QED  BY <2>1, <2>2 DEF Ahead
<1>5. ASSUME NEW w \in Writes, Ahead(w, t, s) PROVE FALSE
  <2>1. w # v /\ w \in applied[t] /\ w \notin applied[s]
    BY <1>2, <1>5 DEF Ahead
  <2>. QED  BY <1>3, <2>1 DEF SomeMissed, Parted
<1>6. ASSUME NEW w \in Writes, Ahead(w, s, t) PROVE Alike(t, s)'
  <2>1. w \in applied[s] /\ w \notin applied[t]
    BY <1>6 DEF Ahead
  <2>2. w = v
    BY <1>3, <2>1 DEF SomeMissed, Parted
  <2>. QED  BY <1>1, <1>6, <2>2 DEF Ahead, Alike
<1>. QED  BY <1>4, <1>5, <1>6 DEF InStep

(* Every step keeps any two replicas in step.                              *)
LEMMA InStepStep ==
    ASSUME IInv, OneAtATime, [Next]_vars, ~SomeMissed,
           \A r, s \in Replicas : InStep(r, s),
           NEW r \in Replicas, NEW s \in Replicas
    PROVE  InStep(r, s)'
<1>1. CASE UNCHANGED storeVars
  BY <1>1, StoresChangeOnlyInServeWrite DEF InStep, Alike, Ahead, storeVars
<1>2. ASSUME NEW v \in Writes, NEW t \in Replicas, ServeWrite(v, t)
      PROVE  InStep(r, s)'
  <2>1. CASE r = s
    BY <2>1 DEF InStep, Alike
  <2>2. CASE r # s /\ t = r
    BY <1>2, <2>2, ServeKeepsInStep DEF InStep
  <2>3. CASE r # s /\ t = s
    <3>1. Alike(s, r)' \/ Ahead(v, s, r)'
      BY <1>2, <2>3, ServeKeepsInStep
    <3>. QED  BY <3>1 DEF InStep, Alike
  <2>4. CASE t # r /\ t # s
    <3>1. /\ applied'[r] = applied[r] /\ applied'[s] = applied[s]
          /\ catalogue'[r] = catalogue[r] /\ catalogue'[s] = catalogue[s]
          /\ request' = request
      BY <1>2, <2>4 DEF ServeWrite, IInv, TypeOK
    <3>. QED  BY <3>1 DEF InStep, Alike, Ahead
  <2>. QED  BY <2>1, <2>2, <2>3, <2>4
<1>. QED  BY <1>1, <1>2, StoresChangeOnlyInServeWrite

LEMMA SerialStep ==
    ASSUME IInv, SerialInv, [Next]_vars
    PROVE  SerialInv'
<1>. SUFFICES ASSUME ~overlapped'
              PROVE  OneAtATime' /\ (SomeMissed' \/ \A r, s \in Replicas : InStep(r, s)')
  BY DEF SerialInv
<1>1. OneAtATime /\ (SomeMissed \/ \A r, s \in Replicas : InStep(r, s))
  BY OverlapRemembered DEF SerialInv
<1>2. OneAtATime'
  BY <1>1, OneAtATimeStep DEF IInv
<1>3. CASE SomeMissed
  BY <1>2, <1>3, MissedStays DEF SomeMissed
<1>4. CASE ~SomeMissed
  BY <1>1, <1>2, <1>4, InStepStep
<1>. QED  BY <1>3, <1>4

(* Nothing but a partial failure or an overlap of writes makes replicas    *)
(* differ, however many they are.                                          *)
THEOREM SerialWritesAgree == Spec => []SerialWritesKeepReplicasIdentical
<1>1. Init => SerialInv
  BY DEF Init, SerialInv, OneAtATime, Active, InStep, Alike
<1>2. IInv /\ SerialInv /\ [Next]_vars => SerialInv'
  BY SerialStep
<1>3. SerialInv => SerialWritesKeepReplicasIdentical
  <2>. SUFFICES ASSUME SerialInv, ~overlapped,
                       \A w \in Writes : \A r, s \in Replicas :
                           w \in applied[r] => w \in applied[s],
                       NEW r \in Replicas, NEW s \in Replicas
                PROVE  catalogue[r] = catalogue[s]
    BY DEF SerialWritesKeepReplicasIdentical
  <2>1. ~SomeMissed
    BY DEF SomeMissed, Parted
  <2>2. \A w \in Writes : ~Ahead(w, r, s) /\ ~Ahead(w, s, r)
    BY DEF Ahead
  <2>. QED  BY <2>1, <2>2 DEF SerialInv, InStep, Alike
<1>. QED  BY <1>1, <1>2, <1>3, Invariance, PTL DEF Spec
---------------------------------------------------------------------------
(***************************************************************************)
(* The refinement: ProductReplicas, with its goroutines, lost calls,       *)
(* time-outs and restarts, implements ReplicatedCatalogue.  Each step of   *)
(* HandleWrite, of a goroutine or of a product service is one step of the  *)
(* abstract write, or none; reads and the heartbeat are none.              *)
(***************************************************************************)

(* A goroutine whose outcome was collected has made its call.              *)
CollectedInv ==
    \A w \in Writes : \A r \in Replicas : r \in collected[w] => call[w][r] # "none"

(* The two copies of the operators on catalogues, that of ProductReplicas  *)
(* and that which the instance brings, are the same.                       *)
LEMMA SameOperators ==
    ASSUME NEW q, NEW c, NEW w
    PROVE  /\ Replicated!Accepts(q, c) = Accepts(q, c)
           /\ Replicated!Effect(q, w, c) = Effect(q, w, c)
<1>1. Replicated!Status(q, c) = Status(q, c)
  BY DEF Replicated!Status, Status, Replicated!IsCreate, IsCreate
<1>2. Replicated!Accepts(q, c) = Accepts(q, c)
  BY <1>1 DEF Replicated!Accepts, Accepts, Replicated!Success, Success
<1>3. Replicated!Effect(q, w, c) = Effect(q, w, c)
  BY DEF Replicated!Effect, Effect, Replicated!Create, Create, Replicated!DecrementStock,
         DecrementStock, Replicated!IsCreate, IsCreate
<1>. QED  BY <1>2, <1>3

(* What the abstract state of a write depends on.                          *)
LEMMA SameVerdict ==
    ASSUME NEW v \in Writes, phase'[v] = phase[v], reply'[v] = reply[v]
    PROVE  VerdictOn(v)' = VerdictOn(v)
BY DEF VerdictOn, Acknowledged, Succeeded

LEMMA SameReach ==
    ASSUME NEW v \in Writes, phase'[v] = phase[v], call'[v] = call[v]
    PROVE  MayReach(v)' = MayReach(v)
BY DEF MayReach

LEMMA SameApplied ==
    ASSUME NEW v \in Writes, applied' = applied
    PROVE  AppliedAt(v)' = AppliedAt(v)
BY DEF AppliedAt

(* The abstract verdicts, by the phase of a write.                         *)
LEMMA VerdictIs ==
    ASSUME NEW w \in Writes
    PROVE  /\ phase[w] = "new" => VerdictOn(w) = "new"
           /\ phase[w] = "writing" => VerdictOn(w) = "open"
           /\ phase[w] = "answered" =>
                VerdictOn(w) = IF Succeeded(reply[w]) THEN "acknowledged" ELSE "failed"
           /\ phase[w] = "aborted" => VerdictOn(w) = "failed"
BY DEF VerdictOn, Acknowledged

LEMMA VerdictWillBe ==
    ASSUME NEW w \in Writes
    PROVE  /\ phase'[w] = "new" => VerdictOn(w)' = "new"
           /\ phase'[w] = "writing" => VerdictOn(w)' = "open"
           /\ phase'[w] = "answered" =>
                VerdictOn(w)' = IF Succeeded(reply'[w]) THEN "acknowledged" ELSE "failed"
           /\ phase'[w] = "aborted" => VerdictOn(w)' = "failed"
BY DEF VerdictOn, Acknowledged, Succeeded

---------------------------------------------------------------------------
(* CollectedInv is an invariant. *)

LEMMA CollectedStep ==
    ASSUME TypeOK, CollectedInv, [Next]_vars
    PROVE  CollectedInv'
<1>. SUFFICES ASSUME NEW v \in Writes, NEW s \in Replicas, s \in collected'[v]
              PROVE  call'[v][s] # "none"
  BY DEF CollectedInv
<1>0. s \in collected[v] => call[v][s] # "none"
  BY DEF CollectedInv
<1>1. CASE UNCHANGED <<call, collected>>
  BY <1>0, <1>1
<1>2. ASSUME NEW w \in Writes, NEW r \in Replicas, SkipReplica(w, r) \/ ReceiveAnswer(w, r)
      PROVE  call'[v][s] # "none"
  <2>1. /\ call' = [call EXCEPT ![w][r] = "done"]
        /\ collected' = [collected EXCEPT ![w] = collected[w] \cup {r}]
    BY <1>2 DEF SkipReplica, ReceiveAnswer, Deliver
  <2>. QED  BY <1>0, <2>1 DEF TypeOK
<1>3. ASSUME NEW w \in Writes, NEW r \in Replicas, CallFails(w, r)
      PROVE  call'[v][s] # "none"
  <2>1. /\ call[w][r] # "none"
        /\ call' = [call EXCEPT ![w][r] = "done"] \/ call' = call
        /\ collected' = [collected EXCEPT ![w] = collected[w] \cup {r}]
    BY <1>3 DEF CallFails, Deliver
  <2>. QED  BY <1>0, <2>1 DEF TypeOK
<1>4. ASSUME NEW w \in Writes, NEW r \in Replicas, SendCall(w, r)
      PROVE  call'[v][s] # "none"
  <2>1. call' = [call EXCEPT ![w][r] = "sent"] /\ collected' = collected
    BY <1>4 DEF SendCall
  <2>. QED  BY <1>0, <2>1 DEF TypeOK
<1>5. ASSUME NEW w \in Writes, NEW r \in Replicas, ServeWrite(w, r) \/ RefuseWrite(w, r)
      PROVE  call'[v][s] # "none"
  <2>1. PICK to \in {"handled", "done"} : call' = [call EXCEPT ![w][r] = to]
    BY <1>5 DEF ServeWrite, RefuseWrite, Respond
  <2>2. collected' = collected \/ s \in collected[v]
    BY <1>5 DEF ServeWrite, RefuseWrite, Respond
  <2>. QED  BY <1>0, <2>1, <2>2 DEF TypeOK
<1>6. ASSUME NEW w \in Writes, Reply(w)
      PROVE  call'[v][s] # "none"
  <2>1. call' = call /\ s \in collected[v]
    BY <1>6 DEF Reply, ForgetOutcomes
  <2>. QED  BY <1>0, <2>1
<1>7. CASE GatewayRestarts
  <2>1. s \in collected[v] /\ (call'[v][s] = call[v][s] \/ call'[v][s] = "done")
    BY <1>7 DEF GatewayRestarts, ForgetOutcomes
  <2>. QED  BY <1>0, <2>1
<1>8. ASSUME NEW w \in Writes, AcceptWrite(w) \/ RefuseBody(w)
      PROVE  UNCHANGED <<call, collected>>
  BY <1>8 DEF AcceptWrite, RefuseBody, callVars
<1>9. ASSUME NEW d \in Reads, ReadStep(d)
      PROVE  UNCHANGED <<call, collected>>
  BY <1>9 DEF ReadStep, StartRead, SkipCandidate, TakeCandidate, NoCandidateLeft, ServeRead,
              ReadFails, EndRead, writeVars, callVars
<1>10. ASSUME NEW r \in Replicas, AvailabilityChanges(r)
       PROVE  UNCHANGED <<call, collected>>
  BY <1>10 DEF AvailabilityChanges, writeVars, callVars
<1>11. CASE UNCHANGED vars
  BY <1>1, <1>11 DEF vars, writeVars, callVars
<1>. QED
  BY <1>1, <1>2, <1>3, <1>4, <1>5, <1>6, <1>7, <1>8, <1>9, <1>10, <1>11 DEF Next, WriteStep

---------------------------------------------------------------------------
(* The steps that the abstract write does not see. *)

LEMMA Stutters ==
    ASSUME UNCHANGED <<request, phase, call, reply, storeVars>>
    PROVE  UNCHANGED Replicated!replicationVars
<1>1. \A v \in Writes : VerdictOn(v)' = VerdictOn(v) /\ MayReach(v)' = MayReach(v)
                        /\ AppliedAt(v)' = AppliedAt(v)
  BY SameVerdict, SameReach, SameApplied DEF storeVars
<1>. QED  BY <1>1 DEF Replicated!replicationVars, storeVars

(* A call leaves the gateway, or its end is noticed there.                 *)
LEMMA QuietCalls ==
    ASSUME TypeOK, NEW w \in Writes, NEW r \in Replicas,
           UNCHANGED <<request, phase, reply, storeVars>>,
           NEW to, call' = [call EXCEPT ![w][r] = to],
           \/ call[w][r] = "none" /\ phase[w] = "writing" /\ to = "sent"
           \/ call[w][r] = "handled" /\ to = "done"
    PROVE  UNCHANGED Replicated!replicationVars
<1>1. \A v \in Writes : VerdictOn(v)' = VerdictOn(v) /\ AppliedAt(v)' = AppliedAt(v)
  BY SameVerdict, SameApplied DEF storeVars
<1>2. \A v \in Writes : MayReach(v)' = MayReach(v)
  BY DEF MayReach, TypeOK
<1>. QED  BY <1>1, <1>2 DEF Replicated!replicationVars, storeVars

(* A call that is skipped, lost or refused: Miss.                          *)
LEMMA CallsMiss ==
    ASSUME TypeOK, NEW w \in Writes, NEW r \in Replicas,
           UNCHANGED <<request, phase, reply, storeVars>>,
           NEW to \in {"handled", "done"}, call' = [call EXCEPT ![w][r] = to],
           r \in MayReach(w)
    PROVE  Replicated!Miss(w, r)
<1>1. \A v \in Writes : VerdictOn(v)' = VerdictOn(v) /\ AppliedAt(v)' = AppliedAt(v)
  BY SameVerdict, SameApplied DEF storeVars
<1>2. \A v \in Writes : MayReach(v)' = IF v = w THEN MayReach(w) \ {r} ELSE MayReach(v)
  BY DEF MayReach, TypeOK
<1>. QED  BY <1>1, <1>2 DEF Replicated!Miss, storeVars

---------------------------------------------------------------------------
(* The steps of HandleWrite and of the services. *)

LEMMA AcceptBegins ==
    ASSUME IInv, NEW w \in Writes, AcceptWrite(w)
    PROVE  Replicated!Begin(w)
<1>0. TypeOK /\ OutcomesAreTrue
  BY DEF IInv
<1>1. /\ phase[w] = "new" /\ phase' = [phase EXCEPT ![w] = "writing"]
      /\ UNCHANGED <<request, call, reply, storeVars>>
  BY DEF AcceptWrite, callVars
<1>2. \A r \in Replicas : call[w][r] = "none"
  BY <1>0, <1>1 DEF OutcomesAreTrue, OutcomeIsTrue
<1>3. phase'[w] = "writing" /\ \A v \in Writes : v # w => phase'[v] = phase[v]
  BY <1>0, <1>1 DEF TypeOK
<1>4. VerdictOn(w) = "new" /\ VerdictOn(w)' = "open"
  BY <1>1, <1>3, VerdictIs, VerdictWillBe
<1>5. MayReach(w)' = Replicas
  BY <1>1, <1>2, <1>3 DEF MayReach
<1>6. \A v \in Writes : AppliedAt(v)' = AppliedAt(v)
  BY <1>1, SameApplied DEF storeVars
<1>7. \A v \in Writes : v # w => VerdictOn(v)' = VerdictOn(v) /\ MayReach(v)' = MayReach(v)
  BY <1>1, <1>3, SameVerdict, SameReach
<1>. QED  BY <1>1, <1>4, <1>5, <1>6, <1>7 DEF Replicated!Begin, storeVars

LEMMA RefusalFails ==
    ASSUME IInv, NEW w \in Writes, RefuseBody(w)
    PROVE  Replicated!Fail(w)
<1>0. TypeOK /\ OutcomesAreTrue
  BY DEF IInv
<1>1. /\ phase[w] = "new" /\ phase' = [phase EXCEPT ![w] = "answered"]
      /\ reply' = [reply EXCEPT ![w] = Refusal(400)]
      /\ UNCHANGED <<request, call, storeVars>>
  BY DEF RefuseBody, callVars
<1>2. \A r \in Replicas : call[w][r] = "none"
  BY <1>0, <1>1 DEF OutcomesAreTrue, OutcomeIsTrue
<1>3. phase'[w] = "answered" /\ \A v \in Writes : v # w => phase'[v] = phase[v]
  BY <1>0, <1>1 DEF TypeOK
<1>4. reply'[w].status = 400 /\ \A v \in Writes : v # w => reply'[v] = reply[v]
  BY <1>0, <1>1 DEF TypeOK, Refusal
<1>5. VerdictOn(w) = "new" /\ VerdictOn(w)' = "failed"
  BY <1>1, <1>3, <1>4, VerdictIs, VerdictWillBe DEF Succeeded, Success
<1>6. \A v \in Writes : AppliedAt(v)' = AppliedAt(v)
  BY <1>1, SameApplied DEF storeVars
<1>7. \A v \in Writes : MayReach(v)' = MayReach(v)
  BY <1>1, <1>2, <1>3, SameReach DEF MayReach
<1>8. \A v \in Writes : v # w => VerdictOn(v)' = VerdictOn(v)
  BY <1>3, <1>4, SameVerdict
<1>. QED  BY <1>1, <1>5, <1>6, <1>7, <1>8 DEF Replicated!Fail, storeVars

(* The reply is 2xx only if every outcome is, and then every replica has   *)
(* applied the write; no goroutine is left that has not made its call.     *)
LEMMA ReplyDecides ==
    ASSUME IInv, CollectedInv, NEW w \in Writes, Reply(w)
    PROVE  Replicated!Acknowledge(w) \/ Replicated!Fail(w)
<1>0. TypeOK /\ OutcomesAreTrue
  BY DEF IInv
<1>1. /\ phase[w] = "writing" /\ phase' = [phase EXCEPT ![w] = "answered"]
      /\ collected[w] = Replicas
      /\ reply' = [reply EXCEPT ![w] = ReplyTo(w)]
      /\ UNCHANGED <<request, call, storeVars>>
  BY DEF Reply
<1>2. \A r \in Replicas : call[w][r] # "none"
  BY <1>1 DEF CollectedInv
<1>3. phase'[w] = "answered" /\ \A v \in Writes : v # w => phase'[v] = phase[v]
  BY <1>0, <1>1 DEF TypeOK
<1>4. reply'[w] = ReplyTo(w) /\ \A v \in Writes : v # w => reply'[v] = reply[v]
  BY <1>0, <1>1 DEF TypeOK
<1>5. \A v \in Writes : AppliedAt(v)' = AppliedAt(v)
  BY <1>1, SameApplied DEF storeVars
<1>6. \A v \in Writes : MayReach(v)' = MayReach(v)
  BY <1>1, <1>2, <1>3, SameReach DEF MayReach
<1>7. \A v \in Writes : v # w => VerdictOn(v)' = VerdictOn(v)
  BY <1>3, <1>4, SameVerdict
<1>8. VerdictOn(w) = "open"
  BY <1>1, VerdictIs
<1>9. CASE AnyOutcomeFailed(w)
  <2>1. reply'[w].status = 500
    BY <1>4, <1>9 DEF ReplyTo, Refusal
  <2>2. VerdictOn(w)' = "failed"
    BY <1>3, <2>1 DEF VerdictOn, Acknowledged, Succeeded, Success
  <2>. QED  BY <1>1, <1>5, <1>6, <1>7, <1>8, <2>2 DEF Replicated!Fail, storeVars
<1>10. CASE ~AnyOutcomeFailed(w)
  <2>1. \A r \in Replicas : Succeeded(outcome[w][r]) /\ w \in applied[r]
    BY <1>0, <1>1, <1>10 DEF AnyOutcomeFailed, OutcomesAreTrue, OutcomeIsTrue
  <2>2. first[w] \in Replicas
    BY <1>0 DEF TypeOK
  <2>3. reply'[w] = outcome[w][first[w]]
    BY <1>4, <1>10 DEF ReplyTo
  <2>4. reply'[w].status \in Success
    BY <2>1, <2>2, <2>3 DEF Succeeded
  <2>5. VerdictOn(w)' = "acknowledged"
    BY <1>3, <2>4 DEF VerdictOn, Acknowledged, Succeeded
  <2>6. AppliedAt(w) = Replicas
    BY <2>1 DEF AppliedAt
  <2>. QED  BY <1>1, <1>5, <1>6, <1>7, <1>8, <2>5, <2>6 DEF Replicated!Acknowledge, storeVars
<1>. QED  BY <1>9, <1>10

(* A service that accepts the write carries it out.                        *)
LEMMA ServeApplies ==
    ASSUME TypeOK, NEW w \in Writes, NEW r \in Replicas, ServeWrite(w, r)
    PROVE  Replicated!Apply(w, r)
<1>1. /\ call[w][r] = "sent" /\ Accepts(request[w], catalogue[r])
      /\ catalogue' = [catalogue EXCEPT ![r] = Effect(request[w], w, catalogue[r])]
      /\ applied' = [applied EXCEPT ![r] = applied[r] \cup {w}]
      /\ UNCHANGED <<request, phase, reply>>
  BY DEF ServeWrite
<1>2. PICK to \in {"handled", "done"} : call' = [call EXCEPT ![w][r] = to]
  BY DEF ServeWrite, Respond
<1>3. \A v \in Writes : VerdictOn(v)' = VerdictOn(v)
  BY <1>1, SameVerdict
<1>4. \A v \in Writes : MayReach(v)' = IF v = w THEN MayReach(w) \ {r} ELSE MayReach(v)
  BY <1>1, <1>2 DEF MayReach, TypeOK
<1>5. \A v \in Writes : AppliedAt(v)' = IF v = w THEN AppliedAt(w) \cup {r} ELSE AppliedAt(v)
  BY <1>1 DEF AppliedAt, TypeOK
<1>6. r \in MayReach(w)
  BY <1>1 DEF MayReach
<1>. QED  BY <1>1, <1>3, <1>4, <1>5, <1>6, SameOperators DEF Replicated!Apply

(* A restart ends the writes under way, and their goroutines.              *)
LEMMA RestartAborts ==
    ASSUME TypeOK, GatewayRestarts
    PROVE  Replicated!Abort
<1>1. \A v \in Writes : phase'[v] = IF phase[v] = "writing" THEN "aborted" ELSE phase[v]
  BY DEF GatewayRestarts
<1>2. \A v \in Writes, r \in Replicas : call'[v][r] =
          IF phase[v] = "writing" /\ call[v][r] # "sent" THEN "done" ELSE call[v][r]
  BY DEF GatewayRestarts
<1>3. UNCHANGED <<request, reply, storeVars>>
  BY DEF GatewayRestarts
<1>4. \A v \in Writes : VerdictOn(v)' = IF VerdictOn(v) = "open" THEN "failed" ELSE VerdictOn(v)
  BY <1>1, <1>3 DEF VerdictOn, Acknowledged, Succeeded
<1>5. \A v \in Writes : MayReach(v)' \subseteq MayReach(v)
  BY <1>1, <1>2 DEF MayReach
<1>6. \A v \in Writes : MayReach(v)' \in SUBSET Replicas
  BY DEF MayReach
<1>7. \A v \in Writes : AppliedAt(v)' = AppliedAt(v)
  BY <1>3, SameApplied DEF storeVars
<1>. QED  BY <1>3, <1>4, <1>5, <1>6, <1>7 DEF Replicated!Abort, storeVars

---------------------------------------------------------------------------
(* All steps together. *)

LEMMA WriteStepRefines ==
    ASSUME IInv, CollectedInv, NEW w \in Writes, WriteStep(w)
    PROVE  Replicated!NextReplication \/ UNCHANGED Replicated!replicationVars
<1>0. TypeOK
  BY DEF IInv
<1>1. CASE AcceptWrite(w)
  BY <1>1, AcceptBegins DEF Replicated!NextReplication
<1>2. CASE RefuseBody(w)
  BY <1>2, RefusalFails DEF Replicated!NextReplication
<1>3. CASE Reply(w)
  BY <1>3, ReplyDecides DEF Replicated!NextReplication
<1>4. ASSUME NEW r \in Replicas, ServeWrite(w, r)
      PROVE  Replicated!NextReplication
  BY <1>0, <1>4, ServeApplies DEF Replicated!NextReplication
<1>5. ASSUME NEW r \in Replicas, RefuseWrite(w, r)
      PROVE  Replicated!NextReplication
  <2>1. PICK to \in {"handled", "done"} : call' = [call EXCEPT ![w][r] = to]
    BY <1>5 DEF RefuseWrite, Respond
  <2>2. r \in MayReach(w) /\ UNCHANGED <<request, phase, reply, storeVars>>
    BY <1>5 DEF RefuseWrite, MayReach
  <2>. QED  BY <1>0, <2>1, <2>2, CallsMiss DEF Replicated!NextReplication
<1>6. ASSUME NEW r \in Replicas, SkipReplica(w, r)
      PROVE  Replicated!NextReplication
  <2>1. call' = [call EXCEPT ![w][r] = "done"]
    BY <1>6 DEF SkipReplica
  <2>2. r \in MayReach(w) /\ UNCHANGED <<request, phase, reply, storeVars>>
    BY <1>6 DEF SkipReplica, Waiting, MayReach
  <2>. QED  BY <1>0, <2>1, <2>2, CallsMiss DEF Replicated!NextReplication
<1>7. ASSUME NEW r \in Replicas, SendCall(w, r)
      PROVE  UNCHANGED Replicated!replicationVars
  <2>1. /\ call' = [call EXCEPT ![w][r] = "sent"]
        /\ call[w][r] = "none" /\ phase[w] = "writing"
        /\ UNCHANGED <<request, phase, reply, storeVars>>
    BY <1>7 DEF SendCall, Waiting
  <2>. QED  BY <1>0, <2>1, QuietCalls
<1>8. ASSUME NEW r \in Replicas, ReceiveAnswer(w, r)
      PROVE  UNCHANGED Replicated!replicationVars
  <2>1. /\ call' = [call EXCEPT ![w][r] = "done"]
        /\ call[w][r] = "handled"
        /\ UNCHANGED <<request, phase, reply, storeVars>>
    BY <1>8 DEF ReceiveAnswer
  <2>. QED  BY <1>0, <2>1, QuietCalls
<1>9. ASSUME NEW r \in Replicas, CallFails(w, r)
      PROVE  Replicated!NextReplication \/ UNCHANGED Replicated!replicationVars
  <2>1. UNCHANGED <<request, phase, reply, storeVars>>
    BY <1>9 DEF CallFails
  <2>2. CASE UNCHANGED call
    BY <2>1, <2>2, Stutters
  <2>3. CASE call[w][r] = "handled" /\ call' = [call EXCEPT ![w][r] = "done"]
    BY <1>0, <2>1, <2>3, QuietCalls
  <2>4. CASE call[w][r] = "sent" /\ call' = [call EXCEPT ![w][r] = "done"]
    <3>1. r \in MayReach(w)  BY <2>4 DEF MayReach
    <3>. QED  BY <1>0, <2>1, <2>4, <3>1, CallsMiss DEF Replicated!NextReplication
  <2>. QED  BY <1>9, <2>2, <2>3, <2>4 DEF CallFails
<1>. QED
  BY <1>1, <1>2, <1>3, <1>4, <1>5, <1>6, <1>7, <1>8, <1>9 DEF WriteStep

LEMMA StepRefines ==
    ASSUME IInv, CollectedInv, [Next]_vars
    PROVE  Replicated!NextReplication \/ UNCHANGED Replicated!replicationVars
<1>0. TypeOK
  BY DEF IInv
<1>1. ASSUME NEW d \in Reads, ReadStep(d)
      PROVE  UNCHANGED Replicated!replicationVars
  <2>1. UNCHANGED <<request, phase, call, reply, storeVars>>
    BY <1>1 DEF ReadStep, StartRead, SkipCandidate, TakeCandidate, NoCandidateLeft, ServeRead,
                ReadFails, EndRead, writeVars, callVars
  <2>. QED  BY <2>1, Stutters
<1>2. ASSUME NEW r \in Replicas, AvailabilityChanges(r)
      PROVE  UNCHANGED Replicated!replicationVars
  BY <1>2, Stutters DEF AvailabilityChanges, writeVars, callVars
<1>3. CASE GatewayRestarts
  BY <1>0, <1>3, RestartAborts DEF Replicated!NextReplication
<1>4. CASE UNCHANGED vars
  BY <1>4, Stutters DEF vars, writeVars, callVars
<1>. QED  BY <1>1, <1>2, <1>3, <1>4, WriteStepRefines DEF Next

LEMMA InitRefines == Init => Replicated!InitReplication
<1>. SUFFICES ASSUME Init PROVE Replicated!InitReplication
  OBVIOUS
<1>1. \A w \in Writes : VerdictOn(w) = "new" /\ MayReach(w) = {} /\ AppliedAt(w) = {}
  BY VerdictIs DEF Init, MayReach, AppliedAt
<1>. QED  BY <1>1 DEF Init, Replicated!InitReplication

(* HandleWrite with everything around it implements the abstract           *)
(* replicated write: what Checkout assumes of a sale.                      *)
THEOREM ReplicatedWrite == Spec => ImplementsReplicatedCatalogue
<1>1. Init => CollectedInv
  BY DEF Init, CollectedInv
<1>2. IInv /\ CollectedInv /\ [Next]_vars => CollectedInv'
  BY CollectedStep DEF IInv
<1>3. IInv /\ CollectedInv /\ [Next]_vars
          => [Replicated!NextReplication]_(Replicated!replicationVars)
  BY StepRefines
<1>. QED
  BY <1>1, <1>2, <1>3, Invariance, InitRefines, PTL
     DEF Spec, ImplementsReplicatedCatalogue, Replicated!ReplicationSpec
=============================================================================
