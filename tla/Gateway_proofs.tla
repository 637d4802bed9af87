-------------------------- MODULE Gateway_proofs --------------------------
(***************************************************************************)
(* Proofs about Gateway, for any number of replicas, reads and             *)
(* disturbances: types, and that a read fails only when no replica was     *)
(* reliable or availability and health were out of step.  What concerns    *)
(* one component alone comes from that component's own proofs, of which    *)
(* Watched and Served are instances.                                       *)
(***************************************************************************)
EXTENDS Gateway, TLAPS

Watched == INSTANCE Heartbeat_proofs WITH Services <- Replicas, SyntheticServices <- {}

Served ==
    INSTANCE ProductReplicas_proofs WITH
        Writes <- {}, Requests <- {}, Seeds <- {}, InitialCatalogue <- <<>>,
        request <- <<>>, phase <- <<>>, call <- <<>>, answer <- <<>>, outcome <- <<>>,
        collected <- <<>>, first <- <<>>, reply <- <<>>, overlapped <- (0 > ReplicaCount),
        catalogue <- [r \in Replicas |-> <<>>], applied <- [r \in Replicas |-> {}]

---------------------------------------------------------------------------
(* The invariant *)

(* What the history says of one read that goes on or has failed: the       *)
(* candidates it has passed by were not reliable, and while it is under    *)
(* way it is shaken as soon as an available replica is ill, so that a      *)
(* candidate that is ill when it is asked has left its trace.              *)
ReadIsWatched(d) ==
    /\ reliable[d] \subseteq Trusted
    /\ read[d].phase \in {"choosing", "sent"} /\ Deceived => shaken[d]
    /\ read[d].phase = "choosing" =>
         \A k \in 0 .. read[d].offset - 1 :
             (read[d].start + k) % ReplicaCount \notin reliable[d]
    /\ read[d].phase = "sent" /\ ~health[Manager!Candidate(d)] => shaken[d]
    /\ read[d].phase = "done" /\ read[d].status # 200 => reliable[d] = {} \/ shaken[d]

TypeInv ==
    /\ Watched!IInv
    /\ Manager!TypeOK
    /\ reliable \in [Reads -> SUBSET Replicas]
    /\ shaken \in [Reads -> BOOLEAN]

IInv == TypeInv /\ \A d \in Reads : ReadIsWatched(d)

---------------------------------------------------------------------------
(* The heartbeat's proofs *)

(* What they assume of their constants.                                    *)
LEMMA WatchedAssumptions ==
    /\ Capacity \in Nat \ {0} /\ Replicas # {} /\ {} \subseteq Replicas
    /\ FailureThreshold \in Nat \ {0}
    /\ MaxFailures \in Nat /\ MaxFailures >= FailureThreshold
    /\ MaxDisturbances \in Nat
BY ReplicaCountAssumption, HeartbeatAssumption DEF Replicas

(* The instances of Heartbeat and of its proofs define the same.           *)
LEMMA WatchedType ==
    /\ Monitor!TypeOK <=> Watched!TypeOK
    /\ Monitor!TypeOK' <=> Watched!TypeOK'
BY DEF Monitor!TypeOK, Monitor!RingType, Monitor!Event, Monitor!Slots,
       Watched!TypeOK, Watched!RingType, Watched!Event, Watched!Slots

LEMMA WatchedInit == Monitor!Init => Watched!IInv
<1>1. Monitor!Init => Watched!Init
  BY DEF Monitor!Init, Monitor!NoProbe, Monitor!NoFailure, Monitor!AllAvailable,
         Monitor!NoOutcome, Monitor!EmptyRing, Monitor!Slots, Monitor!Event,
         Watched!Init, Watched!NoProbe, Watched!NoFailure, Watched!AllAvailable,
         Watched!NoOutcome, Watched!EmptyRing, Watched!Slots, Watched!Event
<1>. QED  BY <1>1, WatchedAssumptions, Watched!InvInit

LEMMA WatchedSurroundings ==
    ASSUME \/ Monitor!StartRound \/ Monitor!Cancel
           \/ \E r \in Replicas : Monitor!HealthChanges(r) \/ Monitor!ProbeLost(r)
    PROVE  Watched!Next
BY DEF Monitor!StartRound, Monitor!Cancel, Monitor!HealthChanges, Monitor!ProbeLost,
       Monitor!Disturb, Monitor!Undisturbed, Monitor!SameSurroundings, Monitor!registryVars,
       Watched!StartRound, Watched!Cancel, Watched!HealthChanges, Watched!ProbeLost,
       Watched!Disturb, Watched!Undisturbed, Watched!SameSurroundings, Watched!registryVars,
       Watched!Next

LEMMA WatchedProbe ==
    ASSUME NEW r \in Replicas, Monitor!ProbeStep(r)
    PROVE  Watched!Next
<1>1. Watched!ProbeStep(r)
  <2>1. CASE Monitor!ProbeEnds(r)
    BY <2>1 DEF Monitor!ProbeEnds, Monitor!Undisturbed, Monitor!SameSurroundings,
                Monitor!registryVars, Watched!ProbeEnds, Watched!Undisturbed,
                Watched!SameSurroundings, Watched!registryVars, Watched!ProbeStep
  <2>2. CASE Monitor!RecordSuccess(r)
    BY <2>2 DEF Monitor!RecordSuccess, Monitor!Undisturbed, Monitor!SameSurroundings,
                Monitor!RecordEvent, Monitor!Push, Monitor!Remember,
                Watched!RecordSuccess, Watched!Undisturbed, Watched!SameSurroundings,
                Watched!RecordEvent, Watched!Push, Watched!Remember, Watched!ProbeStep
  <2>3. CASE Monitor!RecordFailure(r)
    BY <2>3 DEF Monitor!RecordFailure, Monitor!Undisturbed, Monitor!SameSurroundings,
                Monitor!MarksDown, Monitor!FailureCount,
                Monitor!RecordEvent, Monitor!Push, Monitor!Remember,
                Watched!RecordFailure, Watched!Undisturbed, Watched!SameSurroundings,
                Watched!MarksDown, Watched!FailureCount,
                Watched!RecordEvent, Watched!Push, Watched!Remember, Watched!ProbeStep
  <2>. QED  BY <2>1, <2>2, <2>3 DEF Monitor!ProbeStep
<1>. QED  BY <1>1 DEF Watched!Next

LEMMA WatchedRestart == Monitor!Restart => Watched!Next
BY DEF Monitor!Restart, Monitor!NoProbe, Monitor!NoFailure, Monitor!AllAvailable,
       Monitor!NoOutcome, Monitor!EmptyRing, Monitor!Slots, Monitor!Event,
       Watched!Restart, Watched!NoProbe, Watched!NoFailure, Watched!AllAvailable,
       Watched!NoOutcome, Watched!EmptyRing, Watched!Slots, Watched!Event, Watched!Next

(* Every step of the heartbeat keeps its invariant.                        *)
LEMMA WatchedStep ==
    ASSUME Watched!IInv,
           \/ Monitor!StartRound \/ Monitor!Cancel \/ Monitor!Restart
           \/ \E r \in Replicas :
                Monitor!ProbeStep(r) \/ Monitor!HealthChanges(r) \/ Monitor!ProbeLost(r)
    PROVE  Watched!IInv'
<1>1. Watched!Next
  BY WatchedSurroundings, WatchedProbe, WatchedRestart
<1>. QED  BY <1>1, WatchedAssumptions, Watched!InvStep

(* A step that leaves the registry alone does, too.                        *)
LEMMA WatchedAtRest ==
    ASSUME Watched!IInv,
           UNCHANGED <<health, running, probe, failures, available, eventRing, eventLog, outcomes>>,
           disturbances' = disturbances \/ Monitor!Disturb
    PROVE  Watched!IInv'
<1>1. disturbances' \in 0 .. MaxDisturbances
  BY WatchedAssumptions DEF Watched!IInv, Watched!TypeOK, Monitor!Disturb
<1>2. Watched!TypeOK'
  BY <1>1 DEF Watched!IInv, Watched!TypeOK
<1>. QED
  BY <1>2, WatchedAssumptions, Watched!SurroundingsStep DEF Watched!registryVars

---------------------------------------------------------------------------
(* The replica manager's proofs *)

LEMMA ServedAssumptions ==
    /\ ReplicaCount \in Nat \ {0}
    /\ {} \subseteq Served!RequestType
    /\ Served!IsFiniteSet({})
    /\ <<>> \in Seq(Served!ProductType({}))
<1>1. Served!IsFiniteSet({})
  <2>1. <<>> \in Seq({})
    OBVIOUS
  <2>. QED  BY <2>1 DEF Served!IsFiniteSet
<1>. QED  BY <1>1, ReplicaCountAssumption

LEMMA ServedType ==
    /\ Manager!TypeOK <=> Served!TypeOK
    /\ Manager!TypeOK' <=> Served!TypeOK'
BY DEF Manager!TypeOK, Manager!Replicas, Manager!WritePhases, Manager!CallStates,
       Manager!Answers, Manager!Statuses, Manager!ReadType, Manager!ProductType,
       Manager!Origins,
       Served!TypeOK, Served!Replicas, Served!WritePhases, Served!CallStates,
       Served!Answers, Served!Statuses, Served!ReadType, Served!ProductType,
       Served!Origins

(* What is left of the manager's types when there are no writes.           *)
LEMMA ReadsType ==
    /\ Manager!TypeOK <=> /\ available \in [Replicas -> BOOLEAN]
                          /\ roundRobin \in Replicas
                          /\ read \in [Reads -> Manager!ReadType]
    /\ Manager!TypeOK' <=> /\ available' \in [Replicas -> BOOLEAN]
                           /\ roundRobin' \in Replicas
                           /\ read' \in [Reads -> Manager!ReadType]
<1>1. \A S : <<>> \in [{} -> S]
  OBVIOUS
<1>. QED  BY <1>1, ReplicaCountAssumption DEF Manager!TypeOK, Manager!Replicas, Replicas

(* A read that has yet to begin, and one that a restart has cut short.     *)
LEMMA BlankRead ==
    /\ Manager!IdleRead \in Manager!ReadType
    /\ [Manager!IdleRead EXCEPT !.phase = "aborted"] \in Manager!ReadType
<1>1. Manager!IdleRead \in Manager!ReadType
  <2>1. <<>> \in Seq(Manager!ProductType(Manager!Origins))
    OBVIOUS
  <2>2. 0 \in Manager!Replicas /\ 0 \in 0 .. ReplicaCount /\ 0 \in Manager!Statuses
    BY ReplicaCountAssumption DEF Manager!Replicas, Manager!Statuses
  <2>. QED  BY <2>1, <2>2 DEF Manager!ReadType, Manager!IdleRead
<1>2. \A x \in Manager!ReadType : [x EXCEPT !.phase = "aborted"] \in Manager!ReadType
  BY DEF Manager!ReadType
<1>. QED  BY <1>1, <1>2

ManagerRead(d) ==
    \/ Manager!StartRead(d) \/ Manager!SkipCandidate(d) \/ Manager!TakeCandidate(d)
    \/ Manager!NoCandidateLeft(d) \/ Manager!ServeRead(d) \/ Manager!ReadFails(d)

(* HandleRead keeps the types.                                             *)
LEMMA ReadTypeStep ==
    ASSUME Manager!TypeOK, NEW d \in Reads, ManagerRead(d)
    PROVE  Manager!TypeOK'
<1>1. Served!ReadStep(d)
  BY DEF ManagerRead, Served!ReadStep,
         Manager!StartRead, Manager!SkipCandidate, Manager!TakeCandidate,
         Manager!NoCandidateLeft, Manager!ServeRead, Manager!ReadFails, Manager!EndRead,
         Manager!Candidate, Manager!IdleRead, Manager!Acknowledged, Manager!Succeeded,
         Manager!Success, Manager!writeVars, Manager!storeVars, Manager!callVars,
         Served!StartRead, Served!SkipCandidate, Served!TakeCandidate,
         Served!NoCandidateLeft, Served!ServeRead, Served!ReadFails, Served!EndRead,
         Served!Candidate, Served!IdleRead, Served!Acknowledged, Served!Succeeded,
         Served!Success, Served!writeVars, Served!storeVars, Served!callVars
<1>. QED  BY <1>1, ServedType, ServedAssumptions, Served!TypeReadStep

---------------------------------------------------------------------------
(* Types *)

LEMMA InitIsTyped == Init => TypeInv
<1>. SUFFICES ASSUME Init PROVE TypeInv
  OBVIOUS
<1>1. Watched!IInv
  BY WatchedInit DEF Init
<1>3. available \in [Replicas -> BOOLEAN]
  BY <1>1 DEF Watched!IInv, Watched!TypeOK
<1>4. roundRobin \in Replicas
  BY ReplicaCountAssumption DEF Init, Replicas
<1>5. read \in [Reads -> Manager!ReadType]
  BY BlankRead DEF Init
<1>6. Manager!TypeOK
  BY <1>3, <1>4, <1>5, ReadsType
<1>. QED  BY <1>1, <1>6 DEF TypeInv, Init

(* The histories keep their types.                                         *)
LEMMA WatchType ==
    ASSUME NEW S, Watch(S), TypeInv
    PROVE  /\ reliable' \in [Reads -> SUBSET Replicas]
           /\ shaken' \in [Reads -> BOOLEAN]
<1>1. Trusted' \subseteq Replicas /\ Deceived' \in BOOLEAN
  BY DEF Trusted, Deceived
<1>2. \A d \in Reads : reliable[d] \subseteq Replicas /\ shaken[d] \in BOOLEAN
  BY DEF TypeInv
<1>. QED  BY <1>1, <1>2 DEF Watch

LEMMA TypeHeartbeatStep ==
    ASSUME TypeInv, HeartbeatStep
    PROVE  TypeInv'
<1>1. Watched!IInv'
  BY WatchedStep DEF HeartbeatStep, TypeInv
<1>2. available' \in [Replicas -> BOOLEAN]
  BY <1>1 DEF Watched!IInv, Watched!TypeOK
<1>3. Manager!TypeOK'
  BY <1>2, ReadsType DEF HeartbeatStep, TypeInv
<1>4. /\ reliable' \in [Reads -> SUBSET Replicas]
      /\ shaken' \in [Reads -> BOOLEAN]
  BY WatchType DEF HeartbeatStep
<1>. QED  BY <1>1, <1>3, <1>4 DEF TypeInv

LEMMA TypeRestart ==
    ASSUME TypeInv, GatewayRestarts
    PROVE  TypeInv'
<1>1. Watched!IInv'
  BY WatchedStep DEF GatewayRestarts, TypeInv
<1>2. available' \in [Replicas -> BOOLEAN]
  BY <1>1 DEF Watched!IInv, Watched!TypeOK
<1>3. roundRobin' \in Replicas
  BY ReplicaCountAssumption DEF GatewayRestarts, Manager!GatewayRestarts, Replicas
<1>5. read \in [Reads -> Manager!ReadType]
  BY ReadsType DEF TypeInv
<1>6. read' \in [Reads -> Manager!ReadType]
  BY BlankRead, <1>5 DEF GatewayRestarts, Manager!GatewayRestarts
<1>7. Manager!TypeOK'
  BY <1>2, <1>3, <1>6, ReadsType
<1>8. /\ reliable' \in [Reads -> SUBSET Replicas]
      /\ shaken' \in [Reads -> BOOLEAN]
  BY WatchType DEF GatewayRestarts
<1>. QED  BY <1>1, <1>7, <1>8 DEF TypeInv

LEMMA TypeRead ==
    ASSUME TypeInv, NEW d \in Reads,
           StartRead(d) \/ NextRequest(d) \/ Handle(d) \/ CallLost(d)
    PROVE  TypeInv'
<1>1. ASSUME StartRead(d) PROVE TypeInv'
  <2>1. Manager!TypeOK'
    BY <1>1, ReadTypeStep DEF StartRead, ManagerRead, TypeInv
  <2>2. Watched!IInv'
    BY <1>1, WatchedAtRest DEF StartRead, heartbeatVars, TypeInv
  <2>3. /\ reliable' \in [Reads -> SUBSET Replicas]
        /\ shaken' \in [Reads -> BOOLEAN]
    BY <1>1, WatchType DEF StartRead
  <2>. QED  BY <2>1, <2>2, <2>3 DEF TypeInv
<1>2. ASSUME NextRequest(d) PROVE TypeInv'
  <2>2. Manager!TypeOK'
    BY <1>2, BlankRead, ReadsType DEF NextRequest, heartbeatVars, TypeInv
  <2>3. Watched!IInv'
    BY <1>2, WatchedAtRest DEF NextRequest, heartbeatVars, TypeInv
  <2>. QED  BY <1>2, <2>2, <2>3 DEF TypeInv, NextRequest, history
<1>3. ASSUME Handle(d) PROVE TypeInv'
  <2>1. ManagerRead(d) /\ UNCHANGED <<heartbeatVars, history>>
    BY <1>3 DEF Handle, ChooseReplica, ServeRead, ReadFails, ManagerRead
  <2>2. Manager!TypeOK'
    BY <2>1, ReadTypeStep DEF TypeInv
  <2>3. Watched!IInv'
    BY <2>1, WatchedAtRest DEF heartbeatVars, TypeInv
  <2>. QED  BY <2>1, <2>2, <2>3 DEF TypeInv, history
<1>4. ASSUME CallLost(d) PROVE TypeInv'
  <2>1. Manager!TypeOK'
    BY <1>4, ReadTypeStep DEF CallLost, ManagerRead, TypeInv
  <2>2. available' = available
    BY <1>4 DEF CallLost, Manager!ReadFails, Manager!EndRead
  <2>3. Watched!IInv'
    BY <1>4, <2>2, WatchedAtRest DEF CallLost, TypeInv
  <2>. QED  BY <1>4, <2>1, <2>3 DEF CallLost, TypeInv
<1>. QED  BY <1>1, <1>2, <1>3, <1>4

---------------------------------------------------------------------------
(* One replica is enough *)

(* A step of the heartbeat, or of another read, that is watched.           *)
LEMMA WatchKeeps ==
    ASSUME NEW S, NEW e \in Reads, e \notin S, Watch(S), TypeInv,
           read'[e] = read[e], ReadIsWatched(e)
    PROVE  ReadIsWatched(e)'
<1>1. reliable'[e] = reliable[e] \cap Trusted'
  BY DEF Watch
<1>2. shaken'[e] <=> Deceived' \/ shaken[e] \/ health' # health
  BY DEF Watch, TypeInv
<1>3. reliable'[e] \subseteq Trusted' /\ reliable'[e] \subseteq reliable[e]
  BY <1>1
<1>4. (read[e].phase \in {"choosing", "sent"} /\ Deceived => shaken[e])'
  BY <1>2
<1>5. (read[e].phase = "choosing" =>
         \A k \in 0 .. read[e].offset - 1 :
             (read[e].start + k) % ReplicaCount \notin reliable[e])'
  BY <1>3 DEF ReadIsWatched
<1>6. (read[e].phase = "sent" /\ ~health[Manager!Candidate(e)] => shaken[e])'
  BY <1>2 DEF ReadIsWatched, Manager!Candidate
<1>7. (read[e].phase = "done" /\ read[e].status # 200 => reliable[e] = {} \/ shaken[e])'
  BY <1>2, <1>3 DEF ReadIsWatched
<1>. QED  BY <1>3, <1>4, <1>5, <1>6, <1>7 DEF ReadIsWatched

(* A step that leaves the read, the registry and the history alone.        *)
LEMMA StillWatched ==
    ASSUME NEW e \in Reads, ReadIsWatched(e), UNCHANGED <<health, available, reliable>>,
           read'[e] = read[e], shaken[e] => shaken'[e]
    PROVE  ReadIsWatched(e)'
<1>1. Trusted' = Trusted /\ (Deceived' <=> Deceived)
  BY DEF Trusted, Deceived
<1>. QED  BY <1>1 DEF ReadIsWatched, Manager!Candidate

(* A read that begins.                                                     *)
LEMMA WatchedFromTheStart ==
    ASSUME TypeInv, NEW d \in Reads, StartRead(d)
    PROVE  ReadIsWatched(d)'
<1>1. /\ reliable'[d] = Trusted'
      /\ shaken'[d] <=> Deceived'
  BY DEF StartRead, Watch
<1>2. read'[d].phase = "choosing" /\ read'[d].offset = 0
  <2>1. read \in [Reads -> Manager!ReadType]
    BY ReadsType DEF TypeInv
  <2>2. read'[d] = [Manager!IdleRead EXCEPT !.phase = "choosing", !.start = roundRobin',
                        !.acknowledged = Manager!Acknowledged]
    BY <2>1 DEF StartRead, Manager!StartRead
  <2>. QED  BY <2>2 DEF Manager!IdleRead
<1>3. \A k \in 0 .. read'[d].offset - 1 : FALSE
  BY <1>2
<1>. QED  BY <1>1, <1>2, <1>3 DEF ReadIsWatched

(* A step around the ring of replicas.                                     *)
LEMMA Wrap ==
    ASSUME NEW i \in 0 .. 2 * ReplicaCount - 1
    PROVE  i % ReplicaCount = IF i < ReplicaCount THEN i ELSE i - ReplicaCount
<1>1. ReplicaCount \in Nat \ {0}
  BY ReplicaCountAssumption
<1>2. CASE i < ReplicaCount
  BY <1>1, <1>2
<1>3. CASE i >= ReplicaCount
  <2>1. i = ReplicaCount * 1 + (i - ReplicaCount) /\ i - ReplicaCount \in 0 .. ReplicaCount - 1
    BY <1>1, <1>3
  <2>. QED  BY <1>1, <1>3, <2>1
<1>. QED  BY <1>1, <1>2, <1>3

(* The loop of HandleRead comes past every replica.                        *)
LEMMA EveryReplicaIsACandidate ==
    ASSUME NEW start \in Replicas, NEW r \in Replicas
    PROVE  \E k \in 0 .. ReplicaCount - 1 : (start + k) % ReplicaCount = r
<1>1. ReplicaCount \in Nat \ {0} /\ start \in 0 .. ReplicaCount - 1 /\ r \in 0 .. ReplicaCount - 1
  BY ReplicaCountAssumption DEF Replicas
<1>. DEFINE k == IF start <= r THEN r - start ELSE r - start + ReplicaCount
<1>2. k \in 0 .. ReplicaCount - 1 /\ start + k \in 0 .. 2 * ReplicaCount - 1
  BY <1>1
<1>. DEFINE i == start + k
<1>. HIDE DEF i
<1>3. i % ReplicaCount = IF i < ReplicaCount THEN i ELSE i - ReplicaCount
  BY <1>2, Wrap DEF i
<1>4. i % ReplicaCount = r
  <2>1. (IF i < ReplicaCount THEN i ELSE i - ReplicaCount) = r
    BY <1>1 DEF i
  <2>. QED  BY <1>3, <2>1
<1>5. (start + k) % ReplicaCount = r
  BY <1>4 DEF i
<1>. HIDE DEF k
<1>. QED  BY <1>2, <1>5

(* What a read is made of, and whom it turns to.                           *)
LEMMA ReadFields ==
    ASSUME TypeInv, NEW d \in Reads
    PROVE  /\ read \in [Reads -> Manager!ReadType]
           /\ read[d] \in Manager!ReadType
           /\ read[d].start \in Replicas
           /\ read[d].offset \in 0 .. ReplicaCount
           /\ Manager!Candidate(d) \in Replicas
<1>1. read \in [Reads -> Manager!ReadType]
  BY ReadsType DEF TypeInv
<1>2. read[d] \in Manager!ReadType
  BY <1>1
<1>3. /\ read[d].start \in 0 .. ReplicaCount - 1
      /\ read[d].offset \in 0 .. ReplicaCount
  BY <1>2 DEF Manager!ReadType, Manager!Replicas
<1>. DEFINE sum == read[d].start + read[d].offset
<1>4. sum \in Nat
  BY <1>3, ReplicaCountAssumption
<1>. HIDE DEF sum
<1>5. sum % ReplicaCount \in 0 .. ReplicaCount - 1
  BY <1>4, ReplicaCountAssumption
<1>. QED  BY <1>1, <1>2, <1>3, <1>5 DEF Manager!Candidate, Replicas, sum

(* Calling the next candidate, or having passed by one.                    *)
LEMMA WatchedChoice ==
    ASSUME TypeInv, NEW d \in Reads, ReadIsWatched(d), ChooseReplica(d)
    PROVE  ReadIsWatched(d)'
<1>0. UNCHANGED <<health, available, reliable, shaken>>
  BY DEF ChooseReplica, heartbeatVars, history
<1>1. Trusted' = Trusted /\ (Deceived' <=> Deceived)
  BY <1>0 DEF Trusted, Deceived
<1>2. CASE Manager!SkipCandidate(d)
  <2>1. /\ read[d].phase = "choosing"
        /\ Manager!Candidate(d) \notin reliable[d]
    BY <1>2 DEF Manager!SkipCandidate, ReadIsWatched, Trusted
  <2>2. /\ read'[d].phase = "choosing" /\ read'[d].start = read[d].start
        /\ read'[d].offset = read[d].offset + 1
    <3>1. read'[d] = [read[d] EXCEPT !.offset = read[d].offset + 1]
      BY <1>2, ReadFields DEF Manager!SkipCandidate
    <3>. QED  BY <3>1, <2>1, ReadFields DEF Manager!ReadType
  <2>3. ASSUME NEW k \in 0 .. read'[d].offset - 1
        PROVE  (read'[d].start + k) % ReplicaCount \notin reliable'[d]
    <3>1. k \in 0 .. read[d].offset - 1 \/ k = read[d].offset
      BY <2>2, ReadFields, ReplicaCountAssumption
    <3>2. CASE k = read[d].offset
      BY <1>0, <2>1, <2>2, <3>2 DEF Manager!Candidate
    <3>3. CASE k \in 0 .. read[d].offset - 1
      BY <1>0, <2>1, <2>2, <3>3 DEF ReadIsWatched
    <3>. QED  BY <3>1, <3>2, <3>3
  <2>. QED  BY <1>0, <1>1, <2>1, <2>2, <2>3 DEF ReadIsWatched
<1>3. CASE Manager!TakeCandidate(d)
  <2>1. /\ read'[d].phase = "sent" /\ read'[d].start = read[d].start
        /\ read'[d].offset = read[d].offset
    <3>1. read'[d] = [read[d] EXCEPT !.phase = "sent"]
      BY <1>3, ReadFields DEF Manager!TakeCandidate
    <3>. QED  BY <3>1, ReadFields DEF Manager!ReadType
  <2>2. ~health[Manager!Candidate(d)] => shaken[d]
    BY <1>3, ReadFields DEF Manager!TakeCandidate, ReadIsWatched, Deceived
  <2>3. Manager!Candidate(d)' = Manager!Candidate(d)
    BY <2>1 DEF Manager!Candidate
  <2>4. Deceived => shaken[d]
    BY <1>3 DEF Manager!TakeCandidate, ReadIsWatched
  <2>. QED  BY <1>0, <1>1, <2>1, <2>2, <2>3, <2>4 DEF ReadIsWatched
<1>4. CASE Manager!NoCandidateLeft(d)
  <2>1. read'[d].phase = "done"
    <3>1. read'[d] = [read[d] EXCEPT !.phase = "done", !.start = 0, !.offset = 0,
                                     !.status = 503, !.listing = <<>>]
      BY <1>4, ReadFields DEF Manager!NoCandidateLeft, Manager!EndRead
    <3>. QED  BY <3>1, ReadFields DEF Manager!ReadType
  <2>2. \A k \in 0 .. ReplicaCount - 1 : (read[d].start + k) % ReplicaCount \notin reliable[d]
    BY <1>4 DEF Manager!NoCandidateLeft, ReadIsWatched
  <2>3. reliable[d] = {}
    BY <2>2, ReadFields, EveryReplicaIsACandidate DEF TypeInv
  <2>. QED  BY <1>0, <1>1, <2>1, <2>3 DEF ReadIsWatched
<1>. QED  BY <1>2, <1>3, <1>4 DEF ChooseReplica

(* The answer, or none.                                                    *)
LEMMA WatchedEnd ==
    ASSUME TypeInv, NEW d \in Reads, ReadIsWatched(d),
           ServeRead(d) \/ ReadFails(d) \/ CallLost(d)
    PROVE  ReadIsWatched(d)'
<1>1. UNCHANGED <<health, available, reliable>>
  BY DEF ServeRead, ReadFails, CallLost, Manager!ReadFails, Manager!EndRead,
         heartbeatVars, history
<1>2. reliable'[d] \subseteq Trusted'
  BY <1>1 DEF Trusted, ReadIsWatched
<1>3. ASSUME NEW status, NEW listing, Manager!EndRead(d, status, listing)
      PROVE  read'[d].phase = "done" /\ read'[d].status = status
  <2>1. read'[d] = [read[d] EXCEPT !.phase = "done", !.start = 0, !.offset = 0,
                                   !.status = status, !.listing = listing]
    BY <1>3, ReadFields DEF Manager!EndRead
  <2>. QED  BY <2>1, ReadFields DEF Manager!ReadType
<1>4. CASE ServeRead(d)
  <2>1. read'[d].phase = "done" /\ read'[d].status = 200
    BY <1>3, <1>4 DEF ServeRead, Manager!ServeRead
  <2>. QED  BY <1>2, <2>1 DEF ReadIsWatched
<1>5. CASE ReadFails(d)
  <2>1. read'[d].phase = "done"
    BY <1>3, <1>5 DEF ReadFails, Manager!ReadFails
  <2>2. shaken'[d]
    BY <1>5 DEF ReadFails, Manager!ReadFails, ReadIsWatched, history
  <2>. QED  BY <1>2, <2>1, <2>2 DEF ReadIsWatched
<1>6. CASE CallLost(d)
  <2>1. read'[d].phase = "done"
    BY <1>3, <1>6 DEF CallLost, Manager!ReadFails
  <2>2. shaken'[d]
    BY <1>6 DEF CallLost, TypeInv
  <2>. QED  BY <1>2, <2>1, <2>2 DEF ReadIsWatched
<1>. QED  BY <1>4, <1>5, <1>6

(* What a step does to one read and its history.                           *)
LEMMA WatchedNext ==
    ASSUME IInv, Next, NEW e \in Reads
    PROVE  ReadIsWatched(e)'
<1>1. TypeInv /\ ReadIsWatched(e)
  BY DEF IInv
<1>2. CASE HeartbeatStep
  BY <1>1, <1>2, WatchKeeps DEF HeartbeatStep
<1>3. CASE GatewayRestarts
  <2>1. Watch({})
    BY <1>3 DEF GatewayRestarts
  <2>2. CASE read[e].phase \in {"choosing", "sent"}
    <3>1. read'[e].phase = "aborted"
      <4>1. read'[e] = [Manager!IdleRead EXCEPT !.phase = "aborted"]
        BY <1>3, <2>2 DEF GatewayRestarts, Manager!GatewayRestarts
      <4>. QED  BY <4>1 DEF Manager!IdleRead
    <3>. QED  BY <2>1, <3>1 DEF ReadIsWatched, Watch
  <2>3. CASE read[e].phase \notin {"choosing", "sent"}
    <3>1. read'[e] = read[e]
      BY <1>3, <2>3 DEF GatewayRestarts, Manager!GatewayRestarts
    <3>. QED  BY <1>1, <2>1, <3>1, WatchKeeps
  <2>. QED  BY <2>2, <2>3
<1>4. ASSUME NEW d \in Reads, StartRead(d) PROVE ReadIsWatched(e)'
  <2>1. CASE e = d
    BY <1>1, <1>4, <2>1, WatchedFromTheStart
  <2>2. CASE e # d
    <3>1. read'[e] = read[e] /\ Watch({d}) /\ e \notin {d}
      BY <1>1, <1>4, <2>2, ReadFields DEF StartRead, Manager!StartRead
    <3>. QED  BY <1>1, <3>1, WatchKeeps
  <2>. QED  BY <2>1, <2>2
<1>5. ASSUME NEW d \in Reads, NextRequest(d) PROVE ReadIsWatched(e)'
  <2>0. UNCHANGED <<health, available, reliable, shaken>>
    BY <1>5 DEF NextRequest, heartbeatVars, history
  <2>1. CASE e = d
    <3>1. read'[e].phase = "new"
      BY <1>1, <1>5, <2>1, ReadFields DEF NextRequest, Manager!IdleRead
    <3>2. Trusted' = Trusted
      BY <2>0 DEF Trusted
    <3>. QED  BY <1>1, <2>0, <3>1, <3>2 DEF ReadIsWatched
  <2>2. CASE e # d
    <3>1. read'[e] = read[e]
      BY <1>1, <1>5, <2>2, ReadFields DEF NextRequest
    <3>. QED  BY <1>1, <2>0, <3>1, StillWatched
  <2>. QED  BY <2>1, <2>2
<1>6. ASSUME NEW d \in Reads, Handle(d) \/ CallLost(d) PROVE ReadIsWatched(e)'
  <2>1. CASE e = d
    BY <1>1, <1>6, <2>1, WatchedChoice, WatchedEnd DEF Handle
  <2>2. CASE e # d
    <3>1. read'[e] = read[e]
      BY <1>1, <1>6, <2>2, ReadFields
      DEF Handle, ChooseReplica, ServeRead, ReadFails, CallLost, Manager!SkipCandidate,
          Manager!TakeCandidate, Manager!NoCandidateLeft, Manager!ServeRead,
          Manager!ReadFails, Manager!EndRead
    <3>2. UNCHANGED <<health, available, reliable>>
      BY <1>6
      DEF Handle, ChooseReplica, ServeRead, ReadFails, CallLost, Manager!ReadFails,
          Manager!EndRead, heartbeatVars, history
    <3>3. shaken[e] => shaken'[e]
      BY <1>1, <1>6, <2>2
      DEF Handle, ChooseReplica, ServeRead, ReadFails, CallLost, history, TypeInv
    <3>. QED  BY <1>1, <3>1, <3>2, <3>3, StillWatched
  <2>. QED  BY <2>1, <2>2
<1>. QED  BY <1>2, <1>3, <1>4, <1>5, <1>6 DEF Next

LEMMA InvInit == Init => IInv
<1>. SUFFICES ASSUME Init PROVE IInv
  OBVIOUS
<1>1. TypeInv
  BY InitIsTyped
<1>2. ASSUME NEW d \in Reads PROVE ReadIsWatched(d)
  <2>1. reliable[d] = {} /\ read[d].phase = "new"
    BY DEF Init, Manager!IdleRead
  <2>. QED  BY <2>1 DEF ReadIsWatched
<1>. QED  BY <1>1, <1>2 DEF IInv

LEMMA InvStep == IInv /\ [Next]_vars => IInv'
<1>. SUFFICES ASSUME IInv, [Next]_vars PROVE IInv'
  OBVIOUS
<1>1. CASE Next
  <2>1. TypeInv'
    BY <1>1, TypeHeartbeatStep, TypeRestart, TypeRead DEF IInv, Next
  <2>. QED  BY <1>1, <2>1, WatchedNext DEF IInv
<1>2. CASE UNCHANGED vars
  <2>1. Watched!IInv'
    BY <1>2, WatchedAtRest DEF vars, heartbeatVars, IInv, TypeInv
  <2>2. TypeInv'
    BY <1>2, <2>1, ReadsType DEF vars, heartbeatVars, history, IInv, TypeInv
  <2>3. ASSUME NEW e \in Reads PROVE ReadIsWatched(e)'
    BY <1>2, <2>3, StillWatched DEF vars, heartbeatVars, history, IInv
  <2>. QED  BY <2>2, <2>3 DEF IInv
<1>. QED  BY <1>1, <1>2

---------------------------------------------------------------------------
(* The theorems *)

LEMMA Invariance == Spec => []IInv
BY InvInit, InvStep, PTL DEF Spec

(* Every variable has its type: the heartbeat keeps its own whatever the   *)
(* reads do, and the reads theirs, whatever the heartbeat does to the      *)
(* availability they go by.                                                *)
THEOREM GatewayTypeCorrect == Spec => []TypeOK
<1>1. IInv => TypeOK
  BY WatchedType DEF IInv, TypeInv, TypeOK, Watched!IInv
<1>. QED  BY <1>1, Invariance, PTL

(* A read of the catalogue fails (502 or 503) only if no replica was       *)
(* available and healthy all the time since it began, or availability      *)
(* lagged behind health meanwhile, or its call was lost; for any number of *)
(* replicas, threshold of the heartbeat and number of readers.             *)
THEOREM OneIsEnough == Spec => []OneReplicaIsEnough
<1>1. IInv => OneReplicaIsEnough
  BY DEF IInv, ReadIsWatched, OneReplicaIsEnough
<1>. QED  BY <1>1, Invariance, PTL
=============================================================================
