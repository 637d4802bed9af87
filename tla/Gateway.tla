------------------------------ MODULE Gateway ------------------------------
(***************************************************************************)
(* What a reader of the catalogue sees of a replica that falls ill: the    *)
(* reads of ProductReplicas composed with the Heartbeat that probes the    *)
(* replicas.  The two meet in the availability of the registry (Server in  *)
(* gateway/server.go gives the replica manager the registry): Heartbeat    *)
(* writes it from the health it has probed, HandleRead goes by it, and the *)
(* replica a read is sent to answers only if it is healthy by then.        *)
(*                                                                         *)
(* Requests to read keep coming.  There are no writes here, since a read   *)
(* fails or succeeds whatever the catalogue holds.                         *)
(***************************************************************************)
EXTENDS Integers, Sequences, FiniteSets

CONSTANTS
    ReplicaCount,
    Reads,              \* the reads that may be under way at one time
    Capacity, FailureThreshold, MaxFailures,    \* of Heartbeat
    MaxDisturbances     \* bound: changes of health, lost probes and lost calls

Replicas == 0 .. ReplicaCount - 1

ASSUME ReplicaCountAssumption == ReplicaCount \in Nat \ {0}
ASSUME HeartbeatAssumption ==
    /\ Capacity \in Nat \ {0}
    /\ FailureThreshold \in Nat \ {0}
    /\ MaxFailures \in Nat
    /\ MaxFailures >= FailureThreshold
    /\ MaxDisturbances \in Nat

VARIABLES
    \* of Heartbeat
    health, running, probe, failures, available, eventRing, eventLog, outcomes, disturbances,
    \* of ProductReplicas
    roundRobin, read,
    \* History: per read, since it began, the replicas that have been available and healthy
    \* all the time, and whether an available replica has been ill or health has changed
    reliable, shaken

heartbeatVars ==
    <<health, running, probe, failures, available, eventRing, eventLog, outcomes, disturbances>>
history == <<reliable, shaken>>
vars == <<heartbeatVars, roundRobin, read, history>>

Monitor == INSTANCE Heartbeat WITH Services <- Replicas, SyntheticServices <- {}

Manager ==
    INSTANCE ProductReplicas WITH
        Writes <- {}, Requests <- {}, Seeds <- {}, InitialCatalogue <- <<>>,
        request <- <<>>, phase <- <<>>, call <- <<>>, answer <- <<>>, outcome <- <<>>,
        collected <- <<>>, first <- <<>>, reply <- <<>>, overlapped <- (0 > ReplicaCount),
        catalogue <- [r \in Replicas |-> <<>>], applied <- [r \in Replicas |-> {}]

Init ==
    /\ Monitor!Init
    /\ roundRobin = 0
    /\ read = [d \in Reads |-> Manager!IdleRead]
    /\ reliable = [d \in Reads |-> {}]
    /\ shaken = [d \in Reads |-> FALSE]

---------------------------------------------------------------------------
(* The history of each read, after a step. *)

Trusted == {r \in Replicas : available[r] /\ health[r]}
Deceived == \E r \in Replicas : available[r] /\ ~health[r]

Watch(started) ==
    /\ reliable' = [d \in Reads |-> IF d \in started THEN Trusted' ELSE reliable[d] \cap Trusted']
    /\ shaken' = [d \in Reads |->
           Deceived' \/ (d \notin started /\ (shaken[d] \/ health' # health))]

---------------------------------------------------------------------------
(* Reads *)

(* The next request, when the last one has been answered, or not. *)
StartRead(d) ==
    /\ running
    /\ read[d].phase = "new"
    /\ Manager!StartRead(d)
    /\ UNCHANGED heartbeatVars
    /\ Watch({d})

NextRequest(d) ==
    /\ read[d].phase \in {"done", "aborted"}
    /\ read' = [read EXCEPT ![d] = Manager!IdleRead]
    /\ UNCHANGED <<heartbeatVars, roundRobin, history>>

ChooseReplica(d) ==
    /\ Manager!SkipCandidate(d) \/ Manager!TakeCandidate(d) \/ Manager!NoCandidateLeft(d)
    /\ UNCHANGED <<heartbeatVars, history>>

ServeRead(d) ==
    /\ Manager!ServeRead(d)
    /\ health[Manager!Candidate(d)]
    /\ UNCHANGED <<heartbeatVars, history>>

(* The replica is ill: no answer (502), or a kill switch's (503). *)
ReadFails(d) ==
    /\ Manager!ReadFails(d)
    /\ ~health[Manager!Candidate(d)]
    /\ UNCHANGED <<heartbeatVars, history>>

(* A healthy replica's answer is lost. *)
CallLost(d) ==
    /\ Manager!ReadFails(d)
    /\ health[Manager!Candidate(d)]
    /\ Monitor!Disturb
    /\ shaken' = [shaken EXCEPT ![d] = TRUE]
    /\ UNCHANGED <<health, running, probe, failures, eventRing, eventLog, outcomes, reliable>>

(* HandleRead's goroutine. *)
Handle(d) == ChooseReplica(d) \/ ServeRead(d) \/ ReadFails(d)

---------------------------------------------------------------------------
(* The heartbeat; its Cancel and Restart are the gateway's. *)

HeartbeatStep ==
    /\ \/ Monitor!StartRound \/ Monitor!Cancel
       \/ \E r \in Replicas :
            Monitor!ProbeStep(r) \/ Monitor!HealthChanges(r) \/ Monitor!ProbeLost(r)
    /\ Watch({})
    /\ UNCHANGED <<roundRobin, read>>

GatewayRestarts == Monitor!Restart /\ Manager!GatewayRestarts /\ Watch({})

Next ==
    \/ HeartbeatStep \/ GatewayRestarts
    \/ \E d \in Reads : StartRead(d) \/ NextRequest(d) \/ Handle(d) \/ CallLost(d)

Spec == Init /\ [][Next]_vars

(* The heartbeat's fairness, and HandleRead's goroutines run; nobody need  *)
(* send a request.                                                         *)
FairSpec ==
    /\ Spec
    /\ WF_vars(HeartbeatStep /\ Monitor!StartRound)
    /\ WF_vars(GatewayRestarts)
    /\ \A r \in Replicas : WF_vars(HeartbeatStep /\ Monitor!ProbeStep(r))
    /\ \A d \in Reads : WF_vars(Handle(d))

---------------------------------------------------------------------------
(* Properties *)

(* Every variable has its type. *)
TypeOK ==
    /\ Monitor!TypeOK
    /\ Manager!TypeOK
    /\ reliable \in [Reads -> SUBSET Replicas]
    /\ shaken \in [Reads -> BOOLEAN]

(* One replica that is up all the time is enough: a read that fails either *)
(* found none such, or was deceived by an availability that lags behind    *)
(* the health (heartbeat.go counts failures first), or lost its call.      *)
OneReplicaIsEnough ==
    \A d \in Reads :
        read[d].phase = "done" /\ read[d].status # 200 => reliable[d] = {} \/ shaken[d]

Ends(d, status) ==
    /\ read[d].phase # "done"
    /\ read'[d].phase = "done"
    /\ read'[d].status = status

(* The reads go on ("as leituras continuam") when a replica is killed, in  *)
(* the end: with a replica that stays healthy no read fails any more, and  *)
(* without any no read waits for a dead replica, but is refused at once.   *)
ReadsSettle ==
    /\ \A r \in Replicas :
         <>[](health[r] /\ running) => <>[][\A d \in Reads : ~Ends(d, 502) /\ ~Ends(d, 503)]_vars
    /\ <>[](running /\ \A r \in Replicas : ~health[r]) => <>[][\A d \in Reads : ~Ends(d, 502)]_vars
=============================================================================
