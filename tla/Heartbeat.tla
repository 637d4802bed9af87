---------------------------- MODULE Heartbeat ----------------------------
(***************************************************************************)
(* The gateway's HeartbeatRegistry (internal/gateway/heartbeat.go): rounds *)
(* of parallel health probes, a failure count per service, the             *)
(* availability the proxy and the replica manager go by, and the log of    *)
(* DOWN and RECOVERED events.  Services fall ill and recover at any        *)
(* moment, between a probe and the recording of its outcome as well.       *)
(***************************************************************************)
EXTENDS EventRing, FiniteSets

CONSTANTS
    FailureThreshold,   \* FailuresBeforeMarkingDown
    SyntheticServices,  \* those MarkSyntheticOutage is used on (by tests only)
    MaxFailures,        \* bound: consecutiveFailures is not counted further
    MaxDisturbances     \* bound: how often the surroundings change at all

(* SetFailureThreshold raises a threshold below 1 to 1.                    *)
ASSUME ThresholdAssumption ==
    /\ FailureThreshold \in Nat \ {0}
    /\ MaxFailures \in Nat
    /\ MaxFailures >= FailureThreshold
    /\ MaxDisturbances \in Nat
ASSUME SyntheticAssumption == SyntheticServices \subseteq Services

VARIABLES
    health,         \* does the service answer GET /health with 2xx in time?
    running,        \* FALSE once loopContext is cancelled
    probe,          \* per service: "idle", "pending", "succeeded", "failed"
    failures,       \* consecutiveFailures
    available,      \* isAvailable
    eventRing,
    \* History and bound
    eventLog,       \* every event recorded since the gateway started
    outcomes,       \* per service: its last outcomes recorded, newest first
    disturbances

registryVars == <<failures, available, eventRing, eventLog, outcomes>>
vars == <<health, running, probe, registryVars, disturbances>>

(* NewHeartbeatRegistry: everything counts as available until probed.      *)
NoProbe == [s \in Services |-> "idle"]
NoFailure == [s \in Services |-> 0]
AllAvailable == [s \in Services |-> TRUE]
NoOutcome == [s \in Services |-> <<>>]

Init ==
    /\ health \in [Services -> BOOLEAN]
    /\ running = TRUE
    /\ probe = NoProbe
    /\ failures = NoFailure
    /\ available = AllAvailable
    /\ eventRing = EmptyRing
    /\ eventLog = <<>>
    /\ outcomes = NoOutcome
    /\ disturbances = 0

---------------------------------------------------------------------------
(* The registry's own steps leave its surroundings as they are.  (Stated   *)
(* by equalities, since Lifecycle puts expressions for the two.)           *)
SameSurroundings == health' = health /\ running' = running
Undisturbed == SameSurroundings /\ UNCHANGED disturbances

(* Run and tickOnce: a round starts when the last one is over.  That the   *)
(* context is cancelled does not rule it out, as the select of Run may     *)
(* still pick a tick that is ready; the probes of such a round fail.       *)

StartRound ==
    /\ \A s \in Services : probe[s] = "idle"
    /\ probe' = [s \in Services |-> "pending"]
    /\ Undisturbed
    /\ UNCHANGED registryVars

(* performSingleProbe; a cancelled context fails the probe as well. *)
ProbeEnds(s) ==
    /\ probe[s] = "pending"
    /\ \/ health[s] /\ running /\ probe' = [probe EXCEPT ![s] = "succeeded"]
       \/ ~(health[s] /\ running) /\ probe' = [probe EXCEPT ![s] = "failed"]
    /\ Undisturbed
    /\ UNCHANGED registryVars

(* Records an event in the ring, and in the history. *)
RecordEvent(s, kind) ==
    LET event == [service |-> s, kind |-> kind] IN
    /\ eventRing' = Push(eventRing, event)
    /\ eventLog' = Append(eventLog, event)

Remember(s, outcome) ==
    outcomes' = [outcomes EXCEPT ![s] =
        SubSeq(<<outcome>> \o @, 1,
               IF Len(@) < FailureThreshold THEN Len(@) + 1 ELSE FailureThreshold)]

(* Mutants: a success does not reset the count of a service that is        *)
(* available; a recovery logs nothing; there is no recovery.               *)
RecordSuccessWithoutReset(s) ==
    /\ probe[s] = "succeeded"
    /\ probe' = [probe EXCEPT ![s] = "idle"]
    /\ failures' = IF available[s] THEN failures ELSE [failures EXCEPT ![s] = 0]
    /\ available' = [available EXCEPT ![s] = TRUE]
    /\ IF available[s] THEN UNCHANGED <<eventRing, eventLog>> ELSE RecordEvent(s, "RECOVERED")
    /\ Remember(s, "succeeded")
    /\ Undisturbed

RecordSuccessSilently(s) ==
    /\ probe[s] = "succeeded"
    /\ probe' = [probe EXCEPT ![s] = "idle"]
    /\ failures' = [failures EXCEPT ![s] = 0]
    /\ available' = [available EXCEPT ![s] = TRUE]
    /\ UNCHANGED <<eventRing, eventLog>>
    /\ Remember(s, "succeeded")
    /\ Undisturbed

RecordSuccessWithoutRecovery(s) ==
    /\ probe[s] = "succeeded"
    /\ probe' = [probe EXCEPT ![s] = "idle"]
    /\ failures' = [failures EXCEPT ![s] = 0]
    /\ UNCHANGED <<available, eventRing, eventLog>>
    /\ Remember(s, "succeeded")
    /\ Undisturbed

(* recordProbeOutcome, success. *)
RecordSuccess(s) ==
    /\ probe[s] = "succeeded"
    /\ probe' = [probe EXCEPT ![s] = "idle"]
    /\ failures' = [failures EXCEPT ![s] = 0]
    /\ available' = [available EXCEPT ![s] = TRUE]
    /\ IF available[s] THEN UNCHANGED <<eventRing, eventLog>> ELSE RecordEvent(s, "RECOVERED")
    /\ Remember(s, "succeeded")
    /\ Undisturbed

FailureCount(s) == IF failures[s] < MaxFailures THEN failures[s] + 1 ELSE MaxFailures

(* Mutant: the service is marked down one failure late, if ever.           *)
MarksDownTooLate(s) == available[s] /\ FailureCount(s) > MaxFailures

MarksDown(s) == available[s] /\ FailureCount(s) >= FailureThreshold

(* recordProbeOutcome, failure. *)
RecordFailure(s) ==
    /\ probe[s] = "failed"
    /\ probe' = [probe EXCEPT ![s] = "idle"]
    /\ failures' = [failures EXCEPT ![s] = FailureCount(s)]
    /\ IF MarksDown(s)
       THEN available' = [available EXCEPT ![s] = FALSE] /\ RecordEvent(s, "DOWN")
       ELSE UNCHANGED <<available, eventRing, eventLog>>
    /\ Remember(s, "failed")
    /\ Undisturbed

---------------------------------------------------------------------------
(* The surroundings. *)

Disturb == disturbances < MaxDisturbances /\ disturbances' = disturbances + 1

HealthChanges(s) ==
    /\ Disturb
    /\ health' = [health EXCEPT ![s] = ~@]
    /\ UNCHANGED <<running, probe, registryVars>>

(* A single probe of a healthy service times out or is lost. *)
ProbeLost(s) ==
    /\ Disturb
    /\ probe[s] = "pending"
    /\ probe' = [probe EXCEPT ![s] = "failed"]
    /\ SameSurroundings
    /\ UNCHANGED registryVars

(* MarkSyntheticOutage: down at once, without an event. *)
SyntheticOutage(s) ==
    /\ Disturb
    /\ available' = [available EXCEPT ![s] = FALSE]
    /\ failures' = [failures EXCEPT ![s] = FailureThreshold]
    /\ SameSurroundings
    /\ UNCHANGED <<probe, eventRing, eventLog, outcomes>>

(* The gateway is told to stop.                                            *)
Cancel ==
    /\ Disturb
    /\ running
    /\ running' = FALSE
    /\ UNCHANGED <<health, probe, registryVars>>

(* It comes back, with a registry that remembers nothing. *)
Restart ==
    /\ ~running
    /\ running' = TRUE
    /\ probe' = NoProbe
    /\ failures' = NoFailure
    /\ available' = AllAvailable
    /\ eventRing' = EmptyRing
    /\ eventLog' = <<>>
    /\ outcomes' = NoOutcome
    /\ UNCHANGED <<health, disturbances>>

ProbeStep(s) == ProbeEnds(s) \/ RecordSuccess(s) \/ RecordFailure(s)

Next ==
    \/ StartRound \/ Cancel \/ Restart
    \/ \E s \in Services : ProbeStep(s) \/ HealthChanges(s) \/ ProbeLost(s)
    \/ \E s \in SyntheticServices : SyntheticOutage(s)

Spec == Init /\ [][Next]_vars

(* The ticker ticks, a probe ends after healthProbeTimeout at the latest   *)
(* and is recorded, and Compose restarts a gateway that stopped.           *)
FairSpec ==
    /\ Spec
    /\ WF_vars(StartRound)
    /\ WF_vars(Restart)
    /\ \A s \in Services : WF_vars(ProbeStep(s))

---------------------------------------------------------------------------
(* Properties *)

(* Every variable has its type; the ring's write index is in the ring.     *)
TypeOK ==
    /\ health \in [Services -> BOOLEAN]
    /\ running \in BOOLEAN
    /\ probe \in [Services -> {"idle", "pending", "succeeded", "failed"}]
    /\ failures \in [Services -> 0 .. MaxFailures]
    /\ available \in [Services -> BOOLEAN]
    /\ eventRing \in RingType
    /\ eventLog \in Seq(Event)
    /\ outcomes \in [Services -> Seq({"succeeded", "failed"})]
    /\ disturbances \in 0 .. MaxDisturbances

(* The dashboard's event list is the end of the full history, newest       *)
(* first, before and after the ring has wrapped around.                    *)
RingShowsRecentEvents ==
    LET shown == Snapshot(eventRing) IN
    /\ Len(shown) = IF Len(eventLog) < Capacity THEN Len(eventLog) ELSE Capacity
    /\ \A n \in 1 .. Len(shown) : shown[n] = eventLog[Len(eventLog) + 1 - n]

(* What the first n events of a log say of a service: it is up unless the  *)
(* last one of its own is DOWN.                                            *)
UpAfter(log, s, n) ==
    \A m \in 1 .. n :
        log[m].service = s /\ (\A k \in m + 1 .. n : log[k].service # s)
            => log[m].kind = "RECOVERED"

(* The log tells the truth about every service: DOWN and RECOVERED         *)
(* alternate, beginning with DOWN, and the last of them is the status the  *)
(* proxy goes by.  (A synthetic outage is not logged.)                     *)
LogMatchesStatus ==
    \A s \in Services \ SyntheticServices :
        /\ \A n \in 1 .. Len(eventLog) : eventLog[n].service = s =>
              (eventLog[n].kind = "DOWN" <=> UpAfter(eventLog, s, n - 1))
        /\ available[s] <=> UpAfter(eventLog, s, Len(eventLog))

(* A service is taken out of service only by FailureThreshold failures in  *)
(* a row: a lost probe, or failures with a success in between, do not.     *)
DownOnlyAfterFailuresInARow ==
    [][\A s \in Services \ SyntheticServices :
          available[s] /\ ~available'[s] =>
              /\ Len(outcomes'[s]) = FailureThreshold
              /\ \A n \in 1 .. FailureThreshold : outcomes'[s][n] = "failed"]_vars

(* A service that stays ill is marked down, and one that stays healthy is  *)
(* marked available, for good, as soon as the surroundings settle.         *)
StatusFollowsHealth ==
    \A s \in Services :
        /\ <>[](~health[s] /\ running) => <>[](~available[s])
        /\ <>[](health[s] /\ running) => <>[](available[s])
=============================================================================
