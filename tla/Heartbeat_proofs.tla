------------------------- MODULE Heartbeat_proofs -------------------------
(***************************************************************************)
(* Proofs about Heartbeat, for any services, threshold and capacity of the *)
(* event ring, and any number of disturbances: the dashboard's events are  *)
(* the latest ones, the log agrees with the status the proxy goes by, and  *)
(* nothing but enough failures in a row takes a service out of service.    *)
(***************************************************************************)
EXTENDS Heartbeat, TLAPS

(* The ring holds the end of the log: the event that is k events old lies  *)
(* where Snapshot looks for it, unless it has been overwritten.            *)
RingHolds(ring, log) ==
    /\ ring.totalAdded = Len(log)
    /\ \A n \in 1 .. Len(log) :
         Len(log) - n < Capacity => ring.storage[ReadIndex(ring, Len(log) - n)] = log[n]

(* The failures that are counted are the latest outcomes.                  *)
CountedFailures ==
    \A s \in Services \ SyntheticServices : \A n \in 1 .. FailureThreshold :
        n <= failures[s] => n <= Len(outcomes[s]) /\ outcomes[s][n] = "failed"

IInv == TypeOK /\ RingHolds(eventRing, eventLog) /\ LogMatchesStatus /\ CountedFailures

---------------------------------------------------------------------------
(* The ring *)

(* A remainder one step around the ring.                                   *)
LEMMA Wrap ==
    ASSUME NEW i \in 0 .. 2 * Capacity - 1
    PROVE  i % Capacity = IF i < Capacity THEN i ELSE i - Capacity
<1>1. Capacity \in Nat \ {0}
  BY CapacityAssumption
<1>2. CASE i < Capacity
  BY <1>1, <1>2
<1>3. CASE i >= Capacity
  <2>1. i = Capacity * 1 + (i - Capacity) /\ i - Capacity \in 0 .. Capacity - 1
    BY <1>1, <1>3
  <2>. QED  BY <1>1, <1>3, <2>1
<1>. QED  BY <1>1, <1>2, <1>3

(* Where Snapshot looks for an event that the ring still has.              *)
LEMMA ReadIndexIs ==
    ASSUME NEW ring \in RingType, NEW k \in 0 .. Capacity - 1
    PROVE  /\ ReadIndex(ring, k) \in Slots
           /\ ReadIndex(ring, k) = IF k < ring.nextWriteIndex
                                   THEN ring.nextWriteIndex - 1 - k
                                   ELSE ring.nextWriteIndex - 1 - k + Capacity
<1>1. Capacity \in Nat \ {0} /\ ring.nextWriteIndex \in 0 .. Capacity - 1
  BY CapacityAssumption DEF RingType, Slots
<1>. DEFINE i == ring.nextWriteIndex - 1 - k + Capacity
<1>2. i \in 0 .. 2 * Capacity - 1
  BY <1>1
<1>3. ReadIndex(ring, k) = i % Capacity
  BY DEF ReadIndex
<1>. HIDE DEF i
<1>4. ReadIndex(ring, k) = IF i < Capacity THEN i ELSE i - Capacity
  BY <1>2, <1>3, Wrap
<1>. QED  BY <1>1, <1>4 DEF i, Slots

LEMMA PushType ==
    ASSUME NEW ring \in RingType, NEW event \in Event
    PROVE  Push(ring, event) \in RingType
<1>1. /\ ring.storage \in [Slots -> Event] /\ ring.nextWriteIndex \in Slots
      /\ ring.totalAdded \in Nat
  BY DEF RingType
<1>2. (ring.nextWriteIndex + 1) % Capacity \in Slots
  BY <1>1, CapacityAssumption DEF Slots
<1>3. ring.totalAdded + 1 \in Nat
  BY <1>1
<1>. QED  BY <1>1, <1>2, <1>3 DEF Push, RingType

(* Push puts the new event where the next Snapshot begins, and overwrites  *)
(* at most the one that is Capacity events old.                            *)
LEMMA PushKeepsLatest ==
    ASSUME NEW ring \in RingType, NEW log \in Seq(Event), NEW event \in Event,
           RingHolds(ring, log)
    PROVE  RingHolds(Push(ring, event), Append(log, event))
<1>. DEFINE next == ring.nextWriteIndex
            new == Push(ring, event)
            longer == Append(log, event)
<1>0. Capacity \in Nat \ {0} /\ next \in 0 .. Capacity - 1 /\ ring.storage \in [Slots -> Event]
  BY CapacityAssumption DEF RingType, Slots
<1>1. /\ new.storage = [ring.storage EXCEPT ![next] = event]
      /\ new.nextWriteIndex = (next + 1) % Capacity
      /\ new.totalAdded = ring.totalAdded + 1
      /\ new \in RingType
  BY PushType DEF Push
<1>2. Len(longer) = Len(log) + 1 /\ longer[Len(log) + 1] = event /\ Len(log) \in Nat
      /\ \A n \in 1 .. Len(log) : longer[n] = log[n]
  OBVIOUS
<1>3. new.nextWriteIndex = IF next + 1 < Capacity THEN next + 1 ELSE 0
  BY <1>0, <1>1, Wrap
<1>. HIDE DEF new, longer
<1>4. ReadIndex(new, 0) = next
  <2>1. 0 \in 0 .. Capacity - 1
    BY <1>0
  <2>2. ReadIndex(new, 0) = IF 0 < new.nextWriteIndex
                            THEN new.nextWriteIndex - 1 - 0
                            ELSE new.nextWriteIndex - 1 - 0 + Capacity
    BY <1>1, <2>1, ReadIndexIs
  <2>. QED  BY <1>0, <1>3, <2>2
<1>5. ASSUME NEW k \in 0 .. Capacity - 2
      PROVE  ReadIndex(new, k + 1) = ReadIndex(ring, k) /\ ReadIndex(ring, k) # next
             /\ ReadIndex(ring, k) \in Slots
  <2>1. k \in 0 .. Capacity - 1 /\ k + 1 \in 0 .. Capacity - 1
    BY <1>0
  <2>2. ReadIndex(ring, k) = IF k < next THEN next - 1 - k ELSE next - 1 - k + Capacity
    BY <2>1, ReadIndexIs
  <2>3. ReadIndex(new, k + 1) = IF k + 1 < new.nextWriteIndex
                                THEN new.nextWriteIndex - 1 - (k + 1)
                                ELSE new.nextWriteIndex - 1 - (k + 1) + Capacity
    BY <1>1, <2>1, ReadIndexIs
  <2>4. ReadIndex(ring, k) \in Slots
    BY <2>1, ReadIndexIs
  <2>. QED  BY <1>0, <1>3, <2>2, <2>3, <2>4
<1>6. new.totalAdded = Len(longer)
  BY <1>1, <1>2 DEF RingHolds
<1>7. ASSUME NEW n \in 1 .. Len(longer), Len(longer) - n < Capacity
      PROVE  new.storage[ReadIndex(new, Len(longer) - n)] = longer[n]
  <2>1. CASE n = Len(longer)
    <3>1. Len(longer) - n = 0
      BY <1>2, <2>1
    <3>2. next \in DOMAIN ring.storage
      BY <1>0 DEF Slots
    <3>. QED  BY <1>0, <1>1, <1>2, <1>4, <2>1, <3>1, <3>2
  <2>2. CASE n # Len(longer)
    <3>. DEFINE k == Len(log) - n
    <3>1. n \in 1 .. Len(log) /\ k \in 0 .. Capacity - 2 /\ Len(longer) - n = k + 1
      BY <1>0, <1>2, <1>7, <2>2
    <3>2. ring.storage[ReadIndex(ring, k)] = log[n]
      BY <1>0, <3>1 DEF RingHolds
    <3>3. ReadIndex(new, k + 1) = ReadIndex(ring, k) /\ ReadIndex(ring, k) # next
          /\ ReadIndex(ring, k) \in Slots
      BY <1>5, <3>1
    <3>4. new.storage[ReadIndex(ring, k)] = ring.storage[ReadIndex(ring, k)]
      BY <1>0, <1>1, <3>3
    <3>. QED  BY <1>2, <3>1, <3>2, <3>3, <3>4
  <2>. QED  BY <2>1, <2>2
<1>. QED  BY <1>6, <1>7 DEF RingHolds, new, longer

LEMMA EmptyRingHolds == EmptyRing \in RingType /\ RingHolds(EmptyRing, <<>>)
<1>1. (CHOOSE event \in Event : TRUE) \in Event
  <2>1. PICK s \in Services : TRUE
    BY ServicesAssumption
  <2>2. [service |-> s, kind |-> "DOWN"] \in Event
    BY DEF Event
  <2>. QED  BY <2>2
<1>2. 0 \in Slots
  BY CapacityAssumption DEF Slots
<1>3. EmptyRing \in RingType
  BY <1>1, <1>2 DEF EmptyRing, RingType
<1>. QED  BY <1>3 DEF EmptyRing, RingHolds

(* Snapshot shows what the ring holds.                                     *)
LEMMA SnapshotShows ==
    ASSUME NEW ring \in RingType, NEW log \in Seq(Event), RingHolds(ring, log)
    PROVE  /\ Len(Snapshot(ring)) = IF Len(log) < Capacity THEN Len(log) ELSE Capacity
           /\ \A n \in 1 .. Len(Snapshot(ring)) : Snapshot(ring)[n] = log[Len(log) + 1 - n]
<1>. DEFINE length == CurrentLength(ring)
<1>1. Capacity \in Nat \ {0} /\ Len(log) \in Nat /\ ring.totalAdded = Len(log)
  BY CapacityAssumption DEF RingHolds
<1>2. length = (IF Len(log) < Capacity THEN Len(log) ELSE Capacity) /\ length \in Nat
  BY <1>1 DEF CurrentLength
<1>. HIDE DEF length
<1>3. Snapshot(ring) = [n \in 1 .. length |-> ring.storage[ReadIndex(ring, n - 1)]]
  BY DEF Snapshot, length
<1>4. Len(Snapshot(ring)) = length
  BY <1>2, <1>3
<1>5. ASSUME NEW n \in 1 .. length
      PROVE  Snapshot(ring)[n] = log[Len(log) + 1 - n]
  <2>. DEFINE m == Len(log) + 1 - n
  <2>1. m \in 1 .. Len(log) /\ Len(log) - m = n - 1 /\ n - 1 < Capacity
    BY <1>1, <1>2
  <2>2. ring.storage[ReadIndex(ring, n - 1)] = log[m]
    BY <2>1 DEF RingHolds
  <2>. QED  BY <1>3, <2>2
<1>. QED  BY <1>2, <1>4, <1>5

---------------------------------------------------------------------------
(* The log *)

(* One more event changes what the log says of its own service only.       *)
LEMMA LogGrows ==
    ASSUME NEW log \in Seq(Event), NEW event \in Event, NEW s \in Services
    PROVE  LET longer == Append(log, event) IN
           /\ \A n \in 0 .. Len(log) : UpAfter(longer, s, n) <=> UpAfter(log, s, n)
           /\ event.service = s =>
                (UpAfter(longer, s, Len(log) + 1) <=> event.kind = "RECOVERED")
           /\ event.service # s =>
                (UpAfter(longer, s, Len(log) + 1) <=> UpAfter(log, s, Len(log)))
<1>. DEFINE L == Len(log)
            longer == Append(log, event)
<1>1. /\ Len(longer) = L + 1 /\ longer[L + 1] = event /\ L \in Nat
      /\ \A n \in 1 .. L : longer[n] = log[n]
  OBVIOUS
<1>. HIDE DEF longer, L
<1>2. ASSUME NEW n \in 0 .. L
      PROVE  UpAfter(longer, s, n) <=> UpAfter(log, s, n)
  <2>1. \A m \in 1 .. n : longer[m] = log[m]
    BY <1>1
  <2>2. \A m \in 1 .. n : \A k \in m + 1 .. n : k \in 1 .. n
    BY <1>1
  <2>. QED  BY <2>1, <2>2 DEF UpAfter
<1>3. CASE event.service = s
  <2>1. UpAfter(longer, s, L + 1) => event.kind = "RECOVERED"
    <3>1. L + 1 \in 1 .. L + 1 /\ L + 1 + 1 .. L + 1 = {}
      BY <1>1
    <3>. QED  BY <1>1, <1>3, <3>1 DEF UpAfter
  <2>2. ASSUME event.kind = "RECOVERED", NEW m \in 1 .. L + 1, longer[m].service = s,
               \A k \in m + 1 .. L + 1 : longer[k].service # s
        PROVE  longer[m].kind = "RECOVERED"
    <3>1. m = L + 1
      <4>1. m # L + 1 => L + 1 \in m + 1 .. L + 1
        BY <1>1
      <4>. QED  BY <1>1, <1>3, <2>2, <4>1
    <3>. QED  BY <1>1, <2>2, <3>1
  <2>. QED  BY <1>2, <1>3, <2>1, <2>2 DEF UpAfter, L, longer
<1>4. CASE event.service # s
  <2>1. ASSUME UpAfter(log, s, L), NEW m \in 1 .. L + 1, longer[m].service = s,
               \A k \in m + 1 .. L + 1 : longer[k].service # s
        PROVE  longer[m].kind = "RECOVERED"
    <3>1. m \in 1 .. L
      BY <1>1, <1>4, <2>1
    <3>2. \A k \in m + 1 .. L : k \in m + 1 .. L + 1 /\ k \in 1 .. L
      BY <1>1, <3>1
    <3>. QED  BY <1>1, <2>1, <3>1, <3>2 DEF UpAfter
  <2>2. ASSUME UpAfter(longer, s, L + 1), NEW m \in 1 .. L, log[m].service = s,
               \A k \in m + 1 .. L : log[k].service # s
        PROVE  log[m].kind = "RECOVERED"
    <3>1. m \in 1 .. L + 1 /\ longer[m] = log[m]
      BY <1>1
    <3>2. ASSUME NEW k \in m + 1 .. L + 1
          PROVE  longer[k].service # s
      <4>1. CASE k = L + 1
        BY <1>1, <1>4, <4>1
      <4>2. CASE k # L + 1
        <5>1. k \in m + 1 .. L /\ k \in 1 .. L
          BY <1>1, <4>2
        <5>. QED  BY <1>1, <2>2, <5>1
      <4>. QED  BY <4>1, <4>2
    <3>. QED  BY <2>2, <3>1, <3>2 DEF UpAfter
  <2>3. UpAfter(longer, s, L + 1) <=> UpAfter(log, s, L)
    BY <2>1, <2>2 DEF UpAfter
  <2>. QED  BY <1>2, <1>4, <2>3 DEF L, longer
<1>. QED  BY <1>3, <1>4

(* A change of status that is recorded keeps log and status together.      *)
LEMMA RecordsTruly ==
    ASSUME TypeOK, LogMatchesStatus, NEW s \in Services,
           NEW kind \in {"DOWN", "RECOVERED"}, kind = "DOWN" <=> available[s],
           available' = [available EXCEPT ![s] = ~available[s]],
           RecordEvent(s, kind)
    PROVE  LogMatchesStatus'
<1>. DEFINE event == [service |-> s, kind |-> kind]
<1>1. eventLog \in Seq(Event) /\ event \in Event /\ event.service = s /\ event.kind = kind
  BY DEF TypeOK, Event
<1>2. eventLog' = Append(eventLog, event)
  BY DEF RecordEvent
<1>. HIDE DEF event
<1>3. PICK L \in Nat : L = Len(eventLog)
  BY <1>1
<1>4. /\ Len(eventLog') = L + 1 /\ eventLog'[L + 1] = event
      /\ \A n \in 1 .. L : eventLog'[n] = eventLog[n]
  BY <1>1, <1>2, <1>3
<1>. SUFFICES ASSUME NEW t \in Services \ SyntheticServices
              PROVE  /\ \A n \in 1 .. L + 1 : eventLog'[n].service = t =>
                           (eventLog'[n].kind = "DOWN" <=> UpAfter(eventLog', t, n - 1))
                     /\ available'[t] <=> UpAfter(eventLog', t, L + 1)
  BY <1>4 DEF LogMatchesStatus
<1>5. /\ \A n \in 0 .. L : UpAfter(eventLog', t, n) <=> UpAfter(eventLog, t, n)
      /\ t = s => (UpAfter(eventLog', t, L + 1) <=> kind = "RECOVERED")
      /\ t # s => (UpAfter(eventLog', t, L + 1) <=> UpAfter(eventLog, t, L))
  BY <1>1, <1>2, <1>3, LogGrows
<1>6. /\ \A n \in 1 .. L : eventLog[n].service = t =>
            (eventLog[n].kind = "DOWN" <=> UpAfter(eventLog, t, n - 1))
      /\ available[t] <=> UpAfter(eventLog, t, L)
  BY <1>3 DEF LogMatchesStatus
<1>7. ASSUME NEW n \in 1 .. L + 1, eventLog'[n].service = t
      PROVE  eventLog'[n].kind = "DOWN" <=> UpAfter(eventLog', t, n - 1)
  <2>1. CASE n \in 1 .. L
    <3>1. n - 1 \in 0 .. L
      BY <2>1
    <3>. QED  BY <1>4, <1>5, <1>6, <1>7, <2>1, <3>1
  <2>2. CASE n = L + 1
    <3>1. t = s /\ n - 1 = L /\ L \in 0 .. L
      BY <1>1, <1>4, <1>7, <2>2
    <3>. QED  BY <1>1, <1>4, <1>5, <1>6, <2>2, <3>1
  <2>. QED  BY <2>1, <2>2
<1>8. available'[t] <=> UpAfter(eventLog', t, L + 1)
  <2>1. CASE t = s
    <3>1. available'[t] = ~available[t]
      BY <2>1 DEF TypeOK
    <3>. QED  BY <1>5, <2>1, <3>1
  <2>2. CASE t # s
    <3>1. available'[t] = available[t]
      BY <2>2 DEF TypeOK
    <3>. QED  BY <1>5, <1>6, <2>2, <3>1
  <2>. QED  BY <2>1, <2>2
<1>. QED  BY <1>7, <1>8

LEMMA NothingRecorded ==
    ASSUME LogMatchesStatus, UNCHANGED eventLog,
           \A t \in Services \ SyntheticServices : available'[t] = available[t]
    PROVE  LogMatchesStatus'
BY DEF LogMatchesStatus, UpAfter

---------------------------------------------------------------------------
(* Outcomes *)

(* The outcomes that are remembered after one more.                        *)
LEMMA RememberNewest ==
    ASSUME TypeOK, NEW s \in Services, NEW outcome \in {"succeeded", "failed"},
           Remember(s, outcome)
    PROVE  /\ outcomes' \in [Services -> Seq({"succeeded", "failed"})]
           /\ \A t \in Services : t # s => outcomes'[t] = outcomes[t]
           /\ Len(outcomes'[s]) = IF Len(outcomes[s]) < FailureThreshold
                                  THEN Len(outcomes[s]) + 1 ELSE FailureThreshold
           /\ outcomes'[s][1] = outcome
           /\ \A n \in 1 .. Len(outcomes'[s]) - 1 : outcomes'[s][n + 1] = outcomes[s][n]
<1>. DEFINE old == outcomes[s]
            all == <<outcome>> \o old
            length == IF Len(old) < FailureThreshold THEN Len(old) + 1 ELSE FailureThreshold
<1>1. old \in Seq({"succeeded", "failed"}) /\ FailureThreshold \in Nat \ {0}
  BY ThresholdAssumption DEF TypeOK
<1>. HIDE DEF old
<1>2. /\ all \in Seq({"succeeded", "failed"}) /\ Len(all) = Len(old) + 1
      /\ all[1] = outcome /\ \A n \in 1 .. Len(old) : all[n + 1] = old[n]
  BY <1>1
<1>3. length \in 1 .. Len(old) + 1
  BY <1>1
<1>. HIDE DEF all, length
<1>4. /\ SubSeq(all, 1, length) \in Seq({"succeeded", "failed"})
      /\ Len(SubSeq(all, 1, length)) = length
      /\ \A n \in 1 .. length : SubSeq(all, 1, length)[n] = all[n]
  BY <1>1, <1>2, <1>3
<1>5. outcomes' = [outcomes EXCEPT ![s] = SubSeq(all, 1, length)]
  BY DEF Remember, old, all, length
<1>6. outcomes'[s] = SubSeq(all, 1, length)
  BY <1>5 DEF TypeOK
<1>7. \A n \in 1 .. length - 1 : SubSeq(all, 1, length)[n + 1] = old[n]
  BY <1>1, <1>2, <1>3, <1>4
<1>8. SubSeq(all, 1, length)[1] = outcome
  BY <1>1, <1>2, <1>3, <1>4
<1>9. outcomes' \in [Services -> Seq({"succeeded", "failed"})]
      /\ \A t \in Services : t # s => outcomes'[t] = outcomes[t]
  BY <1>4, <1>5 DEF TypeOK
<1>10. Len(outcomes'[s]) = length
  BY <1>4, <1>6
<1>. QED  BY <1>6, <1>7, <1>8, <1>9, <1>10 DEF length, old

(* A failure that is counted is remembered; a success starts anew.         *)
LEMMA FailureCounts ==
    ASSUME TypeOK, CountedFailures, NEW s \in Services, Remember(s, "failed"),
           failures' = [failures EXCEPT ![s] = FailureCount(s)]
    PROVE  CountedFailures'
<1>. SUFFICES ASSUME NEW t \in Services \ SyntheticServices, NEW n \in 1 .. FailureThreshold,
                     n <= failures'[t]
              PROVE  n <= Len(outcomes'[t]) /\ outcomes'[t][n] = "failed"
  BY DEF CountedFailures
<1>1. CASE t # s
  <2>1. outcomes'[t] = outcomes[t] /\ failures'[t] = failures[t]
    BY <1>1, RememberNewest DEF TypeOK
  <2>. QED  BY <2>1 DEF CountedFailures
<1>2. CASE t = s
  <2>1. /\ Len(outcomes'[s]) = IF Len(outcomes[s]) < FailureThreshold
                               THEN Len(outcomes[s]) + 1 ELSE FailureThreshold
        /\ outcomes'[s][1] = "failed"
        /\ \A m \in 1 .. Len(outcomes'[s]) - 1 : outcomes'[s][m + 1] = outcomes[s][m]
        /\ Len(outcomes[s]) \in Nat
    BY RememberNewest DEF TypeOK
  <2>2. FailureThreshold \in Nat \ {0} /\ MaxFailures \in Nat /\ failures[s] \in 0 .. MaxFailures
    BY ThresholdAssumption DEF TypeOK
  <2>3. n - 1 <= failures[s]
    <3>1. failures'[s] = FailureCount(s)
      BY DEF TypeOK
    <3>. QED  BY <1>2, <2>2, <3>1 DEF FailureCount
  <2>4. CASE n = 1
    BY <1>2, <2>1, <2>2, <2>4
  <2>5. CASE n # 1
    <3>1. n - 1 \in 1 .. FailureThreshold
      BY <2>2, <2>5
    <3>2. n - 1 <= Len(outcomes[s]) /\ outcomes[s][n - 1] = "failed"
      BY <1>2, <2>3, <3>1 DEF CountedFailures
    <3>3. n <= Len(outcomes'[s]) /\ n - 1 \in 1 .. Len(outcomes'[s]) - 1
      BY <2>1, <2>2, <3>1, <3>2
    <3>4. outcomes'[s][(n - 1) + 1] = "failed"
      BY <2>1, <3>2, <3>3
    <3>. QED  BY <1>2, <3>3, <3>4
  <2>. QED  BY <2>4, <2>5
<1>. QED  BY <1>1, <1>2

---------------------------------------------------------------------------
(* The invariant *)

LEMMA InvInit == Init => IInv
<1>. SUFFICES ASSUME Init PROVE IInv
  OBVIOUS
<1>1. eventRing \in RingType /\ RingHolds(eventRing, eventLog)
  BY EmptyRingHolds DEF Init
<1>2. TypeOK
  BY <1>1, ThresholdAssumption
  DEF Init, TypeOK, NoProbe, NoFailure, AllAvailable, NoOutcome
<1>3. LogMatchesStatus
  <2>1. /\ Len(eventLog) = 0 /\ 1 .. 0 = {}
        /\ \A s \in Services : available[s] = TRUE
    BY DEF Init, AllAvailable
  <2>. QED  BY <2>1 DEF LogMatchesStatus, UpAfter
<1>4. CountedFailures
  BY ThresholdAssumption DEF Init, CountedFailures, NoFailure
<1>. QED  BY <1>1, <1>2, <1>3, <1>4 DEF IInv

(* Rounds, probes and the surroundings do not touch the registry.          *)
LEMMA SurroundingsStep ==
    ASSUME IInv, TypeOK', UNCHANGED registryVars
    PROVE  IInv'
BY NothingRecorded DEF IInv, registryVars, CountedFailures

LEMMA SurroundingsType ==
    ASSUME TypeOK,
           \/ StartRound \/ Cancel
           \/ \E s \in Services : ProbeEnds(s) \/ HealthChanges(s) \/ ProbeLost(s)
    PROVE  TypeOK' /\ UNCHANGED registryVars
<1>1. UNCHANGED registryVars
  BY DEF StartRound, Cancel, ProbeEnds, HealthChanges, ProbeLost
<1>2. disturbances' \in 0 .. MaxDisturbances
  <2>1. disturbances' = disturbances
        \/ (disturbances < MaxDisturbances /\ disturbances' = disturbances + 1)
    BY DEF StartRound, Cancel, ProbeEnds, HealthChanges, ProbeLost, Disturb, Undisturbed
  <2>. QED  BY <2>1, ThresholdAssumption DEF TypeOK
<1>3. /\ health' \in [Services -> BOOLEAN] /\ running' \in BOOLEAN
      /\ probe' \in [Services -> {"idle", "pending", "succeeded", "failed"}]
  <2>1. CASE StartRound
    BY <2>1 DEF TypeOK, StartRound, Undisturbed, SameSurroundings
  <2>2. CASE Cancel
    BY <2>2 DEF TypeOK, Cancel
  <2>3. ASSUME NEW s \in Services, ProbeEnds(s) \/ ProbeLost(s)
        PROVE  /\ UNCHANGED <<health, running>>
               /\ \E to \in {"succeeded", "failed"} : probe' = [probe EXCEPT ![s] = to]
    BY <2>3 DEF ProbeEnds, ProbeLost, Undisturbed, SameSurroundings
  <2>4. ASSUME NEW s \in Services, HealthChanges(s)
        PROVE  UNCHANGED <<running, probe>> /\ health' = [health EXCEPT ![s] = ~health[s]]
    BY <2>4 DEF HealthChanges
  <2>. QED  BY <2>1, <2>2, <2>3, <2>4 DEF TypeOK
<1>. QED  BY <1>1, <1>2, <1>3 DEF TypeOK, registryVars

LEMMA RecordStep ==
    ASSUME TypeOK, RingHolds(eventRing, eventLog), NEW s \in Services,
           NEW kind \in {"DOWN", "RECOVERED"}, RecordEvent(s, kind)
    PROVE  /\ eventRing' \in RingType /\ eventLog' \in Seq(Event)
           /\ RingHolds(eventRing', eventLog')
<1>. DEFINE event == [service |-> s, kind |-> kind]
<1>1. event \in Event /\ eventRing \in RingType /\ eventLog \in Seq(Event)
  BY DEF TypeOK, Event
<1>2. eventRing' = Push(eventRing, event) /\ eventLog' = Append(eventLog, event)
  BY DEF RecordEvent
<1>. HIDE DEF event
<1>. QED  BY <1>1, <1>2, PushType, PushKeepsLatest

LEMMA SuccessStep ==
    ASSUME IInv, NEW s \in Services, RecordSuccess(s)
    PROVE  IInv'
<1>. USE DEF IInv
<1>1. /\ probe' = [probe EXCEPT ![s] = "idle"]
      /\ failures' = [failures EXCEPT ![s] = 0]
      /\ available' = [available EXCEPT ![s] = TRUE]
      /\ IF available[s] THEN UNCHANGED <<eventRing, eventLog>> ELSE RecordEvent(s, "RECOVERED")
      /\ Remember(s, "succeeded")
      /\ UNCHANGED <<health, running, disturbances>>
  BY DEF RecordSuccess, Undisturbed, SameSurroundings
<1>2. /\ eventRing' \in RingType /\ eventLog' \in Seq(Event)
      /\ RingHolds(eventRing', eventLog')
  BY <1>1, RecordStep DEF TypeOK
<1>3. /\ outcomes' \in [Services -> Seq({"succeeded", "failed"})]
      /\ \A t \in Services : t # s => outcomes'[t] = outcomes[t]
  BY <1>1, RememberNewest
<1>4. TypeOK'
  <2>1. 0 \in 0 .. MaxFailures
    BY ThresholdAssumption
  <2>2. failures' \in [Services -> 0 .. MaxFailures]
    BY <1>1, <2>1 DEF TypeOK
  <2>. QED  BY <1>1, <1>2, <1>3, <2>2 DEF TypeOK
<1>5. LogMatchesStatus'
  <2>1. CASE available[s]
    <3>1. available' = available
      BY <1>1, <2>1 DEF TypeOK
    <3>. QED  BY <1>1, <2>1, <3>1, NothingRecorded
  <2>2. CASE ~available[s]
    <3>1. available' = [available EXCEPT ![s] = ~available[s]]
      BY <1>1, <2>2 DEF TypeOK
    <3>. QED  BY <1>1, <2>2, <3>1, RecordsTruly
  <2>. QED  BY <2>1, <2>2
<1>6. CountedFailures'
  <2>1. failures'[s] = 0 /\ \A t \in Services : t # s => failures'[t] = failures[t]
    BY <1>1 DEF TypeOK
  <2>2. \A n \in 1 .. FailureThreshold : ~(n <= 0)
    BY ThresholdAssumption
  <2>. QED  BY <1>3, <2>1, <2>2 DEF CountedFailures
<1>. QED  BY <1>2, <1>4, <1>5, <1>6

LEMMA FailureStep ==
    ASSUME IInv, NEW s \in Services, RecordFailure(s)
    PROVE  IInv'
<1>. USE DEF IInv
<1>1. /\ probe' = [probe EXCEPT ![s] = "idle"]
      /\ failures' = [failures EXCEPT ![s] = FailureCount(s)]
      /\ IF MarksDown(s)
         THEN available' = [available EXCEPT ![s] = FALSE] /\ RecordEvent(s, "DOWN")
         ELSE UNCHANGED <<available, eventRing, eventLog>>
      /\ Remember(s, "failed")
      /\ UNCHANGED <<health, running, disturbances>>
  BY DEF RecordFailure, Undisturbed, SameSurroundings
<1>2. /\ eventRing' \in RingType /\ eventLog' \in Seq(Event)
      /\ RingHolds(eventRing', eventLog')
  BY <1>1, RecordStep DEF TypeOK
<1>3. outcomes' \in [Services -> Seq({"succeeded", "failed"})]
  BY <1>1, RememberNewest
<1>4. FailureCount(s) \in 0 .. MaxFailures
  BY ThresholdAssumption DEF TypeOK, FailureCount
<1>5. TypeOK'
  BY <1>1, <1>2, <1>3, <1>4 DEF TypeOK
<1>6. LogMatchesStatus'
  <2>1. CASE MarksDown(s)
    <3>1. available[s] /\ available' = [available EXCEPT ![s] = ~available[s]]
      BY <1>1, <2>1 DEF TypeOK, MarksDown
    <3>. QED  BY <1>1, <2>1, <3>1, RecordsTruly
  <2>2. CASE ~MarksDown(s)
    BY <1>1, <2>2, NothingRecorded
  <2>. QED  BY <2>1, <2>2
<1>7. CountedFailures'
  BY <1>1, FailureCounts
<1>. QED  BY <1>2, <1>5, <1>6, <1>7

LEMMA OutageStep ==
    ASSUME IInv, NEW s \in SyntheticServices, SyntheticOutage(s)
    PROVE  IInv'
<1>. USE DEF IInv
<1>1. /\ available' = [available EXCEPT ![s] = FALSE]
      /\ failures' = [failures EXCEPT ![s] = FailureThreshold]
      /\ UNCHANGED <<health, running, probe, eventRing, eventLog, outcomes>>
      /\ disturbances < MaxDisturbances /\ disturbances' = disturbances + 1
  BY DEF SyntheticOutage, SameSurroundings, Disturb
<1>2. s \in Services /\ FailureThreshold \in 0 .. MaxFailures
  BY SyntheticAssumption, ThresholdAssumption
<1>3. disturbances' \in 0 .. MaxDisturbances
  BY <1>1, ThresholdAssumption DEF TypeOK
<1>4. TypeOK'
  BY <1>1, <1>2, <1>3 DEF TypeOK
<1>5. \A t \in Services \ SyntheticServices :
          available'[t] = available[t] /\ failures'[t] = failures[t]
  BY <1>1 DEF TypeOK
<1>6. LogMatchesStatus'
  BY <1>1, <1>5, NothingRecorded
<1>7. CountedFailures'
  BY <1>1, <1>5 DEF CountedFailures
<1>. QED  BY <1>1, <1>4, <1>6, <1>7

LEMMA RestartStep ==
    ASSUME IInv, Restart
    PROVE  IInv'
<1>1. /\ running' = TRUE /\ probe' = NoProbe /\ failures' = NoFailure
      /\ available' = AllAvailable /\ eventRing' = EmptyRing /\ eventLog' = <<>>
      /\ outcomes' = NoOutcome
      /\ UNCHANGED <<health, disturbances>>
  BY DEF Restart
<1>2. eventRing' \in RingType /\ RingHolds(eventRing', eventLog')
  BY <1>1, EmptyRingHolds
<1>3. TypeOK'
  BY <1>1, <1>2, ThresholdAssumption
  DEF IInv, TypeOK, NoProbe, NoFailure, AllAvailable, NoOutcome
<1>4. LogMatchesStatus'
  BY <1>1 DEF LogMatchesStatus, UpAfter, AllAvailable
<1>5. CountedFailures'
  BY <1>1, ThresholdAssumption DEF CountedFailures, NoFailure
<1>. QED  BY <1>2, <1>3, <1>4, <1>5 DEF IInv

LEMMA InvStep ==
    ASSUME IInv, [Next]_vars
    PROVE  IInv'
<1>0. TypeOK
  BY DEF IInv
<1>1. CASE \/ StartRound \/ Cancel
           \/ \E s \in Services : ProbeEnds(s) \/ HealthChanges(s) \/ ProbeLost(s)
  BY <1>0, <1>1, SurroundingsType, SurroundingsStep
<1>2. ASSUME NEW s \in Services, RecordSuccess(s) \/ RecordFailure(s)
      PROVE  IInv'
  BY <1>2, SuccessStep, FailureStep
<1>3. ASSUME NEW s \in SyntheticServices, SyntheticOutage(s)
      PROVE  IInv'
  BY <1>3, OutageStep
<1>4. CASE Restart
  BY <1>4, RestartStep
<1>5. CASE UNCHANGED vars
  <2>1. TypeOK' /\ UNCHANGED registryVars
    BY <1>0, <1>5 DEF vars, registryVars, TypeOK
  <2>. QED  BY <2>1, SurroundingsStep
<1>. QED  BY <1>1, <1>2, <1>3, <1>4, <1>5 DEF Next, ProbeStep

LEMMA Invariance == Spec => []IInv
<1>1. IInv /\ [Next]_vars => IInv'
  BY InvStep
<1>. QED  BY <1>1, InvInit, PTL DEF Spec

---------------------------------------------------------------------------
(* Every variable has its type, for any services, threshold and capacity:  *)
(* the ring's write index stays inside it (events.go).                     *)
THEOREM HeartbeatTypeCorrect == Spec => []TypeOK
BY Invariance, PTL DEF IInv

(* Push and Snapshot: the dashboard shows the latest events, newest first, *)
(* whatever the capacity and however often the ring has wrapped around.    *)
THEOREM RingShowsLatest == Spec => []RingShowsRecentEvents
<1>1. ASSUME IInv
      PROVE  RingShowsRecentEvents
  BY <1>1, SnapshotShows DEF IInv, TypeOK, RingShowsRecentEvents
<1>. QED  BY <1>1, Invariance, PTL

(* recordProbeOutcome logs every change of status and no other: DOWN and   *)
(* RECOVERED alternate and end with the status the proxy goes by.          *)
THEOREM LogIsTrue == Spec => []LogMatchesStatus
BY Invariance, PTL DEF IInv

(* recordProbeOutcome marks a service down only after FailureThreshold     *)
(* failures in a row, however probes, recoveries and restarts interleave.  *)
THEOREM DownAfterFailures == Spec => DownOnlyAfterFailuresInARow
<1>. DEFINE DownStep ==
                \A s \in Services \ SyntheticServices :
                    available[s] /\ ~available'[s] =>
                        /\ Len(outcomes'[s]) = FailureThreshold
                        /\ \A n \in 1 .. FailureThreshold : outcomes'[s][n] = "failed"
<1>1. ASSUME IInv, Next
      PROVE  DownStep
  <2>. SUFFICES ASSUME NEW s \in Services \ SyntheticServices, available[s], ~available'[s]
                PROVE  /\ Len(outcomes'[s]) = FailureThreshold
                       /\ \A n \in 1 .. FailureThreshold : outcomes'[s][n] = "failed"
    OBVIOUS
  <2>0. TypeOK /\ CountedFailures /\ CountedFailures'
    BY <1>1, InvStep DEF IInv
  <2>1. RecordFailure(s) /\ MarksDown(s)
    <3>1. CASE \/ StartRound \/ Cancel
               \/ \E t \in Services : ProbeEnds(t) \/ HealthChanges(t) \/ ProbeLost(t)
      BY <2>0, <3>1, SurroundingsType DEF registryVars
    <3>2. ASSUME NEW t \in Services, RecordSuccess(t)
          PROVE  FALSE
      BY <2>0, <3>2 DEF RecordSuccess, TypeOK
    <3>3. ASSUME NEW t \in Services, RecordFailure(t)
          PROVE  t = s /\ MarksDown(t)
      BY <2>0, <3>3 DEF RecordFailure, TypeOK
    <3>4. ASSUME NEW t \in SyntheticServices, SyntheticOutage(t)
          PROVE  FALSE
      BY <2>0, <3>4 DEF SyntheticOutage, TypeOK
    <3>5. CASE Restart
      BY <3>5 DEF Restart, AllAvailable
    <3>. QED  BY <1>1, <3>1, <3>2, <3>3, <3>4, <3>5 DEF Next, ProbeStep
  <2>2. /\ failures'[s] = FailureCount(s) /\ FailureCount(s) >= FailureThreshold
        /\ Remember(s, "failed")
    BY <2>0, <2>1 DEF RecordFailure, MarksDown, TypeOK
  <2>3. FailureThreshold \in Nat \ {0} /\ FailureCount(s) \in Nat
    BY <2>0, ThresholdAssumption DEF FailureCount, TypeOK
  <2>4. \A n \in 1 .. FailureThreshold : n <= Len(outcomes'[s]) /\ outcomes'[s][n] = "failed"
    <3>1. \A n \in 1 .. FailureThreshold : n <= failures'[s]
      BY <2>2, <2>3
    <3>. QED  BY <2>0, <3>1 DEF CountedFailures
  <2>5. Len(outcomes'[s]) = IF Len(outcomes[s]) < FailureThreshold
                            THEN Len(outcomes[s]) + 1 ELSE FailureThreshold
    BY <2>0, <2>2, RememberNewest
  <2>6. Len(outcomes[s]) \in Nat /\ FailureThreshold \in 1 .. FailureThreshold
    BY <2>0, <2>3 DEF TypeOK
  <2>7. FailureThreshold <= Len(outcomes'[s])
    BY <2>4, <2>6
  <2>. QED  BY <2>3, <2>4, <2>5, <2>6, <2>7
<1>2. IInv /\ [Next]_vars => [DownStep]_vars
  BY <1>1
<1>. QED  BY <1>2, Invariance, PTL DEF Spec, DownOnlyAfterFailuresInARow
=============================================================================
