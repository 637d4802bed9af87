---------------------------- MODULE EventRing ----------------------------
(***************************************************************************)
(* The circular buffer of internal/gateway/events.go, which keeps the      *)
(* latest DOWN and RECOVERED events for the dashboard.                     *)
(***************************************************************************)
EXTENDS Integers, Sequences

CONSTANTS
    Services,   \* the names of the monitored services
    Capacity    \* how many events the ring holds (50 in the code)

(* NewEventRing replaces a capacity that is not positive.                  *)
ASSUME CapacityAssumption == Capacity \in Nat \ {0}
ASSUME ServicesAssumption == Services # {}

Event == [service: Services, kind: {"DOWN", "RECOVERED"}]

Slots == 0 .. Capacity - 1

(* Slots that were never written hold a zero Event, which Snapshot never   *)
(* shows: here any event.                                                  *)
RingType == [storage: [Slots -> Event], nextWriteIndex: Slots, totalAdded: Nat]

EmptyRing ==
    [storage |-> [slot \in Slots |-> CHOOSE event \in Event : TRUE],
     nextWriteIndex |-> 0,
     totalAdded |-> 0]

(* Mutant: the write index wraps one slot late.                            *)
PushWrapsLate(ring, event) ==
    [storage |-> [ring.storage EXCEPT ![ring.nextWriteIndex] = event],
     nextWriteIndex |-> (ring.nextWriteIndex + 1) % (Capacity + 1),
     totalAdded |-> ring.totalAdded + 1]

Push(ring, event) ==
    [storage |-> [ring.storage EXCEPT ![ring.nextWriteIndex] = event],
     nextWriteIndex |-> (ring.nextWriteIndex + 1) % Capacity,
     totalAdded |-> ring.totalAdded + 1]

CurrentLength(ring) == IF ring.totalAdded > Capacity THEN Capacity ELSE ring.totalAdded

(* Mutant: nextWriteIndex taken for the newest event's slot.               *)
ReadIndexOffByOne(ring, offset) == (ring.nextWriteIndex - offset + Capacity) % Capacity

ReadIndex(ring, offset) == (ring.nextWriteIndex - 1 - offset + Capacity) % Capacity

(* Newest first.                                                           *)
Snapshot(ring) ==
    [n \in 1 .. CurrentLength(ring) |-> ring.storage[ReadIndex(ring, n - 1)]]
=============================================================================
