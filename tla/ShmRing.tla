------------------------------ MODULE ShmRing ------------------------------
(***************************************************************************)
(* One shared-memory descriptor ring (RingView in Async/ipc_transport.cpp).*)
(*                                                                         *)
(* Producer and consumer each own a position counter; a slot changes hands *)
(* only through its generation.  At position p, slot p % capacity is       *)
(*   p             owned by the producer, which may fill it,               *)
(*   p + 1         published, owned by the consumer,                       *)
(*   p + capacity  released, owned by the producer of the next lap.        *)
(* A consumer may keep a slot after it has passed it (ReceivedIpcSlot),    *)
(* and a producer may pass a slot that it fills later, out of order        *)
(* (CompletionReservation): both leave the generation as it was.           *)
(***************************************************************************)
EXTENDS Integers

CONSTANTS Capacity,  \* ring_capacity
          NoItem     \* the content of a slot never written

(***************************************************************************)
(* valid_config() refuses a ring of fewer than two slots: with one slot    *)
(* "published" and "released" would be the same generation.                *)
(***************************************************************************)
ASSUME RingAssumption == Capacity \in Nat /\ Capacity >= 2

Slots == 0 .. Capacity - 1

SlotOf(position) == position % Capacity

Rings(Items) == [gen : [Slots -> Nat], item : [Slots -> Items \cup {NoItem}],
                 producer : Nat, consumer : Nat]

(* initialize_ring: every slot is free for the position equal to its index *)
EmptyRing == [gen |-> [s \in Slots |-> s], item |-> [s \in Slots |-> NoItem],
              producer |-> 0, consumer |-> 0]

(* the generation test of try_push and try_reserve; otherwise would_block *)
Writable(ring) == ring.gen[SlotOf(ring.producer)] = ring.producer

(* the generation test of ready, try_pop and try_acquire *)
Readable(ring) == ring.gen[SlotOf(ring.consumer)] = ring.consumer + 1

Front(ring) == ring.item[SlotOf(ring.consumer)]

(* try_push *)
Push(ring, item) ==
  LET s == SlotOf(ring.producer)
  IN  [ring EXCEPT !.item[s] = item, !.gen[s] = ring.producer + 1,
                   !.producer = @ + 1]

(* try_reserve, and CompletionReservation::publish and abandon *)
Reserve(ring) == [ring EXCEPT !.producer = @ + 1]

Publish(ring, position, item) ==
  [ring EXCEPT !.item[SlotOf(position)] = item,
               !.gen[SlotOf(position)] = position + 1]

Abandon(ring, position) ==
  [ring EXCEPT !.gen[SlotOf(position)] = position + Capacity]

(* try_acquire, and ReceivedIpcSlot::reset *)
Acquire(ring) == [ring EXCEPT !.consumer = @ + 1]

Release(ring, position) ==
  [ring EXCEPT !.gen[SlotOf(position)] = position + Capacity]

(* try_acquire followed at once by reset, the net effect of try_pop *)
Pop(ring) == Release(Acquire(ring), ring.consumer)
============================================================================
