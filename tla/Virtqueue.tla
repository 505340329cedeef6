------------------------------ MODULE Virtqueue ------------------------------
(***************************************************************************)
(* struct Virtqueue: the split ring the driver shares with a virtio device.*)
(* The operators work on a record, so that the receive and the transmit    *)
(* queue are two values of it.  push() is two operators: the available     *)
(* index is published before the descriptor is written, and the device may *)
(* look at the ring in between.                                            *)
(*                                                                         *)
(* A buffer is its contents: a frame, or Blank when freshly allocated.     *)
(* The address in descriptor[d] is that of the buffer last stored in       *)
(* buffers[d], so the contents the device sees are those of buffers[d];    *)
(* when that is NoBuffer, the memory has been freed or was never there.    *)
(***************************************************************************)
EXTENDS Integers, Sequences

CONSTANTS
  Size,      \* number of descriptors, a power of two (QueueNumMax)
  IdxMod,    \* modulus of the ring indices (2^16: they are u16)
  NoBuffer,  \* buffers[d] is None
  Blank      \* contents of a fresh receive buffer

ASSUME RingAssumption ==
  /\ Size \in Nat \ {0}
  /\ IdxMod \in Nat \ {0}
  /\ IdxMod % Size = 0

(* A frame is its number.                                                  *)
ASSUME BufferAssumption == NoBuffer \notin Nat /\ Blank # NoBuffer

Slot == 0..Size - 1

Index == 0..IdxMod - 1

Inc(idx) == (idx + 1) % IdxMod

(* idx & (size - 1)                                                        *)
Masked(idx) == idx % Size

(* How far the index a is ahead of the index b.                            *)
Ahead(a, b) == (a - b) % IdxMod

NewQueue ==
  [avail_idx     |-> 0,
   avail_ring    |-> [i \in Slot |-> 0],
   buffers       |-> [d \in Slot |-> NoBuffer],
   free_head     |-> 0,
   used_idx      |-> 0,
   used_ring     |-> [i \in Slot |-> 0],
   last_used_idx |-> 0]

QueueType(Buffer) ==
  [avail_idx     : Index,
   avail_ring    : [Slot -> Slot],
   buffers       : [Slot -> Buffer \cup {NoBuffer}],
   free_head     : Slot,
   used_idx      : Index,
   used_ring     : [Slot -> Slot],
   last_used_idx : Index]

(* Mutant: the formula of the comment in the code, in wrapping arithmetic. *)
FreeSize_LastUsed(q) ==
  (Size - q.avail_idx + q.used_idx - q.last_used_idx) % IdxMod

(* get_avail_free_size, in u16 arithmetic.                                 *)
FreeSize(q) ==
  IF q.avail_idx >= q.used_idx
  THEN (Size - (q.avail_idx - q.used_idx)) % IdxMod
  ELSE q.used_idx - q.avail_idx

(* Mutant: the entry after the one the index will cover is written.        *)
Publish_NextEntry(q) ==
  [q EXCEPT !.avail_ring[Masked(q.avail_idx + 1)] = q.free_head,
            !.avail_idx = Inc(q.avail_idx)]

(* push, first part: the ring entry and the available index.               *)
Publish(q) ==
  [q EXCEPT !.avail_ring[Masked(q.avail_idx)] = q.free_head,
            !.avail_idx = Inc(q.avail_idx)]

(* Mutant: the free head is not masked.                                    *)
Fill_Unmasked(q, buffer) ==
  [q EXCEPT !.buffers[q.free_head] = buffer,
            !.free_head = q.free_head + 1]

(* push, second part: the descriptor, the kept buffer and the free head.   *)
Fill(q, buffer) ==
  [q EXCEPT !.buffers[q.free_head] = buffer,
            !.free_head = Masked(q.free_head + 1)]

(* Mutant: the used ring is read at the device's index.                    *)
UsedSlot_AtUsed(q) == q.used_ring[Masked(q.used_idx)]

(* pop, one iteration: the descriptor the used ring names next.            *)
UsedSlot(q) == q.used_ring[Masked(q.last_used_idx)]

PopOne(q) ==
  [q EXCEPT !.buffers[UsedSlot(q)] = NoBuffer,
            !.last_used_idx = Inc(q.last_used_idx)]

(* The device: it takes the available entries in order, keeping its own    *)
(* position dev, and returns each one on the used ring.                    *)
AvailSlot(q, dev) == q.avail_ring[Masked(dev)]

DeviceUse(q, dev, contents) ==
  LET d == AvailSlot(q, dev) IN
  [q EXCEPT !.buffers[d] = IF @ = NoBuffer THEN NoBuffer ELSE contents,
            !.used_ring[Masked(q.used_idx)] = d,
            !.used_idx = Inc(q.used_idx)]
=============================================================================
