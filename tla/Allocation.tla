----------------------------- MODULE Allocation -----------------------------
(***************************************************************************)
(* The sizes of what is allocated: Buffer::new, pre_xmit's buffer, and the *)
(* three areas Virtqueue::new lays out in one allocation.  Addresses count *)
(* from the start of the allocation.                                       *)
(***************************************************************************)
EXTENDS Integers

CONSTANTS
  Align,        \* the alignment of every allocation, 4096
  BufferSizes,  \* the sizes asked of pre_xmit
  QueueSizes    \* the sizes of queues

ASSUME AllocationAssumption ==
  /\ Align \in Nat \ {0}
  /\ Align % 4 = 0
  /\ BufferSizes \subseteq Nat
  /\ QueueSizes \subseteq Nat

VARIABLE requested  \* the size pre_xmit, or a queue, is asked for

(* Mutant: rounds down.                                                    *)
actual_size_Down(size) == (size \div Align) * Align

(* Buffer::new: the size in whole alignments.                              *)
actual_size(size) == ((size - 1) \div Align + 1) * Align

(* pre_xmit: the header of virtio-net before the frame.                    *)
HeaderLen == 12

(* The bytes a caller of pre_xmit can write, after slide_position.         *)
slice_len(size) == actual_size(size + HeaderLen) - HeaderLen

(* The lengths of the areas: 16 bytes for a descriptor; flags, idx and     *)
(* used_event with 2 bytes for an entry of the available ring; flags, idx  *)
(* and avail_event with 8 bytes for an entry of the used ring.             *)
DescLen(size) == 16 * size

AvailLen(size) == 3 * 2 + 2 * size

UsedLen(size) == 3 * 2 + 8 * size

get_avail_addr(size) == DescLen(size)

(* Mutant: the driver's part is rounded without the available ring.        *)
get_used_addr_NoAvail(size) ==
  ((DescLen(size) + 3 * 2 - 1) \div Align + 1) * Align

get_used_addr(size) ==
  ((DescLen(size) + AvailLen(size) - 1) \div Align + 1) * Align

(* Virtqueue::new's alloc_size.                                            *)
alloc_size(size) ==
  get_used_addr(size) + ((UsedLen(size) - 1) \div Align + 1) * Align

-----------------------------------------------------------------------------
(* pre_xmit gives room for the frame after the header, and the buffer      *)
(* wastes less than one alignment.                                         *)
FrameFits ==
  requested \in BufferSizes =>
    /\ requested <= slice_len(requested)
    /\ slice_len(requested) < requested + Align
    /\ actual_size(requested + HeaderLen) % Align = 0

(* The areas of a queue of any size do not overlap and are inside the      *)
(* allocation, the available ring is aligned to 2 bytes and the used ring  *)
(* to 4, as the device requires.                                           *)
AreasApart ==
  requested \in QueueSizes =>
    /\ get_avail_addr(requested) + AvailLen(requested) <= get_used_addr(requested)
    /\ get_used_addr(requested) + UsedLen(requested) <= alloc_size(requested)
    /\ get_avail_addr(requested) % 2 = 0
    /\ get_used_addr(requested) % 4 = 0
=============================================================================
