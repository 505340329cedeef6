----------------------------- MODULE VirtioNetTx -----------------------------
(***************************************************************************)
(* The transmit side of the virtio-net driver: pre_xmit and xmit, which    *)
(* push a frame on queues[1] and kick the device.  The driver never pops   *)
(* this queue and never asks whether it has room: a buffer is kept until   *)
(* the ring comes round to its descriptor.                                 *)
(*                                                                         *)
(* The device drains the ring after a kick.  With Eager it is a thread of  *)
(* its own (vhost, an I/O thread) that looks at the ring at any time;      *)
(* otherwise it runs only while the driver is not inside xmit.             *)
(***************************************************************************)
EXTENDS Virtqueue

CONSTANTS
  Eager,      \* the device also looks at the ring while xmit is running
  Lag,        \* bound: frames the device may be behind when xmit is called
  MaxFrames   \* bound: frames sent

ASSUME TxAssumption ==
  /\ Eager \in BOOLEAN
  /\ Lag \in Nat
  /\ MaxFrames \in Nat

VARIABLES
  txq,      \* queues[1]
  dev,      \* the device's position in the available ring
  kicked,   \* the device has been notified and drains the ring
  pc,       \* where xmit is
  queued,   \* number of frames given to xmit; frame n is the n-th
  sent      \* the buffers the device has put on the wire

vars == <<txq, dev, kicked, pc, queued, sent>>

Frame == 1..MaxFrames

Init ==
  /\ txq = NewQueue
  /\ dev = 0
  /\ kicked = FALSE
  /\ pc = "idle"
  /\ queued = 0
  /\ sent = << >>

XmitPublish ==
  /\ pc = "idle"
  /\ queued < MaxFrames
  /\ Ahead(txq.avail_idx, dev) < Lag
  /\ txq' = Publish(txq)
  /\ pc' = "fill"
  /\ UNCHANGED <<dev, kicked, queued, sent>>

XmitFill ==
  /\ pc = "fill"
  /\ txq' = Fill(txq, queued + 1)
  /\ queued' = queued + 1
  /\ pc' = "kick"
  /\ UNCHANGED <<dev, kicked, sent>>

(* Mutant: the kick is forgotten when the device is already behind.        *)
XmitKick_OnlyWhenBehind ==
  /\ pc = "kick"
  /\ kicked' = (kicked \/ Ahead(txq.avail_idx, dev) > 1)
  /\ pc' = "idle"
  /\ UNCHANGED <<txq, dev, queued, sent>>

XmitKick ==
  /\ pc = "kick"
  /\ kicked' = TRUE
  /\ pc' = "idle"
  /\ UNCHANGED <<txq, dev, queued, sent>>

(* The device sends the buffer of the next available descriptor.           *)
Transmit ==
  /\ kicked
  /\ Eager \/ pc = "idle"
  /\ dev # txq.avail_idx
  /\ LET b == txq.buffers[AvailSlot(txq, dev)]
     IN  /\ sent' = Append(sent, b)
         /\ txq' = DeviceUse(txq, dev, b)
  /\ dev' = Inc(dev)
  /\ UNCHANGED <<kicked, pc, queued>>

Sleep ==
  /\ kicked
  /\ Eager \/ pc = "idle"
  /\ dev = txq.avail_idx
  /\ kicked' = FALSE
  /\ UNCHANGED <<txq, dev, pc, queued, sent>>

Xmit == XmitPublish \/ XmitFill \/ XmitKick

Device == Transmit \/ Sleep

Next == Xmit \/ Device

Spec == Init /\ [][Next]_vars

(* A call of xmit comes to its end and a device that was kicked drains the *)
(* ring; nobody need call xmit.                                            *)
FairSpec == Spec /\ WF_vars(XmitFill \/ XmitKick) /\ WF_vars(Device)

-----------------------------------------------------------------------------
(* Every variable has its type, and the ring its descriptors in range.     *)
TypeOK ==
  /\ txq \in QueueType(Frame)
  /\ dev \in Index
  /\ kicked \in BOOLEAN
  /\ pc \in {"idle", "fill", "kick"}
  /\ queued \in 0..MaxFrames
  /\ sent \in Seq(Frame \cup {NoBuffer})

(* What goes out on the wire is what xmit was given, each frame once and   *)
(* in order, though descriptors and indices wrap round: push keeps every   *)
(* buffer until the device has read it.                                    *)
SentAsQueued == \A i \in 1..Len(sent) : sent[i] = i

(* Seen from outside, the interface is a channel: nothing goes out that    *)
(* xmit was not given before, nothing twice and nothing out of order.      *)
Channel == INSTANCE FrameChannel WITH accepted <- queued, out <- sent

ImplementsChannel == Channel!Spec

(* The inductive invariant behind it.  Count the pushes and the frames     *)
(* sent without wrapping: the indices and the free head are these counts,  *)
(* wrapped and masked, and every entry between the two, at most a ring of  *)
(* them, names a descriptor of its own whose buffer is still the frame.    *)
Published == queued + IF pc = "fill" THEN 1 ELSE 0

TxInv ==
  /\ TypeOK
  /\ pc = "fill" => queued < MaxFrames
  /\ Len(sent) <= queued /\ Published <= Len(sent) + Size
  /\ txq.avail_idx = Published % IdxMod
  /\ dev = Len(sent) % IdxMod
  /\ txq.free_head = queued % Size
  /\ \A k \in Len(sent)..Published - 1 : txq.avail_ring[k % Size] = k % Size
  /\ \A k \in Len(sent)..queued - 1 : txq.buffers[k % Size] = k + 1
  /\ SentAsQueued

(* xmit kicks the device after the push, so no frame stays in the ring.    *)
AllSent == \A n \in Frame : (queued >= n) ~> (Len(sent) >= n)
=============================================================================
