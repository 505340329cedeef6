----------------------------- MODULE VirtioNetRx -----------------------------
(***************************************************************************)
(* The receive side of the virtio-net driver, from VirtioNet::new and the  *)
(* registration of the handler to interrupt_handler (acknowledge,          *)
(* fill_rx_queue, pop, hand the frames to ethernet-in), running against a  *)
(* device that receives frames at any time.                                *)
(*                                                                         *)
(* The handler runs with interrupts off and is never preempted by the      *)
(* guest; the device is another thread of the host and interleaves with    *)
(* its every step.                                                         *)
(***************************************************************************)
EXTENDS Virtqueue, VirtioSetup

CONSTANTS
  Id,         \* the interface's id, its place among the virtio devices
  Threshold,  \* fill_rx_queue refills above this many free entries (32)
  UsedEvent,  \* used_event, the word after the available ring: never written
  Burst,      \* bound: frames that arrive in one round, or wait to be popped
  MaxFrames   \* bound: frames that arrive

ASSUME RxAssumption ==
  /\ Id \in Nat
  /\ Threshold \in Nat
  /\ UsedEvent \in Index
  /\ Burst \in Nat
  /\ MaxFrames \in Nat

VARIABLES
  rxq,        \* queues[0]
  dev,        \* the device's position in the available ring
  ifaces,     \* Len(NET_IFACES) before this device was set up
  masked,     \* the interrupt's pin at the IOAPIC is masked
  notify,     \* the device has returned a buffer and not yet interrupted
  isr,        \* InterruptStatus, the used-buffer bit
  irq,        \* the interrupt is latched
  intr_status,\* as read by read_and_ack_isr
  todo,       \* pushes fill_rx_queue still has to make
  seen,       \* used.idx as loaded when the loop of pop began
  ret,        \* the buffers pop has collected
  received,   \* number of frames the device has received
  round,      \* how many of them since the handler last began
  early,      \* how many when an interrupt last met the masked pin
  delivered   \* the buffers handed to ethernet-in

setVars == <<setupVars, ifaces, masked>>
devVars == <<dev, notify, received, early>>
irqVars == <<isr, irq, intr_status>>
popVars == <<seen, ret, delivered>>
vars == <<pc, setVars, rxq, devVars, irqVars, todo, popVars, round>>

Frame == 1..MaxFrames

(* The devices before this one may be network interfaces or not.           *)
Init ==
  /\ SetupInit
  /\ ifaces \in 0..Id
  /\ masked = TRUE
  /\ rxq = NewQueue
  /\ dev = 0
  /\ notify = FALSE
  /\ isr = FALSE
  /\ irq = FALSE
  /\ intr_status = FALSE
  /\ todo = 0
  /\ seen = 0
  /\ ret = << >>
  /\ received = 0
  /\ round = 0
  /\ early = 0
  /\ delivered = << >>

-----------------------------------------------------------------------------
(* The device.                                                             *)

Live == "DRIVER_OK" \in status /\ pc \notin {"reset", "none"}

(* A frame arrives: it is written into the next available buffer, which is *)
(* returned on the used ring.                                              *)
Receive ==
  /\ Live /\ ~ notify
  /\ received < MaxFrames
  /\ round < Burst
  /\ Ahead(rxq.used_idx, rxq.last_used_idx) < Burst
  /\ dev # rxq.avail_idx
  /\ rxq' = DeviceUse(rxq, dev, received + 1)
  /\ dev' = Inc(dev)
  /\ received' = received + 1
  /\ round' = round + 1
  /\ notify' = ("EVENT_IDX" \in features => rxq.used_idx = UsedEvent)
  /\ UNCHANGED <<pc, setVars, early, irqVars, todo, popVars>>

(* The interrupt is an edge: at a masked pin it is lost.                   *)
Notify ==
  /\ notify
  /\ notify' = FALSE
  /\ isr' = TRUE
  /\ irq' = (irq \/ ~ masked)
  /\ early' = IF masked THEN received ELSE early
  /\ UNCHANGED <<pc, setVars, rxq, dev, received, intr_status, todo, popVars,
                 round>>

-----------------------------------------------------------------------------
(* The end of VirtioNet::new: a third of the ring is filled, then the      *)
(* device is set to work.                                                  *)

Setting == Setup /\ UNCHANGED <<ifaces, masked, rxq, devVars, irqVars, todo, popVars, round>>

FirstFill ==
  /\ pc = "first_fill"
  /\ todo' = FreeSize(rxq) \div 3
  /\ pc' = "publish"
  /\ UNCHANGED <<setVars, rxq, devVars, irqVars, popVars, round>>

(* Mutant: the device is set to work before its queues are set up.         *)
DriverOk_Early ==
  /\ pc \in {"rx_queue", "driver_ok"}
  /\ status' = status \cup {"DRIVER_OK"}
  /\ pc' = IF pc = "driver_ok" THEN "set_handler" ELSE pc
  /\ UNCHANGED <<is_net, offered, features, active, ifaces, masked, rxq,
                 devVars, irqVars, todo, popVars, round>>

DriverOk ==
  /\ pc = "driver_ok"
  /\ status' = status \cup {"DRIVER_OK"}
  /\ pc' = "set_handler"
  /\ UNCHANGED <<is_net, offered, features, active, ifaces, masked, rxq,
                 devVars, irqVars, todo, popVars, round>>

(* start_rust: set_handler unmasks the pin, then NET_IFACES.push.          *)
SetHandler ==
  /\ pc = "set_handler"
  /\ masked' = FALSE
  /\ ifaces' = ifaces + 1
  /\ pc' = "idle"
  /\ UNCHANGED <<setupVars, rxq, devVars, irqVars, todo, popVars, round>>

-----------------------------------------------------------------------------
(* interrupt_handler.                                                      *)

EnterHandler ==
  /\ pc = "idle" /\ irq
  /\ irq' = FALSE
  /\ round' = 0
  /\ pc' = "read"
  /\ UNCHANGED <<setVars, rxq, devVars, isr, intr_status, todo, popVars>>

(* read_and_ack_isr: the status is read, then written back to clear it.    *)
ReadIsr ==
  /\ pc = "read"
  /\ intr_status' = isr
  /\ pc' = "ack"
  /\ UNCHANGED <<setVars, rxq, devVars, isr, irq, todo, popVars, round>>

(* Mutant: every bit is acknowledged, not only those that were read.       *)
AckIsr_All ==
  /\ pc = "ack"
  /\ isr' = FALSE
  /\ pc' = IF intr_status THEN "refill" ELSE "idle"
  /\ UNCHANGED <<setVars, rxq, devVars, irq, intr_status, todo, popVars, round>>

AckIsr ==
  /\ pc = "ack"
  /\ isr' = (isr /\ ~ intr_status)
  /\ pc' = IF intr_status THEN "refill" ELSE "idle"
  /\ UNCHANGED <<setVars, rxq, devVars, irq, intr_status, todo, popVars, round>>

(* Mutant: the whole of the free space is filled.                          *)
RefillCount_All == FreeSize(rxq)

(* fill_rx_queue: the number of buffers it will push, in u16 arithmetic.   *)
RefillCount == (FreeSize(rxq) - 1) % IdxMod

(* Mutant: the queue is refilled only once it is empty.                    *)
Refill_WhenEmpty ==
  /\ pc = "refill"
  /\ todo' = IF RefillCount = Size - 1 THEN RefillCount ELSE 0
  /\ pc' = IF RefillCount = Size - 1 THEN "publish" ELSE "pop"
  /\ UNCHANGED <<setVars, rxq, devVars, irqVars, popVars, round>>

Refill ==
  /\ pc = "refill"
  /\ todo' = IF RefillCount > Threshold THEN RefillCount ELSE 0
  /\ pc' = IF RefillCount > Threshold THEN "publish" ELSE "pop"
  /\ UNCHANGED <<setVars, rxq, devVars, irqVars, popVars, round>>

PushPublish ==
  /\ pc = "publish" /\ todo > 0
  /\ rxq' = Publish(rxq)
  /\ pc' = "fill"
  /\ UNCHANGED <<setVars, devVars, irqVars, todo, popVars, round>>

PushFill ==
  /\ pc = "fill"
  /\ rxq' = Fill(rxq, Blank)
  /\ todo' = todo - 1
  /\ pc' = "publish"
  /\ UNCHANGED <<setVars, devVars, irqVars, popVars, round>>

(* The loop of pushes is over, in new or in fill_rx_queue.  The device     *)
(* looks for buffers when a frame arrives, so the kick adds nothing.       *)
Kick ==
  /\ pc = "publish" /\ todo = 0
  /\ pc' = IF masked THEN "driver_ok" ELSE "pop"
  /\ UNCHANGED <<setVars, rxq, devVars, irqVars, todo, popVars, round>>

PopStart ==
  /\ pc = "pop"
  /\ seen' = rxq.used_idx
  /\ pc' = "loop"
  /\ UNCHANGED <<setVars, rxq, devVars, irqVars, todo, ret, delivered, round>>

PopNext ==
  /\ pc = "loop"
  /\ rxq.last_used_idx # rxq.used_idx
  /\ LET b == rxq.buffers[UsedSlot(rxq)]
     IN  ret' = IF b = NoBuffer THEN ret ELSE Append(ret, b)
  /\ rxq' = PopOne(rxq)
  /\ UNCHANGED <<pc, setVars, devVars, irqVars, todo, seen, delivered, round>>

(* used.idx is an ordinary field: a build may load it once or every time   *)
(* round the loop, so the loop may also end at the index it first saw.     *)
(* The frames are dropped when NET_IFACES has no entry at the id.          *)
Deliver ==
  /\ pc = "loop"
  /\ rxq.last_used_idx \in {rxq.used_idx, seen}
  /\ delivered' = IF Id < ifaces THEN delivered \o ret ELSE delivered
  /\ ret' = << >>
  /\ pc' = "idle"
  /\ UNCHANGED <<setVars, rxq, devVars, irqVars, todo, seen, round>>

-----------------------------------------------------------------------------
Device == Receive \/ Notify

Driver ==
  \/ Setting \/ FirstFill \/ DriverOk \/ SetHandler
  \/ EnterHandler \/ ReadIsr \/ AckIsr \/ Refill
  \/ PushPublish \/ PushFill \/ Kick
  \/ PopStart \/ PopNext \/ Deliver

Next == Device \/ Driver

Spec == Init /\ [][Next]_vars

(* The CPU runs the handler, interrupts are enabled in every round of the  *)
(* main loop, and a device that has returned a buffer signals it.  Frames  *)
(* need not arrive.                                                        *)
FairSpec == Spec /\ WF_vars(Driver) /\ WF_vars(Notify)

-----------------------------------------------------------------------------
Agreed ==
  /\ {"ACKNOWLEDGE", "DRIVER", "FEATURES_OK"} \subseteq status
  /\ features \subseteq offered

(* The device may use its queues only after the handshake: it has agreed   *)
(* to a subset of what it offers, and every queue is in use.               *)
LiveAfterHandshake == Live => Agreed /\ active = Queues

(* Whatever state the device was left in, the assertions of new fail only  *)
(* when it refuses the features, never on a queue that is still in use.    *)
PanicsOnlyIfRefused == pc = "panic" => "FEATURES_OK" \notin status

Working ==
  {"first_fill", "publish", "fill", "driver_ok", "set_handler", "idle", "read",
   "ack", "refill", "pop", "loop"}

(* The handshake step by step: what the driver has told the device, and    *)
(* which queues are in use, at each step of new.  Inductive.               *)
HandshakeInv ==
  /\ pc \in {"reset", "none", "acknowledge", "negotiate", "features_ok",
             "rx_queue", "tx_queue", "ctrl_queue", "panic"} \cup Working
  /\ pc \in {"acknowledge", "negotiate", "features_ok"} => active = {}
  /\ pc \in {"acknowledge", "negotiate", "features_ok", "panic"} =>
       "FEATURES_OK" \notin status /\ "DRIVER_OK" \notin status
  /\ pc \in {"negotiate", "features_ok"} => {"ACKNOWLEDGE", "DRIVER"} \subseteq status
  /\ pc = "features_ok" => features \subseteq offered
  /\ \A q \in Queues : pc = QueueStep[q + 1] =>
       Agreed /\ active = 0..q - 1 /\ "DRIVER_OK" \notin status
  /\ pc \in Working => Agreed /\ active = Queues

Completed == Ahead(rxq.used_idx, rxq.last_used_idx)

(* virtio.rs keeps the buffer of a descriptor until pop has collected it:  *)
(* the k-th completed entry that waits to be popped still holds the frame  *)
(* the device wrote into it.                                               *)
FrameKept ==
  \A k \in 0..Completed - 1 :
    rxq.buffers[rxq.used_ring[Masked(rxq.last_used_idx + k)]]
      = received - Completed + k + 1

(* fill_rx_queue never makes more descriptors available than the ring has. *)
NoOverrun == Ahead(rxq.avail_idx, rxq.used_idx) <= Size

(* The interrupt of frame n reaches the driver: it is neither lost before  *)
(* set_handler nor held back by EVENT_IDX, which new accepts but nothing   *)
(* serves.                                                                 *)
Signalled(n) == n > early /\ "EVENT_IDX" \notin features

(* When the driver has caught up with its interrupts, the device has all   *)
(* but Threshold + 1 of the descriptors: the ring never drains.            *)
Replenished ==
  pc = "idle" /\ ~ irq /\ ~ notify /\ Signalled(received) =>
    Ahead(rxq.avail_idx, dev) >= Size - Threshold - 1

(* ethernet-in is given every frame that was received, once, in order, and *)
(* never a buffer no frame was written into.                               *)
Channel == INSTANCE FrameChannel WITH accepted <- received, out <- delivered

ImplementsChannel == Channel!Spec

(* No interrupt is lost between the acknowledgement and the last look at   *)
(* the used ring: every frame that is signalled is delivered, unless an    *)
(* earlier device has taken an id and is no network interface.             *)
FramesDelivered ==
  \A n \in Frame :
    received >= n /\ Signalled(n) /\ Id < ifaces ~> Len(delivered) >= n
=============================================================================
