-------------------------- MODULE VirtioNetRxProofs --------------------------
(***************************************************************************)
(* The device is set to work in a right order, for every set of features   *)
(* it may offer, every size of its rings and every state it was left in.   *)
(* Then reception: no frame is overwritten, lost or delivered out of order,*)
(* and the ring never drains, for every size of the ring and every number  *)
(* of frames up to the first wrap of the available index, while one frame  *)
(* at a time waits to be popped.                                           *)
(***************************************************************************)
EXTENDS VirtioNetRx, Preliminaries, SequenceTheorems

-----------------------------------------------------------------------------
(* The handshake.                                                          *)

(* The driver's steps after new and those of the device change neither the *)
(* registers of the handshake nor the queues in use.                       *)
LEMMA QuietStep ==
  ASSUME HandshakeInv, UNCHANGED setupVars,
         pc' = pc \/ (pc \in Working /\ pc' \in Working)
  PROVE  HandshakeInv'
<1>1. /\ is_net' = is_net /\ offered' = offered /\ features' = features
      /\ status' = status /\ active' = active
  BY DEF setupVars
<1>2. CASE pc' = pc
  BY <1>1, <1>2 DEF HandshakeInv, Agreed, Working
<1>3. CASE pc \in Working /\ pc' \in Working
  <2>1. \A q \in Queues : pc' # QueueStep[q + 1]
    BY <1>3 DEF Queues, QueueStep, Working
  <2>2. pc' \notin {"acknowledge", "negotiate", "features_ok", "panic"}
    BY <1>3 DEF Working
  <2> QED
    BY <1>1, <1>3, <2>1, <2>2 DEF HandshakeInv, Agreed
<1> QED
  BY <1>2, <1>3

(* Every step of the set-up keeps the handshake in order.                  *)
LEMMA SetupStep ==
  ASSUME HandshakeInv, Setup
  PROVE  HandshakeInv'
<1>0. QueueStep[1] = "rx_queue" /\ QueueStep[2] = "tx_queue"
      /\ QueueStep[3] = "ctrl_queue" /\ QueueStep[4] = "first_fill"
  BY DEF QueueStep
<1>q. Queues = {0, 1, 2}
  BY DEF Queues
<1>1. CASE NotNet
  BY <1>1, <1>0, <1>q DEF NotNet, HandshakeInv, Working
<1>2. CASE Reset
  BY <1>2, <1>0, <1>q DEF Reset, HandshakeInv, Working
<1>3. CASE Acknowledge
  BY <1>3, <1>0, <1>q DEF Acknowledge, HandshakeInv, Working
<1>4. CASE Negotiate
  BY <1>4, <1>0, <1>q DEF Negotiate, HandshakeInv, Working
<1>5. CASE FeaturesOk
  <2>1. /\ active = {} /\ "DRIVER_OK" \notin status /\ "FEATURES_OK" \notin status
        /\ {"ACKNOWLEDGE", "DRIVER"} \subseteq status
        /\ features \subseteq offered
    BY <1>5 DEF FeaturesOk, HandshakeInv
  <2>2. 0..0 - 1 = {}
    OBVIOUS
  <2>3. CASE pc' = "rx_queue" /\ status' = status \cup {"FEATURES_OK"}
    BY SMTT(30), <1>5, <2>1, <2>2, <2>3, <1>0, <1>q
    DEF FeaturesOk, HandshakeInv, Working, Agreed
  <2>4. CASE pc' = "panic" /\ UNCHANGED status
    BY <1>5, <2>1, <2>4, <1>0, <1>q DEF FeaturesOk, HandshakeInv, Working
  <2> QED
    BY <1>5, <2>3, <2>4 DEF FeaturesOk
<1>6. ASSUME NEW q \in Queues, SetupQueue(q)
      PROVE  HandshakeInv'
  <2>0. q \in {0, 1, 2}
    BY <1>q
  <2>1. Agreed /\ active = 0..q - 1 /\ "DRIVER_OK" \notin status
    BY <1>6 DEF SetupQueue, HandshakeInv
  <2>a. q \notin 0..q - 1 /\ (0..q - 1) \cup {q} = 0..q
    BY <2>0
  <2>2. /\ active' = 0..q /\ pc' = QueueStep[q + 2] /\ Agreed'
        /\ "DRIVER_OK" \notin status'
    BY ZenonT(30), <1>6, <2>1, <2>a DEF SetupQueue, Agreed
  <2>3. CASE q = 0
    BY <2>2, <2>3, <1>0, <1>q DEF HandshakeInv, Working
  <2>4. CASE q = 1
    BY <2>2, <2>4, <1>0, <1>q DEF HandshakeInv, Working
  <2>5. CASE q = 2
    <3>1. active' = Queues /\ pc' = "first_fill"
      BY <2>2, <2>5, <1>0 DEF Queues
    <3> QED
      BY <2>2, <3>1, <1>0, <1>q DEF HandshakeInv, Working
  <2> QED
    BY <2>0, <2>3, <2>4, <2>5
<1> QED
  BY <1>1, <1>2, <1>3, <1>4, <1>5, <1>6 DEF Setup

(* So does every other step, which leaves the set-up alone.                *)
LEMMA NextHandshake ==
  ASSUME HandshakeInv, [Next]_vars
  PROVE  HandshakeInv'
<1>1. CASE UNCHANGED vars
  BY <1>1, QuietStep DEF vars, setVars, setupVars
<1>2. CASE Device
  BY <1>2, QuietStep DEF Device, Receive, Notify, setVars, setupVars
<1>3. CASE Setting
  BY <1>3, SetupStep DEF Setting
<1>4. CASE DriverOk
  <2>1. /\ pc = "driver_ok" /\ pc' = "set_handler" /\ Agreed /\ active = Queues
    BY <1>4 DEF DriverOk, HandshakeInv, Working
  <2>2. Agreed' /\ active' = Queues
    BY <1>4, <2>1 DEF DriverOk, Agreed
  <2>3. \A q \in Queues : pc' # QueueStep[q + 1]
    BY <2>1 DEF Queues, QueueStep
  <2> QED
    BY <2>1, <2>2, <2>3 DEF HandshakeInv, Working
<1>5. CASE FirstFill \/ SetHandler \/ EnterHandler \/ ReadIsr \/ AckIsr \/ Refill
           \/ PushPublish \/ PushFill \/ Kick \/ PopStart \/ PopNext \/ Deliver
  <2>1. UNCHANGED setupVars
    BY SMTT(30), <1>5 DEF FirstFill, SetHandler, EnterHandler, ReadIsr, AckIsr, Refill,
                PushPublish, PushFill, Kick, PopStart, PopNext, Deliver, setVars
  <2>2. pc \in Working /\ pc' \in Working
    BY <1>5 DEF FirstFill, SetHandler, EnterHandler, ReadIsr, AckIsr, Refill,
                PushPublish, PushFill, Kick, PopStart, PopNext, Deliver, Working
  <2> QED
    BY SMTT(30), <2>1, <2>2, QuietStep
<1> QED
  BY <1>1, <1>2, <1>3, <1>4, <1>5 DEF Next, Driver

(* The steps of the handshake, in the order of new.                        *)
THEOREM HandshakeInvariant == Spec => []HandshakeInv
<1>1. Init => HandshakeInv
  <2> SUFFICES ASSUME Init PROVE HandshakeInv
    OBVIOUS
  <2>1. pc = "reset"
    BY DEF Init, SetupInit
  <2>2. \A q \in Queues : pc # QueueStep[q + 1]
    BY <2>1 DEF Queues, QueueStep
  <2> QED
    BY <2>1, <2>2 DEF HandshakeInv, Working
<1> QED
  BY <1>1, NextHandshake, PTL DEF Spec

(* The device works with the driver only after both have agreed on a       *)
(* subset of its features and its queues are in use.                       *)
THEOREM LiveOnlyAfterHandshake == Spec => []LiveAfterHandshake
<1>1. HandshakeInv => LiveAfterHandshake
  <2> SUFFICES ASSUME HandshakeInv, Live PROVE Agreed /\ active = Queues
    BY DEF LiveAfterHandshake
  <2>1. "DRIVER_OK" \in status /\ pc \notin {"reset", "none"}
    BY DEF Live
  <2>2. pc \notin {"rx_queue", "tx_queue", "ctrl_queue"}
    <3>1. 0 \in Queues /\ 1 \in Queues /\ 2 \in Queues
      BY DEF Queues
    <3>2. QueueStep[0 + 1] = "rx_queue" /\ QueueStep[1 + 1] = "tx_queue"
          /\ QueueStep[2 + 1] = "ctrl_queue"
      BY DEF QueueStep
    <3> QED
      BY <2>1, <3>1, <3>2 DEF HandshakeInv
  <2> QED
    BY <2>1, <2>2 DEF HandshakeInv
<1> QED
  BY <1>1, HandshakeInvariant, PTL

(* Whatever state the device was left in, only its refusal of the features *)
(* makes an assertion of new fail.                                         *)
THEOREM NoOtherPanic == Spec => []PanicsOnlyIfRefused
<1>1. HandshakeInv => PanicsOnlyIfRefused
  BY DEF HandshakeInv, PanicsOnlyIfRefused
<1> QED
  BY <1>1, HandshakeInvariant, PTL

-----------------------------------------------------------------------------
(* Reception.                                                              *)

(* One frame at a time waits to be popped, and one arrives in a round of   *)
(* the handler; the available index has not wrapped; the ring is larger    *)
(* than the threshold of fill_rx_queue.  None of the three can be dropped: *)
(* TLC then refutes one of the properties below.                           *)
OneAtATime == Burst <= 1 /\ MaxFrames + Size < IdxMod /\ Threshold + 3 <= Size

(* Descriptors that are available and written.                             *)
Filled == rxq.avail_idx - IF pc = "fill" THEN 1 ELSE 0

(* What fill_rx_queue leaves the device with, at least.                    *)
Stock == Size - Threshold - 1

InHandler == {"idle", "read", "ack", "refill", "publish", "fill", "pop", "loop"}

(* The steps of new up to DRIVER_OK.                                       *)
BeforeLive ==
  {"reset", "none", "acknowledge", "negotiate", "features_ok", "panic", "rx_queue",
   "tx_queue", "ctrl_queue", "first_fill", "publish", "fill", "driver_ok"}

(* The inductive invariant of reception.                                   *)
(*   Booting   until set_handler nothing is popped and no interrupt comes  *)
(*             through; until DRIVER_OK the device is not at work          *)
(*   Counts    the indices count frames and pushes, and the pushes still   *)
(*             to be made reach neither the device nor what waits          *)
(*   Ring      the entries between the counts name descriptors of their    *)
(*             own, with a buffer, which holds the frame once it is used   *)
(*   Stocked   the device has a written descriptor whenever it may use one *)
(*             while another is being published                            *)
(*   Attended  the handler will refill the ring after the last interrupt,  *)
(*             or has done so                                              *)
(*   Handed    what pop has collected, and what was delivered              *)
RxType ==
  /\ rxq \in QueueType(Frame \cup {Blank})
  /\ received \in 0..MaxFrames /\ early \in 0..received
  /\ todo \in Nat /\ round \in Nat /\ ifaces \in Nat
  /\ masked \in BOOLEAN /\ notify \in BOOLEAN /\ isr \in BOOLEAN /\ irq \in BOOLEAN
  /\ intr_status \in BOOLEAN
  /\ ret \in Seq(Nat) /\ delivered \in Seq(Nat)

Booting ==
  /\ masked =>
       /\ pc \in BeforeLive \cup {"set_handler"}
       /\ ifaces <= Id /\ rxq.last_used_idx = 0
       /\ ret = << >> /\ delivered = << >>
       /\ ~ irq /\ (received = 0 => ~ notify)
       /\ pc # "set_handler" => received = 0
       /\ pc \notin {"reset", "none", "set_handler"} => "DRIVER_OK" \notin status
       /\ pc \notin {"publish", "fill", "driver_ok", "set_handler"} => rxq.avail_idx = 0
  /\ ~ masked => pc \in InHandler

Counts ==
  /\ rxq.used_idx = received /\ dev = received
  /\ rxq.last_used_idx <= received /\ received <= rxq.last_used_idx + 1
  /\ received <= Filled
  /\ pc = "fill" => todo > 0
  /\ pc \notin {"publish", "fill"} => todo = 0
  /\ Filled + todo <= received + Size - 1
  /\ Filled + todo <= rxq.last_used_idx + Size
  /\ rxq.free_head = Filled % Size

Ring ==
  /\ \A k \in received..rxq.avail_idx - 1 : rxq.avail_ring[k % Size] = k % Size
  /\ \A k \in received..Filled - 1 : rxq.buffers[k % Size] # NoBuffer
  /\ \A k \in rxq.last_used_idx..received - 1 :
       rxq.used_ring[k % Size] = k % Size /\ rxq.buffers[k % Size] = k + 1

Stocked ==
  /\ round <= 1
  /\ received = rxq.last_used_idx =>
       /\ pc = "idle" /\ (irq \/ notify) => Filled - received >= Stock - 1
       /\ pc \in {"read", "ack", "refill"} => Filled - received >= Stock - 1
       /\ pc \in {"publish", "fill"} /\ ~ masked => Filled > received
  /\ pc \in {"publish", "fill", "pop", "loop"} /\ ~ masked =>
       Filled + todo - received >= Stock - round

Attended ==
  Signalled(received) =>
    \/ notify
    \/ isr /\ (irq \/ pc = "read")
    \/ pc = "ack" /\ intr_status
    \/ pc = "refill"
    \/ Filled + todo - received >= Stock

Handed ==
  /\ Id < ifaces => Len(delivered) + Len(ret) = rxq.last_used_idx
  /\ Id >= ifaces => delivered = << >>
  /\ Len(ret) <= rxq.last_used_idx
  /\ \A i \in 1..Len(ret) : ret[i] = rxq.last_used_idx - Len(ret) + i
  /\ pc # "loop" => ret = << >>

RxInv ==
  RxType /\ Booting /\ Counts /\ Ring /\ Stocked /\ Attended /\ Handed

-----------------------------------------------------------------------------
(* Constants, and what the types of the queue's fields say.                *)
LEMMA RxConstants ==
  ASSUME OneAtATime
  PROVE  /\ Size \in Nat \ {0} /\ IdxMod \in Nat \ {0} /\ Threshold \in Nat
         /\ MaxFrames \in Nat /\ Id \in Nat /\ Burst \in Nat
         /\ Burst <= 1 /\ MaxFrames + Size < IdxMod /\ Threshold + 3 <= Size
         /\ Stock \in Int /\ Stock = Size - Threshold - 1 /\ Stock - 1 >= 1
  BY RingAssumption, RxAssumption DEF OneAtATime, Stock

(* The types and relations of the fields that the proofs below use.        *)
LEMMA RxFields ==
  ASSUME OneAtATime, RxInv
  PROVE  /\ rxq.avail_idx \in Nat /\ rxq.last_used_idx \in Nat
         /\ received \in Nat /\ received <= MaxFrames /\ todo \in Nat /\ round \in Nat
         /\ rxq.avail_ring \in [Slot -> Slot] /\ rxq.used_ring \in [Slot -> Slot]
         /\ rxq.buffers \in [Slot -> (Frame \cup {Blank}) \cup {NoBuffer}]
         /\ rxq.free_head \in Slot
         /\ Filled \in Nat
         /\ rxq.avail_idx = Filled + IF pc = "fill" THEN 1 ELSE 0
<1>1. /\ rxq \in QueueType(Frame \cup {Blank}) /\ received \in 0..MaxFrames
      /\ todo \in Nat /\ round \in Nat /\ received <= Filled
  BY DEF RxInv, RxType, Counts
<1>2. /\ rxq.avail_idx \in Nat /\ rxq.last_used_idx \in Nat
      /\ rxq.avail_ring \in [Slot -> Slot] /\ rxq.used_ring \in [Slot -> Slot]
      /\ rxq.buffers \in [Slot -> (Frame \cup {Blank}) \cup {NoBuffer}]
      /\ rxq.free_head \in Slot
  BY <1>1, RxConstants DEF QueueType, Index
<1>3. MaxFrames \in Nat
  BY RxConstants
<1>4. Filled \in Int /\ rxq.avail_idx = Filled + IF pc = "fill" THEN 1 ELSE 0
  BY <1>2 DEF Filled
<1> QED
  BY <1>1, <1>2, <1>3, <1>4

(* The counts as numbers: all that the arithmetic of the steps needs.      *)
Numbers ==
  /\ Filled \in Nat /\ received \in Nat /\ rxq.last_used_idx \in Nat /\ todo \in Nat
  /\ rxq.last_used_idx <= received /\ received <= rxq.last_used_idx + 1
  /\ received <= Filled
  /\ Filled + todo <= received + Size - 1
  /\ Filled + todo <= rxq.last_used_idx + Size

(* The invariant says that much of the counts.                             *)
LEMMA RxNumbers == ASSUME OneAtATime, RxInv PROVE Numbers
<1>1. /\ Filled \in Nat /\ received \in Nat /\ rxq.last_used_idx \in Nat
      /\ todo \in Nat
  BY RxFields
<1>2. Counts
  BY DEF RxInv
<1> QED
  BY <1>1, <1>2 DEF Counts, Numbers

(* Slots of counts less than a ring apart are different.                   *)
LEMMA SlotOf ==
  ASSUME OneAtATime, NEW k \in Nat
  PROVE  k % Size \in Slot
<1>1. Size \in Nat \ {0} /\ k \in Int
  BY RxConstants
<1> QED
  BY <1>1, ModRange DEF Slot

(* Two indices less than a ring apart are in two slots.                    *)
LEMMA OtherSlot ==
  ASSUME OneAtATime, NEW j \in Nat, NEW k \in Nat, j < k, k - j < Size
  PROVE  j % Size # k % Size
<1>1. Size \in Nat \ {0} /\ k \in Int /\ j \in Int /\ j <= k /\ k # j
  BY RxConstants
<1>2. k % Size = j % Size => k = j
  BY ZenonT(30), <1>1, ModInjective
<1> QED
  BY <1>1, <1>2

(* No index wraps.                                                         *)
LEMMA NextIndex ==
  ASSUME OneAtATime, NEW k \in Nat, k + 1 <= MaxFrames + Size
  PROVE  Inc(k) = k + 1 /\ k + 1 \in Index
<1>1. k + 1 \in Nat /\ k + 1 < IdxMod /\ IdxMod \in Nat \ {0}
  BY RxConstants
<1>2. (k + 1) % IdxMod = k + 1
  BY <1>1, ModSmall
<1> QED
  BY <1>1, <1>2 DEF Inc, Index

(* How far two indices are apart.                                          *)
LEMMA Distance ==
  ASSUME OneAtATime, NEW j \in Nat, NEW k \in Nat, j <= k, k <= MaxFrames + Size
  PROVE  Ahead(k, j) = k - j
<1>1. k - j \in Nat /\ k - j < IdxMod /\ IdxMod \in Nat \ {0}
  BY RxConstants
<1>2. (k - j) % IdxMod = k - j
  BY <1>1, ModSmall
<1> QED
  BY <1>2 DEF Ahead

(* The operations of the ring, field by field.                             *)
LEMMA PublishRx ==
  ASSUME OneAtATime, NEW q \in QueueType(Frame \cup {Blank}),
         q.avail_idx + 1 <= MaxFrames + Size
  PROVE  /\ Publish(q) \in QueueType(Frame \cup {Blank})
         /\ Publish(q).avail_idx = q.avail_idx + 1
         /\ Publish(q).avail_ring
              = [q.avail_ring EXCEPT ![q.avail_idx % Size] = q.free_head]
         /\ Publish(q).buffers = q.buffers /\ Publish(q).free_head = q.free_head
         /\ Publish(q).used_ring = q.used_ring /\ Publish(q).used_idx = q.used_idx
         /\ Publish(q).last_used_idx = q.last_used_idx
<1>1. q.avail_idx \in Nat
  BY RxConstants DEF QueueType, Index
<1>2. Inc(q.avail_idx) = q.avail_idx + 1 /\ q.avail_idx + 1 \in Index
  BY <1>1, NextIndex
<1>3. [q.avail_ring EXCEPT ![Masked(q.avail_idx)] = q.free_head] \in [Slot -> Slot]
  BY ZenonT(30) DEF QueueType
<1> QED
  BY ZenonT(30), <1>2, <1>3 DEF Publish, QueueType, Masked

(* The second half of push: the buffer is put in the free descriptor.      *)
LEMMA FillRx ==
  ASSUME OneAtATime, NEW q \in QueueType(Frame \cup {Blank})
  PROVE  /\ Fill(q, Blank) \in QueueType(Frame \cup {Blank})
         /\ Fill(q, Blank).avail_idx = q.avail_idx
         /\ Fill(q, Blank).avail_ring = q.avail_ring
         /\ Fill(q, Blank).buffers = [q.buffers EXCEPT ![q.free_head] = Blank]
         /\ Fill(q, Blank).free_head = (q.free_head + 1) % Size
         /\ Fill(q, Blank).used_ring = q.used_ring
         /\ Fill(q, Blank).used_idx = q.used_idx
         /\ Fill(q, Blank).last_used_idx = q.last_used_idx
<1>1. q.free_head + 1 \in Nat
  BY SMTT(30), RxConstants DEF QueueType, Slot
<1>2. (q.free_head + 1) % Size \in Slot
  BY <1>1, SlotOf
<1>3. [q.buffers EXCEPT ![q.free_head] = Blank]
        \in [Slot -> (Frame \cup {Blank}) \cup {NoBuffer}]
  BY DEF QueueType
<1> QED
  BY ZenonT(30), <1>2, <1>3 DEF Fill, QueueType, Masked

(* The device returns a buffer with a frame in it.                         *)
LEMMA DeviceUseRx ==
  ASSUME OneAtATime, NEW q \in QueueType(Frame \cup {Blank}), NEW f \in Frame, NEW d,
         AvailSlot(q, d) \in Slot, q.buffers[AvailSlot(q, d)] # NoBuffer,
         q.used_idx + 1 <= MaxFrames + Size
  PROVE  LET u == DeviceUse(q, d, f) IN
         /\ u \in QueueType(Frame \cup {Blank})
         /\ u.avail_idx = q.avail_idx /\ u.avail_ring = q.avail_ring
         /\ u.buffers = [q.buffers EXCEPT ![AvailSlot(q, d)] = f]
         /\ u.free_head = q.free_head
         /\ u.used_ring = [q.used_ring EXCEPT ![q.used_idx % Size] = AvailSlot(q, d)]
         /\ u.used_idx = q.used_idx + 1 /\ u.last_used_idx = q.last_used_idx
<1> DEFINE s == AvailSlot(q, d)
<1>0. s \in Slot /\ q.buffers[s] # NoBuffer
  OBVIOUS
<1> HIDE DEF s
<1>1. q.used_idx \in Nat
  BY RxConstants DEF QueueType, Index
<1>2. Inc(q.used_idx) = q.used_idx + 1 /\ q.used_idx + 1 \in Index
  BY <1>1, NextIndex
<1>3. [q.used_ring EXCEPT ![q.used_idx % Size] = s] \in [Slot -> Slot]
  BY ZenonT(30), <1>0 DEF QueueType
<1>4. [q.buffers EXCEPT ![s] = f] \in [Slot -> (Frame \cup {Blank}) \cup {NoBuffer}]
  BY <1>0 DEF QueueType
<1>5. [q.buffers EXCEPT ![s] = IF @ = NoBuffer THEN NoBuffer ELSE f]
        = [q.buffers EXCEPT ![s] = f]
  BY <1>0 DEF QueueType
<1> QED
  BY ZenonT(30), <1>2, <1>3, <1>4, <1>5 DEF DeviceUse, QueueType, Masked, s

(* One round of pop empties the slot that the used ring names.             *)
LEMMA PopOneRx ==
  ASSUME OneAtATime, NEW q \in QueueType(Frame \cup {Blank}),
         q.last_used_idx + 1 <= MaxFrames + Size
  PROVE  /\ PopOne(q) \in QueueType(Frame \cup {Blank})
         /\ PopOne(q).avail_idx = q.avail_idx
         /\ PopOne(q).avail_ring = q.avail_ring
         /\ PopOne(q).buffers
              = [q.buffers EXCEPT ![q.used_ring[q.last_used_idx % Size]] = NoBuffer]
         /\ PopOne(q).free_head = q.free_head
         /\ PopOne(q).used_ring = q.used_ring
         /\ PopOne(q).used_idx = q.used_idx
         /\ PopOne(q).last_used_idx = q.last_used_idx + 1
<1>1. q.last_used_idx \in Nat
  BY RxConstants DEF QueueType, Index
<1>2. Inc(q.last_used_idx) = q.last_used_idx + 1 /\ q.last_used_idx + 1 \in Index
  BY <1>1, NextIndex
<1>3. [q.buffers EXCEPT ![q.used_ring[q.last_used_idx % Size]] = NoBuffer]
        \in [Slot -> (Frame \cup {Blank}) \cup {NoBuffer}]
  BY ZenonT(30) DEF QueueType
<1> QED
  BY ZenonT(30), <1>2, <1>3 DEF PopOne, UsedSlot, QueueType, Masked

-----------------------------------------------------------------------------
(* The invariant, action by action.                                        *)

(* The queue starts empty, with nothing received.                          *)
LEMMA InitRxInv == ASSUME OneAtATime, Init PROVE RxInv
<1> USE RxConstants DEF Init
<1>1. /\ rxq.avail_idx = 0 /\ rxq.used_idx = 0 /\ rxq.last_used_idx = 0
      /\ rxq.free_head = 0 /\ pc = "reset" /\ masked = TRUE
  BY DEF NewQueue, SetupInit
<1>2. rxq \in QueueType(Frame \cup {Blank})
  <2>1. 0 \in Slot /\ 0 \in Index
    BY SMTT(30) DEF Slot, Index
  <2> QED
    BY <2>1 DEF NewQueue, QueueType
<1>3. Filled = 0 /\ 0 % Size = 0
  BY SMTT(30), <1>1 DEF Filled
<1>4. RxType
  <2>1. ret \in Seq(Nat) /\ delivered \in Seq(Nat)
    BY EmptySeq
  <2>2. /\ received \in 0..MaxFrames /\ early \in 0..received
        /\ todo \in Nat /\ round \in Nat /\ ifaces \in Nat
    OBVIOUS
  <2>3. /\ masked \in BOOLEAN /\ notify \in BOOLEAN /\ isr \in BOOLEAN
        /\ irq \in BOOLEAN /\ intr_status \in BOOLEAN
    BY Zenon
  <2> QED
    BY <1>2, <2>1, <2>2, <2>3, Zenon DEF RxType
<1>5. Booting
  BY <1>1 DEF Booting, BeforeLive
<1>6. Counts
  BY SMTT(30), <1>1, <1>3 DEF Counts
<1>7. Ring
  BY <1>1, <1>3 DEF Ring
<1>8. Stocked /\ Attended
  BY <1>1 DEF Stocked, Attended, Signalled
<1>9. Handed
  BY <1>1, EmptySeq DEF Handed
<1> HIDE DEF Init
<1> QED
  BY SMTT(30), <1>4, <1>5, <1>6, <1>7, <1>8, <1>9 DEF RxInv

(* A step that leaves the queue and the frames alone and publishes nothing *)
(* keeps the counts and the ring.                                          *)
LEMMA QueueKept ==
  ASSUME OneAtATime, RxInv, UNCHANGED <<rxq, dev, received>>,
         pc' = "fill" <=> pc = "fill"
  PROVE  /\ Filled' = Filled /\ Ring'
         /\ /\ UNCHANGED todo
            /\ pc' \in {"publish", "fill"} <=> pc \in {"publish", "fill"}
            => Counts'
<1>1. Filled' = Filled
  BY DEF Filled
<1>2. Ring'
  BY <1>1 DEF RxInv, Ring
<1>3. ASSUME UNCHANGED todo, pc' \in {"publish", "fill"} <=> pc \in {"publish", "fill"}
      PROVE  Counts'
  BY <1>1, <1>3 DEF RxInv, Counts
<1> QED
  BY <1>1, <1>2, <1>3

(* new, up to the first buffer.                                            *)
LEMMA SettingRxInv == ASSUME OneAtATime, RxInv, Setting PROVE RxInv'
<1>t. RxType /\ Booting /\ Counts /\ Ring /\ Stocked /\ Attended /\ Handed
  BY DEF RxInv
<1>1. /\ pc \in {"reset", "acknowledge", "negotiate", "features_ok", "rx_queue",
                 "tx_queue", "ctrl_queue", "first_fill"}
      /\ pc' \in {"none", "acknowledge", "negotiate", "features_ok", "rx_queue",
                  "tx_queue", "ctrl_queue", "first_fill", "panic"}
      /\ pc # "reset" /\ "DRIVER_OK" \notin status => "DRIVER_OK" \notin status'
      /\ pc = "reset" => pc' = "none" \/ "DRIVER_OK" \notin status'
  <2>1. CASE NotNet \/ Reset \/ Acknowledge \/ Negotiate \/ FeaturesOk
    BY <2>1 DEF NotNet, Reset, Acknowledge, Negotiate, FeaturesOk, setupVars
  <2>2. ASSUME NEW q \in Queues, SetupQueue(q)
        PROVE  /\ pc \in {"rx_queue", "tx_queue", "ctrl_queue"}
               /\ pc' \in {"tx_queue", "ctrl_queue", "first_fill", "panic"}
               /\ status' = status
    <3>1. q \in {0, 1, 2}
      BY <2>2 DEF Queues
    <3>2. QueueStep[1] = "rx_queue" /\ QueueStep[2] = "tx_queue"
          /\ QueueStep[3] = "ctrl_queue" /\ QueueStep[4] = "first_fill"
      BY DEF QueueStep
    <3> QED
      BY <2>2, <3>1, <3>2 DEF SetupQueue
  <2> QED
    BY <2>1, <2>2 DEF Setting, Setup
<1>2. UNCHANGED <<ifaces, masked, rxq, devVars, irqVars, todo, popVars, round>>
  BY DEF Setting
<1>3. masked
  BY <1>t, <1>1 DEF Booting, InHandler
<1>4. RxType'
  BY <1>t, <1>2 DEF RxType, devVars, irqVars, popVars
<1>5. Booting'
  BY <1>t, <1>1, <1>2, <1>3 DEF Booting, BeforeLive, devVars, irqVars, popVars
<1>6. Counts' /\ Ring' /\ Filled' = Filled
  BY <1>1, <1>2, QueueKept DEF devVars
<1>7. Stocked'
  BY SMTT(30), <1>t, <1>1, <1>2, <1>3, <1>6 DEF Stocked, devVars
<1>8. Attended'
  <2>1. received' = 0 /\ early' \in 0..received'
    BY SMTT(30), <1>t, <1>1, <1>2, <1>3, <1>4 DEF Booting, RxType, devVars
  <2> QED
    BY SMTT(30), <2>1 DEF Attended, Signalled
<1>9. Handed'
  BY SMTT(30), <1>t, <1>1, <1>2 DEF Handed, popVars
<1> QED
  BY <1>4, <1>5, <1>6, <1>7, <1>8, <1>9 DEF RxInv

(* The free descriptors, while no index has wrapped.                       *)
LEMMA Free ==
  ASSUME OneAtATime, RxInv, pc # "fill", todo = 0
  PROVE  /\ FreeSize(rxq) = Size - (Filled - received)
         /\ RefillCount = Size - 1 - (Filled - received)
         /\ RefillCount \in Nat
<1> USE RxConstants
<1>1. /\ rxq.avail_idx = Filled /\ rxq.used_idx = received
      /\ Filled \in Nat /\ received \in Nat /\ received <= Filled
      /\ Filled <= received + Size - 1
  BY RxFields DEF RxInv, Counts
<1> DEFINE n == Size - (Filled - received)
<1>2. n \in Nat /\ n >= 1 /\ n <= Size /\ n < IdxMod /\ n - 1 \in Nat
      /\ n - 1 < IdxMod
  BY <1>1
<1> HIDE DEF n
<1>3. n % IdxMod = n /\ (n - 1) % IdxMod = n - 1
  BY ZenonT(30), <1>2, ModSmall
<1>4. FreeSize(rxq) = n
  BY <1>1, <1>3 DEF FreeSize, n
<1>5. RefillCount = n - 1
  BY <1>3, <1>4 DEF RefillCount
<1> QED
  BY SMTT(30), <1>1, <1>2, <1>4, <1>5 DEF n

(* The end of new, and set_handler.                                        *)
LEMMA BootRxInv ==
  ASSUME OneAtATime, RxInv, FirstFill \/ DriverOk \/ SetHandler
  PROVE  RxInv'
<1> USE RxConstants
<1>t. RxType /\ Booting /\ Counts /\ Ring /\ Stocked /\ Attended /\ Handed
  BY DEF RxInv
<1>1. CASE FirstFill
  <2> USE <1>1 DEF FirstFill, setVars, devVars, irqVars, popVars
  <2>1. pc = "first_fill" /\ pc' = "publish" /\ masked /\ received = 0
    BY SMTT(30), <1>t DEF Booting, InHandler
  <2>2. todo = 0 /\ Filled = 0
    BY SMTT(30), <1>t, <2>1 DEF Counts, Booting, Filled
  <2>3. todo' = Size \div 3
    BY SMTT(30), <2>1, <2>2, Free
  <2>4. todo' \in Nat /\ todo' <= Size - 1
    BY SMTT(30), <2>3
  <2>5. Filled' = Filled /\ Ring'
    BY SMTT(30), <2>1, QueueKept
  <2>6. RxType'
    BY SMTT(30), <1>t, <2>4 DEF RxType
  <2>7. Booting'
    BY SMTT(30), <1>t, <2>1 DEF Booting, BeforeLive, setupVars
  <2>8. Counts'
    <3>1. rxq.last_used_idx = 0
      BY SMTT(30), <1>t, <2>1 DEF Booting
    <3> QED
      BY SMTT(30), <1>t, <2>1, <2>2, <2>4, <2>5, <3>1 DEF Counts
  <2>9. Stocked' /\ Handed'
    BY SMTT(30), <1>t, <2>1 DEF Stocked, Handed
  <2>10. Attended'
    BY SMTT(30), <1>t, <2>1 DEF Attended, Signalled, RxType
  <2> QED
    BY SMTT(30), <2>5, <2>6, <2>7, <2>8, <2>9, <2>10 DEF RxInv
<1>2. CASE DriverOk
  <2> USE <1>2 DEF DriverOk, devVars, irqVars, popVars
  <2>1. pc = "driver_ok" /\ pc' = "set_handler" /\ masked
    BY SMTT(30), <1>t DEF Booting, InHandler
  <2>2. RxType'
    BY SMTT(30), <1>t DEF RxType
  <2>3. Booting'
    BY SMTT(30), <1>t, <2>1 DEF Booting, BeforeLive
  <2>4. Counts' /\ Ring' /\ Filled' = Filled
    BY SMTT(30), <2>1, QueueKept
  <2>5. Stocked' /\ Handed'
    BY SMTT(30), <1>t, <2>1 DEF Stocked, Handed
  <2>6. Attended'
    BY SMTT(30), <1>t, <2>1, <2>4 DEF Attended, Signalled
  <2> QED
    BY SMTT(30), <2>2, <2>3, <2>4, <2>5, <2>6 DEF RxInv
<1>3. CASE SetHandler
  <2> USE <1>3 DEF SetHandler, setupVars, devVars, irqVars, popVars
  <2>1. pc = "set_handler" /\ pc' = "idle" /\ masked /\ ~ masked'
    BY SMTT(30), <1>t DEF Booting, InHandler
  <2>2. RxType'
    <3>1. ifaces' \in Nat
      BY <1>t DEF RxType
    <3>2. masked' \in BOOLEAN
      BY ZenonT(30), <2>1
    <3> QED
      BY SMTT(30), <1>t, <3>1, <3>2 DEF RxType
  <2>3. Booting'
    BY SMTT(30), <2>1 DEF Booting, InHandler
  <2>4. Counts' /\ Ring' /\ Filled' = Filled
    BY SMTT(30), <2>1, QueueKept
  <2>5. Stocked'
    BY SMTT(30), <1>t, <2>1 DEF Stocked, Booting
  <2>6. Attended'
    BY <1>t, <2>1, <2>4 DEF Attended, Signalled
  <2>7. Handed'
    <3>1. /\ rxq.last_used_idx = 0 /\ ret = << >> /\ delivered = << >>
          /\ Len(ret) = 0 /\ Len(delivered) = 0
      BY <1>t, <2>1 DEF Booting
    <3> QED
      BY SMTT(30), <2>1, <3>1 DEF Handed
  <2> QED
    BY SMTT(30), <2>2, <2>3, <2>4, <2>5, <2>6, <2>7 DEF RxInv
<1> QED
  BY <1>1, <1>2, <1>3

(* The device's interrupt, and the steps of the handler that leave the     *)
(* queue alone.                                                            *)
LEMMA QuietRxInv ==
  ASSUME OneAtATime, RxInv,
         Notify \/ EnterHandler \/ ReadIsr \/ AckIsr \/ Kick \/ PopStart
  PROVE  RxInv'
<1> USE RxConstants
<1>t. RxType /\ Booting /\ Counts /\ Ring /\ Stocked /\ Attended /\ Handed
  BY DEF RxInv
<1>f. Filled \in Nat /\ received \in Nat /\ rxq.last_used_idx \in Nat
  BY SMTT(30), RxFields
<1>1. CASE Notify
  <2> USE <1>1 DEF Notify, setVars, setupVars, popVars
  <2>1. Counts' /\ Ring' /\ Filled' = Filled
    BY SMTT(30), QueueKept
  <2>2. RxType'
    <3>1. early' \in 0..received
      BY <1>t, <1>f DEF RxType
    <3>2. notify' \in BOOLEAN /\ isr' \in BOOLEAN /\ irq' \in BOOLEAN
      BY <1>t, Zenon DEF RxType
    <3> QED
      BY SMTT(30), <1>t, <3>1, <3>2 DEF RxType
  <2>3. Booting'
    BY ZenonT(30), <1>t DEF Booting
  <2>4. Stocked' /\ Handed'
    BY SMTT(30), <1>t, <2>1 DEF Stocked, Handed
  <2>5. Attended'
    <3>1. CASE masked
      BY <1>f, <3>1 DEF Attended, Signalled
    <3>2. CASE ~ masked
      BY ZenonT(30), <3>2 DEF Attended
    <3> QED
      BY SMTT(30), <3>1, <3>2
  <2> QED
    BY SMTT(30), <2>1, <2>2, <2>3, <2>4, <2>5 DEF RxInv
<1>2. CASE EnterHandler
  <2> USE <1>2 DEF EnterHandler, setVars, setupVars, devVars, popVars
  <2>1. Counts' /\ Ring' /\ Filled' = Filled
    BY QueueKept
  <2>2. RxType'
    BY ZenonT(30), <1>t DEF RxType
  <2>3. Booting'
    BY SMTT(30), <1>t DEF Booting, BeforeLive, InHandler
  <2>4. Stocked' /\ Handed'
    BY SMTT(30), <1>t, <2>1 DEF Stocked, Handed
  <2>5. Attended'
    BY SMTT(30), <1>t, <2>1 DEF Attended, Signalled
  <2> QED
    BY SMTT(30), <2>1, <2>2, <2>3, <2>4, <2>5 DEF RxInv
<1>3. CASE ReadIsr \/ AckIsr
  <2> USE <1>3 DEF ReadIsr, AckIsr, setVars, setupVars, devVars, popVars
  <2>1. Counts' /\ Ring' /\ Filled' = Filled
    BY QueueKept
  <2>2. RxType'
    <3>1. isr' \in BOOLEAN /\ intr_status' \in BOOLEAN
      BY ZenonT(30), <1>t DEF RxType
    <3> QED
      BY ZenonT(30), <1>t, <3>1 DEF RxType
  <2>3. Booting'
    BY SMTT(30), <1>t DEF Booting, BeforeLive, InHandler
  <2>4. Stocked' /\ Handed'
    BY ZenonT(30), <1>t, <2>1 DEF Stocked, Handed
  <2>5. Attended'
    BY ZenonT(30), <1>t, <2>1 DEF Attended, Signalled
  <2> QED
    BY SMTT(30), <2>1, <2>2, <2>3, <2>4, <2>5 DEF RxInv
<1>4. CASE Kick \/ PopStart
  <2> USE <1>4 DEF Kick, PopStart, setVars, setupVars, devVars, irqVars
  <2>1. Ring' /\ Filled' = Filled /\ todo' = 0
    BY SMTT(30), <1>t, QueueKept DEF Counts
  <2>2. Counts'
    BY <1>t, <2>1 DEF Counts
  <2>3. RxType'
    BY ZenonT(30), <1>t DEF RxType, popVars
  <2>4. Booting'
    BY SMTT(30), <1>t DEF Booting, BeforeLive, InHandler, popVars
  <2>5. Stocked' /\ Handed'
    BY ZenonT(30), <1>t, <2>1 DEF Stocked, Handed, Booting, BeforeLive, popVars
  <2>6. Attended'
    BY SMTT(30), <1>t, <2>1 DEF Attended, Signalled
  <2> QED
    BY SMTT(30), <2>1, <2>2, <2>3, <2>4, <2>5, <2>6 DEF RxInv
<1> QED
  BY SMTT(30), <1>1, <1>2, <1>3, <1>4

(* fill_rx_queue decides how much to push.                                 *)
LEMMA RefillRxInv == ASSUME OneAtATime, RxInv, Refill PROVE RxInv'
<1> USE RxConstants
<1>t. RxType /\ Booting /\ Counts /\ Ring /\ Stocked /\ Attended /\ Handed
  BY SMTT(30) DEF RxInv
<1>f. Filled \in Nat /\ received \in Nat /\ rxq.last_used_idx \in Nat
  BY SMTT(30), RxFields
<1> USE DEF Refill, setVars, setupVars, devVars, irqVars, popVars
<1>1. pc = "refill" /\ todo = 0 /\ ~ masked
  BY SMTT(30), <1>t DEF Counts, Booting, BeforeLive
<1>2. RefillCount = Size - 1 - (Filled - received) /\ RefillCount \in Nat
  BY SMTT(30), <1>1, Free
<1>3. Ring' /\ Filled' = Filled
  BY SMTT(30), <1>1, QueueKept
<1>4. /\ todo' \in Nat /\ pc' \in {"publish", "pop"}
      /\ pc' = "pop" => todo' = 0
      /\ Filled + todo' <= received + Size - 1
      /\ Filled + todo' - received >= Stock
  BY SMTT(30), <1>t, <1>f, <1>2 DEF Counts
<1>5. RxType'
  BY SMTT(30), <1>t, <1>4 DEF RxType
<1>6. Booting'
  BY SMTT(30), <1>1, <1>4 DEF Booting, InHandler
<1>7. Counts'
  BY SMTT(30), <1>t, <1>f, <1>3, <1>4 DEF Counts
<1>8. Stocked'
  <2>1. received = rxq.last_used_idx => Filled > received
    <3>1. received = rxq.last_used_idx => Filled - received >= Stock - 1
      BY SMTT(30), <1>t, <1>1 DEF Stocked
    <3> QED
      BY SMTT(30), <1>f, <3>1
  <2>2. round \in Nat /\ round <= 1
    BY SMTT(30), <1>t DEF Stocked, RxType
  <2>3. Filled + todo' - received >= Stock - round
    BY SMTT(30), <1>f, <1>4, <2>2
  <2>4. UNCHANGED <<rxq, received, round, masked>>
    BY SMTT(30)
  <2> HIDE DEF Refill
  <2> QED
    BY SMTT(30), <1>3, <1>4, <2>1, <2>2, <2>3, <2>4 DEF Stocked
<1>9. Attended' /\ Handed'
  BY SMTT(30), <1>t, <1>1, <1>3, <1>4 DEF Attended, Handed
<1> QED
  BY SMTT(30), <1>3, <1>5, <1>6, <1>7, <1>8, <1>9 DEF RxInv

(* push, first part: the entry of the next descriptor, which is not yet    *)
(* written.                                                                *)
LEMMA PublishRxInv == ASSUME OneAtATime, RxInv, PushPublish PROVE RxInv'
<1> USE RxConstants
<1>t. RxType /\ Booting /\ Counts /\ Ring /\ Stocked /\ Attended /\ Handed
  BY SMTT(30) DEF RxInv
<1>f. /\ Filled \in Nat /\ received \in Nat /\ rxq.last_used_idx \in Nat /\ todo \in Nat
      /\ received <= MaxFrames
  BY SMTT(30), RxFields
<1>b. rxq.avail_ring \in [Slot -> Slot]
  BY RxFields
<1>n. Numbers
  BY RxNumbers
<1>1. /\ pc = "publish" /\ pc' = "fill" /\ todo > 0 /\ rxq' = Publish(rxq)
      /\ UNCHANGED <<setVars, devVars, irqVars, todo, popVars, round>>
  BY SMTT(30) DEF PushPublish
<1>2. rxq.avail_idx = Filled /\ Filled + 1 <= received + Size - 1
  BY <1>t, <1>f, <1>1, RxFields DEF Counts
<1>3. /\ rxq' \in QueueType(Frame \cup {Blank})
      /\ rxq'.avail_idx = Filled + 1
      /\ rxq'.avail_ring = [rxq.avail_ring EXCEPT ![Filled % Size] = Filled % Size]
      /\ rxq'.buffers = rxq.buffers /\ rxq'.free_head = rxq.free_head
      /\ rxq'.used_ring = rxq.used_ring /\ rxq'.used_idx = rxq.used_idx
      /\ rxq'.last_used_idx = rxq.last_used_idx
  <2>0. rxq \in QueueType(Frame \cup {Blank})
    BY <1>t DEF RxType
  <2>1. rxq.avail_idx + 1 <= MaxFrames + Size
    BY SMTT(30), <1>f, <1>2
  <2>2. rxq.free_head = Filled % Size
    BY SMTT(30), <1>t DEF Counts
  <2> QED
    BY ZenonT(30), <1>1, <1>2, <2>0, <2>1, <2>2, PublishRx
<1>4. Filled' = Filled
  BY SMTT(30), <1>f, <1>b, <1>1, <1>3 DEF Filled
<1>5. RxType'
  BY SMTT(30), <1>t, <1>1, <1>3 DEF RxType, setVars, devVars, irqVars, popVars
<1>6. Booting'
  BY <1>t, <1>1, <1>3 DEF Booting, BeforeLive, InHandler, setVars, setupVars, devVars,
                          irqVars, popVars
<1>7. Counts'
  BY ZenonT(30), <1>t, <1>1, <1>3, <1>4 DEF Counts, devVars
<1>8. Ring'
  <2>1. ASSUME NEW k \in received..Filled
        PROVE  rxq'.avail_ring[k % Size] = k % Size
    <3>0. k \in Nat
      BY <1>f
    <3>1. k % Size \in Slot /\ Filled % Size \in Slot
      BY SMTT(30), <3>0, <1>f, SlotOf
    <3>2. CASE k % Size = Filled % Size
      BY SMTT(30), <1>3, <1>f, <1>b, <3>1, <3>2
    <3>3. CASE k % Size # Filled % Size
      <4>1. k \in received..rxq.avail_idx - 1
        BY SMTT(30), <1>2, <1>f, <3>3
      <4> QED
        BY SMTT(30), <1>t, <1>3, <1>f, <1>b, <3>1, <3>3, <4>1 DEF Ring
    <3> QED
      BY <3>2, <3>3
  <2>2. received' = received /\ rxq'.avail_idx - 1 = Filled
    <3>1. received' = received
      BY SMTT(30), <1>1 DEF devVars
    <3>2. rxq'.avail_idx = Filled + 1
      BY <1>3
    <3> QED
      BY SMTT(30), <1>n, <3>1, <3>2 DEF Numbers
  <2> QED
    BY SMTT(30), <1>t, <1>3, <1>4, <2>1, <2>2 DEF Ring
<1>9. Stocked' /\ Attended' /\ Handed'
  BY ZenonT(30), <1>t, <1>1, <1>3, <1>4 DEF Stocked, Attended, Signalled, Handed,
     setVars, setupVars,
                                devVars, irqVars, popVars
<1> QED
  BY SMTT(30), <1>5, <1>6, <1>7, <1>8, <1>9 DEF RxInv

(* push, second part: the descriptor is written.  It is none that waits to *)
(* be popped.                                                              *)
LEMMA FillRxInv == ASSUME OneAtATime, RxInv, PushFill PROVE RxInv'
<1> USE RxConstants
<1>t. RxType /\ Booting /\ Counts /\ Ring /\ Stocked /\ Attended /\ Handed
  BY SMTT(30) DEF RxInv
<1>f. /\ Filled \in Nat /\ received \in Nat /\ rxq.last_used_idx \in Nat /\ todo \in Nat
      /\ rxq.avail_idx \in Nat
  BY SMTT(30), RxFields
<1>b. rxq.buffers \in [Slot -> (Frame \cup {Blank}) \cup {NoBuffer}]
  BY RxFields
<1>n. Numbers
  BY SMTT(30), RxNumbers
<1>1. /\ pc = "fill" /\ pc' = "publish" /\ todo > 0 /\ rxq' = Fill(rxq, Blank)
      /\ todo' = todo - 1 /\ UNCHANGED <<setVars, devVars, irqVars, popVars, round>>
  BY SMTT(30), <1>t DEF PushFill, Counts
<1>2. rxq.avail_idx = Filled + 1 /\ rxq.free_head = Filled % Size
  BY <1>t, <1>1, RxFields DEF Counts
<1>3. /\ rxq' \in QueueType(Frame \cup {Blank})
      /\ rxq'.avail_idx = Filled + 1
      /\ rxq'.avail_ring = rxq.avail_ring
      /\ rxq'.buffers = [rxq.buffers EXCEPT ![Filled % Size] = Blank]
      /\ rxq'.free_head = (Filled + 1) % Size
      /\ rxq'.used_ring = rxq.used_ring /\ rxq'.used_idx = rxq.used_idx
      /\ rxq'.last_used_idx = rxq.last_used_idx
  <2>1. rxq \in QueueType(Frame \cup {Blank})
    BY <1>t DEF RxType
  <2>2. ((Filled % Size) + 1) % Size = (Filled + 1) % Size
    <3>1. Filled \in Int /\ 1 \in Int /\ Size \in Nat \ {0}
      BY <1>n DEF Numbers
    <3> QED
      BY <3>1, ModPlus, Zenon
  <2> QED
    BY ZenonT(30), <1>1, <1>2, <2>1, <2>2, FillRx
<1>p. todo > 0 /\ todo' = todo - 1
  BY <1>1
<1>4. Filled' = Filled + 1
  <2>1. Filled' = rxq'.avail_idx - IF pc' = "fill" THEN 1 ELSE 0
    BY SMTT(30) DEF Filled
  <2>2. rxq'.avail_idx = Filled + 1 /\ pc' # "fill"
    BY SMTT(30), <1>1, <1>3
  <2> QED
    BY SMTT(30), <1>n, <2>1, <2>2 DEF Numbers
<1>5. RxType'
  <2>1. todo' \in Nat
    BY SMTT(30), <1>n, <1>p DEF Numbers
  <2> QED
    BY SMTT(30), <1>t, <1>1, <1>3, <2>1 DEF RxType, setVars, devVars, irqVars, popVars
<1>6. Booting'
  BY SMTT(30), <1>t, <1>1, <1>3
    DEF Booting, BeforeLive, InHandler, setVars, setupVars, devVars,
                          irqVars, popVars
<1>7. Counts'
  <2>1. /\ received <= Filled + 1
        /\ Filled + 1 + todo' = Filled + todo
    BY SMTT(30), <1>n, <1>p DEF Numbers
  <2>2. UNCHANGED <<dev, received>>
    BY <1>1 DEF devVars
  <2> QED
    BY SMTT(30), <1>t, <1>1, <1>3, <1>4, <2>1, <2>2 DEF Counts
<1>8. Ring'
  <2>1. ASSUME NEW k \in received..Filled
        PROVE  rxq'.buffers[k % Size] # NoBuffer
    <3>0. k \in Nat
      BY <1>f
    <3>1. k % Size \in Slot /\ Filled % Size \in Slot
      BY SMTT(30), <3>0, <1>f, SlotOf
    <3>2. CASE k % Size = Filled % Size
      BY SMTT(30), <1>3, <1>f, <1>b, <3>1, <3>2, BufferAssumption
    <3>3. CASE k % Size # Filled % Size
      <4>1. k \in received..Filled - 1
        BY SMTT(30), <1>f, <3>3
      <4> QED
        BY SMTT(30), <1>t, <1>3, <1>f, <1>b, <3>1, <3>3, <4>1 DEF Ring
    <3> QED
      BY <3>2, <3>3
  <2>2. ASSUME NEW k \in rxq.last_used_idx..received - 1
        PROVE  rxq'.buffers[k % Size] = k + 1
    <3>0. k \in Nat /\ k < Filled /\ Filled - k < Size
      BY SMTT(30), <1>n, <1>p DEF Numbers
    <3>1. k % Size \in Slot /\ Filled % Size \in Slot
      BY SMTT(30), <3>0, <1>f, SlotOf
    <3>2. k % Size # Filled % Size
      BY SMTT(30), <3>0, <1>f, OtherSlot
    <3>3. rxq'.buffers[k % Size] = rxq.buffers[k % Size]
      BY SMTT(30), <1>t, <1>3, <1>f, <1>b, <3>1, <3>2
    <3>4. rxq.buffers[k % Size] = k + 1
      BY SMTT(30), <1>t DEF Ring
    <3> QED
      BY SMTT(30), <3>3, <3>4
  <2>3. received' = received /\ rxq'.avail_idx = rxq.avail_idx /\ Filled' - 1 = Filled
    <3>1. received' = received
      BY SMTT(30), <1>1 DEF devVars
    <3>2. rxq'.avail_idx = rxq.avail_idx
      BY <1>2, <1>3
    <3> QED
      BY SMTT(30), <1>n, <1>4, <3>1, <3>2 DEF Numbers
  <2> QED
    BY ZenonT(30), <1>t, <1>3, <2>1, <2>2, <2>3 DEF Ring
<1>r. /\ UNCHANGED <<received, early, round, masked, ifaces, features, notify, isr, irq,
                     intr_status, ret, delivered>>
      /\ rxq'.last_used_idx = rxq.last_used_idx
  BY ZenonT(30), <1>1, <1>3 DEF setVars, setupVars, devVars, irqVars, popVars
<1>9. Stocked' /\ Attended' /\ Handed'
  <2>0. /\ pc = "fill" /\ pc' = "publish"
        /\ Filled' + todo' - received' = Filled + todo - received
        /\ Filled' > received'
    <3>1. pc = "fill" /\ pc' = "publish"
      BY SMTT(30), <1>1
    <3>2. received' = received
      BY SMTT(30), <1>r
    <3> QED
      BY SMTT(30), <1>n, <1>p, <1>4, <3>1, <3>2 DEF Numbers
  <2>1. Stocked'
    BY SMTT(30), <1>t, <1>r, <2>0 DEF Stocked
  <2>2. Attended'
    BY SMTT(30), <1>t, <1>r, <2>0 DEF Attended, Signalled
  <2>3. Handed'
    BY SMTT(30), <1>t, <1>r, <2>0 DEF Handed
  <2> QED
    BY SMTT(30), <2>1, <2>2, <2>3
<1> QED
  BY SMTT(30), <1>5, <1>6, <1>7, <1>8, <1>9 DEF RxInv

(* What the device finds when a frame arrives: a descriptor of its own     *)
(* with a buffer, and nothing that waits to be popped.                     *)
LEMMA Arrival ==
  ASSUME OneAtATime, RxInv, Receive
  PROVE  /\ received = rxq.last_used_idx /\ received < Filled /\ received < MaxFrames
         /\ round = 0
         /\ masked => pc = "set_handler"
         /\ AvailSlot(rxq, dev) = received % Size
         /\ rxq.buffers[received % Size] # NoBuffer
<1> USE RxConstants
<1>t. RxType /\ Booting /\ Counts /\ Ring /\ Stocked
  BY SMTT(30) DEF RxInv
<1>f. /\ Filled \in Nat /\ received \in Nat /\ rxq.last_used_idx \in Nat
      /\ received <= MaxFrames /\ round \in Nat
      /\ rxq.avail_idx = Filled + IF pc = "fill" THEN 1 ELSE 0
  BY SMTT(30), RxFields
<1>1. /\ Live /\ received < MaxFrames /\ round < Burst /\ dev # rxq.avail_idx
      /\ Ahead(rxq.used_idx, rxq.last_used_idx) < Burst
  BY DEF Receive
<1>2. received = rxq.last_used_idx
  <2>1. /\ rxq.used_idx = received /\ rxq.last_used_idx <= received
        /\ received <= MaxFrames + Size
    BY SMTT(30), <1>t, <1>f DEF Counts
  <2>2. Ahead(received, rxq.last_used_idx) = received - rxq.last_used_idx
    BY SMTT(30), <1>f, <2>1, Distance
  <2> QED
    BY SMTT(30), <1>1, <1>f, <2>1, <2>2
<1>3. masked => pc = "set_handler"
  BY <1>t, <1>1 DEF Live, Booting
<1>4. received < Filled
  <2>1. dev = received /\ received <= Filled
    BY <1>t DEF Counts
  <2>2. CASE pc = "fill"
    BY SMTT(30), <1>t, <1>2, <1>3, <1>f, <2>2 DEF Stocked
  <2>3. CASE pc # "fill"
    BY SMTT(30), <1>1, <1>f, <2>1, <2>3
  <2> QED
    BY SMTT(30), <2>2, <2>3
<1>5. AvailSlot(rxq, dev) = received % Size /\ rxq.buffers[received % Size] # NoBuffer
  <2>1. received \in received..rxq.avail_idx - 1 /\ received \in received..Filled - 1
    BY SMTT(30), <1>f, <1>4
  <2>2. dev = received
    BY <1>t DEF Counts
  <2> QED
    BY <1>t, <2>1, <2>2 DEF Ring, AvailSlot, Masked
<1>6. round = 0
  BY <1>1, <1>f
<1> QED
  BY SMTT(30), <1>1, <1>2, <1>3, <1>4, <1>5, <1>6

(* The device writes a frame into the next buffer it was given.            *)
LEMMA ReceiveRxInv == ASSUME OneAtATime, RxInv, Receive PROVE RxInv'
<1> USE RxConstants
<1>t. RxType /\ Booting /\ Counts /\ Ring /\ Stocked /\ Attended /\ Handed
  BY SMTT(30) DEF RxInv
<1>f. /\ Filled \in Nat /\ received \in Nat /\ rxq.last_used_idx \in Nat /\ todo \in Nat
      /\ rxq.avail_idx \in Nat
  BY SMTT(30), RxFields
<1>b. /\ rxq.buffers \in [Slot -> (Frame \cup {Blank}) \cup {NoBuffer}]
      /\ rxq.used_ring \in [Slot -> Slot]
  BY RxFields
<1>n. Numbers
  BY SMTT(30), RxNumbers
<1>a. /\ received = rxq.last_used_idx /\ received < Filled /\ received < MaxFrames
      /\ round = 0
      /\ masked => pc = "set_handler"
      /\ AvailSlot(rxq, dev) = received % Size
      /\ rxq.buffers[received % Size] # NoBuffer
  BY SMTT(30), Arrival
<1>1. /\ rxq' = DeviceUse(rxq, dev, received + 1) /\ dev' = Inc(dev)
      /\ received' = received + 1 /\ round' = 1
      /\ notify' = ("EVENT_IDX" \in features => rxq.used_idx = UsedEvent)
      /\ UNCHANGED <<pc, setVars, early, irqVars, todo, popVars>>
  <2>1. /\ rxq' = DeviceUse(rxq, dev, received + 1) /\ dev' = Inc(dev)
        /\ received' = received + 1 /\ round' = round + 1
        /\ notify' = ("EVENT_IDX" \in features => rxq.used_idx = UsedEvent)
        /\ UNCHANGED <<pc, setVars, early, irqVars, todo, popVars>>
    BY DEF Receive
  <2>2. round' = 1
    <3>1. round = 0
      BY <1>a
    <3> QED
      BY SMTT(30), <2>1, <3>1
  <2> QED
    BY SMTT(30), <2>1, <2>2
<1>2. received % Size \in Slot
  BY SMTT(30), <1>f, SlotOf
<1>3. /\ rxq' \in QueueType(Frame \cup {Blank})
      /\ rxq'.avail_idx = rxq.avail_idx /\ rxq'.avail_ring = rxq.avail_ring
      /\ rxq'.buffers = [rxq.buffers EXCEPT ![received % Size] = received + 1]
      /\ rxq'.free_head = rxq.free_head
      /\ rxq'.used_ring = [rxq.used_ring EXCEPT ![received % Size] = received % Size]
      /\ rxq'.used_idx = received + 1
      /\ rxq'.last_used_idx = rxq.last_used_idx
  <2>1. rxq \in QueueType(Frame \cup {Blank})
    BY SMTT(30), <1>t DEF RxType
  <2>2. received + 1 \in Frame
    BY SMTT(30), <1>f, <1>a DEF Frame
  <2>3. rxq.used_idx = received /\ received + 1 <= MaxFrames + Size
    <3>1. rxq.used_idx = received
      BY SMTT(30), <1>t DEF Counts
    <3>2. received < MaxFrames
      BY <1>a
    <3> QED
      BY SMTT(30), <1>n, <3>1, <3>2 DEF Numbers
  <2>4. rxq.used_idx + 1 <= MaxFrames + Size
    BY SMTT(30), <2>3
  <2> DEFINE q == DeviceUse(rxq, dev, received + 1)
             s == AvailSlot(rxq, dev)
  <2>5. s \in Slot /\ rxq.buffers[s] # NoBuffer /\ s = received % Size
    BY <1>2, <1>a
  <2>6. /\ q \in QueueType(Frame \cup {Blank})
        /\ q.avail_idx = rxq.avail_idx /\ q.avail_ring = rxq.avail_ring
        /\ q.buffers = [rxq.buffers EXCEPT ![s] = received + 1]
        /\ q.free_head = rxq.free_head
        /\ q.used_ring = [rxq.used_ring EXCEPT ![rxq.used_idx % Size] = s]
        /\ q.used_idx = rxq.used_idx + 1 /\ q.last_used_idx = rxq.last_used_idx
    BY ZenonT(30), <2>1, <2>2, <2>4, <2>5, DeviceUseRx
  <2>7. rxq' = q
    BY <1>1
  <2> HIDE DEF q, s
  <2> QED
    BY SMTT(30), <2>3, <2>5, <2>6, <2>7
<1>4. Filled' = Filled
  BY ZenonT(30), <1>1, <1>3 DEF Filled
<1>d. dev' = received + 1
  <2>1. dev = received /\ received + 1 <= MaxFrames + Size
    <3>1. dev = received
      BY SMTT(30), <1>t DEF Counts
    <3>2. received < MaxFrames
      BY <1>a
    <3> QED
      BY SMTT(30), <1>n, <3>1, <3>2 DEF Numbers
  <2> QED
    BY SMTT(30), <1>1, <1>f, <2>1, NextIndex
<1>5. RxType'
  <2>1. received' \in 0..MaxFrames /\ early' \in 0..received' /\ round' \in Nat
    <3>1. early \in Nat /\ early <= received /\ early' = early
      <4>1. early \in 0..received
        BY <1>t DEF RxType
      <4>2. early' = early
        BY <1>1
      <4> QED
        BY SMTT(30), <1>n, <4>1, <4>2 DEF Numbers
    <3>2. received' = received + 1 /\ round' = 1
      BY SMTT(30), <1>1
    <3>3. received < MaxFrames
      BY <1>a
    <3> QED
      BY SMTT(30), <1>n, <3>1, <3>2, <3>3 DEF Numbers
  <2>2. notify' \in BOOLEAN
    BY <1>1, Zenon
  <2> QED
    BY ZenonT(30), <1>t, <1>1, <1>3, <2>1, <2>2 DEF RxType, setVars, irqVars, popVars
<1>6. Booting'
  <2>1. UNCHANGED <<pc, masked, ifaces, status, irq, ret, delivered>>
    BY <1>1 DEF setVars, setupVars, irqVars, popVars
  <2>2. received' # 0
    <3>1. received' = received + 1
      BY SMTT(30), <1>1
    <3> QED
      BY SMTT(30), <1>n, <3>1 DEF Numbers
  <2>3. CASE masked
    BY SMTT(30), <1>t, <1>a, <1>3, <2>1, <2>2, <2>3 DEF Booting
  <2>4. CASE ~ masked
    BY <1>t, <2>1, <2>4 DEF Booting
  <2> QED
    BY SMTT(30), <2>3, <2>4
<1>7. Counts'
  <2>1. /\ rxq.last_used_idx <= received + 1
        /\ received + 1 <= rxq.last_used_idx + 1
        /\ received + 1 <= Filled
        /\ Filled + todo <= received + 1 + Size - 1
    <3>1. received = rxq.last_used_idx /\ received < Filled
      BY <1>a
    <3> QED
      BY SMTT(30), <1>n, <3>1 DEF Numbers
  <2> QED
    BY ZenonT(30), <1>t, <1>1, <1>3, <1>4, <1>d, <2>1 DEF Counts
<1>8. Ring'
  <2>1. ASSUME NEW k \in received + 1..Filled - 1
        PROVE  rxq'.buffers[k % Size] # NoBuffer
    <3>0. k \in Nat /\ received < k /\ k - received < Size
      BY <1>n DEF Numbers
    <3>1. k % Size \in Slot
      BY SMTT(30), <3>0, SlotOf
    <3>2. k % Size # received % Size
      BY SMTT(30), <3>0, <1>f, OtherSlot
    <3>3. k \in received..Filled - 1
      BY SMTT(30), <1>f
    <3> QED
      BY ZenonT(30), <1>t, <1>3, <1>f, <1>b, <1>2, <3>1, <3>2, <3>3 DEF Ring
  <2>2. ASSUME NEW k \in rxq.last_used_idx..received
        PROVE  rxq'.used_ring[k % Size] = k % Size /\ rxq'.buffers[k % Size] = k + 1
    <3>1. k = received
      <4>1. received = rxq.last_used_idx
        BY SMTT(30), <1>a
      <4> QED
        BY SMTT(30), <1>n, <4>1 DEF Numbers
    <3> QED
      BY SMTT(30), <1>3, <1>f, <1>b, <1>2, <3>1
  <2>3. \A k \in received + 1..rxq.avail_idx - 1 : rxq.avail_ring[k % Size] = k % Size
    <3>1. \A k \in received + 1..rxq.avail_idx - 1 : k \in received..rxq.avail_idx - 1
      BY <1>f
    <3> QED
      BY <1>t, <3>1 DEF Ring
  <2>4. received' - 1 = received
    BY SMTT(30), <1>1, <1>f
  <2> QED
    BY ZenonT(30), <1>1, <1>3, <1>4, <2>1, <2>2, <2>3, <2>4 DEF Ring
<1>9. Stocked'
  <2>1. received' # rxq'.last_used_idx
    <3>1. received' = received + 1 /\ rxq'.last_used_idx = received
      BY ZenonT(30), <1>1, <1>3, <1>a
    <3> QED
      BY <1>n, <3>1 DEF Numbers
  <2>2. pc \in {"publish", "fill", "pop", "loop"} /\ ~ masked =>
          Filled + todo - (received + 1) >= Stock - 1
    <3>1. pc \in {"publish", "fill", "pop", "loop"} /\ ~ masked =>
            Filled + todo - received >= Stock - 0
      BY SMTT(30), <1>t, <1>a DEF Stocked
    <3> QED
      BY SMTT(30), <1>n, <3>1 DEF Numbers
  <2>3. UNCHANGED <<pc, masked, todo>>
    BY <1>1 DEF setVars
  <2> QED
    BY SMTT(30), <1>1, <1>4, <2>1, <2>2, <2>3 DEF Stocked
<1>10. Attended'
  <2>1. features' = features
    BY <1>1 DEF setVars, setupVars
  <2> QED
    BY ZenonT(30), <1>1, <2>1 DEF Attended, Signalled
<1>11. Handed'
  BY ZenonT(30), <1>t, <1>1, <1>3 DEF Handed, popVars, setVars
<1> QED
  BY SMTT(30), <1>5, <1>6, <1>7, <1>8, <1>9, <1>10, <1>11 DEF RxInv

(* pop collects the frame that waits, which is the next.                   *)
LEMMA PopNextRxInv == ASSUME OneAtATime, RxInv, PopNext PROVE RxInv'
<1> USE RxConstants
<1>t. RxType /\ Booting /\ Counts /\ Ring /\ Stocked /\ Attended /\ Handed
  BY SMTT(30) DEF RxInv
<1>f. /\ Filled \in Nat /\ received \in Nat /\ rxq.last_used_idx \in Nat /\ todo \in Nat
      /\ rxq.avail_idx \in Nat /\ received <= MaxFrames
  BY SMTT(30), RxFields
<1>b. /\ rxq.buffers \in [Slot -> (Frame \cup {Blank}) \cup {NoBuffer}]
      /\ rxq.used_ring \in [Slot -> Slot]
  BY RxFields
<1>n. Numbers
  BY RxNumbers
<1>1. PICK l \in Nat : l = rxq.last_used_idx
  BY SMTT(30), <1>f
<1>2. /\ pc = "loop" /\ pc' = "loop" /\ rxq' = PopOne(rxq)
      /\ UNCHANGED <<setVars, devVars, irqVars, todo, seen, delivered, round>>
  BY DEF PopNext
<1>3. received = l + 1 /\ todo = 0
  <2>1. rxq.last_used_idx # rxq.used_idx
    BY SMTT(30) DEF PopNext
  <2>2. /\ rxq.used_idx = received /\ l <= received /\ received <= l + 1
        /\ todo = 0
    BY SMTT(30), <1>t, <1>1, <1>2 DEF Counts
  <2> QED
    BY SMTT(30), <1>f, <1>1, <2>1, <2>2
<1>4. l % Size \in Slot
  BY SMTT(30), SlotOf
<1>5. rxq.used_ring[l % Size] = l % Size /\ rxq.buffers[l % Size] = l + 1
  <2>1. l \in rxq.last_used_idx..received - 1
    BY SMTT(30), <1>1, <1>3
  <2> QED
    BY <1>t, <2>1 DEF Ring
<1>6. ret' = Append(ret, l + 1)
  <2>1. rxq.buffers[UsedSlot(rxq)] = l + 1
    BY <1>1, <1>5 DEF UsedSlot, Masked
  <2>2. l + 1 # NoBuffer
    BY BufferAssumption
  <2> QED
    BY SMTT(30), <2>1, <2>2 DEF PopNext
<1>7. /\ rxq' \in QueueType(Frame \cup {Blank})
      /\ rxq'.avail_idx = rxq.avail_idx /\ rxq'.avail_ring = rxq.avail_ring
      /\ rxq'.buffers = [rxq.buffers EXCEPT ![l % Size] = NoBuffer]
      /\ rxq'.free_head = rxq.free_head /\ rxq'.used_ring = rxq.used_ring
      /\ rxq'.used_idx = rxq.used_idx /\ rxq'.last_used_idx = l + 1
  <2>1. rxq \in QueueType(Frame \cup {Blank})
    BY <1>t DEF RxType
  <2>2. rxq.last_used_idx + 1 <= MaxFrames + Size
    BY SMTT(30), <1>1, <1>3, <1>f
  <2> QED
    BY ZenonT(30), <1>1, <1>2, <1>5, <2>1, <2>2, PopOneRx
<1>8. Filled' = Filled
  BY SMTT(30), <1>2, <1>7 DEF Filled
<1>9. /\ ret \in Seq(Nat) /\ ret' \in Seq(Nat) /\ Len(ret) \in Nat
      /\ Len(ret') = Len(ret) + 1
      /\ \A i \in 1..Len(ret) : ret'[i] = ret[i]
      /\ ret'[Len(ret) + 1] = l + 1
  <2>1. ret \in Seq(Nat) /\ l + 1 \in Nat
    BY SMTT(30), <1>t DEF RxType
  <2> QED
    BY SMTT(30), <1>6, <2>1, AppendProperties, LenProperties
<1>10. RxType'
  BY SMTT(30), <1>t, <1>2, <1>7, <1>9 DEF RxType, setVars, devVars, irqVars
<1>11. Booting'
  BY SMTT(30), <1>t, <1>2 DEF Booting, BeforeLive, InHandler, setVars
<1>12. Counts'
  <2>1. Filled + todo <= l + 1 + Size /\ received <= l + 1 + 1 /\ l + 1 <= received
    BY SMTT(30), <1>n, <1>1, <1>3 DEF Numbers
  <2> QED
    BY SMTT(30), <1>t, <1>2, <1>7, <1>8, <2>1 DEF Counts, devVars
<1>13. Ring'
  <2>1. ASSUME NEW k \in received..Filled - 1
        PROVE  rxq'.buffers[k % Size] # NoBuffer
    <3>0. k \in Nat /\ l < k /\ k - l < Size
      BY SMTT(30), <1>n, <1>1, <1>3 DEF Numbers
    <3>1. k % Size \in Slot
      BY SMTT(30), <3>0, SlotOf
    <3>2. k % Size # l % Size
      BY SMTT(30), <3>0, OtherSlot
    <3> QED
      BY ZenonT(30), <1>t, <1>7, <1>f, <1>b, <1>4, <3>1, <3>2 DEF Ring
  <2>2. received' = received /\ rxq'.last_used_idx = received
    BY ZenonT(30), <1>2, <1>3, <1>7 DEF devVars
  <2>3. \A k \in received..received - 1 : FALSE
    BY SMTT(30), <1>n DEF Numbers
  <2> QED
    BY SMTT(30), <1>t, <1>7, <1>8, <2>1, <2>2, <2>3 DEF Ring
<1>14. Stocked' /\ Attended'
  BY SMTT(30), <1>t, <1>2, <1>8
      DEF Stocked, Attended, Signalled, setVars, setupVars, devVars, irqVars
<1>15. Handed'
  <2>0. PICK n \in Nat : n = Len(ret)
    BY SMTT(30), <1>9
  <2>1. PICK m \in Nat : m = Len(delivered)
    BY SMTT(30), <1>t, LenProperties DEF RxType
  <2>2. /\ Id < ifaces => m + n = l
        /\ n <= l
        /\ \A i \in 1..n : ret[i] = l - n + i
        /\ Id >= ifaces => delivered = << >>
    BY SMTT(30), <1>t, <1>1, <2>0, <2>1 DEF Handed
  <2>3. /\ Len(ret') = n + 1
        /\ \A i \in 1..n : ret'[i] = ret[i]
        /\ ret'[n + 1] = l + 1
    BY SMTT(30), <1>9, <2>0
  <2>4. \A i \in 1..n + 1 : ret'[i] = (l + 1) - (n + 1) + i
    <3> TAKE i \in 1..n + 1
    <3>1. CASE i = n + 1
      BY SMTT(30), <2>3, <3>1
    <3>2. CASE i \in 1..n
      BY SMTT(30), <2>2, <2>3, <3>2
    <3> QED
      BY SMTT(30), <3>1, <3>2
  <2>5. /\ Id < ifaces => m + (n + 1) = l + 1
        /\ n + 1 <= l + 1
    BY SMTT(30), <2>2
  <2>6. UNCHANGED <<ifaces, delivered>> /\ rxq'.last_used_idx = l + 1 /\ pc' = "loop"
    BY SMTT(30), <1>2, <1>7 DEF setVars
  <2> QED
    BY SMTT(30), <2>1, <2>2, <2>3, <2>4, <2>5, <2>6 DEF Handed
<1> QED
  BY <1>10, <1>11, <1>12, <1>13, <1>14, <1>15 DEF RxInv

(* The frames are handed to ethernet-in.                                   *)
LEMMA DeliverRxInv == ASSUME OneAtATime, RxInv, Deliver PROVE RxInv'
<1> USE RxConstants
<1>t. RxType /\ Booting /\ Counts /\ Ring /\ Stocked /\ Attended /\ Handed
  BY SMTT(30) DEF RxInv
<1>f. /\ Filled \in Nat /\ received \in Nat /\ rxq.last_used_idx \in Nat /\ todo \in Nat
      /\ round \in Nat
  BY SMTT(30), RxFields
<1>1. /\ pc = "loop" /\ pc' = "idle" /\ ret' = << >>
      /\ delivered' = IF Id < ifaces THEN delivered \o ret ELSE delivered
      /\ UNCHANGED <<setVars, rxq, devVars, irqVars, todo, seen, round>>
  BY SMTT(30) DEF Deliver
<1>2. /\ delivered \in Seq(Nat) /\ ret \in Seq(Nat)
      /\ delivered \o ret \in Seq(Nat)
      /\ Len(delivered \o ret) = Len(delivered) + Len(ret)
      /\ << >> \in Seq(Nat) /\ Len(<< >>) = 0
      /\ Len(delivered) \in Nat /\ Len(ret) \in Nat
  BY SMTT(30), <1>t, ConcatProperties, EmptySeq, LenProperties DEF RxType
<1>3. Counts' /\ Ring' /\ Filled' = Filled
  BY SMTT(30), <1>1, QueueKept DEF devVars
<1>4. RxType'
  BY SMTT(30), <1>t, <1>1, <1>2 DEF RxType, setVars, devVars, irqVars
<1>5. Booting'
  BY SMTT(30), <1>t, <1>1 DEF Booting, BeforeLive, InHandler, setVars
<1>6. Stocked'
  <2>1. ~ masked /\ todo = 0 /\ round <= 1
    BY SMTT(30), <1>t, <1>1 DEF Booting, BeforeLive, Counts, Stocked
  <2>2. Filled - received >= Stock - 1
    <3>1. Filled + todo - received >= Stock - round
      BY SMTT(30), <1>t, <1>1, <2>1 DEF Stocked
    <3> QED
      BY SMTT(30), <1>f, <2>1, <3>1
  <2>3. UNCHANGED <<rxq, received, round>>
    BY SMTT(30), <1>1 DEF devVars
  <2> QED
    BY SMTT(30), <1>1, <1>3, <2>1, <2>2, <2>3 DEF Stocked
<1>7. Attended'
  BY SMTT(30), <1>t, <1>1, <1>3 DEF Attended, Signalled, setVars, setupVars, devVars, irqVars
<1>8. Handed'
  <2>1. ret' = << >> /\ Len(ret') = 0 /\ UNCHANGED <<ifaces, rxq>>
    BY SMTT(30), <1>1, <1>2 DEF setVars
  <2>2. Id < ifaces => Len(delivered') + 0 = rxq.last_used_idx
    BY SMTT(30), <1>t, <1>1, <1>2 DEF Handed
  <2>3. Id >= ifaces => delivered' = << >>
    <3>1. Id >= ifaces => ~ (Id < ifaces)
      BY SMTT(30), <1>t DEF RxType
    <3> QED
      BY SMTT(30), <1>t, <1>1, <3>1 DEF Handed
  <2>4. \A i \in 1..0 : FALSE
    OBVIOUS
  <2> QED
    BY SMTT(30), <1>f, <2>1, <2>2, <2>3, <2>4 DEF Handed
<1> QED
  BY SMTT(30), <1>3, <1>4, <1>5, <1>6, <1>7, <1>8 DEF RxInv

(* Every step keeps the invariant.                                         *)
LEMMA NextRxInv == ASSUME OneAtATime, RxInv, [Next]_vars PROVE RxInv'
<1>1. CASE UNCHANGED vars
  <2>1. UNCHANGED <<pc, status, features, ifaces, masked, rxq, dev, notify, received,
                    early, isr, irq, intr_status, todo, ret, delivered, round>>
    BY SMTT(30), <1>1 DEF vars, setVars, setupVars, devVars, irqVars, popVars
  <2>2. Filled' = Filled
    BY SMTT(30), <2>1 DEF Filled
  <2>3. RxType' /\ Booting'
    BY <2>1 DEF RxInv, RxType, Booting
  <2>4. Counts' /\ Ring' /\ Stocked'
    BY ZenonT(30), <2>1, <2>2 DEF RxInv, Counts, Ring, Stocked
  <2>5. Attended' /\ Handed'
    BY <2>1, <2>2 DEF RxInv, Attended, Signalled, Handed
  <2> QED
    BY SMTT(30), <2>3, <2>4, <2>5 DEF RxInv
<1>2. CASE Device
  BY <1>2, ReceiveRxInv, QuietRxInv DEF Device
<1>3. CASE Driver
  BY SMTT(30), <1>3, SettingRxInv, BootRxInv, QuietRxInv, RefillRxInv, PublishRxInv, FillRxInv,
     PopNextRxInv, DeliverRxInv DEF Driver
<1> QED
  BY SMTT(30), <1>1, <1>2, <1>3 DEF Next

(* The bookkeeping of the receive queue is right in every reachable state. *)
THEOREM RxInvariant == ASSUME OneAtATime PROVE Spec => []RxInv
<1>1. Init => RxInv
  BY InitRxInv
<1>2. RxInv /\ [Next]_vars => RxInv'
  BY NextRxInv
<1> QED
  BY <1>1, <1>2, PTL DEF Spec

-----------------------------------------------------------------------------
(* What follows from it.                                                   *)

(* fill_rx_queue, which runs before pop, overwrites no buffer that waits to*)
(* be popped: virtio.rs keeps it until pop has collected it.               *)
THEOREM FramesKept == ASSUME OneAtATime PROVE Spec => []FrameKept
<1>1. RxInv => FrameKept
  <2> SUFFICES ASSUME RxInv, NEW k \in 0..Completed - 1
               PROVE  rxq.buffers[rxq.used_ring[Masked(rxq.last_used_idx + k)]]
                        = received - Completed + k + 1
    BY SMTT(30) DEF FrameKept
  <2>1. PICK l \in Nat : l = rxq.last_used_idx
    BY SMTT(30), RxFields
  <2>2. received \in Nat /\ received <= MaxFrames + Size
    BY SMTT(30), RxFields, RxConstants
  <2>3. l <= received /\ rxq.used_idx = received
    BY <2>1 DEF RxInv, Counts
  <2>4. Completed = received - l
    <3>1. Ahead(received, l) = received - l
      BY SMTT(30), <2>2, <2>3, Distance
    <3> QED
      BY SMTT(30), <2>1, <2>3, <3>1 DEF Completed
  <2>5. l + k \in l..received - 1
    BY SMTT(30), <2>2, <2>3, <2>4
  <2>6. /\ rxq.used_ring[(l + k) % Size] = (l + k) % Size
        /\ rxq.buffers[(l + k) % Size] = (l + k) + 1
    BY <2>1, <2>5 DEF RxInv, Ring
  <2>7. received - Completed + k + 1 = (l + k) + 1
    BY <2>2, <2>4
  <2> QED
    BY SMTT(30), <2>1, <2>6, <2>7 DEF Masked
<1> QED
  BY <1>1, RxInvariant, PTL

(* The descriptors the device has are never more than the ring has.        *)
THEOREM NeverOverrun == ASSUME OneAtATime PROVE Spec => []NoOverrun
<1>1. RxInv => NoOverrun
  <2> SUFFICES ASSUME RxInv PROVE Ahead(rxq.avail_idx, rxq.used_idx) <= Size
    BY SMTT(30) DEF NoOverrun
  <2>1. PICK n \in Nat : n = rxq.avail_idx
    BY SMTT(30), RxFields
  <2>2. /\ received \in Nat /\ received <= MaxFrames /\ todo \in Nat /\ Filled \in Nat
        /\ n = Filled + IF pc = "fill" THEN 1 ELSE 0
    BY SMTT(30), <2>1, RxFields
  <2>3. /\ rxq.used_idx = received /\ received <= Filled
        /\ Filled + todo <= received + Size - 1
        /\ pc = "fill" => todo > 0
    BY DEF RxInv, Counts
  <2>4. received <= n /\ n <= received + Size /\ n <= MaxFrames + Size
    BY <2>2, <2>3, RxConstants
  <2>5. Ahead(n, received) = n - received
    BY <2>2, <2>4, Distance
  <2> QED
    BY SMTT(30), <2>1, <2>2, <2>3, <2>4, <2>5, RxConstants
<1> QED
  BY <1>1, RxInvariant, PTL

(* After every interrupt that reaches the driver the device is left with   *)
(* all but Threshold + 1 of the descriptors, however the device's steps    *)
(* fall between those of the handler: the ring never drains.               *)
THEOREM AlwaysReplenished == ASSUME OneAtATime PROVE Spec => []Replenished
<1>1. RxInv => Replenished
  <2> SUFFICES ASSUME RxInv, pc = "idle", ~ irq, ~ notify, Signalled(received)
               PROVE  Ahead(rxq.avail_idx, dev) >= Size - Threshold - 1
    BY SMTT(30) DEF Replenished
  <2>1. /\ received \in Nat /\ received <= MaxFrames /\ Filled \in Nat
        /\ rxq.avail_idx = Filled
    BY SMTT(30), RxFields
  <2>2. /\ dev = received /\ received <= Filled /\ todo = 0
        /\ Filled + todo <= received + Size - 1
    BY DEF RxInv, Counts
  <2>3. Filled + todo - received >= Stock
    BY DEF RxInv, Attended
  <2>4. Filled <= MaxFrames + Size
    BY SMTT(30), <2>1, <2>2, RxConstants
  <2>5. Ahead(Filled, received) = Filled - received
    BY SMTT(30), <2>1, <2>2, <2>4, Distance
  <2> QED
    BY SMTT(30), <2>1, <2>2, <2>3, <2>5, RxConstants
<1> QED
  BY <1>1, RxInvariant, PTL

(* A step of the driver or the device is a step of the channel or none.    *)
LEMMA NextRxChannel ==
  ASSUME OneAtATime, RxInv, [Next]_vars
  PROVE  [Channel!Next]_(Channel!vars)
<1>1. CASE Deliver
  <2>1. /\ delivered' = IF Id < ifaces THEN delivered \o ret ELSE delivered
        /\ received' = received
    BY <1>1 DEF Deliver, devVars
  <2>2. delivered \in Seq(Nat) /\ ret \in Seq(Nat)
    BY DEF RxInv, RxType
  <2>3. CASE Id < ifaces /\ Len(ret) > 0
    <3>1. PICK n \in Nat : n = Len(ret)
      BY <2>2, LenProperties
    <3>2. PICK m \in Nat : m = Len(delivered)
      BY SMTT(30), <2>2, LenProperties
    <3>3. PICK l \in Nat : l = rxq.last_used_idx
      BY RxFields
    <3>4. /\ m + n = l /\ \A i \in 1..n : ret[i] = l - n + i
          /\ l <= received /\ received \in Nat
      BY ZenonT(30), <2>3, <3>1, <3>2, <3>3, RxFields DEF RxInv, Handed, Counts
    <3>5. n \in 1..received - m
      BY SMTT(30), <2>3, <3>1, <3>4
    <3> DEFINE next == [i \in 1..n |-> m + i]
    <3>6. next \in Seq(Nat) /\ Len(next) = n /\ \A i \in 1..n : next[i] = m + i
      OBVIOUS
    <3> HIDE DEF next
    <3>7. \A i \in 1..n : ret[i] = next[i]
      <4> TAKE i \in 1..n
      <4>1. l - n + i = m + i
        BY SMTT(30), <3>4
      <4> QED
        BY ZenonT(30), <3>4, <3>6, <4>1
    <3>8. ret = next
      BY SMTT(30), <2>2, <3>1, <3>6, <3>7, SeqEqual
    <3>9. delivered' = delivered \o next
      BY <2>1, <2>3, <3>8
    <3> QED
      BY ZenonT(30), <2>1, <3>2, <3>5, <3>9 DEF Channel!Next, Channel!Emit, next
  <2>4. CASE ~ (Id < ifaces /\ Len(ret) > 0)
    <3>1. Id < ifaces => ret = << >>
      BY SMTT(30), <2>2, <2>4, EmptySeq, LenProperties
    <3>2. delivered \o << >> = delivered
      BY <2>2
    <3>3. delivered' = delivered
      BY ZenonT(30), <2>1, <3>1, <3>2
    <3> QED
      BY SMTT(30), <2>1, <3>3 DEF Channel!vars
  <2> QED
    BY SMTT(30), <2>3, <2>4
<1>2. CASE Receive
  BY SMTT(30), <1>2 DEF Receive, popVars, Channel!Next, Channel!Accept
<1>3. CASE Notify
  BY <1>3 DEF Notify, popVars, Channel!vars
<1>4. CASE Setting \/ FirstFill \/ DriverOk \/ SetHandler \/ EnterHandler \/ ReadIsr
           \/ AckIsr \/ Refill \/ PushPublish \/ PushFill \/ Kick \/ PopStart \/ PopNext
  <2>1. received' = received /\ delivered' = delivered
    BY ZenonT(30), <1>4 DEF Setting, FirstFill, DriverOk, SetHandler, EnterHandler,
       ReadIsr, AckIsr,
                Refill, PushPublish, PushFill, Kick, PopStart, PopNext, devVars, popVars
  <2> QED
    BY <2>1 DEF Channel!vars
<1>5. CASE UNCHANGED vars
  BY <1>5 DEF vars, devVars, popVars, Channel!vars
<1> QED
  BY SMTT(30), <1>1, <1>2, <1>3, <1>4, <1>5 DEF Next, Device, Driver

(* ethernet-in is given every frame the device received, once and in order,*)
(* and no buffer without a frame: reception implements the channel.        *)
THEOREM RxImplementsChannel == ASSUME OneAtATime PROVE Spec => ImplementsChannel
<1>1. Init => Channel!Init
  BY DEF Init, Channel!Init
<1>2. RxInv /\ [Next]_vars => [Channel!Next]_(Channel!vars)
  BY NextRxChannel
<1>3. Spec => []RxInv
  BY RxInvariant
<1> QED
  BY <1>1, <1>2, <1>3, PTL DEF Spec, ImplementsChannel, Channel!Spec
=============================================================================
