-------------------------- MODULE VirtioNetTxProofs --------------------------
(***************************************************************************)
(* Transmission is a channel, for every ring size and index width, every   *)
(* number of frames and every device that looks at the ring between two    *)
(* calls of xmit and is never more than the ring behind.                   *)
(***************************************************************************)
EXTENDS VirtioNetTx, Preliminaries, SequenceTheorems

Frames == Frame \cup {NoBuffer}

-----------------------------------------------------------------------------
(* Indices, wrapped and masked.                                            *)
LEMMA MaskedRange ==
  ASSUME NEW i \in Int
  PROVE  Masked(i) \in Slot /\ Inc(i) \in Index
<1>1. i % Size \in 0..Size - 1
  BY RingAssumption, ModRange
<1>2. (i + 1) % IdxMod \in 0..IdxMod - 1
  <2>1. i + 1 \in Int
    OBVIOUS
  <2> QED
    BY <2>1, RingAssumption, ModRange
<1> QED
  BY <1>1, <1>2 DEF Masked, Slot, Inc, Index

-----------------------------------------------------------------------------
(* The operations of the ring, field by field.                             *)
LEMMA PublishFields ==
  ASSUME NEW q \in QueueType(Frame)
  PROVE  LET a == Masked(q.avail_idx) IN
         /\ Publish(q) \in QueueType(Frame)
         /\ Publish(q).avail_idx = Inc(q.avail_idx)
         /\ Publish(q).avail_ring = [q.avail_ring EXCEPT ![a] = q.free_head]
         /\ Publish(q).buffers = q.buffers
         /\ Publish(q).free_head = q.free_head
<1> USE RingAssumption
<1>1. Inc(q.avail_idx) \in Index
  BY DEF QueueType, Index, Inc
<1>2. [q.avail_ring EXCEPT ![Masked(q.avail_idx)] = q.free_head] \in [Slot -> Slot]
  BY DEF QueueType
<1> QED
  BY <1>1, <1>2 DEF Publish, QueueType

(* The second half of push writes the descriptor.                          *)
LEMMA FillFields ==
  ASSUME NEW q \in QueueType(Frame), NEW f \in Frame
  PROVE  /\ Fill(q, f) \in QueueType(Frame)
         /\ Fill(q, f).avail_idx = q.avail_idx
         /\ Fill(q, f).avail_ring = q.avail_ring
         /\ Fill(q, f).buffers = [q.buffers EXCEPT ![q.free_head] = f]
         /\ Fill(q, f).free_head = Masked(q.free_head + 1)
<1> USE RingAssumption
<1>1. Masked(q.free_head + 1) \in Slot
  <2>1. q.free_head + 1 \in Int
    BY DEF QueueType, Slot
  <2> QED
    BY <2>1, MaskedRange
<1>2. [q.buffers EXCEPT ![q.free_head] = f] \in [Slot -> Frames]
  BY DEF QueueType, Frames
<1> QED
  BY <1>1, <1>2 DEF Fill, QueueType, Frames

(* The device returns a buffer, and changes none.                          *)
LEMMA DeviceUseFields ==
  ASSUME NEW q \in QueueType(Frame), NEW d \in Index
  PROVE  LET u == DeviceUse(q, d, q.buffers[AvailSlot(q, d)]) IN
         /\ u \in QueueType(Frame)
         /\ u.avail_idx = q.avail_idx /\ u.avail_ring = q.avail_ring
         /\ u.buffers = q.buffers /\ u.free_head = q.free_head
<1> USE RingAssumption
<1> DEFINE s == AvailSlot(q, d)
<1>1. s \in Slot
  <2>1. d \in Int
    BY DEF Index
  <2>2. Masked(d) \in Slot
    BY <2>1, MaskedRange
  <2> QED
    BY <2>2 DEF QueueType, AvailSlot
<1>2. Inc(q.used_idx) \in Index /\ Masked(q.used_idx) \in Slot
  <2>1. q.used_idx \in Int
    BY DEF QueueType, Index
  <2> QED
    BY <2>1, MaskedRange
<1> HIDE DEF s
<1>3. [q.used_ring EXCEPT ![Masked(q.used_idx)] = s] \in [Slot -> Slot]
  BY <1>1 DEF QueueType
<1>4. [q.buffers EXCEPT ![s] = IF q.buffers[s] = NoBuffer THEN NoBuffer ELSE q.buffers[s]]
        = q.buffers
  BY <1>1 DEF QueueType
<1> QED
  BY <1>2, <1>3, <1>4 DEF DeviceUse, QueueType, s

-----------------------------------------------------------------------------
(* The device looks at the ring between two calls of xmit and is never     *)
(* more than the ring behind; the index is wider than the ring.            *)
KeepsUp == ~ Eager /\ Lag <= Size /\ Size < IdxMod

(* The queue starts empty, with nothing sent.                              *)
LEMMA InitTxInv == Init => TxInv
<1> SUFFICES ASSUME Init PROVE TxInv
  OBVIOUS
<1> USE RingAssumption, TxAssumption DEF Init
<1>1. sent \in Seq(Frame \cup {NoBuffer}) /\ Len(sent) = 0 /\ queued = 0 /\ pc = "idle"
  BY EmptySeq
<1>2. 0 \in Slot /\ 0 \in Index
  BY DEF Slot, Index
<1>3. txq \in QueueType(Frame)
  BY <1>2 DEF NewQueue, QueueType
<1>4. TypeOK
  <2>1. queued \in 0..MaxFrames
    OBVIOUS
  <2>2. dev \in Index /\ kicked \in BOOLEAN /\ pc \in {"idle", "fill", "kick"}
    BY <1>2, Zenon
  <2> QED
    BY <1>1, <1>3, <2>1, <2>2, Zenon DEF TypeOK
<1>5. txq.avail_idx = 0 /\ txq.free_head = 0 /\ dev = 0
  BY DEF NewQueue
<1>6. 0 % IdxMod = 0 /\ 0 % Size = 0
  OBVIOUS
<1>7. Published = 0
  BY <1>1 DEF Published
<1>8. /\ \A k \in Len(sent)..Published - 1 : txq.avail_ring[k % Size] = k % Size
      /\ \A k \in Len(sent)..queued - 1 : txq.buffers[k % Size] = k + 1
      /\ SentAsQueued
  BY <1>1, <1>7 DEF SentAsQueued
<1>9. Len(sent) <= queued /\ Published <= Len(sent) + Size
  BY <1>1, <1>7
<1> HIDE DEF Init
<1> QED
  BY <1>1, <1>4, <1>5, <1>6, <1>7, <1>8, <1>9 DEF TxInv

(* How far the device is behind, as xmit's index and the device's show it. *)
LEMMA Backlog ==
  ASSUME KeepsUp, TxInv
  PROVE  /\ Ahead(txq.avail_idx, dev) = Published - Len(sent)
         /\ Len(sent) \in Nat /\ queued \in Nat /\ Published \in Nat
         /\ queued <= Published
         /\ dev = txq.avail_idx <=> Len(sent) = Published
<1> USE RingAssumption, TxAssumption
<1>1. /\ Len(sent) \in Nat /\ queued \in Nat
      /\ Len(sent) <= queued /\ Published <= Len(sent) + Size
      /\ txq.avail_idx = Published % IdxMod /\ dev = Len(sent) % IdxMod
  BY LenProperties DEF TxInv, TypeOK
<1>2. Published \in Nat /\ queued <= Published
  BY <1>1 DEF Published
<1>3. PICK p \in Nat : p = Published
  BY <1>2
<1>4. PICK n \in Nat : n = Len(sent)
  BY <1>1
<1>5. n <= p /\ p - n < IdxMod /\ IdxMod \in Nat \ {0}
  BY <1>1, <1>2, <1>3, <1>4 DEF KeepsUp
<1>0. p \in Int /\ n \in Int
  OBVIOUS
<1>6. ((p % IdxMod) - (n % IdxMod)) % IdxMod = p - n
  BY <1>0, <1>5, ModDistance, Zenon
<1>7. p % IdxMod = n % IdxMod => p = n
  BY <1>0, <1>5, ModInjective, Zenon
<1> QED
  BY <1>1, <1>2, <1>3, <1>4, <1>6, <1>7 DEF Ahead

(* xmit advances avail.idx.                                                *)
LEMMA XmitPublishTxInv ==
  ASSUME KeepsUp, TxInv, XmitPublish
  PROVE  TxInv'
<1> USE RingAssumption, TxAssumption
<1>1. /\ Len(sent) \in Nat /\ queued \in Nat
      /\ Published = queued /\ Published' = queued + 1
      /\ UNCHANGED <<dev, kicked, queued, sent>> /\ pc = "idle" /\ pc' = "fill"
  BY Backlog DEF XmitPublish, Published
<1>2. queued - Len(sent) < Size
  <2>1. Ahead(txq.avail_idx, dev) = queued - Len(sent)
    BY <1>1, Backlog
  <2>2. Ahead(txq.avail_idx, dev) < Lag /\ Lag <= Size
    BY DEF XmitPublish, KeepsUp
  <2> QED
    BY <1>1, <2>1, <2>2
<1>3. txq \in QueueType(Frame) /\ txq' = Publish(txq)
  BY DEF TxInv, TypeOK, XmitPublish
<1>0. txq.avail_idx = queued % IdxMod
  BY <1>1 DEF TxInv
<1>10. queued \in Int /\ 1 \in Int
  BY <1>1
<1>4. Masked(txq.avail_idx) = queued % Size
  <2>1. (queued % IdxMod) % Size = queued % Size
    BY <1>10, ModOfMod, Zenon
  <2> QED
    BY <1>0, <2>1 DEF Masked
<1>5. Inc(txq.avail_idx) = (queued + 1) % IdxMod
  <2>1. ((queued % IdxMod) + 1) % IdxMod = (queued + 1) % IdxMod
    BY <1>10, ModPlus, Zenon
  <2> QED
    BY <1>0, <2>1 DEF Inc
<1>6. /\ txq'.avail_idx = (queued + 1) % IdxMod
      /\ txq'.avail_ring = [txq.avail_ring EXCEPT ![queued % Size] = queued % Size]
      /\ txq'.buffers = txq.buffers /\ txq'.free_head = txq.free_head
      /\ txq' \in QueueType(Frame)
  BY <1>3, <1>4, <1>5, PublishFields DEF TxInv
<1>7. TypeOK'
  BY <1>1, <1>6 DEF TxInv, TypeOK
<1>8. \A k \in Len(sent)..queued : txq'.avail_ring[k % Size] = k % Size
  <2> TAKE k \in Len(sent)..queued
  <2>1. k % Size \in Slot /\ k \in Int
    BY <1>1, ModRange DEF Slot
  <2>2. txq.avail_ring \in [Slot -> Slot]
    BY <1>3 DEF QueueType
  <2>3. CASE k % Size = queued % Size
    BY <1>6, <2>1, <2>2, <2>3
  <2>4. CASE k % Size # queued % Size
    <3>1. k \in Len(sent)..Published - 1
      BY <1>1, <2>4
    <3> QED
      BY <1>6, <2>1, <2>2, <2>4, <3>1 DEF TxInv
  <2> QED
    BY <2>3, <2>4
<1>9. queued < MaxFrames
  BY DEF XmitPublish
<1>12. \A k \in Len(sent)'..Published' - 1 : txq'.avail_ring[k % Size] = k % Size
  BY <1>1, <1>8
<1>11. Published' <= Len(sent)' + Size
  BY <1>1, <1>2
<1> QED
  BY <1>1, <1>6, <1>7, <1>9, <1>11, <1>12 DEF TxInv, SentAsQueued

(* xmit writes the descriptor.                                             *)
LEMMA XmitFillTxInv ==
  ASSUME KeepsUp, TxInv, XmitFill
  PROVE  TxInv'
<1> USE RingAssumption, TxAssumption
<1>1. /\ Len(sent) \in Nat /\ queued \in Nat
      /\ Published = queued + 1 /\ Published' = queued + 1
      /\ UNCHANGED <<dev, kicked, sent>> /\ pc = "fill" /\ pc' = "kick"
      /\ queued' = queued + 1 /\ queued < MaxFrames
  BY Backlog DEF XmitFill, Published, TxInv
<1>2. /\ txq \in QueueType(Frame) /\ txq' = Fill(txq, queued + 1)
      /\ queued + 1 \in Frame
  BY <1>1 DEF TxInv, TypeOK, XmitFill, Frame
<1>10. queued \in Int /\ 1 \in Int
  BY <1>1
<1>3. Masked(txq.free_head + 1) = (queued + 1) % Size
  <2>1. ((queued % Size) + 1) % Size = (queued + 1) % Size
    BY <1>10, ModPlus, Zenon
  <2> QED
    BY <2>1 DEF TxInv, Masked
<1>4. /\ txq'.avail_idx = txq.avail_idx /\ txq'.avail_ring = txq.avail_ring
      /\ txq'.buffers = [txq.buffers EXCEPT ![queued % Size] = queued + 1]
      /\ txq'.free_head = (queued + 1) % Size
      /\ txq' \in QueueType(Frame)
  BY <1>2, <1>3, FillFields DEF TxInv
<1>5. TypeOK'
  BY <1>1, <1>4 DEF TxInv, TypeOK
<1>6. \A k \in Len(sent)..queued : txq'.buffers[k % Size] = k + 1
  <2> TAKE k \in Len(sent)..queued
  <2>1. k % Size \in Slot /\ k \in Int
    BY <1>1, ModRange DEF Slot
  <2>2. txq.buffers \in [Slot -> Frame \cup {NoBuffer}]
    BY <1>2 DEF QueueType
  <2>3. CASE k = queued
    BY <1>4, <2>1, <2>2, <2>3
  <2>4. CASE k # queued
    <3>1. k \in Len(sent)..queued - 1 /\ queued - k < Size /\ k <= queued
      BY <1>1, <2>4 DEF TxInv
    <3>2. queued % Size # k % Size
      <4>1. queued \in Int /\ Size \in Nat \ {0}
        BY <1>1
      <4> QED
        BY <2>1, <2>4, <3>1, <4>1, ModInjective
    <3> QED
      BY <1>4, <2>1, <2>2, <3>1, <3>2 DEF TxInv
  <2> QED
    BY <2>3, <2>4
<1>7. /\ \A k \in Len(sent)'..queued' - 1 : txq'.buffers[k % Size] = k + 1
      /\ \A k \in Len(sent)'..Published' - 1 : txq'.avail_ring[k % Size] = k % Size
  BY <1>1, <1>4, <1>6 DEF TxInv
<1>8. Len(sent)' <= queued' /\ Published' <= Len(sent)' + Size
  BY <1>1 DEF TxInv
<1>9. txq'.avail_idx = Published' % IdxMod /\ dev' = Len(sent)' % IdxMod
  BY <1>1, <1>4 DEF TxInv
<1> QED
  BY <1>1, <1>4, <1>5, <1>7, <1>8, <1>9 DEF TxInv, SentAsQueued

(* The next frame the device takes is the one xmit was given next.         *)
LEMMA NextTaken ==
  ASSUME KeepsUp, TxInv, Transmit
  PROVE  /\ Len(sent) \in Nat /\ Len(sent) < queued /\ queued \in 0..MaxFrames
         /\ Published = queued /\ pc = "idle"
         /\ txq.buffers[AvailSlot(txq, dev)] = Len(sent) + 1
<1> USE RingAssumption, TxAssumption
<1>1. pc = "idle" /\ Published = queued /\ dev # txq.avail_idx
  BY Backlog DEF Transmit, KeepsUp, Published
<1>2. PICK n \in Nat : n = Len(sent)
  BY Backlog
<1>3. n < queued /\ queued \in 0..MaxFrames
  BY <1>1, <1>2, Backlog DEF TxInv, TypeOK
<1>4. (n % IdxMod) % Size = n % Size
  <2>1. n \in Int
    OBVIOUS
  <2> QED
    BY <2>1, ModOfMod, Zenon
<1>5. Masked(dev) = n % Size
  BY <1>2, <1>4 DEF TxInv, Masked
<1>6. n \in Len(sent)..Published - 1 /\ n \in Len(sent)..queued - 1
  BY <1>1, <1>2, <1>3
<1>7. txq.avail_ring[n % Size] = n % Size /\ txq.buffers[n % Size] = n + 1
  BY <1>6 DEF TxInv
<1>8. txq.buffers[AvailSlot(txq, dev)] = n + 1
  BY <1>5, <1>7 DEF AvailSlot
<1> QED
  BY <1>1, <1>2, <1>3, <1>8

(* The device sends the next frame.                                        *)
LEMMA TransmitTxInv ==
  ASSUME KeepsUp, TxInv, Transmit
  PROVE  TxInv'
<1> USE RingAssumption, TxAssumption
<1>1. PICK n \in Nat : n = Len(sent)
  BY NextTaken
<1>2. n < queued /\ queued \in 0..MaxFrames /\ Published = queued /\ pc = "idle"
  BY <1>1, NextTaken
<1>3. UNCHANGED <<kicked, pc, queued>> /\ Published' = queued
  BY <1>2 DEF Transmit, Published
<1>4. sent' = Append(sent, n + 1) /\ dev' = Inc(dev)
  BY <1>1, NextTaken DEF Transmit
<1>5. sent \in Seq(Frames) /\ n + 1 \in Frames
  BY <1>2 DEF TxInv, TypeOK, Frames, Frame
<1>6. /\ sent' \in Seq(Frames) /\ Len(sent') = n + 1
      /\ \A i \in 1..n : sent'[i] = sent[i] /\ sent'[n + 1] = n + 1
  BY <1>1, <1>4, <1>5, AppendProperties
<1>7. dev' = (n + 1) % IdxMod
  <2>1. n \in Int /\ 1 \in Int
    OBVIOUS
  <2>2. ((n % IdxMod) + 1) % IdxMod = (n + 1) % IdxMod
    BY <2>1, ModPlus, Zenon
  <2> QED
    BY <1>1, <1>4, <2>2 DEF TxInv, Inc
<1>8. /\ txq' \in QueueType(Frame)
      /\ txq'.avail_idx = txq.avail_idx /\ txq'.avail_ring = txq.avail_ring
      /\ txq'.buffers = txq.buffers /\ txq'.free_head = txq.free_head
  <2>1. txq \in QueueType(Frame) /\ dev \in Index
    BY DEF TxInv, TypeOK
  <2>2. txq' = DeviceUse(txq, dev, txq.buffers[AvailSlot(txq, dev)])
    BY DEF Transmit
  <2> QED
    BY <2>1, <2>2, DeviceUseFields
<1>9. SentAsQueued'
  <2>1. \A i \in 1..n : sent[i] = i
    BY <1>1 DEF TxInv, SentAsQueued
  <2>2. sent'[n + 1] = n + 1
    BY <1>1, <1>4, <1>5, AppendProperties
  <2> QED
    BY <1>6, <2>1, <2>2 DEF SentAsQueued
<1>10. TypeOK'
  <2>1. dev' \in Index
    BY <1>7, ModRange DEF Index
  <2> QED
    BY <1>3, <1>6, <1>8, <2>1 DEF TxInv, TypeOK, Frames
<1>11. /\ \A k \in n + 1..queued - 1 : txq'.avail_ring[k % Size] = k % Size
       /\ \A k \in n + 1..queued - 1 : txq'.buffers[k % Size] = k + 1
  <2>1. \A k \in n..queued - 1 :
          txq.avail_ring[k % Size] = k % Size /\ txq.buffers[k % Size] = k + 1
    BY <1>1, <1>2 DEF TxInv
  <2>2. \A k \in n + 1..queued - 1 : k \in n..queued - 1
    BY <1>2
  <2> QED
    BY <1>8, <2>1, <2>2, Zenon
<1>12. Len(sent)' <= queued' /\ Published' <= Len(sent)' + Size
  <2>1. queued <= n + Size
    BY <1>1, <1>2 DEF TxInv
  <2> QED
    BY <1>2, <1>3, <1>6, <2>1
<1>13. txq'.avail_idx = Published' % IdxMod /\ txq'.free_head = queued' % Size
  BY <1>2, <1>3, <1>8 DEF TxInv
<1> QED
  BY <1>2, <1>3, <1>6, <1>7, <1>9, <1>10, <1>11, <1>12, <1>13 DEF TxInv

(* Every step keeps the invariant.                                         *)
LEMMA NextTxInv ==
  ASSUME KeepsUp, TxInv, [Next]_vars
  PROVE  TxInv'
<1>1. ASSUME UNCHANGED <<txq, dev, queued, sent>>, kicked' \in BOOLEAN,
             pc' \in {"idle", "fill", "kick"}, pc' = "fill" <=> pc = "fill"
      PROVE  TxInv'
  <2>1. TypeOK'
    BY <1>1 DEF TxInv, TypeOK
  <2>2. Published' = Published
    BY <1>1 DEF Published
  <2> QED
    BY <1>1, <2>1, <2>2 DEF TxInv, SentAsQueued
<1>2. CASE XmitKick
  BY <1>1, <1>2 DEF XmitKick
<1>3. CASE Sleep
  BY <1>1, <1>3 DEF Sleep, TxInv, TypeOK
<1>4. CASE UNCHANGED vars
  BY <1>1, <1>4 DEF vars, TxInv, TypeOK
<1> QED
  BY <1>2, <1>3, <1>4, XmitPublishTxInv, XmitFillTxInv, TransmitTxInv
     DEF Next, Xmit, Device

(* The bookkeeping of the ring is right in every reachable state, for every*)
(* ring size, index width and number of frames: indices, free head, ring   *)
(* entries and kept buffers belong to the frames between the two counts.   *)
THEOREM TxInvariant == ASSUME KeepsUp PROVE Spec => []TxInv
<1>1. Init => TxInv
  BY InitTxInv
<1>2. TxInv /\ [Next]_vars => TxInv'
  BY NextTxInv
<1> QED
  BY <1>1, <1>2, PTL DEF Spec

-----------------------------------------------------------------------------
(* A step of the driver or the device is a step of the channel or none.    *)
LEMMA NextChannel ==
  ASSUME KeepsUp, TxInv, [Next]_vars
  PROVE  [Channel!Next]_(Channel!vars)
<1>1. CASE Transmit
  <2>1. PICK n \in Nat : n = Len(sent)
    BY <1>1, NextTaken
  <2>2. n < queued /\ queued \in Nat
    BY <1>1, <2>1, NextTaken
  <2>3. sent' = Append(sent, n + 1) /\ queued' = queued
    BY <1>1, <2>1, NextTaken DEF Transmit
  <2> DEFINE one == [i \in 1..1 |-> n + i]
  <2>4. sent \in Seq(Nat \cup {NoBuffer})
    BY SeqMonotonic DEF TxInv, TypeOK, Frame
  <2>5. one \in Seq(Nat \cup {NoBuffer}) /\ Len(one) = 1 /\ one[1] = n + 1
    OBVIOUS
  <2> HIDE DEF one
  <2>6. /\ sent \o one \in Seq(Nat \cup {NoBuffer}) /\ Len(sent \o one) = n + 1
        /\ \A i \in 1..n + 1 : (sent \o one)[i] = IF i <= n THEN sent[i] ELSE one[i - n]
    BY <2>1, <2>4, <2>5, ConcatProperties
  <2>7. /\ sent' \in Seq(Nat \cup {NoBuffer}) /\ Len(sent') = n + 1
        /\ \A i \in 1..n : sent'[i] = sent[i]
        /\ sent'[n + 1] = n + 1
    BY <2>1, <2>3, <2>4, AppendProperties
  <2>8. \A i \in 1..Len(sent') : sent'[i] = (sent \o one)[i]
    BY <2>5, <2>6, <2>7
  <2>9. sent' = sent \o one
    BY <2>6, <2>7, <2>8, SeqEqual
  <2>10. 1 \in 1..queued - n
    BY <2>2
  <2> QED
    BY <2>1, <2>3, <2>9, <2>10 DEF Channel!Next, Channel!Emit, one
<1>2. CASE XmitFill
  BY <1>2 DEF XmitFill, Channel!Next, Channel!Accept
<1>3. CASE XmitPublish \/ XmitKick \/ Sleep \/ UNCHANGED vars
  BY <1>3 DEF XmitPublish, XmitKick, Sleep, vars, Channel!vars
<1> QED
  BY <1>1, <1>2, <1>3 DEF Next, Xmit, Device

(* What goes out on the wire is what xmit was given, each frame once and   *)
(* in order: the driver implements the channel, although it never asks     *)
(* whether the device is done with a descriptor it uses again.             *)
THEOREM TxImplementsChannel == ASSUME KeepsUp PROVE Spec => ImplementsChannel
<1>1. Init => Channel!Init
  BY DEF Init, Channel!Init
<1>2. TxInv /\ [Next]_vars => [Channel!Next]_(Channel!vars)
  BY NextChannel
<1>3. Spec => []TxInv
  BY TxInvariant
<1> QED
  BY <1>1, <1>2, <1>3, PTL DEF Spec, ImplementsChannel, Channel!Spec
=============================================================================
