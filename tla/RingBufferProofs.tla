------------------------- MODULE RingBufferProofs -------------------------
(***************************************************************************)
(* The ring buffer on one processor, for every length of ring, any number  *)
(* of producers and any number of calls.                                   *)
(*                                                                         *)
(* The argument counts: Taken values have left the ring, Len(claimed) have *)
(* a slot in it, and the two indices are these counts modulo Length.  A    *)
(* producer interrupts everyone and the consumer no one, so while a        *)
(* producer is under way nothing is taken, what it read of readidx stays   *)
(* true and the slots it may see free stay free; and when the consumer     *)
(* moves, every claimed slot has been stored.                              *)
(***************************************************************************)
EXTENDS RingBuffer, Preliminaries, SequenceTheorems

(* One processor: the newest call runs to its end.                         *)
OneProcessor == ~Concurrent

PutPc == {"idle", "put_rix", "put_wix", "put_cas", "put_store"}
GetPc == {"idle", "get_wix", "get_rix", "get_cas", "get_item"}

RingType ==
  /\ buffer \in [Slot -> Nat \cup {None}]
  /\ readidx \in Slot /\ writeidx \in Slot
  /\ pc \in [Caller -> PutPc \cup GetPc]
  /\ \A p \in Producer : pc[p] \in PutPc
  /\ pc[Consumer] \in GetPc
  /\ rix \in [Caller -> Slot] /\ wix \in [Caller -> Slot]
  /\ val \in [Producer -> Nat]
  /\ running \in Seq(Caller)
  /\ puts \in Nat
  /\ claimed \in Seq(Nat)
  /\ got \in Seq(Nat \cup {None})

(* The calls under way are those on the stack, each once, and the consumer *)
(* is at its bottom.                                                       *)
Stack ==
  /\ \A i, j \in 1..Len(running) : running[i] = running[j] => i = j
  /\ \A i \in 1..Len(running) : running[i] = Consumer => i = 1
  /\ \A c \in Caller :
       pc[c] # "idle" <=> \E i \in 1..Len(running) : running[i] = c

(* What get has taken off the ring, the value it is about to return        *)
(* included.                                                               *)
Taken == IF pc[Consumer] = "get_item" THEN Len(got) + 1 ELSE Len(got)

(* One slot stays free, so full and empty differ.                          *)
Indices ==
  /\ readidx = Taken % Length /\ writeidx = Len(claimed) % Length
  /\ Taken <= Len(claimed) /\ Len(claimed) < Taken + Length

(* No value is put twice.                                                  *)
Values ==
  /\ \A i \in 1..Len(claimed) : claimed[i] <= puts
  /\ \A i, j \in 1..Len(claimed) : claimed[i] = claimed[j] => i = j
  /\ \A p \in Producer : val[p] <= puts
  /\ \A p, q \in Producer :
       (pc[p] # "idle" /\ pc[q] # "idle" /\ val[p] = val[q]) => p = q
  /\ \A p \in Producer : pc[p] \in {"put_rix", "put_wix", "put_cas"} =>
       \A i \in 1..Len(claimed) : claimed[i] # val[p]

(* A put under way read the index that is still there, and its claim can   *)
(* only succeed on a slot that is free.                                    *)
Putting ==
  \A p \in Producer :
    /\ pc[p] \in {"put_wix", "put_cas"} => rix[p] = readidx
    /\ pc[p] = "put_cas" => Succ(wix[p]) # rix[p]
    /\ pc[p] = "put_store" =>
         \E i \in Taken + 1..Len(claimed) :
           claimed[i] = val[p] /\ wix[p] = (i - 1) % Length

(* A claimed slot holds its value, or the producer that claimed it is      *)
(* about to store it.                                                      *)
Stored ==
  \A i \in Len(got) + 1..Len(claimed) :
    \/ buffer[(i - 1) % Length] = claimed[i]
    \/ \E p \in Producer : pc[p] = "put_store" /\ val[p] = claimed[i]

(* A get that saw the ring not empty is right, and goes for its first      *)
(* value.                                                                  *)
Getting ==
  /\ pc[Consumer] = "get_rix" =>
       \E w \in Taken..Len(claimed) : wix[Consumer] = w % Length
  /\ pc[Consumer] = "get_cas" =>
       rix[Consumer] = readidx /\ Taken < Len(claimed)
  /\ pc[Consumer] = "get_item" => rix[Consumer] = Len(got) % Length

(* What was returned is what was put, in order.                            *)
Returned ==
  /\ Len(got) <= Len(claimed)
  /\ \A i \in 1..Len(got) : got[i] = claimed[i]

RingInv ==
  /\ RingType /\ Stack /\ Indices /\ Values /\ Putting /\ Stored
  /\ Getting /\ Returned /\ ReturnedStable

-----------------------------------------------------------------------------
(* Succ stays in the ring.                                                 *)
LEMMA SuccSlot == ASSUME NEW i \in Slot PROVE Succ(i) \in Slot /\ Succ(i) # i
<1>1. Length \in Nat /\ Length > 1 /\ i \in Int /\ i + 1 \in Int /\ i \in 0..Length - 1
  BY RingBufferAssumption DEF Slot
<1>2. (i + 1) % Length \in 0..Length - 1
  BY <1>1, ModRange
<1>3. ASSUME i = (i + 1) % Length PROVE FALSE
  <2>1. i % Length = i
    BY <1>1, ModSmall
  <2> QED
    BY <1>1, <1>3, <2>1, ModInjective
<1> QED
  BY <1>2, <1>3 DEF Succ, Slot

(* Succ counts modulo Length.                                              *)
LEMMA SuccMod == ASSUME NEW n \in Nat PROVE Succ(n % Length) = (n + 1) % Length
<1>1. n \in Int /\ 1 \in Int /\ Length \in Nat \ {0}
  BY RingBufferAssumption
<1>2. ((n % Length) + 1) % Length = (n + 1) % Length
  BY ZenonT(30), <1>1, ModPlus
<1> QED
  BY <1>2 DEF Succ

(* An index, taken modulo the length, is a slot.                           *)
LEMMA ModSlot == ASSUME NEW n \in Nat PROVE n % Length \in Slot
  BY RingBufferAssumption, ModRange DEF Slot

(* Two values that are on the ring are in two slots.                       *)
LEMMA TwoSlots ==
  ASSUME NEW lo \in Nat, NEW i \in Nat, NEW j \in Nat, i # j,
         lo < i, lo < j, i <= lo + Length, j <= lo + Length
  PROVE  (i - 1) % Length # (j - 1) % Length
<1>1. Length \in Nat \ {0}
  BY RingBufferAssumption
<1>2. ASSUME NEW a \in Int, NEW b \in Int, b <= a, a - b < Length,
             a % Length = b % Length
      PROVE  a = b
  BY ZenonT(30), <1>1, <1>2, ModInjective
<1>3. i - 1 \in Int /\ j - 1 \in Int
  OBVIOUS
<1>4. CASE i <= j
  <2>1. i - 1 <= j - 1 /\ (j - 1) - (i - 1) < Length /\ i - 1 # j - 1
    BY <1>1, <1>4
  <2> QED
    BY <1>2, <1>3, <2>1
<1>5. CASE j <= i
  <2>1. j - 1 <= i - 1 /\ (i - 1) - (j - 1) < Length /\ i - 1 # j - 1
    BY <1>1, <1>5
  <2> QED
    BY <1>2, <1>3, <2>1
<1> QED
  BY <1>4, <1>5

(* Initially the ring is empty and no call is under way.                   *)
LEMMA InitRingInv == Init => RingInv
<1> SUFFICES ASSUME Init PROVE RingInv
  OBVIOUS
<1> USE DEF Init
<1>1. Length \in Nat /\ Length > 1 /\ 0 \in Slot /\ 0 % Length = 0
  BY RingBufferAssumption, ModSmall DEF Slot
<1>2. RingType
  BY <1>1, RingBufferAssumption DEF RingType, Caller, PutPc, GetPc
<1>3. Len(running) = 0 /\ Len(got) = 0 /\ Len(claimed) = 0 /\ pc[Consumer] = "idle"
  BY DEF Caller
<1>4. Stack
  BY <1>3 DEF Stack
<1>5. Indices
  BY <1>1, <1>3 DEF Indices, Taken
<1>6. Values
  BY <1>3 DEF Values, Caller
<1>7. Putting
  BY DEF Putting, Caller
<1>8. Stored /\ Getting /\ Returned /\ ReturnedStable
  BY <1>3 DEF Stored, Getting, Returned, ReturnedStable
<1> QED
  BY <1>2, <1>4, <1>5, <1>6, <1>7, <1>8 DEF RingInv

-----------------------------------------------------------------------------
(* A call that moves is the newest, and moves nobody else.                 *)
LEMMA Moved ==
  ASSUME OneProcessor, RingInv, NEW c \in Caller, NEW here, NEW there,
         At(c, here, there)
  PROVE  /\ Len(running) \in Nat \ {0} /\ running[Len(running)] = c
         /\ pc[c] = here /\ pc'[c] = there /\ DOMAIN pc' = Caller
         /\ \A d \in Caller : d # c => pc'[d] = pc[d]
         /\ pc' = [pc EXCEPT ![c] = there]
<1>1. running \in Seq(Caller) /\ running # <<>> /\ running[Len(running)] = c
  BY DEF At, Moves, OneProcessor, RingInv, RingType
<1>2. Len(running) \in Nat \ {0} /\ running[Len(running)] = c
  BY <1>1
<1> QED
  BY <1>2 DEF At, RingInv, RingType

(* The consumer moves only when no put is under way.                       *)
LEMMA ConsumerAlone ==
  ASSUME RingInv, Len(running) \in Nat \ {0}, running[Len(running)] = Consumer
  PROVE  Len(running) = 1 /\ \A p \in Producer : pc[p] = "idle"
<1>1. Len(running) = 1
  <2>1. Len(running) \in 1..Len(running)
    OBVIOUS
  <2> QED
    BY ZenonT(30), <2>1 DEF RingInv, Stack
<1>2. ASSUME NEW p \in Producer, pc[p] # "idle" PROVE FALSE
  <2>1. PICK i \in 1..Len(running) : running[i] = p
    BY <1>2 DEF RingInv, Stack, Caller
  <2> QED
    BY <1>1, <2>1, RingBufferAssumption
<1> QED
  BY <1>1, <1>2

(* The newest call ends: it leaves the stack, and nothing else does.       *)
LEMMA StackPop ==
  ASSUME RingInv, NEW c \in Caller, Len(running) \in Nat \ {0},
         running[Len(running)] = c, Ends(c),
         pc' = [pc EXCEPT ![c] = "idle"]
  PROVE  running' \in Seq(Caller) /\ Stack'
<1> DEFINE n == Len(running)
<1>0. running \in Seq(Caller) /\ pc \in [Caller -> PutPc \cup GetPc]
  BY DEF RingInv, RingType
<1>1. PICK i \in 1..n : running[i] = c /\ running' = SubSeq(running, 1, i - 1)
                                         \o SubSeq(running, i + 1, n)
  BY DEF Ends
<1>2. i = n
  BY <1>1 DEF RingInv, Stack
<1>3. running' = SubSeq(running, 1, n - 1) \o SubSeq(running, n + 1, n)
  BY <1>1, <1>2
<1>4. /\ running' \in Seq(Caller) /\ Len(running') = n - 1
      /\ \A k \in 1..n - 1 : running'[k] = running[k]
  <2> DEFINE front == SubSeq(running, 1, n - 1)
             none == SubSeq(running, n + 1, n)
  <2>1. /\ front \in Seq(Caller) /\ Len(front) = n - 1
        /\ \A k \in 1..n - 1 : front[k] = running[k]
    <3>1. n - 1 \in Int /\ 1 \in Int /\ \A k \in 1..n - 1 : running[k] \in Caller
      BY <1>0
    <3>2. /\ SubSeq(running, 1, n - 1) \in Seq(Caller)
          /\ Len(SubSeq(running, 1, n - 1)) = IF 1 <= n - 1 THEN n - 1 - 1 + 1 ELSE 0
          /\ \A k \in 1..n - 1 - 1 + 1 :
               SubSeq(running, 1, n - 1)[k] = running[1 + k - 1]
      <4> HIDE DEF n
      <4> QED
        BY <3>1, SubSeqProperties
    <3>3. n - 1 - 1 + 1 = n - 1
      OBVIOUS
    <3>4. Len(front) = n - 1
      <4> HIDE DEF front
      <4>1. n \in Nat \ {0} /\ Len(front) = IF 1 <= n - 1 THEN n - 1 ELSE 0
        BY <3>2, <3>3 DEF front
      <4> HIDE DEF n
      <4> QED
        BY <4>1
    <3>5. ASSUME NEW k \in 1..n - 1 PROVE front[k] = running[k]
      <4>1. front[k] = running[1 + k - 1]
        BY <3>2, <3>3
      <4>2. 1 + k - 1 = k
        OBVIOUS
      <4> QED
        BY <4>1, <4>2
    <3> QED
      BY <3>2, <3>4, <3>5
  <2>2. none \in Seq(Caller) /\ Len(none) = 0
    BY <1>0, SubSeqEmpty
  <2>3. running' = front \o none
    BY <1>3
  <2> HIDE DEF front, none
  <2> QED
    BY <2>1, <2>2, <2>3
<1>5. Stack'
  <2>1. \A k, j \in 1..Len(running') : running'[k] = running'[j] => k = j
    BY <1>4 DEF RingInv, Stack
  <2>2. \A k \in 1..Len(running') : running'[k] = Consumer => k = 1
    BY <1>4 DEF RingInv, Stack
  <2>3. ASSUME NEW d \in Caller
        PROVE  pc'[d] # "idle" <=> \E k \in 1..Len(running') : running'[k] = d
    <3>1. CASE d = c
      BY <1>0, <1>4, <3>1 DEF RingInv, Stack
    <3>2. CASE d # c
      <4>1. pc'[d] = pc[d]
        BY <1>0, <3>2
      <4>2. pc[d] # "idle" <=> \E k \in 1..n : running[k] = d
        BY DEF RingInv, Stack
      <4>3. (\E k \in 1..n : running[k] = d) <=> (\E k \in 1..n - 1 : running[k] = d)
        BY <3>2
      <4> QED
        BY <1>4, <4>1, <4>2, <4>3
    <3> QED
      BY <3>1, <3>2
  <2> QED
    BY <2>1, <2>2, <2>3 DEF Stack
<1> QED
  BY <1>4, <1>5

(* A call begins: it is the newest.                                        *)
LEMMA StackPush ==
  ASSUME RingInv, NEW c \in Caller, pc[c] = "idle",
         running' = Append(running, c), c = Consumer => running = <<>>,
         NEW there, there # "idle", pc' = [pc EXCEPT ![c] = there]
  PROVE  running' \in Seq(Caller) /\ Stack'
<1> DEFINE n == Len(running)
<1>0. running \in Seq(Caller) /\ pc \in [Caller -> PutPc \cup GetPc]
  BY DEF RingInv, RingType
<1>1. /\ running' \in Seq(Caller) /\ Len(running') = n + 1 /\ n \in Nat
      /\ running'[n + 1] = c
      /\ \A k \in 1..n : running'[k] = running[k]
  BY <1>0
<1>2. \A k \in 1..n : running[k] # c
  BY DEF RingInv, Stack
<1>3. \A k, j \in 1..Len(running') : running'[k] = running'[j] => k = j
  BY <1>1, <1>2 DEF RingInv, Stack
<1>4. \A k \in 1..Len(running') : running'[k] = Consumer => k = 1
  BY <1>1, <1>2 DEF RingInv, Stack
<1>5. ASSUME NEW d \in Caller
      PROVE  pc'[d] # "idle" <=> \E k \in 1..Len(running') : running'[k] = d
  <2>1. CASE d = c
    BY <1>0, <1>1, <2>1
  <2>2. CASE d # c
    <3>1. pc'[d] = pc[d]
      BY <1>0, <2>2
    <3>2. pc[d] # "idle" <=> \E k \in 1..n : running[k] = d
      BY DEF RingInv, Stack
    <3>3. (\E k \in 1..n + 1 : running'[k] = d) <=> (\E k \in 1..n : running[k] = d)
      BY <1>1, <2>2
    <3> QED
      BY <1>1, <3>1, <3>2, <3>3
  <2> QED
    BY <2>1, <2>2
<1> QED
  BY <1>1, <1>3, <1>4, <1>5 DEF Stack

(* A call goes on: the stack stays.                                        *)
LEMMA StackStays ==
  ASSUME RingInv, NEW c \in Caller, NEW there, pc[c] # "idle", there # "idle",
         pc' = [pc EXCEPT ![c] = there], UNCHANGED running
  PROVE  Stack'
<1>1. pc \in [Caller -> PutPc \cup GetPc]
  BY DEF RingInv, RingType
<1>2. \A d \in Caller : pc'[d] # "idle" <=> pc[d] # "idle"
  BY <1>1
<1> QED
  BY <1>2 DEF RingInv, Stack

(* A put begins with a value that was not put before.                      *)
LEMMA BeginPutInv ==
  ASSUME OneProcessor, RingInv, NEW p \in Producer, BeginPut(p)
  PROVE  RingInv'
<1> USE DEF BeginPut, indices
<1>0. RingType
  BY DEF RingInv
<1>1. /\ p \in Caller /\ Consumer \in Caller /\ p # Consumer
      /\ pc[p] = "idle" /\ pc' = [pc EXCEPT ![p] = "put_rix"]
      /\ pc'[p] = "put_rix" /\ pc'[Consumer] = pc[Consumer]
      /\ \A q \in Producer : q # p => pc'[q] = pc[q] /\ val'[q] = val[q]
      /\ val'[p] = puts + 1
  BY <1>0, RingBufferAssumption DEF Caller, RingType
<1>2. running' \in Seq(Caller) /\ Stack'
  BY ZenonT(30), <1>1, StackPush
<1>3. RingType'
  BY <1>0, <1>1, <1>2 DEF RingType, PutPc, GetPc
<1>4. Taken' = Taken
  BY <1>1 DEF Taken
<1>5. Indices'
  BY <1>4 DEF RingInv, Indices
<1>6. Values'
  <2>1. \A i \in 1..Len(claimed) : claimed[i] \in Nat /\ claimed[i] <= puts
    BY <1>0 DEF RingType, RingInv, Values
  <2>2. \A q \in Producer : val[q] \in Nat /\ val[q] <= puts /\ puts \in Nat
    BY <1>0 DEF RingType, RingInv, Values
  <2>3. \A i \in 1..Len(claimed) : claimed[i] <= puts' /\ claimed[i] # val'[p]
    BY <1>1, <2>1, <2>2
  <2>4. \A q \in Producer : val'[q] <= puts' /\ (q # p => val'[q] # val'[p])
    BY <1>1, <2>2
  <2>5. \A q \in Producer : pc'[q] \in {"put_rix", "put_wix", "put_cas"} =>
          \A i \in 1..Len(claimed) : claimed[i] # val'[q]
    BY <1>1, <2>3 DEF RingInv, Values
  <2>6. \A q, r \in Producer :
          (pc'[q] # "idle" /\ pc'[r] # "idle" /\ val'[q] = val'[r]) => q = r
    BY <1>1, <2>4 DEF RingInv, Values
  <2> QED
    BY <2>3, <2>4, <2>5, <2>6 DEF RingInv, Values
<1>7. Putting'
  BY <1>1, <1>4 DEF RingInv, Putting
<1>8. Stored'
  BY <1>1 DEF RingInv, Stored
<1>9. Getting' /\ Returned' /\ ReturnedStable'
  BY <1>1, <1>4 DEF RingInv, Getting, Returned, ReturnedStable
<1> QED
  BY <1>2, <1>3, <1>5, <1>6, <1>7, <1>8, <1>9 DEF RingInv

(* What no step of put between its call and its claim disturbs.            *)
LEMMA PutWaits ==
  ASSUME OneProcessor, RingInv, NEW p \in Producer, NEW here, NEW there,
         At(p, here, there), UNCHANGED <<buffer, indices, val, running, history>>,
         here \in {"put_rix", "put_wix", "put_cas"},
         there \in {"put_rix", "put_wix", "put_cas"},
         rix' \in [Caller -> Slot], wix' \in [Caller -> Slot],
         \A c \in Caller \ {p} : rix'[c] = rix[c] /\ wix'[c] = wix[c],
         there \in {"put_wix", "put_cas"} => rix'[p] = readidx,
         there = "put_cas" => Succ(wix'[p]) # rix'[p]
  PROVE  RingInv'
<1> USE DEF indices, history
<1>0. RingType
  BY DEF RingInv
<1>1. p \in Caller /\ Consumer \in Caller /\ p # Consumer
  BY RingBufferAssumption DEF Caller
<1>2. /\ pc[p] = here /\ pc'[p] = there /\ pc'[Consumer] = pc[Consumer]
      /\ \A c \in Caller : c # p => pc'[c] = pc[c]
      /\ pc' = [pc EXCEPT ![p] = there]
  BY <1>1, Moved
<1>3. \A q \in Producer : q \in Caller /\ (q # p => pc'[q] = pc[q])
  BY <1>2 DEF Caller
<1>4. Stack'
  BY ZenonT(30), <1>1, <1>2, StackStays
<1>5. RingType'
  BY <1>0, <1>1, <1>2, <1>3 DEF RingType, PutPc, GetPc
<1>6. Taken' = Taken
  BY <1>2 DEF Taken
<1>7. Indices'
  BY <1>6 DEF RingInv, Indices
<1>8. Values'
  BY <1>2, <1>3 DEF RingInv, Values
<1>9. Putting'
  BY <1>2, <1>3, <1>6 DEF RingInv, Putting
<1>10. Stored'
  BY <1>2, <1>3 DEF RingInv, Stored
<1>11. Getting' /\ Returned' /\ ReturnedStable'
  BY <1>1, <1>2, <1>6 DEF RingInv, Getting, Returned, ReturnedStable
<1> QED
  BY <1>4, <1>5, <1>7, <1>8, <1>9, <1>10, <1>11 DEF RingInv

(* put loads the read index.                                               *)
LEMMA PutLoadReadInv ==
  ASSUME OneProcessor, RingInv, NEW p \in Producer, PutLoadRead(p)
  PROVE  RingInv'
<1>0. RingType /\ p \in Caller
  BY DEF RingInv, Caller
<1>1. /\ rix' \in [Caller -> Slot] /\ wix' \in [Caller -> Slot]
      /\ \A c \in Caller \ {p} : rix'[c] = rix[c] /\ wix'[c] = wix[c]
      /\ rix'[p] = readidx
  BY <1>0 DEF RingType, PutLoadRead
<1>2. At(p, "put_rix", "put_wix") /\ UNCHANGED <<buffer, indices, val, running, history>>
  BY DEF PutLoadRead
<1> QED
  BY <1>1, <1>2, PutWaits

(* put loads the write index, and finds the ring full or not.              *)
LEMMA PutLoadWriteInv ==
  ASSUME OneProcessor, RingInv, NEW p \in Producer, PutLoadWrite(p)
  PROVE  RingInv'
<1> DEFINE there == IF rix[p] = Succ(writeidx) THEN "put_rix" ELSE "put_cas"
<1>0. RingType /\ p \in Caller
  BY DEF RingInv, Caller
<1>1. At(p, "put_wix", there) /\ UNCHANGED <<buffer, indices, val, running, history>>
  BY DEF PutLoadWrite
<1>2. /\ rix' \in [Caller -> Slot] /\ wix' \in [Caller -> Slot]
      /\ \A c \in Caller \ {p} : rix'[c] = rix[c] /\ wix'[c] = wix[c]
      /\ rix'[p] = rix[p] /\ wix'[p] = writeidx
  BY <1>0 DEF RingType, PutLoadWrite
<1>3. rix[p] = readidx
  BY <1>1 DEF At, RingInv, Putting
<1>4. /\ there \in {"put_rix", "put_cas"}
      /\ there = "put_cas" => Succ(wix'[p]) # rix'[p]
  BY <1>2
<1> HIDE DEF there
<1>5. rix'[p] = readidx /\ there \in {"put_rix", "put_wix", "put_cas"}
  BY <1>2, <1>3, <1>4
<1> QED
  BY <1>1, <1>2, <1>4, <1>5, PutWaits
(* A slot is free as long as the index after writeidx is not readidx.      *)
LEMMA NotFull ==
  ASSUME RingInv, Succ(writeidx) # readidx
  PROVE  /\ Len(claimed) + 1 < Taken + Length
         /\ Succ(writeidx) = (Len(claimed) + 1) % Length
<1>1. PICK w \in Nat : w = Len(claimed)
  BY DEF RingInv, RingType
<1>2. PICK t \in Nat : t = Taken
  BY DEF RingInv, RingType, Taken
<1>3. Length \in Nat \ {0} /\ t <= w /\ w < t + Length
  BY <1>1, <1>2, RingBufferAssumption DEF RingInv, Indices
<1>4. Succ(writeidx) = (w + 1) % Length
  BY <1>1, SuccMod DEF RingInv, Indices
<1>5. ASSUME w + 1 = t + Length PROVE FALSE
  <2>1. w + 1 \in Int /\ 1 \in Int /\ t = (w + 1) - Length * 1
    BY <1>3, <1>5
  <2>2. ((w + 1) - Length * 1) % Length = (w + 1) % Length
    BY ZenonT(30), <1>3, <2>1, ModShift
  <2> QED
    BY <1>2, <1>4, <2>1, <2>2 DEF RingInv, Indices
<1>6. w + 1 < t + Length
  BY <1>3, <1>5
<1> QED
  BY <1>1, <1>2, <1>4, <1>6

(* A claim takes the next slot, which is free.                             *)
LEMMA PutClaimInv ==
  ASSUME OneProcessor, RingInv, NEW p \in Producer, PutClaim(p)
  PROVE  RingInv'
<1> USE DEF indices, history, locals
<1>0. RingType
  BY DEF RingInv
<1>1. p \in Caller /\ Consumer \in Caller /\ p # Consumer
  BY RingBufferAssumption DEF Caller
<1>2. CASE writeidx # wix[p]
  <2>1. At(p, "put_cas", "put_rix") /\ UNCHANGED <<buffer, indices, val, running, history>>
    BY <1>2 DEF PutClaim
  <2>2. UNCHANGED <<rix, wix>>
    BY <1>2 DEF PutClaim
  <2> QED
    BY ZenonT(30), <1>0, <2>1, <2>2, PutWaits DEF RingType
<1>3. CASE writeidx = wix[p]
  <2> DEFINE W == Len(claimed)
  <2>1. /\ At(p, "put_cas", "put_store")
        /\ writeidx' = Succ(wix[p]) /\ claimed' = Append(claimed, val[p])
        /\ UNCHANGED <<buffer, readidx, rix, wix, val, running, puts, got>>
    BY <1>3 DEF PutClaim
  <2>2. /\ pc[p] = "put_cas" /\ pc'[p] = "put_store"
        /\ pc'[Consumer] = pc[Consumer]
        /\ \A c \in Caller : c # p => pc'[c] = pc[c]
        /\ pc' = [pc EXCEPT ![p] = "put_store"]
    BY <1>1, <2>1, Moved
  <2>3. \A q \in Producer : q \in Caller /\ (q # p => pc'[q] = pc[q])
    BY <2>2 DEF Caller
  <2>4. rix[p] = readidx /\ Succ(writeidx) # readidx
    BY <1>3, <2>2 DEF RingInv, Putting
  <2>5. W + 1 < Taken + Length /\ writeidx' = (W + 1) % Length
    BY <1>3, <2>1, <2>4, NotFull
  <2>6. W \in Nat /\ Taken \in Nat /\ Taken <= W /\ Len(got) <= Taken /\ Len(got) \in Nat
    BY <1>0 DEF RingType, Taken, RingInv, Indices
  <2>18. /\ \A i \in 1..W + 1 : i = W + 1 \/ i \in 1..W
         /\ \A i \in 1..Len(got) : i \in 1..W
    BY <2>6
  <2>7. /\ Len(claimed') = W + 1 /\ claimed'[W + 1] = val[p]
        /\ \A i \in 1..W : claimed'[i] = claimed[i]
        /\ claimed' \in Seq(Nat)
    BY <1>0, <2>1 DEF RingType
  <2>8. Taken' = Taken
    BY <2>1, <2>2 DEF Taken
  <2>9. Stack'
    BY ZenonT(30), <1>1, <2>1, <2>2, StackStays
  <2>10. RingType'
    <3>1. writeidx' \in Slot
      BY <2>5, <2>6, ModSlot
    <3> QED
      BY <1>0, <1>1, <2>1, <2>2, <2>3, <2>7, <3>1 DEF RingType, PutPc, GetPc
  <2>11. Indices'
    BY <2>1, <2>5, <2>6, <2>7, <2>8 DEF RingInv, Indices
  <2>12. Values'
    <3>1. \A i \in 1..W : claimed[i] # val[p] /\ claimed[i] <= puts
      BY <2>2 DEF RingInv, Values
    <3>2. \A i \in 1..W + 1 : claimed'[i] <= puts
      <4> HIDE DEF W
      <4> QED
        BY <2>7, <2>18, <3>1 DEF RingInv, Values
    <3>3. \A i, j \in 1..W + 1 : claimed'[i] = claimed'[j] => i = j
      <4>1. \A i, j \in 1..W : claimed[i] = claimed[j] => i = j
        BY DEF RingInv, Values
      <4> HIDE DEF W
      <4> QED
        BY <2>7, <2>18, <3>1, <4>1
    <3>4. ASSUME NEW q \in Producer, pc'[q] \in {"put_rix", "put_wix", "put_cas"},
                 NEW i \in 1..W + 1
          PROVE  claimed'[i] # val[q]
      <4>1. q # p /\ pc[q] = pc'[q] /\ pc[q] # "idle" /\ pc[p] # "idle"
        BY <2>2, <2>3, <3>4
      <4>2. val[q] # val[p]
        BY <4>1 DEF RingInv, Values
      <4>3. \A j \in 1..W : claimed[j] # val[q]
        BY <3>4, <4>1 DEF RingInv, Values
      <4> QED
        BY <2>6, <2>7, <4>2, <4>3
    <3>5. \A q, r \in Producer :
            (pc'[q] # "idle" /\ pc'[r] # "idle" /\ val[q] = val[r]) => q = r
      BY <2>2, <2>3 DEF RingInv, Values
    <3> QED
      BY <2>1, <2>7, <3>2, <3>3, <3>4, <3>5 DEF RingInv, Values
  <2>13. Putting'
    <3>1. ASSUME NEW q \in Producer, pc'[q] \in {"put_wix", "put_cas"}
          PROVE  rix'[q] = readidx' /\ (pc'[q] = "put_cas" => Succ(wix'[q]) # rix'[q])
      BY <2>1, <2>2, <2>3, <3>1 DEF RingInv, Putting
    <3>2. ASSUME NEW q \in Producer, pc'[q] = "put_store"
          PROVE  \E i \in Taken + 1..W + 1 :
                   claimed'[i] = val[q] /\ wix[q] = (i - 1) % Length
      <4>1. CASE q = p
        <5>1. wix[p] = ((W + 1) - 1) % Length
          BY <1>3, <2>6 DEF RingInv, Indices
        <5> QED
          BY <2>6, <2>7, <4>1, <5>1
      <4>2. CASE q # p
        <5>1. PICK i \in Taken + 1..W : claimed[i] = val[q] /\ wix[q] = (i - 1) % Length
          BY <2>3, <3>2, <4>2 DEF RingInv, Putting
        <5> QED
          BY <2>6, <2>7, <5>1
      <4> QED
        BY <4>1, <4>2
    <3> QED
      BY ZenonT(30), <2>1, <2>7, <2>8, <3>1, <3>2 DEF Putting
  <2>14. Stored'
    <3>1. ASSUME NEW i \in Len(got) + 1..W + 1
          PROVE  \/ buffer[(i - 1) % Length] = claimed'[i]
                 \/ \E q \in Producer : pc'[q] = "put_store" /\ val[q] = claimed'[i]
      <4>1. CASE i = W + 1
        BY <2>2, <2>7, <4>1
      <4>2. CASE i # W + 1
        <5>1. i \in Len(got) + 1..W /\ claimed'[i] = claimed[i]
          BY <2>6, <2>7, <4>2
        <5> QED
          BY <2>2, <2>3, <5>1 DEF RingInv, Stored
      <4> QED
        BY <4>1, <4>2
    <3> QED
      BY <2>1, <2>7, <3>1 DEF Stored
  <2>15. Getting'
    <3>1. pc[Consumer] = "get_rix" =>
            \E w \in Taken..W + 1 : wix[Consumer] = w % Length
      BY <2>6 DEF RingInv, Getting
    <3>2. pc[Consumer] = "get_cas" => Taken < W + 1
      BY <2>6
    <3> QED
      BY <2>1, <2>2, <2>7, <2>8, <3>1, <3>2 DEF RingInv, Getting
  <2>16. Returned'
    <3>1. \A i \in 1..Len(got) : got[i] = claimed'[i]
      BY <2>7, <2>18 DEF RingInv, Returned
    <3> QED
      BY <2>1, <2>6, <2>7, <3>1 DEF Returned
  <2>17. ReturnedStable'
    BY <2>1, <2>2 DEF RingInv, ReturnedStable
  <2> QED
    BY <2>9, <2>10, <2>11, <2>12, <2>13, <2>14, <2>15, <2>16, <2>17 DEF RingInv
<1> QED
  BY <1>2, <1>3

(* A store fills the slot that was claimed, which holds no value that has  *)
(* been stored and not the one the last get returned.                      *)
LEMMA PutStoreInv ==
  ASSUME OneProcessor, RingInv, NEW p \in Producer, PutStore(p)
  PROVE  RingInv'
<1> USE DEF indices, history, locals
<1> DEFINE W == Len(claimed)
<1>0. RingType
  BY DEF RingInv
<1>1. p \in Caller /\ Consumer \in Caller /\ p # Consumer
  BY RingBufferAssumption DEF Caller
<1>2. /\ At(p, "put_store", "idle") /\ Ends(p)
      /\ buffer' = [buffer EXCEPT ![wix[p]] = val[p]]
      /\ UNCHANGED <<readidx, writeidx, rix, wix, val, puts, claimed, got>>
  BY DEF PutStore
<1>3. /\ Len(running) \in Nat \ {0} /\ running[Len(running)] = p
      /\ pc[p] = "put_store" /\ pc'[p] = "idle"
      /\ pc'[Consumer] = pc[Consumer]
      /\ \A c \in Caller : c # p => pc'[c] = pc[c]
      /\ pc' = [pc EXCEPT ![p] = "idle"]
  BY <1>1, <1>2, Moved
<1>4. \A q \in Producer : q \in Caller /\ (q # p => pc'[q] = pc[q])
  BY <1>3 DEF Caller
<1>5. running' \in Seq(Caller) /\ Stack'
  BY ZenonT(30), <1>1, <1>2, <1>3, StackPop
<1>6. PICK n \in Taken + 1..W : claimed[n] = val[p] /\ wix[p] = (n - 1) % Length
  BY <1>3 DEF RingInv, Putting
<1>7. /\ W \in Nat /\ Taken \in Nat /\ Taken <= W /\ W < Taken + Length
      /\ Len(got) \in Nat /\ Len(got) <= Taken /\ Taken <= Len(got) + 1
      /\ Length \in Nat \ {0} /\ n \in Nat \ {0}
  <2>1. W \in Nat /\ Len(got) \in Nat
    <3>1. claimed \in Seq(Nat) /\ got \in Seq(Nat \cup {None})
      BY <1>0 DEF RingType
    <3> QED
      BY <3>1, LenProperties
  <2>2. Taken = Len(got) \/ Taken = Len(got) + 1
    BY DEF Taken
  <2>3. Taken <= W /\ W < Taken + Length
    BY DEF RingInv, Indices
  <2>4. Length \in Nat \ {0}
    BY RingBufferAssumption
  <2>5. n \in Taken + 1..W
    BY <1>6
  <2> HIDE DEF W
  <2> QED
    BY <2>1, <2>2, <2>3, <2>4, <2>5
<1>8. buffer' \in [Slot -> Nat \cup {None}] /\ buffer'[wix[p]] = val[p]
      /\ \A s \in Slot : s # wix[p] => buffer'[s] = buffer[s]
  BY <1>0, <1>1, <1>2 DEF RingType
<1>9. Taken' = Taken
  BY <1>2, <1>3 DEF Taken
<1>10. RingType'
  BY <1>0, <1>1, <1>2, <1>3, <1>4, <1>5, <1>8 DEF RingType, PutPc, GetPc
<1>11. Indices'
  BY <1>2, <1>9 DEF RingInv, Indices
<1>12. Values'
  BY <1>2, <1>3, <1>4 DEF RingInv, Values
<1>13. Putting'
  BY <1>2, <1>3, <1>4, <1>9 DEF RingInv, Putting
<1>14. Stored'
  <2>1. ASSUME NEW i \in Len(got) + 1..W
        PROVE  \/ buffer'[(i - 1) % Length] = claimed[i]
               \/ \E q \in Producer : pc'[q] = "put_store" /\ val[q] = claimed[i]
    <3>1. CASE i = n
      BY <1>6, <1>8, <3>1
    <3>2. CASE i # n
      <4>1. n \in 1..W /\ i \in 1..W
        BY <1>7
      <4>2. claimed[i] # val[p]
        BY <1>6, <3>2, <4>1 DEF RingInv, Values
      <4>3. /\ i \in Nat /\ Len(got) < i /\ Len(got) < n
            /\ i <= Len(got) + Length /\ n <= Len(got) + Length
        BY <1>7
      <4>4. (i - 1) % Length # wix[p]
        BY <1>6, <1>7, <3>2, <4>3, TwoSlots
      <4>5. i - 1 \in Nat
        BY <1>7
      <4>6. buffer'[(i - 1) % Length] = buffer[(i - 1) % Length]
        BY <1>8, <4>4, <4>5, ModSlot
      <4>7. \A q \in Producer : pc[q] = "put_store" /\ val[q] = claimed[i] =>
              pc'[q] = "put_store"
        BY <1>4, <4>2
      <4> QED
        BY <4>6, <4>7 DEF RingInv, Stored
    <3> QED
      BY <3>1, <3>2
  <2> QED
    BY <1>2, <2>1 DEF Stored
<1>15. Getting' /\ Returned'
  BY <1>2, <1>3, <1>9 DEF RingInv, Getting, Returned
<1>16. ReturnedStable'
  <2> SUFFICES ASSUME pc[Consumer] = "idle", got # <<>>,
                      Succ(rix[Consumer]) = readidx
               PROVE  buffer'[rix[Consumer]] = got[Len(got)]
    BY <1>2, <1>3 DEF ReturnedStable
  <2>1. rix[Consumer] \in Slot
    BY <1>0, <1>1 DEF RingType
  <2>2. ASSUME rix[Consumer] = wix[p] PROVE FALSE
    <3>0. n - 1 \in Nat
      BY <1>7
    <3>1. Succ((n - 1) % Length) = ((n - 1) + 1) % Length
      BY <3>0, SuccMod
    <3>2. n % Length = Taken % Length
      BY <1>6, <1>7, <2>2, <3>1 DEF RingInv, Indices
    <3>3. PICK t \in Nat : t = Taken
      BY <1>7
    <3>4. t <= n /\ n - t < Length /\ n # t /\ n \in Int /\ t \in Int
      BY <1>7, <3>3
    <3> QED
      BY ZenonT(30), <1>7, <3>2, <3>3, <3>4, ModInjective
  <2> QED
    BY <1>8, <2>1, <2>2 DEF RingInv, ReturnedStable
<1> QED
  BY <1>5, <1>10, <1>11, <1>12, <1>13, <1>14, <1>15, <1>16 DEF RingInv
-----------------------------------------------------------------------------
(* What the steps of get before its claim do not disturb.                  *)
LEMMA GetWaits ==
  ASSUME RingInv, NEW there, pc' = [pc EXCEPT ![Consumer] = there],
         there \in {"idle", "get_wix", "get_rix", "get_cas"},
         pc[Consumer] # "get_item", \A p \in Producer : pc[p] = "idle",
         UNCHANGED <<buffer, indices, val, history>>,
         rix' \in [Caller -> Slot], wix' \in [Caller -> Slot],
         running' \in Seq(Caller), Stack', Getting', ReturnedStable'
  PROVE  RingInv'
<1> USE DEF indices, history
<1>0. RingType
  BY DEF RingInv
<1>1. Consumer \in Caller /\ \A p \in Producer : p \in Caller /\ p # Consumer
  BY RingBufferAssumption DEF Caller
<1>2. pc'[Consumer] = there /\ \A p \in Producer : pc'[p] = "idle"
  BY <1>0, <1>1 DEF RingType
<1>3. RingType'
  BY ZenonT(30), <1>0, <1>2 DEF RingType, PutPc, GetPc
<1>4. Taken' = Taken
  BY <1>2 DEF Taken
<1>5. Indices'
  BY <1>4 DEF RingInv, Indices
<1>6. Values'
  BY <1>2 DEF RingInv, Values
<1>7. Putting'
  BY <1>2 DEF Putting
<1>8. Stored'
  BY <1>2 DEF RingInv, Stored
<1>9. Returned'
  BY DEF RingInv, Returned
<1> QED
  BY <1>3, <1>5, <1>6, <1>7, <1>8, <1>9 DEF RingInv

(* get is called.                                                          *)
LEMMA BeginGetInv ==
  ASSUME OneProcessor, RingInv, BeginGet(Consumer)
  PROVE  RingInv'
<1> USE DEF indices, locals, history
<1>0. RingType /\ Consumer \in Caller
  BY DEF RingInv, Caller
<1>1. /\ pc[Consumer] = "idle" /\ running = <<>>
      /\ pc' = [pc EXCEPT ![Consumer] = "get_wix"] /\ pc'[Consumer] = "get_wix"
      /\ running' = Append(running, Consumer)
      /\ UNCHANGED <<buffer, readidx, writeidx, rix, wix, val, puts, claimed, got>>
  BY <1>0 DEF BeginGet, OneProcessor, RingType
<1>2. \A p \in Producer : pc[p] = "idle"
  BY <1>1 DEF RingInv, Stack, Caller
<1>3. running' \in Seq(Caller) /\ Stack'
  BY ZenonT(30), <1>0, <1>1, StackPush
<1>4. Getting' /\ ReturnedStable'
  BY <1>1 DEF Getting, ReturnedStable
<1> QED
  BY ZenonT(30), <1>0, <1>1, <1>2, <1>3, <1>4, GetWaits DEF RingType

(* get loads the write index, and finds the ring empty or not.             *)
LEMMA GetLoadWriteInv ==
  ASSUME OneProcessor, RingInv, GetLoadWrite(Consumer)
  PROVE  RingInv'
<1> USE DEF indices, history
<1>0. RingType /\ Consumer \in Caller
  BY DEF RingInv, Caller
<1>1. /\ At(Consumer, "get_wix", "get_rix")
      /\ wix' = [wix EXCEPT ![Consumer] = writeidx]
      /\ UNCHANGED <<buffer, readidx, writeidx, rix, val, running, puts, claimed, got>>
  BY DEF GetLoadWrite
<1>2. /\ Len(running) \in Nat \ {0} /\ running[Len(running)] = Consumer
      /\ pc[Consumer] = "get_wix" /\ pc'[Consumer] = "get_rix"
      /\ pc' = [pc EXCEPT ![Consumer] = "get_rix"]
  BY <1>0, <1>1, Moved
<1>3. \A p \in Producer : pc[p] = "idle"
  BY <1>2, ConsumerAlone
<1>4. running' \in Seq(Caller) /\ Stack'
  BY ZenonT(30), <1>0, <1>1, <1>2, StackStays DEF RingType
<1>5. wix' \in [Caller -> Slot] /\ wix'[Consumer] = writeidx
  BY <1>0, <1>1 DEF RingType
<1>6. /\ Taken' = Taken /\ Taken \in Nat /\ Len(claimed) \in Nat
      /\ Taken <= Len(claimed) /\ writeidx = Len(claimed) % Length
  BY <1>0, <1>1, <1>2 DEF RingType, RingInv, Indices, Taken
<1>7. Getting'
  BY <1>1, <1>2, <1>5, <1>6 DEF Getting
<1>8. ReturnedStable'
  BY <1>2 DEF ReturnedStable
<1> QED
  BY ZenonT(30), <1>0, <1>1, <1>2, <1>3, <1>4, <1>5, <1>7, <1>8, GetWaits DEF RingType

(* An empty ring is seen empty; one that is seen not empty is not.         *)
LEMMA GetLoadReadInv ==
  ASSUME OneProcessor, RingInv, GetLoadRead(Consumer)
  PROVE  RingInv'
<1> USE DEF indices, history
<1>0. RingType /\ Consumer \in Caller
  BY DEF RingInv, Caller
<1>1. /\ rix' = [rix EXCEPT ![Consumer] = readidx]
      /\ UNCHANGED <<buffer, readidx, writeidx, wix, val, puts, claimed, got>>
  BY DEF GetLoadRead
<1>2. rix' \in [Caller -> Slot] /\ rix'[Consumer] = readidx /\ readidx \in Slot
  BY <1>0, <1>1 DEF RingType
<1>3. CASE readidx = wix[Consumer]
  <2>1. At(Consumer, "get_rix", "idle") /\ Ends(Consumer)
    BY <1>3 DEF GetLoadRead
  <2>2. /\ Len(running) \in Nat \ {0} /\ running[Len(running)] = Consumer
        /\ pc[Consumer] = "get_rix" /\ pc'[Consumer] = "idle"
        /\ pc' = [pc EXCEPT ![Consumer] = "idle"]
    BY <1>0, <2>1, Moved
  <2>3. \A p \in Producer : pc[p] = "idle"
    BY <2>2, ConsumerAlone
  <2>4. running' \in Seq(Caller) /\ Stack'
    BY ZenonT(30), <1>0, <2>1, <2>2, StackPop
  <2>5. Getting'
    BY <2>2 DEF Getting
  <2>6. ReturnedStable'
    BY <1>1, <1>2, SuccSlot DEF ReturnedStable
  <2> QED
    BY ZenonT(30), <1>0, <1>1, <1>2, <2>2, <2>3, <2>4, <2>5, <2>6, GetWaits DEF RingType
<1>4. CASE readidx # wix[Consumer]
  <2>1. At(Consumer, "get_rix", "get_cas") /\ UNCHANGED running
    BY <1>4 DEF GetLoadRead
  <2>2. /\ Len(running) \in Nat \ {0} /\ running[Len(running)] = Consumer
        /\ pc[Consumer] = "get_rix" /\ pc'[Consumer] = "get_cas"
        /\ pc' = [pc EXCEPT ![Consumer] = "get_cas"]
    BY <1>0, <2>1, Moved
  <2>3. \A p \in Producer : pc[p] = "idle"
    BY <2>2, ConsumerAlone
  <2>4. running' \in Seq(Caller) /\ Stack'
    BY ZenonT(30), <1>0, <2>1, <2>2, StackStays DEF RingType
  <2>5. Taken' = Taken /\ Taken \in Nat /\ Len(claimed) \in Nat /\ readidx = Taken % Length
    BY <1>0, <1>1, <2>2 DEF RingType, RingInv, Indices, Taken
  <2>6. Taken < Len(claimed)
    <3>1. PICK w \in Taken..Len(claimed) : wix[Consumer] = w % Length
      BY <2>2 DEF RingInv, Getting
    <3> QED
      BY <1>4, <2>5, <3>1
  <2>7. Getting'
    BY <1>1, <1>2, <2>2, <2>5, <2>6 DEF Getting
  <2>8. ReturnedStable'
    BY <2>2 DEF ReturnedStable
  <2> QED
    BY ZenonT(30), <1>0, <1>1, <1>2, <2>2, <2>3, <2>4, <2>7, <2>8, GetWaits DEF RingType
<1> QED
  BY <1>3, <1>4

(* The claim of get never fails: only this caller moves readidx.           *)
LEMMA GetClaimInv ==
  ASSUME OneProcessor, RingInv, GetClaim(Consumer)
  PROVE  RingInv'
<1> USE DEF indices, history, locals
<1>0. RingType /\ Consumer \in Caller
  BY DEF RingInv, Caller
<1>1. pc[Consumer] = "get_cas" /\ readidx = rix[Consumer] /\ Taken < Len(claimed)
  BY DEF GetClaim, At, RingInv, Getting
<1>2. /\ At(Consumer, "get_cas", "get_item") /\ readidx' = Succ(readidx)
      /\ UNCHANGED <<buffer, writeidx, rix, wix, val, running, puts, claimed, got>>
  BY <1>1 DEF GetClaim
<1>3. /\ Len(running) \in Nat \ {0} /\ running[Len(running)] = Consumer
      /\ pc'[Consumer] = "get_item"
      /\ pc' = [pc EXCEPT ![Consumer] = "get_item"]
  BY <1>0, <1>2, Moved
<1>4. \A p \in Producer : pc[p] = "idle"
  BY <1>3, ConsumerAlone
<1>5. \A p \in Producer : pc'[p] = "idle"
  BY <1>0, <1>3, <1>4, RingBufferAssumption DEF RingType, Caller
<1>6. Stack'
  BY ZenonT(30), <1>0, <1>1, <1>2, <1>3, StackStays
<1>7. /\ Taken = Len(got) /\ Taken' = Len(got) + 1 /\ Len(got) \in Nat
      /\ Len(claimed) \in Nat /\ Length \in Nat
  BY <1>0, <1>1, <1>2, <1>3, RingBufferAssumption DEF Taken, RingType
<1>8. readidx' = (Len(got) + 1) % Length /\ readidx' \in Slot
  BY ZenonT(30), <1>0, <1>2, <1>7, SuccMod, SuccSlot DEF RingInv, RingType, Indices
<1>9. RingType'
  BY <1>0, <1>2, <1>3, <1>5, <1>8 DEF RingType, PutPc, GetPc
<1>10. Indices'
  <2>1. Len(got) + 1 <= Len(claimed) /\ Len(claimed) < Len(got) + 1 + Length
    BY <1>1, <1>7 DEF RingInv, Indices
  <2> QED
    BY <1>2, <1>7, <1>8, <2>1 DEF RingInv, Indices
<1>11. Values'
  BY <1>2, <1>5 DEF RingInv, Values
<1>12. Putting'
  BY <1>5 DEF Putting
<1>13. Stored'
  BY <1>2, <1>4 DEF RingInv, Stored
<1>14. Getting'
  BY <1>1, <1>2, <1>3, <1>7 DEF RingInv, Getting, Indices
<1>15. Returned' /\ ReturnedStable'
  BY <1>2, <1>3 DEF RingInv, Returned, ReturnedStable
<1> QED
  BY <1>6, <1>9, <1>10, <1>11, <1>12, <1>13, <1>14, <1>15 DEF RingInv

(* The value get returns is the next one that was put.                     *)
LEMMA GetItemReads ==
  ASSUME OneProcessor, RingInv, GetItem(Consumer)
  PROVE  /\ \A p \in Producer : pc[p] = "idle"
         /\ Len(got) \in Nat /\ Len(claimed) \in Nat /\ Len(got) + 1 <= Len(claimed)
         /\ buffer[rix[Consumer]] = claimed[Len(got) + 1]
<1>0. RingType /\ Consumer \in Caller
  BY DEF RingInv, Caller
<1>1. At(Consumer, "get_item", "idle")
  BY DEF GetItem
<1>2. /\ Len(running) \in Nat \ {0} /\ running[Len(running)] = Consumer
      /\ pc[Consumer] = "get_item"
  BY <1>0, <1>1, Moved
<1>3. \A p \in Producer : pc[p] = "idle"
  BY <1>2, ConsumerAlone
<1>4. Len(got) \in Nat /\ Len(claimed) \in Nat /\ Len(got) + 1 <= Len(claimed)
  BY <1>0, <1>2 DEF RingType, RingInv, Indices, Taken
<1>5. rix[Consumer] = Len(got) % Length
  BY <1>2 DEF RingInv, Getting
<1>6. Len(got) + 1 \in Len(got) + 1..Len(claimed) /\ (Len(got) + 1) - 1 = Len(got)
  BY <1>4
<1> QED
  BY <1>3, <1>4, <1>5, <1>6 DEF RingInv, Stored

(* get takes the reference to the item it returns.                         *)
LEMMA GetItemInv ==
  ASSUME OneProcessor, RingInv, GetItem(Consumer)
  PROVE  RingInv'
<1> USE DEF indices, history, locals
<1>0. RingType /\ Consumer \in Caller
  BY DEF RingInv, Caller
<1>1. /\ At(Consumer, "get_item", "idle") /\ Ends(Consumer)
      /\ got' = Append(got, buffer[rix[Consumer]])
      /\ UNCHANGED <<buffer, readidx, writeidx, rix, wix, val, puts, claimed>>
  BY DEF GetItem
<1>2. /\ Len(running) \in Nat \ {0} /\ running[Len(running)] = Consumer
      /\ pc[Consumer] = "get_item" /\ pc'[Consumer] = "idle"
      /\ pc' = [pc EXCEPT ![Consumer] = "idle"]
  BY <1>0, <1>1, Moved
<1>3. /\ \A p \in Producer : pc[p] = "idle"
      /\ Len(got) \in Nat /\ Len(claimed) \in Nat /\ Len(got) + 1 <= Len(claimed)
      /\ buffer[rix[Consumer]] = claimed[Len(got) + 1]
  BY GetItemReads
<1>4. \A p \in Producer : pc'[p] = "idle"
  BY <1>0, <1>2, <1>3, RingBufferAssumption DEF RingType, Caller
<1>5. running' \in Seq(Caller) /\ Stack'
  BY ZenonT(30), <1>0, <1>1, <1>2, StackPop
<1>6. buffer[rix[Consumer]] \in Nat \cup {None}
  BY <1>0 DEF RingType
<1>7. /\ got' \in Seq(Nat \cup {None}) /\ Len(got') = Len(got) + 1
      /\ got'[Len(got) + 1] = buffer[rix[Consumer]]
      /\ \A i \in 1..Len(got) : got'[i] = got[i]
  <2> DEFINE item == buffer[rix[Consumer]]
  <2>1. got \in Seq(Nat \cup {None}) /\ item \in Nat \cup {None} /\ got' = Append(got, item)
    BY <1>0, <1>1, <1>6 DEF RingType
  <2> HIDE DEF item
  <2>2. /\ got' \in Seq(Nat \cup {None}) /\ Len(got') = Len(got) + 1
        /\ got'[Len(got) + 1] = item
        /\ \A i \in 1..Len(got) : got'[i] = got[i]
    BY <2>1
  <2> QED
    BY <2>2 DEF item
<1>8. RingType'
  BY <1>0, <1>1, <1>2, <1>4, <1>5, <1>7 DEF RingType, PutPc, GetPc
<1>9. Taken' = Taken /\ Taken = Len(got')
  BY <1>2, <1>7 DEF Taken
<1>10. Indices'
  BY <1>1, <1>9 DEF RingInv, Indices
<1>11. Values'
  BY <1>1, <1>4 DEF RingInv, Values
<1>12. Putting'
  BY <1>4 DEF Putting
<1>13. Stored'
  <2>1. \A i \in Len(got) + 1 + 1..Len(claimed) : i \in Len(got) + 1..Len(claimed)
    BY <1>3
  <2> QED
    BY <1>1, <1>3, <1>7, <2>1 DEF RingInv, Stored
<1>14. Getting'
  BY <1>2 DEF Getting
<1>15. Returned'
  <2>1. \A i \in 1..Len(got) + 1 : i = Len(got) + 1 \/ i \in 1..Len(got)
    BY <1>3
  <2>2. \A i \in 1..Len(got) + 1 : got'[i] = claimed[i]
    BY <1>3, <1>7, <2>1 DEF RingInv, Returned
  <2> QED
    BY <1>1, <1>3, <1>7, <2>2 DEF Returned
<1>16. ReturnedStable'
  BY ZenonT(30), <1>1, <1>7 DEF ReturnedStable
<1> QED
  BY <1>5, <1>8, <1>10, <1>11, <1>12, <1>13, <1>14, <1>15, <1>16 DEF RingInv

-----------------------------------------------------------------------------
(* Every step keeps the invariant.                                         *)
LEMMA NextRingInv ==
  ASSUME OneProcessor, RingInv, [Next]_vars
  PROVE  RingInv'
<1>1. CASE UNCHANGED vars
  <2> USE <1>1 DEF vars, indices, locals, history
  <2>1. RingType' /\ Stack'
    BY DEF RingInv, RingType, Stack
  <2>2. Indices' /\ Values'
    BY DEF RingInv, Indices, Values, Taken
  <2>3. Putting' /\ Stored'
    BY DEF RingInv, Putting, Stored, Taken
  <2>4. Getting' /\ Returned' /\ ReturnedStable'
    BY DEF RingInv, Getting, Returned, ReturnedStable, Taken
  <2> QED
    BY <2>1, <2>2, <2>3, <2>4 DEF RingInv
<1>2. ASSUME NEW p \in Producer, BeginPut(p) \/ PutStep(p) PROVE RingInv'
  BY <1>2, BeginPutInv, PutLoadReadInv, PutLoadWriteInv, PutClaimInv, PutStoreInv
     DEF PutStep
<1>3. CASE BeginGet(Consumer) \/ GetStep(Consumer)
  BY <1>3, BeginGetInv, GetLoadWriteInv, GetLoadReadInv, GetClaimInv, GetItemInv
     DEF GetStep
<1> QED
  BY <1>1, <1>2, <1>3 DEF Next

(* RingBuffer::put and get on one processor keep the indices, the slots,   *)
(* the stack of calls and what was returned in step, whatever interrupts   *)
(* what.                                                                   *)
THEOREM RingInvariant == ASSUME OneProcessor PROVE Spec => []RingInv
<1>1. Init => RingInv
  BY InitRingInv
<1>2. RingInv /\ [Next]_vars => RingInv'
  BY NextRingInv
<1> QED
  BY <1>1, <1>2, PTL DEF Spec

(* On one processor the value RingBuffer::get returned a reference to is   *)
(* not overwritten by a put before the next get.                           *)
THEOREM ReferencesStable == ASSUME OneProcessor PROVE Spec => []ReturnedStable
<1>1. RingInv => ReturnedStable
  BY DEF RingInv
<1> QED
  BY <1>1, RingInvariant, PTL

-----------------------------------------------------------------------------
(* A value stands where it was claimed.                                    *)
LEMMA PositionIs ==
  ASSUME RingInv, NEW i \in 1..Len(claimed)
  PROVE  Position(claimed[i]) = i
<1>1. claimed[i] \in Range(claimed)
  BY DEF Range
<1>2. \A j \in 1..Len(claimed) : claimed[j] = claimed[i] => j = i
  BY DEF RingInv, Values
<1> QED
  BY <1>1, <1>2 DEF Position

(* What get returned stands at 1, 2, 3 and so on.                          *)
LEMMA ReturnedInOrder ==
  ASSUME RingInv
  PROVE  [i \in 1..Len(got) |-> Position(got[i])] = [i \in 1..Len(got) |-> i]
<1>1. Len(got) \in Nat /\ Len(claimed) \in Nat /\ Len(got) <= Len(claimed)
  BY DEF RingInv, RingType, Returned
<1>2. ASSUME NEW i \in 1..Len(got) PROVE Position(got[i]) = i
  <2>1. i \in 1..Len(claimed) /\ got[i] = claimed[i]
    BY <1>1 DEF RingInv, Returned
  <2> QED
    BY <2>1, PositionIs
<1> QED
  BY <1>2
(* A claim is an Accept, the end of a get that returns a value an Emit of  *)
(* one, and every other step a stutter.                                    *)
LEMMA NextRingChannel ==
  ASSUME OneProcessor, RingInv, RingInv', [Next]_vars
  PROVE  [Channel!Next]_(Channel!vars)
<1> DEFINE out == [i \in 1..Len(got) |-> Position(got[i])]
           upto(n) == [i \in 1..n |-> i]
<1>1. out = upto(Len(got)) /\ out' = upto(Len(got'))
  <2>1. out = upto(Len(got))
    BY ReturnedInOrder
  <2>2. RingInv' => (out = upto(Len(got)))'
    BY ReturnedInOrder, PTL
  <2> QED
    BY <2>1, <2>2
<1> HIDE DEF out
<1>2. \/ UNCHANGED <<claimed, got>>
      \/ /\ \E v \in Nat : claimed' = Append(claimed, v)
         /\ got' = got
      \/ /\ claimed' = claimed /\ GetItem(Consumer)
         /\ \E v : got' = Append(got, v)
  <2>1. CASE UNCHANGED vars
    BY <2>1 DEF vars, history
  <2>2. ASSUME NEW p \in Producer, BeginPut(p) \/ PutStep(p)
        PROVE  \/ UNCHANGED <<claimed, got>>
               \/ /\ \E v \in Nat : claimed' = Append(claimed, v)
                  /\ got' = got
    BY <2>2 DEF BeginPut, PutStep, PutLoadRead, PutLoadWrite, PutClaim, PutStore,
       history, RingInv, RingType
  <2>3. CASE BeginGet(Consumer) \/ GetLoadWrite(Consumer) \/ GetLoadRead(Consumer)
             \/ GetClaim(Consumer)
    BY <2>3 DEF BeginGet, GetLoadWrite, GetLoadRead, GetClaim, history
  <2>4. CASE GetItem(Consumer)
    BY <2>4 DEF GetItem
  <2> QED
    BY <2>1, <2>2, <2>3, <2>4 DEF Next, GetStep
<1>3. CASE UNCHANGED <<claimed, got>>
  BY <1>1, <1>3 DEF Channel!vars, out
<1>4. ASSUME NEW v \in Nat, claimed' = Append(claimed, v), got' = got
      PROVE  Channel!Accept
  <2>1. Len(claimed') = Len(claimed) + 1
    BY <1>4 DEF RingInv, RingType
  <2>2. out' = out
    BY <1>1, <1>4
  <2> QED
    BY <2>1, <2>2 DEF Channel!Accept, out
<1>5. ASSUME claimed' = claimed, GetItem(Consumer), NEW v, got' = Append(got, v)
      PROVE  Channel!Emit
  <2>1. Len(got) \in Nat /\ Len(claimed) \in Nat /\ Len(got) + 1 <= Len(claimed)
    BY <1>5, GetItemReads
  <2>2. Len(got') = Len(got) + 1
    BY <1>5 DEF RingInv, RingType
  <2>3. PICK n \in Nat : n = Len(got)
    BY <2>1
  <2>4. out = upto(n) /\ out' = upto(n + 1) /\ Len(out) = n
    BY <1>1, <2>2, <2>3
  <2>5. upto(n + 1) = upto(n) \o [i \in 1..1 |-> n + i]
    OBVIOUS
  <2>6. 1 \in 1..Len(claimed) - Len(out)
    BY <2>1, <2>3, <2>4
  <2>7. out' = out \o [i \in 1..1 |-> Len(out) + i]
    BY <2>4, <2>5
  <2> QED
    BY ZenonT(30), <1>5, <2>6, <2>7 DEF Channel!Emit, out
<1> QED
  BY <1>2, <1>3, <1>4, <1>5 DEF Channel!Next

(* On one processor RingBuffer hands on what was put, each value once, in  *)
(* the order the slots were claimed, and nothing that is not yet stored.   *)
THEOREM RingImplementsChannel == ASSUME OneProcessor PROVE Spec => ImplementsChannel
<1>1. Init => Channel!Init
  BY DEF Init, Channel!Init
<1>2. RingInv /\ RingInv' /\ [Next]_vars => [Channel!Next]_(Channel!vars)
  BY NextRingChannel
<1> QED
  BY <1>1, <1>2, RingInvariant, PTL DEF Spec, ImplementsChannel, Channel!Spec
=============================================================================
