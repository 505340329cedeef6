----------------------------- MODULE RingBuffer -----------------------------
(***************************************************************************)
(* RingBuffer: a bounded queue with several producers and one consumer,    *)
(* put and get at the grain of their atomic operations.                    *)
(*                                                                         *)
(* On the one processor of the unikernel a call runs to its end unless an  *)
(* interrupt handler makes a call of its own meanwhile, which then runs to *)
(* its end first: running is the stack of calls.  The main loop gets, main *)
(* loop and handlers put.  With Concurrent the calls interleave freely, as *)
(* on several processors.                                                  *)
(***************************************************************************)
EXTENDS Integers, Sequences, Functions

CONSTANTS
  Producer,    \* the callers of put, at most one call of each at a time
  Consumer,    \* the caller of get
  Length,      \* RINGBUF_LENGTH
  MaxPuts,     \* bound: calls of put
  Concurrent,  \* whether calls interleave freely
  None

ASSUME RingBufferAssumption ==
  /\ Length \in Nat \ {0, 1}
  /\ Consumer \notin Producer
  /\ Concurrent \in BOOLEAN

VARIABLES
  buffer, readidx, writeidx,
  pc,       \* where each caller is
  rix, wix, \* the caller's copies of the indices
  val,      \* the value each producer puts
  running,  \* the calls that have begun and not ended, the newest last
  puts,     \* the calls of put so far
  claimed,  \* the values put, in the order their slots were claimed
  got       \* what the calls of get returned that found the queue not empty

Caller == Producer \cup {Consumer}
Slot == 0..Length - 1
indices == <<readidx, writeidx>>
locals == <<rix, wix, val>>
history == <<puts, claimed, got>>
vars == <<buffer, indices, pc, locals, running, history>>

Succ(i) == (i + 1) % Length

(* new.                                                                    *)
Init ==
  /\ buffer = [i \in Slot |-> None]
  /\ readidx = 0 /\ writeidx = 0
  /\ pc = [c \in Caller |-> "idle"]
  /\ rix = [c \in Caller |-> 0] /\ wix = [c \in Caller |-> 0]
  /\ val = [p \in Producer |-> 0]
  /\ running = <<>>
  /\ puts = 0 /\ claimed = <<>> /\ got = <<>>

Moves(c) == running # <<>> /\ (Concurrent \/ running[Len(running)] = c)
At(c, here, there) ==
  /\ Moves(c) /\ pc[c] = here /\ pc' = [pc EXCEPT ![c] = there]
Ends(c) ==
  \E i \in 1..Len(running) :
    running[i] = c /\ running' = SubSeq(running, 1, i - 1)
                                  \o SubSeq(running, i + 1, Len(running))

-----------------------------------------------------------------------------
BeginPut(p) ==
  /\ pc[p] = "idle" /\ puts < MaxPuts
  /\ pc' = [pc EXCEPT ![p] = "put_rix"]
  /\ puts' = puts + 1 /\ val' = [val EXCEPT ![p] = puts + 1]
  /\ running' = Append(running, p)
  /\ UNCHANGED <<buffer, indices, rix, wix, claimed, got>>

PutLoadRead(p) ==
  /\ At(p, "put_rix", "put_wix")
  /\ rix' = [rix EXCEPT ![p] = readidx]
  /\ UNCHANGED <<buffer, indices, wix, val, running, history>>

(* Mutant: fills the slot that tells full from empty.                      *)
PutLoadWrite_LastSlot(p) ==
  /\ At(p, "put_wix", "put_cas")
  /\ wix' = [wix EXCEPT ![p] = writeidx]
  /\ UNCHANGED <<buffer, indices, rix, val, running, history>>

(* Mutant: takes an empty queue for a full one.                            *)
PutLoadWrite_EmptyIsFull(p) ==
  /\ At(p, "put_wix", IF rix[p] = writeidx THEN "put_rix" ELSE "put_cas")
  /\ wix' = [wix EXCEPT ![p] = writeidx]
  /\ UNCHANGED <<buffer, indices, rix, val, running, history>>

(* Full: around again.                                                     *)
PutLoadWrite(p) ==
  /\ At(p, "put_wix", IF rix[p] = Succ(writeidx) THEN "put_rix" ELSE "put_cas")
  /\ wix' = [wix EXCEPT ![p] = writeidx]
  /\ UNCHANGED <<buffer, indices, rix, val, running, history>>

(* Mutant: claims without comparing.                                       *)
PutClaim_NoCompare(p) ==
  /\ At(p, "put_cas", "put_store")
  /\ writeidx' = Succ(wix[p])
  /\ claimed' = Append(claimed, val[p])
  /\ UNCHANGED <<buffer, readidx, locals, running, puts, got>>

(* compare_and_swap of writeidx.                                           *)
PutClaim(p) ==
  \/ /\ writeidx = wix[p]
     /\ At(p, "put_cas", "put_store")
     /\ writeidx' = Succ(wix[p])
     /\ claimed' = Append(claimed, val[p])
     /\ UNCHANGED <<buffer, readidx, locals, running, puts, got>>
  \/ /\ writeidx # wix[p]
     /\ At(p, "put_cas", "put_rix")
     /\ UNCHANGED <<buffer, indices, locals, running, history>>

PutStore(p) ==
  /\ At(p, "put_store", "idle")
  /\ buffer' = [buffer EXCEPT ![wix[p]] = val[p]]
  /\ Ends(p)
  /\ UNCHANGED <<indices, locals, history>>

-----------------------------------------------------------------------------
BeginGet(c) ==
  /\ pc[c] = "idle" /\ (Concurrent \/ running = <<>>)
  /\ pc' = [pc EXCEPT ![c] = "get_wix"]
  /\ running' = Append(running, c)
  /\ UNCHANGED <<buffer, indices, locals, history>>

GetLoadWrite(c) ==
  /\ At(c, "get_wix", "get_rix")
  /\ wix' = [wix EXCEPT ![c] = writeidx]
  /\ UNCHANGED <<buffer, indices, rix, val, running, history>>

(* Empty: returns None.                                                    *)
GetLoadRead(c) ==
  /\ rix' = [rix EXCEPT ![c] = readidx]
  /\ \/ /\ readidx = wix[c] /\ At(c, "get_rix", "idle") /\ Ends(c)
     \/ readidx # wix[c] /\ At(c, "get_rix", "get_cas") /\ UNCHANGED running
  /\ UNCHANGED <<buffer, indices, wix, val, history>>

(* compare_and_swap of readidx, which only this caller moves.              *)
GetClaim(c) ==
  /\ At(c, "get_cas", IF readidx = rix[c] THEN "get_item" ELSE "get_wix")
  /\ readidx' = IF readidx = rix[c] THEN Succ(rix[c]) ELSE readidx
  /\ UNCHANGED <<buffer, writeidx, locals, running, history>>

GetItem(c) ==
  /\ At(c, "get_item", "idle")
  /\ got' = Append(got, buffer[rix[c]])
  /\ Ends(c)
  /\ UNCHANGED <<buffer, indices, locals, puts, claimed>>

PutStep(p) == PutLoadRead(p) \/ PutLoadWrite(p) \/ PutClaim(p) \/ PutStore(p)

GetStep(c) == GetLoadWrite(c) \/ GetLoadRead(c) \/ GetClaim(c) \/ GetItem(c)

Next ==
  \/ \E p \in Producer : BeginPut(p) \/ PutStep(p)
  \/ BeginGet(Consumer) \/ GetStep(Consumer)

(* The call that runs goes on.                                             *)
Fairness ==
  /\ WF_vars(GetStep(Consumer))
  /\ \A p \in Producer : WF_vars(PutStep(p))

Spec == Init /\ [][Next]_vars /\ Fairness

-----------------------------------------------------------------------------
(* Where a value stands among those put, 0 for what was never put.         *)
Position(v) ==
  IF v \in Range(claimed)
  THEN CHOOSE i \in 1..Len(claimed) : claimed[i] = v
  ELSE 0

Channel ==
  INSTANCE FrameChannel WITH
    accepted <- Len(claimed),
    out <- [i \in 1..Len(got) |-> Position(got[i])]

(* get returns every value that was put once, in the order the slots were  *)
(* claimed, and nothing that is not yet stored, even when a handler's put  *)
(* comes between the claim and the store of another, or inside a get.      *)
ImplementsChannel == Channel!Spec

(* What a get returned is a reference into the buffer: its slot is not     *)
(* filled again before the next get.                                       *)
ReturnedStable ==
  (pc[Consumer] = "idle" /\ got # <<>> /\ Succ(rix[Consumer]) = readidx)
    => buffer[rix[Consumer]] = got[Len(got)]

Full == Succ(writeidx) = readidx

(* A put returns, unless the ring is full: put has no way to give up.      *)
PutReturns ==
  \A p \in Producer : pc[p] # "idle" ~> (pc[p] = "idle" \/ Full)
=============================================================================
