----------------------------- MODULE FrameChannel -----------------------------
(***************************************************************************)
(* What each direction of a network interface promises: a channel that     *)
(* hands on what it was given, every frame at most once, in order, nothing *)
(* before it was accepted and nothing else.  Frame n is the n-th accepted. *)
(***************************************************************************)
EXTENDS Naturals, Sequences

VARIABLES
  accepted,  \* number of frames the channel was given
  out        \* what it has handed on

vars == <<accepted, out>>

Init == accepted = 0 /\ out = << >>

Accept == accepted' = accepted + 1 /\ UNCHANGED out

(* The next k frames come out together.                                    *)
Emit ==
  /\ \E k \in 1..accepted - Len(out) :
       out' = out \o [i \in 1..k |-> Len(out) + i]
  /\ UNCHANGED accepted

Next == Accept \/ Emit

Spec == Init /\ [][Next]_vars
=============================================================================
