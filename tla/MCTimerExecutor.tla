-------------------------- MODULE MCTimerExecutor --------------------------
(***************************************************************************)
(* Instances of TimerExecutor for TLC: the two looping tasks start_rust    *)
(* spawns (5 s and 8 s there, one and two timer periods here), and a third *)
(* task whose future finishes, on a timer of duration zero.                *)
(***************************************************************************)
EXTENDS TimerExecutor, TLC

CONSTANTS t1, t2, t3

MCTwo == {t1, t2}
MCThree == {t1, t2, t3}
MCDurationThree == (t1 :> 1) @@ (t2 :> 2) @@ (t3 :> 0)
=============================================================================
