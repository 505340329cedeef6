------------------------------ MODULE Scheduler ------------------------------
(***************************************************************************)
(* What the executor and its timers promise, without run queue, wakers,    *)
(* locks and interrupts: one task runs at a time; a task that runs arms a  *)
(* timer and goes to sleep on it; it is woken only after that timer has    *)
(* run out, and once for each sleep; it ends only in a run after that.     *)
(***************************************************************************)
CONSTANT Task

VARIABLES
  st,       \* st[t]: what the task t is doing
  elapsed   \* the tasks whose timer has run out

vars == <<st, elapsed>>

State == {"unspawned", "ready", "running", "armed", "asleep", "done"}

TypeOK == st \in [Task -> State] /\ elapsed \subseteq Task

Init ==
  /\ st = [t \in Task |-> "unspawned"]
  /\ elapsed = {}

Move(t, from, to) == st[t] = from /\ st' = [st EXCEPT ![t] = to]

Spawn(t) == Move(t, "unspawned", "ready") /\ UNCHANGED elapsed

Run(t) ==
  /\ \A u \in Task : st[u] \notin {"running", "armed"}
  /\ Move(t, "ready", "running")
  /\ UNCHANGED elapsed

Arm(t) == Move(t, "running", "armed") /\ elapsed' = elapsed \ {t}

Sleep(t) == Move(t, "armed", "asleep") /\ UNCHANGED elapsed

Elapse == elapsed \subseteq elapsed' /\ elapsed' \subseteq Task /\ UNCHANGED st

Wake(t) == t \in elapsed /\ Move(t, "asleep", "ready") /\ UNCHANGED elapsed

Finish(t) == t \in elapsed /\ Move(t, "running", "done") /\ UNCHANGED elapsed

Next ==
  \/ Elapse
  \/ \E t \in Task :
       Spawn(t) \/ Run(t) \/ Arm(t) \/ Sleep(t) \/ Wake(t) \/ Finish(t)

Spec == Init /\ [][Next]_vars
=============================================================================
