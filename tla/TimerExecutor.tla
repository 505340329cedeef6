---------------------------- MODULE TimerExecutor ----------------------------
(***************************************************************************)
(* The asynchronous executor, its timer futures and the timer interrupt    *)
(* that completes them, on the single CPU urchin runs on.                  *)
(*                                                                         *)
(*   main thread   start_rust: spawn the tasks, then for ever              *)
(*                 cli ; Executor::run ; sti ; hlt          (lib.rs)       *)
(*   tasks         async blocks that create a TimerFuture and await it     *)
(*   interrupt     irq_handler -> Timer::interrupt_handler ->              *)
(*                 check_timerfutures_from_interrupt  (interrupt.rs,       *)
(*                 timer.rs)                                               *)
(*                                                                         *)
(* Main and interrupt share the CPU: the interrupt may start between any   *)
(* two steps of main while the interrupt flag is set, and main does not    *)
(* move until the handler has returned.                                    *)
(*                                                                         *)
(* Time.  The code compares the monotonic clock with an expiry time and    *)
(* uses nothing else of either, so the model keeps only their difference,  *)
(* remaining[t] = expired_monotonic - now, and stops counting one unit     *)
(* past the expiry.  The clock is taken to advance (KVM clock is a         *)
(* component of its own).                                                  *)
(***************************************************************************)
EXTENDS Integers, FiniteSets, SequencesExt

CONSTANTS
  Task,       \* the futures start_rust spawns
  Looping,    \* those whose body is a loop; the others end after one timer
  Duration,   \* Duration[t]: the argument t gives TimerFuture::new
  TaskCap,    \* capacity of Executor.tasks            (100_000 in the code)
  TimerCap,   \* capacity of REGISTERED_TIMER_STATES   (100_000 in the code)
  NoTask      \* "no task is being polled"

ASSUME TaskAssumption ==
  /\ IsFiniteSet(Task)
  /\ Looping \subseteq Task
  /\ NoTask \notin Task

ASSUME DurationAssumption == Duration \in [Task -> Nat]

ASSUME CapAssumption ==
  /\ TaskCap \in Nat
  /\ TimerCap \in Nat
  /\ Cardinality(Task) <= TaskCap
  /\ Cardinality(Task) <= TimerCap

VARIABLES
  pc,          \* where the main thread is
  intr_on,     \* the interrupt flag of the CPU
  irq,         \* "idle", or "scan" while the timer handler is running
  pending,     \* a timer interrupt is latched in the local APIC
  left,        \* iterations left of the handler's loop over the timers
  due,         \* the timers whose expiry the handler's nowtime exceeds
  tasks,       \* Executor.tasks, the run queue
  future,      \* Task.future: not spawned, Some or None
  cur,         \* the task Executor::run is polling
  body,        \* where the async block of the task is
  registered,  \* REGISTERED_TIMER_STATES, each named by the task it belongs to
  completed,   \* SharedState.completed of the task's current timer
  remaining,   \* SharedState.expired_monotonic, relative to the clock
  waker,       \* SharedState.waker is Some
  waker_lock   \* the spinlock around SharedState.waker is held

irqVars   == <<irq, pending, left, due>>
taskVars  == <<tasks, future, cur, body>>
timerVars == <<registered, completed, remaining, waker, waker_lock>>
vars == <<pc, intr_on, irqVars, taskVars, timerVars>>

-----------------------------------------------------------------------------
(* ArrayQueue: a bounded queue whose push fails when it is full; every     *)
(* caller turns the failure into a panic with expect().                    *)

Pushed(q, x, cap) == IF Len(q) < cap THEN Append(q, x) ELSE q

(* Mutant: one slot of the ring tells a full queue from an empty one.      *)
PushedPc_OneShort(q, cap, next) == IF Len(q) < cap - 1 THEN next ELSE "panic"

PushedPc(q, cap, next) == IF Len(q) < cap THEN next ELSE "panic"

Init ==
  /\ pc = "boot"
  /\ intr_on = FALSE
  /\ irq = "idle"
  /\ pending = FALSE
  /\ left = 0
  /\ due = {}
  /\ tasks = << >>
  /\ future = [t \in Task |-> "unspawned"]
  /\ cur = NoTask
  /\ body = [t \in Task |-> "start"]
  /\ registered = << >>
  /\ completed = [t \in Task |-> FALSE]
  /\ remaining = [t \in Task |-> 0]
  /\ waker = [t \in Task |-> FALSE]
  /\ waker_lock = [t \in Task |-> FALSE]

-----------------------------------------------------------------------------
(* The main thread.  It moves only while no handler is running.            *)

MainAt(label) == pc = label /\ irq = "idle"

Spawn(t) ==
  /\ MainAt("boot")
  /\ future[t] = "unspawned"
  /\ future' = [future EXCEPT ![t] = "some"]
  /\ tasks' = Pushed(tasks, t, TaskCap)
  /\ pc' = PushedPc(tasks, TaskCap, "boot")
  /\ UNCHANGED <<intr_on, irqVars, cur, body, timerVars>>

Launch ==
  /\ MainAt("boot")
  /\ \A t \in Task : future[t] # "unspawned"
  /\ pc' = "cli"
  /\ UNCHANGED <<intr_on, irqVars, taskVars, timerVars>>

(* Mutant: run() without disable_interrupt().                              *)
DisableInterrupt_NoCli ==
  /\ MainAt("cli")
  /\ pc' = "pop"
  /\ UNCHANGED <<intr_on, irqVars, taskVars, timerVars>>

DisableInterrupt ==
  /\ MainAt("cli")
  /\ intr_on' = FALSE
  /\ pc' = "pop"
  /\ UNCHANGED <<irqVars, taskVars, timerVars>>

(* Executor::run, the head of the loop: pop a task, lock its slot and take *)
(* the future out of it.  Only run() locks the slot, so the lock is always *)
(* free here.  A task without a future is dropped.                         *)
RunPop ==
  /\ MainAt("pop")
  /\ tasks # << >>
  /\ tasks' = Tail(tasks)
  /\ IF future[Head(tasks)] = "some"
     THEN /\ future' = [future EXCEPT ![Head(tasks)] = "none"]
          /\ cur' = Head(tasks)
          /\ pc' = IF body[Head(tasks)] = "await" THEN "check" ELSE "new"
     ELSE UNCHANGED <<future, cur, pc>>
  /\ UNCHANGED <<intr_on, irqVars, body, timerVars>>

RunDone ==
  /\ MainAt("pop")
  /\ tasks = << >>
  /\ pc' = "sti"
  /\ UNCHANGED <<intr_on, irqVars, taskVars, timerVars>>

(* TimerFuture::new, called by the task's async block.                     *)
NewTimer ==
  /\ MainAt("new")
  /\ registered' = Pushed(registered, cur, TimerCap)
  /\ completed' = [completed EXCEPT ![cur] = FALSE]
  /\ remaining' = [remaining EXCEPT ![cur] = Duration[cur]]
  /\ waker' = [waker EXCEPT ![cur] = FALSE]
  /\ body' = [body EXCEPT ![cur] = "await"]
  /\ pc' = PushedPc(registered, TimerCap, "check")
  /\ UNCHANGED <<intr_on, irqVars, tasks, future, cur, waker_lock>>

(* TimerFuture::poll: the load of `completed'.  When it is set, the await  *)
(* is over: a looping body goes round, another one returns Ready and run() *)
(* drops the future.                                                       *)
PollReady ==
  /\ MainAt("check")
  /\ completed[cur]
  /\ IF cur \in Looping
     THEN /\ body' = [body EXCEPT ![cur] = "start"]
          /\ pc' = "new"
          /\ UNCHANGED cur
     ELSE /\ body' = [body EXCEPT ![cur] = "done"]
          /\ pc' = "pop"
          /\ cur' = NoTask
  /\ UNCHANGED <<intr_on, irqVars, tasks, future, timerVars>>

(* Mutant: Pending is returned without storing the waker.                  *)
PollPending_NoWaker ==
  /\ MainAt("check")
  /\ ~ completed[cur]
  /\ pc' = "putback"
  /\ UNCHANGED <<intr_on, irqVars, taskVars, timerVars>>

PollPending ==
  /\ MainAt("check")
  /\ ~ completed[cur]
  /\ pc' = "lock"
  /\ UNCHANGED <<intr_on, irqVars, taskVars, timerVars>>

LockWaker ==
  /\ MainAt("lock")
  /\ ~ waker_lock[cur]
  /\ waker_lock' = [waker_lock EXCEPT ![cur] = TRUE]
  /\ pc' = "store"
  /\ UNCHANGED <<intr_on, irqVars, taskVars, registered, completed,
                 remaining, waker>>

(* Mutant: the guard of the waker lock outlives the store.                 *)
StoreWaker_NoUnlock ==
  /\ MainAt("store")
  /\ waker' = [waker EXCEPT ![cur] = TRUE]
  /\ pc' = "putback"
  /\ UNCHANGED <<intr_on, irqVars, taskVars,
                 registered, completed, remaining, waker_lock>>

StoreWaker ==
  /\ MainAt("store")
  /\ waker' = [waker EXCEPT ![cur] = TRUE]
  /\ waker_lock' = [waker_lock EXCEPT ![cur] = FALSE]
  /\ pc' = "putback"
  /\ UNCHANGED <<intr_on, irqVars, taskVars,
                 registered, completed, remaining>>

(* Executor::run after Poll::Pending: the future goes back into its slot.  *)
PutBack ==
  /\ MainAt("putback")
  /\ future' = [future EXCEPT ![cur] = "some"]
  /\ cur' = NoTask
  /\ pc' = "pop"
  /\ UNCHANGED <<intr_on, irqVars, tasks, body, timerVars>>

EnableInterrupt ==
  /\ MainAt("sti")
  /\ intr_on' = TRUE
  /\ pc' = "hlt"
  /\ UNCHANGED <<irqVars, taskVars, timerVars>>

Halt ==
  /\ MainAt("hlt")
  /\ pc' = "halted"
  /\ UNCHANGED <<intr_on, irqVars, taskVars, timerVars>>

-----------------------------------------------------------------------------
(* Interrupts.  The CPU takes one between two instructions of main when    *)
(* the flag is set; a halted CPU resumes after the hlt, at the loop's head.*)

Awake(label) == IF label = "halted" THEN "cli" ELSE label

(* Mutant: nowtime >= expired_monotonic.                                   *)
Expired_AtExpiry(t) == remaining[t] <= 0

Expired(t) == remaining[t] < 0

(* Mutant: 0..=REGISTERED_TIMER_STATES.len().                              *)
TripCount_Inclusive == Len(registered) + 1

TripCount == Len(registered)

(* Entry of the timer interrupt: acknowledged, interrupts off, nowtime     *)
(* read, the loop's trip count fixed before the first pop.                 *)
TimerIrq ==
  /\ intr_on /\ irq = "idle" /\ pending
  /\ intr_on' = FALSE
  /\ irq' = "scan"
  /\ pending' = FALSE
  /\ left' = TripCount
  /\ due' = {t \in Task : Expired(t)}
  /\ pc' = Awake(pc)
  /\ UNCHANGED <<taskVars, timerVars>>

(* Mutant: an expired timer stays registered and keeps its waker.          *)
ScanExpired_KeepsTimer ==
  /\ irq = "scan" /\ left > 0 /\ pc # "panic"
  /\ registered # << >>
  /\ LET s == Head(registered) IN
       /\ s \in due
       /\ ~ waker_lock[s]
       /\ completed' = [completed EXCEPT ![s] = TRUE]
       /\ tasks' = IF waker[s] THEN Pushed(tasks, s, TaskCap) ELSE tasks
       /\ pc' = IF waker[s] THEN PushedPc(tasks, TaskCap, pc) ELSE pc
  /\ registered' = Append(Tail(registered), Head(registered))
  /\ left' = left - 1
  /\ UNCHANGED <<intr_on, irq, pending, due, future, cur, body,
                 remaining, waker, waker_lock>>

(* One iteration on an expired timer.  The handler spins while main holds  *)
(* the lock of the waker.  waker.wake() pushes the task on the run queue.  *)
ScanExpired ==
  /\ irq = "scan" /\ left > 0 /\ pc # "panic"
  /\ registered # << >>
  /\ LET s == Head(registered) IN
       /\ s \in due
       /\ ~ waker_lock[s]
       /\ completed' = [completed EXCEPT ![s] = TRUE]
       /\ waker' = [waker EXCEPT ![s] = FALSE]
       /\ tasks' = IF waker[s] THEN Pushed(tasks, s, TaskCap) ELSE tasks
       /\ pc' = IF waker[s] THEN PushedPc(tasks, TaskCap, pc) ELSE pc
  /\ registered' = Tail(registered)
  /\ left' = left - 1
  /\ UNCHANGED <<intr_on, irq, pending, due, future, cur, body,
                 remaining, waker_lock>>

(* One iteration on a timer that has not expired: it is queued again.      *)
ScanRequeue ==
  /\ irq = "scan" /\ left > 0 /\ pc # "panic"
  /\ registered # << >>
  /\ Head(registered) \notin due
  /\ registered' = Pushed(Tail(registered), Head(registered), TimerCap)
  /\ pc' = PushedPc(Tail(registered), TimerCap, pc)
  /\ left' = left - 1
  /\ UNCHANGED <<intr_on, irq, pending, due, taskVars,
                 completed, remaining, waker, waker_lock>>

(* The loop is over, or what is left of it pops nothing; iretq.            *)
IrqReturn ==
  /\ irq = "scan" /\ pc # "panic"
  /\ left = 0 \/ registered = << >>
  /\ irq' = "idle"
  /\ intr_on' = TRUE
  /\ due' = {}
  /\ left' = 0
  /\ UNCHANGED <<pc, pending, taskVars, timerVars>>

(* A network interrupt: it only matters here that it ends the halt.        *)
NetIrq ==
  /\ intr_on /\ irq = "idle"
  /\ pc' = Awake(pc)
  /\ UNCHANGED <<intr_on, irqVars, taskVars, timerVars>>

(* One period of the local APIC timer passes and latches its interrupt.    *)
Tick ==
  /\ pending' = TRUE
  /\ remaining' = [t \in Task |->
                     IF remaining[t] < 0 THEN -1 ELSE remaining[t] - 1]
  /\ UNCHANGED <<pc, intr_on, irq, left, due, taskVars,
                 registered, completed, waker, waker_lock>>

-----------------------------------------------------------------------------
MainStep ==
  \/ \E t \in Task : Spawn(t)
  \/ Launch \/ DisableInterrupt
  \/ RunPop \/ RunDone
  \/ NewTimer \/ PollReady \/ PollPending
  \/ LockWaker \/ StoreWaker \/ PutBack
  \/ EnableInterrupt \/ Halt

Handler == ScanExpired \/ ScanRequeue \/ IrqReturn

Next == MainStep \/ TimerIrq \/ Handler \/ NetIrq \/ Tick

(* The APIC timer is periodic, a latched interrupt is delivered at the     *)
(* next window, the CPU executes the handler, and the 2 ms period leaves   *)
(* main some instructions between two interrupts (hence the strong forms). *)
Fairness ==
  /\ SF_vars(MainStep)
  /\ SF_vars(TimerIrq)
  /\ WF_vars(Handler)
  /\ WF_vars(Tick)

Spec == Init /\ [][Next]_vars

FairSpec == Spec /\ Fairness

-----------------------------------------------------------------------------
Queued(t) == Contains(tasks, t)

Armed(t) == Contains(registered, t)

(* Every variable has its type.                                            *)
TypeOK ==
  /\ pc \in {"boot", "cli", "pop", "new", "check", "lock", "store",
             "putback", "sti", "hlt", "halted", "panic"}
  /\ intr_on \in BOOLEAN
  /\ irq \in {"idle", "scan"}
  /\ pending \in BOOLEAN
  /\ left \in 0..Len(registered)
  /\ due \in SUBSET Task
  /\ tasks \in Seq(Task)
  /\ future \in [Task -> {"unspawned", "some", "none"}]
  /\ cur \in Task \cup {NoTask}
  /\ body \in [Task -> {"start", "await", "done"}]
  /\ registered \in Seq(Task)
  /\ completed \in [Task -> BOOLEAN]
  /\ remaining \in [Task -> Int]
  /\ waker \in [Task -> BOOLEAN]
  /\ waker_lock \in [Task -> BOOLEAN]

(* No lost wake-up.  A spawned, unfinished task that is neither queued nor *)
(* being polled sleeps on a timer that is still registered, not completed, *)
(* and holds its waker: the expiry will queue it again.  Were main and the *)
(* handler to interleave between the load of `completed' and the store of  *)
(* the waker, the task would sleep for ever.                               *)
NoLostWakeup ==
  \A t \in Task :
    future[t] = "some" /\ ~ Queued(t) =>
      body[t] = "await" /\ Armed(t) /\ ~ completed[t] /\ waker[t]

(* A task is on the run queue at most once and a timer is registered at    *)
(* most once, so no expect("too many tasks queued") in executor.rs and     *)
(* timer.rs ever fails, in the tasks or inside the interrupt handler, as   *)
(* long as there are no more tasks than slots.                             *)
NeverPanics == pc # "panic"

(* The timer handler never meets a waker lock that is held.  On one CPU it *)
(* would spin on it for ever, since the holder cannot run.                 *)
HandlerNeverSpins == irq = "scan" => \A t \in Task : ~ waker_lock[t]

(* A timer completes only after its duration is over.                      *)
NeverEarly ==
  \A t \in Task : body[t] = "await" /\ completed[t] => remaining[t] < 0

(* The inductive invariant behind the four properties above.               *)
(*   Window     main runs its critical part, and the handler runs, with    *)
(*              interrupts off; main is then outside the critical part     *)
(*   Unique     no task is queued twice, no timer is registered twice      *)
(*   Lifecycle  where the future of a task is decides where its timer is   *)
Critical == {"pop", "new", "check", "lock", "store", "putback", "sti"}

Polling == {"new", "check", "lock", "store", "putback"}

Window ==
  /\ pc \in {"boot"} \cup Critical => ~ intr_on /\ irq = "idle"
  /\ irq = "scan" => ~ intr_on
  /\ pc = "halted" => irq = "idle"
  /\ cur # NoTask <=> pc \in Polling
  /\ \A t \in Task : waker_lock[t] => pc = "store" /\ cur = t
  /\ irq = "idle" => due = {} /\ left = 0
  /\ \A t \in due : remaining[t] < 0

Unique == IsInjective(tasks) /\ IsInjective(registered)

(* A task between two polls, and the one being polled, by its label.       *)
Resting(t) ==
  CASE future[t] = "unspawned" -> body[t] = "start" /\ ~ Queued(t) /\ ~ Armed(t)
    [] future[t] = "some" ->
         IF Queued(t)
         THEN /\ ~ Armed(t)
              /\ body[t] = "start" \/ (body[t] = "await" /\ completed[t])
         ELSE body[t] = "await" /\ Armed(t) /\ ~ completed[t] /\ waker[t]
    [] OTHER -> body[t] = "done" /\ ~ Queued(t) /\ ~ Armed(t)

Polled(t) ==
  /\ future[t] = "none" /\ ~ Queued(t)
  /\ body[t] = IF pc = "new" THEN "start" ELSE "await"
  /\ Armed(t) <=> pc # "new" /\ ~ completed[t]
  /\ pc \in {"lock", "store", "putback"} => ~ completed[t]
  /\ pc = "putback" => waker[t]

Lifecycle == \A t \in Task : IF t = cur THEN Polled(t) ELSE Resting(t)

IndInv ==
  TypeOK /\ NeverPanics /\ Window /\ Unique /\ Lifecycle /\ NeverEarly

(* The abstract state of a task, and the timers that have run out.         *)
TaskState(t) ==
  IF t = cur THEN IF pc # "new" /\ ~ completed[t] THEN "armed" ELSE "running"
  ELSE IF Queued(t) THEN "ready"
  ELSE CASE future[t] = "unspawned" -> "unspawned"
         [] future[t] = "some" -> "asleep"
         [] OTHER -> "done"

Sched == INSTANCE Scheduler WITH
  st <- [t \in Task |-> TaskState(t)],
  elapsed <- {t \in Task : remaining[t] < 0}

(* With its run queue, wakers, locks and interrupts the executor does what *)
(* Scheduler promises: no task is woken early, twice or while it runs, and *)
(* two tasks never run at once.                                            *)
ImplementsScheduler == Sched!Spec

(* The run queue and the timer queue are drained without starvation: a     *)
(* spawned task is polled again and again, and the TimerFuture it awaits   *)
(* completes, though interrupts reach the CPU only in the sti-hlt window.  *)
TaskPolledAgain ==
  \A t \in Task : (future[t] = "some") ~> (cur = t)

=============================================================================
