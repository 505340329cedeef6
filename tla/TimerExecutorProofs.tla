------------------------- MODULE TimerExecutorProofs -------------------------
(***************************************************************************)
(* Proofs about TimerExecutor, for every finite set of tasks, every choice *)
(* of durations and every pair of queue capacities that can hold the tasks:*)
(* its inductive invariant, the safety properties, and that it implements  *)
(* Scheduler.                                                              *)
(***************************************************************************)
EXTENDS TimerExecutor, FiniteSetTheorems, SequenceTheorems, TLAPS

-----------------------------------------------------------------------------
(* Queues without repetition.                                              *)

(* A queue that ArrayQueue::push extends by an element it does not hold    *)
(* still has no repetition, and holds that element besides what it held.   *)
LEMMA AppendFresh ==
  ASSUME NEW S, NEW q \in Seq(S), NEW x \in S,
         IsInjective(q), ~ Contains(q, x)
  PROVE  /\ Append(q, x) \in Seq(S)
         /\ IsInjective(Append(q, x))
         /\ Len(Append(q, x)) = Len(q) + 1
         /\ \A y : Contains(Append(q, x), y) <=> (Contains(q, y) \/ y = x)
<1> DEFINE r == Append(q, x)
<1>1. /\ r \in Seq(S) /\ Len(r) = Len(q) + 1 /\ Len(q) \in Nat
      /\ \A i \in 1..Len(q) : r[i] = q[i]
      /\ r[Len(q) + 1] = x
      /\ DOMAIN r = 1..Len(r) /\ DOMAIN q = 1..Len(q)
  BY AppendProperties, LenProperties
<1> HIDE DEF r
<1>2. IsInjective(r)
  BY <1>1 DEF IsInjective, Contains
<1>3. ASSUME NEW y PROVE Contains(r, y) <=> (Contains(q, y) \/ y = x)
  BY <1>1 DEF Contains
<1> QED
  BY <1>1, <1>2, <1>3 DEF r

(* ArrayQueue::pop removes the only occurrence of the head.                *)
LEMMA TailOfDistinct ==
  ASSUME NEW S, NEW q \in Seq(S), q # << >>, IsInjective(q)
  PROVE  /\ Head(q) \in S
         /\ Tail(q) \in Seq(S)
         /\ IsInjective(Tail(q))
         /\ Contains(q, Head(q))
         /\ Len(Tail(q)) = Len(q) - 1
         /\ \A y : Contains(Tail(q), y) <=> (Contains(q, y) /\ y # Head(q))
<1> DEFINE r == Tail(q)
<1>1. /\ Head(q) \in S /\ r \in Seq(S) /\ Len(r) = Len(q) - 1
      /\ \A i \in 1..Len(r) : r[i] = q[i + 1]
      /\ Len(q) \in Nat \ {0} /\ Len(r) \in Nat
      /\ DOMAIN r = 1..Len(r) /\ DOMAIN q = 1..Len(q)
      /\ Head(q) = q[1]
  <2>1. Head(q) \in S /\ r \in Seq(S) /\ Len(r) = Len(q) - 1
        /\ \A i \in 1..Len(r) : r[i] = q[i + 1]
    BY HeadTailProperties
  <2>2. Len(q) \in Nat \ {0}
    BY EmptySeq
  <2> QED
    BY <2>1, <2>2, LenProperties
<1> HIDE DEF r
<1>2. Contains(q, Head(q))
  BY <1>1 DEF Contains
<1>3. IsInjective(r)
  <2>1. SUFFICES ASSUME NEW i \in 1..Len(r), NEW j \in 1..Len(r), r[i] = r[j]
                 PROVE  i = j
    BY <1>1 DEF IsInjective
  <2>2. i + 1 \in DOMAIN q /\ j + 1 \in DOMAIN q /\ q[i + 1] = q[j + 1]
    BY <1>1, <2>1
  <2>3. i + 1 = j + 1
    BY <2>2 DEF IsInjective
  <2> QED
    BY <2>3, <1>1
<1>4. ASSUME NEW y, Contains(r, y) PROVE Contains(q, y) /\ y # Head(q)
  BY <1>1, <1>4 DEF Contains, IsInjective
<1>5. ASSUME NEW y, Contains(q, y), y # Head(q) PROVE Contains(r, y)
  <2>1. PICK i \in 1..Len(q) : q[i] = y
    BY <1>5 DEF Contains
  <2>2. i - 1 \in 1..Len(r) /\ r[i - 1] = y
    BY <2>1, <1>1, <1>5
  <2> QED
    BY <2>2 DEF Contains
<1> QED
  BY <1>1, <1>2, <1>3, <1>4, <1>5 DEF r

(* Pigeonhole: a queue of distinct tasks that misses one of them is shorter*)
(* than the number of tasks.                                               *)
LEMMA RoomForOneMore ==
  ASSUME NEW S, IsFiniteSet(S), NEW q \in Seq(S), NEW x \in S,
         IsInjective(q), ~ Contains(q, x)
  PROVE  Len(q) < Cardinality(S)
<1>1. /\ Len(q) \in Nat /\ DOMAIN q = 1..Len(q) /\ q \in [1..Len(q) -> S]
  BY LenProperties
<1>2. q \in [1..Len(q) -> S \ {x}]
  BY <1>1 DEF Contains
<1>3. /\ IsFiniteSet(S \ {x}) /\ Cardinality(S \ {x}) = Cardinality(S) - 1
      /\ Cardinality(S) \in Nat
  BY FS_RemoveElement, FS_CardinalityType
<1>4. /\ IsFiniteSet(1..Len(q)) /\ Cardinality(1..Len(q)) = Len(q)
  BY <1>1, FS_Interval
<1>5. ~ (Cardinality(S \ {x}) < Cardinality(1..Len(q)))
  BY <1>1, <1>2, <1>3, <1>4, FS_PigeonHole DEF IsInjective
<1> QED
  BY <1>1, <1>3, <1>4, <1>5
(* A push of a task a queue does not hold succeeds, whatever the queue's   *)
(* capacity is, provided there is room for all the tasks.                  *)
LEMMA PushFresh ==
  ASSUME NEW q \in Seq(Task), NEW x \in Task, IsInjective(q), ~ Contains(q, x),
         NEW cap \in Nat, Cardinality(Task) <= cap
  PROVE  /\ Pushed(q, x, cap) \in Seq(Task)
         /\ IsInjective(Pushed(q, x, cap))
         /\ Len(Pushed(q, x, cap)) = Len(q) + 1
         /\ \A y : Contains(Pushed(q, x, cap), y) <=> (Contains(q, y) \/ y = x)
         /\ \A next : PushedPc(q, cap, next) = next
<1>1. Len(q) < cap
  <2>1. Len(q) < Cardinality(Task)
    BY RoomForOneMore, TaskAssumption
  <2>2. Len(q) \in Nat /\ Cardinality(Task) \in Nat
    BY LenProperties, FS_CardinalityType, TaskAssumption
  <2> QED
    BY <2>1, <2>2
<1>2. Pushed(q, x, cap) = Append(q, x)
  BY <1>1 DEF Pushed
<1> QED
  BY <1>1, <1>2, AppendFresh DEF PushedPc

-----------------------------------------------------------------------------
(* The inductive invariant.                                                *)

(* The boot state satisfies the invariant: nothing is spawned, queued or   *)
(* registered, and interrupts are off.                                     *)
LEMMA InitIndInv == Init => IndInv
<1> SUFFICES ASSUME Init PROVE IndInv
  OBVIOUS
<1>1. << >> \in Seq(Task) /\ IsInjective(<< >>) /\ \A x : ~ Contains(<< >>, x)
  BY EmptySeq DEF Contains, IsInjective
<1>2. TypeOK
  <2>1. tasks \in Seq(Task) /\ registered \in Seq(Task)
    BY <1>1 DEF Init
  <2>2. /\ intr_on \in BOOLEAN /\ pending \in BOOLEAN
        /\ completed \in [Task -> BOOLEAN] /\ waker \in [Task -> BOOLEAN]
        /\ waker_lock \in [Task -> BOOLEAN]
    BY Zenon DEF Init
  <2> QED
    BY <2>1, <2>2 DEF Init, TypeOK
<1>3. NeverPanics /\ Window
  BY TaskAssumption DEF Init, NeverPanics, Window, Polling, Critical
<1>4. Unique
  BY <1>1 DEF Init, Unique
<1>5. Lifecycle /\ NeverEarly
  BY <1>1, TaskAssumption
  DEF Init, Lifecycle, NeverEarly, Resting, Queued, Armed
<1> QED
  BY <1>2, <1>3, <1>4, <1>5 DEF IndInv

(* Every step of main, of the timer handler and of the hardware preserves  *)
(* the invariant.  The queues change in Spawn, RunPop, NewTimer and the two*)
(* scan steps, which come first.                                           *)
LEMMA NextIndInv == IndInv /\ [Next]_vars => IndInv'
<1> SUFFICES ASSUME IndInv, [Next]_vars PROVE IndInv'
  OBVIOUS
<1> USE TaskAssumption, DurationAssumption, CapAssumption DEF IndInv
<1>1. ASSUME NEW t \in Task, Spawn(t) PROVE IndInv'
  <2>1. ~ Queued(t) /\ ~ Armed(t) /\ body[t] = "start" /\ t # cur
    BY <1>1 DEF Spawn, MainAt, Window, Polling, Lifecycle, Resting
  <2>2. /\ tasks' \in Seq(Task) /\ IsInjective(tasks') /\ pc' = "boot"
        /\ \A u : Contains(tasks', u) <=> (Contains(tasks, u) \/ u = t)
    <3>1. /\ tasks' = Pushed(tasks, t, TaskCap)
          /\ pc' = PushedPc(tasks, TaskCap, "boot")
      BY <1>1 DEF Spawn
    <3>2. tasks \in Seq(Task) /\ IsInjective(tasks) /\ ~ Contains(tasks, t)
      BY <2>1 DEF TypeOK, Unique, Queued
    <3> QED
      BY <1>1, <3>1, <3>2, PushFresh
  <2>3. TypeOK' /\ NeverPanics' /\ Window' /\ Unique' /\ NeverEarly'
    BY <1>1, <2>2 DEF Spawn, MainAt, TypeOK, NeverPanics, Window, Unique,
       NeverEarly, Critical, Polling, taskVars, timerVars, irqVars
  <2>4. Lifecycle'
    BY <1>1, <2>1, <2>2 DEF Spawn, MainAt, TypeOK, Window, Polling, Lifecycle,
       Polled, Resting, Queued, Armed, timerVars
  <2> QED
    BY <2>3, <2>4
<1>2. CASE RunPop
  <2>0. PICK t \in Task : t = Head(tasks)
    BY <1>2, TailOfDistinct DEF RunPop, TypeOK, Unique
  <2>1. /\ t \in Task /\ Queued(t)
        /\ tasks' \in Seq(Task) /\ IsInjective(tasks')
        /\ \A u : Contains(tasks', u) <=> (Contains(tasks, u) /\ u # t)
    BY <1>2, <2>0, TailOfDistinct DEF RunPop, TypeOK, Unique, Queued
  <2>2. cur = NoTask /\ future[t] = "some" /\ ~ Armed(t)
        /\ (body[t] = "start" \/ (body[t] = "await" /\ completed[t]))
    <3>1. cur = NoTask
      BY <1>2 DEF RunPop, MainAt, Window, Polling
    <3>2. Resting(t)
      BY <3>1, <2>1 DEF Lifecycle
    <3> QED
      BY <3>1, <3>2, <2>1 DEF Resting, TypeOK
  <2>3. /\ future' = [future EXCEPT ![t] = "none"] /\ cur' = t
        /\ pc' = IF body[t] = "await" THEN "check" ELSE "new"
    BY <1>2, <2>0, <2>2 DEF RunPop
  <2>4. TypeOK' /\ NeverPanics' /\ Window' /\ Unique' /\ NeverEarly'
    <3>1. TypeOK'
      <4>1. /\ future' \in [Task -> {"unspawned", "some", "none"}]
            /\ pc' \in {"check", "new"} /\ cur' \in Task
        BY <2>1, <2>3 DEF TypeOK
      <4> QED
        BY <1>2, <2>1, <4>1, Zenon DEF RunPop, TypeOK, timerVars, irqVars
    <3>2. NeverPanics' /\ Window'
      BY <1>2, <2>1, <2>3 DEF RunPop, MainAt, NeverPanics, Window, Critical,
         Polling, timerVars, irqVars
    <3>3. Unique' /\ NeverEarly'
      BY <1>2, <2>1 DEF RunPop, Unique, NeverEarly, timerVars
    <3> QED
      BY <3>1, <3>2, <3>3
  <2>5. Lifecycle'
    <3>1. Polled(t)'
      BY <1>2, <2>1, <2>2, <2>3 DEF RunPop, TypeOK, Polled, Queued, Armed,
         timerVars
    <3>2. ASSUME NEW u \in Task, u # t PROVE Resting(u)'
      <4>1. Resting(u)
        BY <2>2, TaskAssumption DEF Lifecycle
      <4>2. Queued(u)' <=> Queued(u)
        BY <2>1, <3>2 DEF Queued
      <4>3. future'[u] = future[u]
        BY <2>3, <3>2 DEF TypeOK
      <4>4. UNCHANGED <<body, registered, completed, waker>>
        BY <1>2 DEF RunPop, timerVars
      <4> QED
        BY <4>1, <4>2, <4>3, <4>4 DEF Resting, Armed
    <3> QED
      BY <3>1, <3>2, <2>3 DEF Lifecycle
  <2> QED
    BY <2>4, <2>5
<1>3. CASE NewTimer
  <2>1. cur \in Task /\ ~ Armed(cur) /\ Polled(cur)
    BY <1>3 DEF NewTimer, MainAt, Window, Polling, TypeOK, Lifecycle, Polled
  <2>2. /\ registered' \in Seq(Task) /\ IsInjective(registered')
        /\ pc' = "check" /\ Len(registered') = Len(registered) + 1
        /\ Len(registered) \in Nat
        /\ \A u : Contains(registered', u) <=> (Contains(registered, u) \/ u = cur)
    <3>1. /\ registered' = Pushed(registered, cur, TimerCap)
          /\ pc' = PushedPc(registered, TimerCap, "check")
      BY <1>3 DEF NewTimer
    <3>2. /\ registered \in Seq(Task) /\ IsInjective(registered)
          /\ ~ Contains(registered, cur)
      BY <2>1 DEF TypeOK, Unique, Armed
    <3> QED
      BY <2>1, <3>1, <3>2, PushFresh, LenProperties
  <2>3. TypeOK' /\ NeverPanics' /\ Window' /\ Unique' /\ NeverEarly'
    BY <1>3, <2>1, <2>2 DEF NewTimer, MainAt, TypeOK, NeverPanics, Window,
       Unique, NeverEarly, Critical, Polling, irqVars
  <2>4. Lifecycle'
    <3>1. Polled(cur)'
      BY <1>3, <2>1, <2>2 DEF NewTimer, MainAt, TypeOK, Polled, Queued, Armed
    <3>2. ASSUME NEW u \in Task, u # cur PROVE Resting(u)'
      <4>1. Resting(u)
        BY <3>2 DEF Lifecycle
      <4>2. Armed(u)' <=> Armed(u)
        BY <2>2, <3>2 DEF Armed
      <4>3. /\ body'[u] = body[u] /\ completed'[u] = completed[u]
            /\ waker'[u] = waker[u] /\ UNCHANGED <<future, tasks>>
        BY <1>3, <3>2 DEF NewTimer, TypeOK
      <4> QED
        BY <4>1, <4>2, <4>3 DEF Resting, Queued
    <3>3. UNCHANGED cur
      BY <1>3 DEF NewTimer
    <3> QED
      BY <3>1, <3>2, <3>3 DEF Lifecycle
  <2> QED
    BY <2>3, <2>4
<1>4. CASE ScanExpired
  <2>0. PICK s \in Task : s = Head(registered)
    BY <1>4, TailOfDistinct DEF ScanExpired, TypeOK, Unique
  <2>1. /\ s \in Task /\ Armed(s)
        /\ registered' \in Seq(Task) /\ IsInjective(registered')
        /\ Len(registered') = Len(registered) - 1 /\ Len(registered) \in Nat
        /\ \A u : Contains(registered', u) <=> (Contains(registered, u) /\ u # s)
    BY <1>4, <2>0, TailOfDistinct, LenProperties DEF ScanExpired, TypeOK, Unique, Armed
  <2>2. /\ s \in due
        /\ completed' = [completed EXCEPT ![s] = TRUE]
        /\ waker' = [waker EXCEPT ![s] = FALSE]
        /\ tasks' = IF waker[s] THEN Pushed(tasks, s, TaskCap) ELSE tasks
        /\ pc' = IF waker[s] THEN PushedPc(tasks, TaskCap, pc) ELSE pc
    BY <1>4, <2>0 DEF ScanExpired
  <2>3. /\ cur = NoTask /\ future[s] = "some" /\ ~ Queued(s)
        /\ body[s] = "await" /\ waker[s] /\ remaining[s] < 0
    <3>1. cur = NoTask
      BY <1>4 DEF ScanExpired, Window, Critical, Polling
    <3>2. Resting(s)
      BY <3>1, <2>1 DEF Lifecycle
    <3>3. remaining[s] < 0
      BY <2>2 DEF Window
    <3> QED
      BY <3>1, <3>2, <3>3, <2>1 DEF Resting, TypeOK
  <2>4. /\ tasks' \in Seq(Task) /\ IsInjective(tasks') /\ pc' = pc
        /\ \A u : Contains(tasks', u) <=> (Contains(tasks, u) \/ u = s)
    <3>1. tasks' = Pushed(tasks, s, TaskCap) /\ pc' = PushedPc(tasks, TaskCap, pc)
      BY <2>2, <2>3
    <3>2. tasks \in Seq(Task) /\ IsInjective(tasks) /\ ~ Contains(tasks, s)
      BY <2>3 DEF TypeOK, Unique, Queued
    <3> QED
      BY <2>1, <3>1, <3>2, PushFresh
  <2>5. TypeOK' /\ NeverPanics' /\ Window' /\ Unique' /\ NeverEarly'
    <3>1. TypeOK'
      <4>1. left' \in 0..Len(registered')
        BY <1>4, <2>1 DEF ScanExpired, TypeOK
      <4>2. completed' \in [Task -> BOOLEAN] /\ waker' \in [Task -> BOOLEAN]
        BY <2>1, <2>2, Zenon DEF TypeOK
      <4> QED
        BY <1>4, <2>1, <2>4, <4>1, <4>2, Zenon DEF ScanExpired, TypeOK
    <3>2. NeverPanics' /\ Window'
      BY <1>4, <2>4 DEF ScanExpired, NeverPanics, Window
    <3>3. Unique'
      BY <2>1, <2>4 DEF Unique
    <3>4. NeverEarly'
      <4>1. UNCHANGED <<body, remaining>>
        BY <1>4 DEF ScanExpired
      <4>2. ASSUME NEW u \in Task, u # s PROVE completed'[u] = completed[u]
        BY <2>2, <4>2 DEF TypeOK
      <4> QED
        BY <2>3, <4>1, <4>2 DEF NeverEarly
    <3> QED
      BY <3>1, <3>2, <3>3, <3>4
  <2>6. Lifecycle'
    <3>1. UNCHANGED <<future, cur, body>>
      BY <1>4 DEF ScanExpired
    <3>2. Resting(s)'
      BY <2>1, <2>2, <2>3, <2>4, <3>1 DEF TypeOK, Resting, Queued, Armed
    <3>3. ASSUME NEW u \in Task, u # s PROVE Resting(u)'
      <4>1. Resting(u)
        BY <2>3 DEF Lifecycle
      <4>2. (Queued(u)' <=> Queued(u)) /\ (Armed(u)' <=> Armed(u))
        BY <2>1, <2>4, <3>3 DEF Queued, Armed
      <4>3. completed'[u] = completed[u] /\ waker'[u] = waker[u]
        BY <2>2, <3>3 DEF TypeOK
      <4> QED
        BY <3>1, <4>1, <4>2, <4>3 DEF Resting
    <3> QED
      BY <2>3, <3>1, <3>2, <3>3 DEF Lifecycle
  <2> QED
    BY <2>5, <2>6
<1>5. CASE ScanRequeue
  <2> DEFINE s == Head(registered)
             r == Tail(registered)
  <2>1. /\ s \in Task /\ Armed(s) /\ r \in Seq(Task) /\ IsInjective(r)
        /\ Len(r) = Len(registered) - 1 /\ Len(registered) \in Nat
        /\ \A u : Contains(r, u) <=> (Contains(registered, u) /\ u # s)
    BY <1>5, TailOfDistinct, LenProperties DEF ScanRequeue, TypeOK, Unique, Armed
  <2>2. registered' = Pushed(r, s, TimerCap) /\ pc' = PushedPc(r, TimerCap, pc)
    BY <1>5 DEF ScanRequeue
  <2> HIDE DEF s, r
  <2>3. /\ registered' \in Seq(Task) /\ IsInjective(registered') /\ pc' = pc
        /\ Len(registered') = Len(r) + 1
        /\ \A u : Contains(registered', u) <=> (Contains(r, u) \/ u = s)
    BY <2>1, <2>2, PushFresh
  <2>4. \A u : Contains(registered', u) <=> Contains(registered, u)
    BY <2>1, <2>3 DEF Armed
  <2>5. TypeOK' /\ NeverPanics' /\ Window' /\ Unique' /\ NeverEarly'
    <3>1. left' \in 0..Len(registered')
      BY <1>5, <2>1, <2>3 DEF ScanRequeue, TypeOK
    <3>2. TypeOK'
      BY <1>5, <2>3, <3>1, Zenon DEF ScanRequeue, TypeOK, taskVars
    <3>3. NeverPanics' /\ Window'
      BY <1>5, <2>3 DEF ScanRequeue, NeverPanics, Window, taskVars
    <3>4. Unique' /\ NeverEarly'
      BY <1>5, <2>3 DEF ScanRequeue, Unique, NeverEarly, taskVars
    <3> QED
      BY <3>2, <3>3, <3>4
  <2>6. Lifecycle'
    BY <1>5, <2>3, <2>4 DEF ScanRequeue, Lifecycle, Polled, Resting,
       Queued, Armed, taskVars
  <2> QED
    BY <2>5, <2>6
<1>6. CASE TimerIrq
  <2>1. left' \in 0..Len(registered')
    BY <1>6, LenProperties DEF TimerIrq, TripCount, TypeOK, timerVars
  <2>2. TypeOK' /\ NeverPanics' /\ Window' /\ Unique' /\ NeverEarly'
    <3>1. TypeOK'
      BY <1>6, <2>1, Zenon DEF TimerIrq, TypeOK, Awake, taskVars, timerVars
    <3>2. NeverPanics' /\ Window'
      BY <1>6 DEF TimerIrq, Expired, NeverPanics, Window, Critical, Polling,
         Awake, taskVars, timerVars
    <3>3. Unique' /\ NeverEarly'
      BY <1>6 DEF TimerIrq, Unique, NeverEarly, taskVars, timerVars
    <3> QED
      BY <3>1, <3>2, <3>3
  <2>3. Lifecycle'
    BY <1>6 DEF TimerIrq, Lifecycle, Polled, Resting, Queued, Armed, Awake,
       Window, Polling, Critical, TypeOK, taskVars, timerVars
  <2> QED
    BY <2>2, <2>3
<1>10. CASE PollReady
  <2>1. /\ cur \in Task /\ completed[cur] /\ body[cur] = "await"
        /\ future[cur] = "none" /\ ~ Queued(cur) /\ ~ Armed(cur)
    BY <1>10 DEF PollReady, MainAt, TypeOK, Window, Polling, Lifecycle, Polled
  <2>2. CASE cur \in Looping
    <3>1. TypeOK'
      BY <1>10, <2>1, <2>2, Zenon DEF PollReady, TypeOK, irqVars, timerVars
    <3>2. NeverPanics' /\ Window'
      BY <1>10, <2>1, <2>2 DEF PollReady, MainAt, NeverPanics, Window,
         Critical, Polling, irqVars, timerVars
    <3>3. Unique' /\ NeverEarly'
      BY <1>10, <2>1, <2>2 DEF PollReady, TypeOK, Unique, NeverEarly, timerVars
    <3>4. Lifecycle'
      BY <1>10, <2>1, <2>2 DEF PollReady, MainAt, TypeOK, Lifecycle, Polled,
         Resting, Queued, Armed, timerVars
    <3> QED
      BY <3>1, <3>2, <3>3, <3>4
  <2>3. CASE cur \notin Looping
    <3>1. TypeOK'
      BY <1>10, <2>1, <2>3, Zenon DEF PollReady, TypeOK, irqVars, timerVars
    <3>2. NeverPanics' /\ Window'
      BY <1>10, <2>1, <2>3 DEF PollReady, MainAt, NeverPanics, Window,
         Critical, Polling, irqVars, timerVars
    <3>3. Unique' /\ NeverEarly'
      BY <1>10, <2>1, <2>3 DEF PollReady, TypeOK, Unique, NeverEarly, timerVars
    <3>4. Lifecycle'
      BY <1>10, <2>1, <2>3 DEF PollReady, MainAt, TypeOK, Lifecycle, Polled,
         Resting, Queued, Armed, timerVars
    <3> QED
      BY <3>1, <3>2, <3>3, <3>4
  <2> QED
    BY <2>2, <2>3
<1>11. CASE PollPending
  <2>1. TypeOK' /\ NeverPanics' /\ Window' /\ Unique' /\ NeverEarly'
    BY <1>11 DEF PollPending, MainAt, TypeOK, NeverPanics, Window, Unique, NeverEarly,
       Lifecycle, Polled, Critical, Polling, irqVars, taskVars, timerVars
  <2>2. Lifecycle'
    BY <1>11 DEF PollPending, MainAt, TypeOK, Window, Polling, Lifecycle, Polled,
       Resting, Queued, Armed, taskVars, timerVars
  <2> QED
    BY <2>1, <2>2
<1>12. CASE LockWaker
  <2>1. TypeOK' /\ NeverPanics' /\ Window' /\ Unique' /\ NeverEarly'
    BY <1>12 DEF LockWaker, MainAt, TypeOK, NeverPanics, Window, Unique, NeverEarly,
       Lifecycle, Polled, Critical, Polling, irqVars, taskVars, timerVars
  <2>2. Lifecycle'
    BY <1>12 DEF LockWaker, MainAt, TypeOK, Window, Polling, Lifecycle, Polled,
       Resting, Queued, Armed, taskVars, timerVars
  <2> QED
    BY <2>1, <2>2
<1>13. CASE StoreWaker
  <2>1. TypeOK' /\ NeverPanics' /\ Window' /\ Unique' /\ NeverEarly'
    BY <1>13 DEF StoreWaker, MainAt, TypeOK, NeverPanics, Window, Unique, NeverEarly,
       Lifecycle, Polled, Critical, Polling, irqVars, taskVars, timerVars
  <2>2. Lifecycle'
    BY <1>13 DEF StoreWaker, MainAt, TypeOK, Window, Polling, Lifecycle, Polled,
       Resting, Queued, Armed, taskVars, timerVars
  <2> QED
    BY <2>1, <2>2
<1>14. CASE PutBack
  <2>1. TypeOK' /\ NeverPanics' /\ Window' /\ Unique' /\ NeverEarly'
    BY <1>14 DEF PutBack, MainAt, TypeOK, NeverPanics, Window, Unique, NeverEarly,
       Lifecycle, Polled, Critical, Polling, irqVars, taskVars, timerVars
  <2>2. Lifecycle'
    BY <1>14 DEF PutBack, MainAt, TypeOK, Window, Polling, Lifecycle, Polled,
       Resting, Queued, Armed, taskVars, timerVars
  <2> QED
    BY <2>1, <2>2
(* The other actions leave the tasks and the queues alone.                 *)
<1>7. CASE Launch
  <2>1. TypeOK' /\ Unique' /\ NeverEarly'
    BY <1>7 DEF Launch, TypeOK, Unique, NeverEarly, irqVars, taskVars, timerVars
  <2>2. NeverPanics' /\ Window'
    BY <1>7 DEF Launch, MainAt, TypeOK, NeverPanics, Window, Critical, Polling,
       irqVars, taskVars, timerVars
  <2>3. Lifecycle'
    BY <1>7 DEF Launch, MainAt, Window, Critical, Polling, Lifecycle, Polled,
       Resting, Queued, Armed, irqVars, taskVars, timerVars
  <2> QED
    BY <2>1, <2>2, <2>3
<1>8. CASE DisableInterrupt
  <2>1. TypeOK' /\ Unique' /\ NeverEarly'
    BY <1>8, Zenon DEF DisableInterrupt, TypeOK, Unique, NeverEarly, irqVars, taskVars, timerVars
  <2>2. NeverPanics' /\ Window'
    BY <1>8 DEF DisableInterrupt, MainAt, TypeOK, NeverPanics, Window, Critical, Polling,
       irqVars, taskVars, timerVars
  <2>3. Lifecycle'
    BY <1>8 DEF DisableInterrupt, MainAt, Window, Critical, Polling, Lifecycle, Polled,
       Resting, Queued, Armed, irqVars, taskVars, timerVars
  <2> QED
    BY <2>1, <2>2, <2>3
<1>9. CASE RunDone
  <2>1. TypeOK' /\ Unique' /\ NeverEarly'
    BY <1>9 DEF RunDone, TypeOK, Unique, NeverEarly, irqVars, taskVars, timerVars
  <2>2. NeverPanics' /\ Window'
    BY <1>9 DEF RunDone, MainAt, TypeOK, NeverPanics, Window, Critical, Polling,
       irqVars, taskVars, timerVars
  <2>3. Lifecycle'
    BY <1>9 DEF RunDone, MainAt, Window, Critical, Polling, Lifecycle, Polled,
       Resting, Queued, Armed, irqVars, taskVars, timerVars
  <2> QED
    BY <2>1, <2>2, <2>3
<1>15. CASE EnableInterrupt
  <2>1. TypeOK' /\ Unique' /\ NeverEarly'
    BY <1>15 DEF EnableInterrupt, TypeOK, Unique, NeverEarly, irqVars, taskVars, timerVars
  <2>2. NeverPanics' /\ Window'
    BY <1>15 DEF EnableInterrupt, MainAt, TypeOK, NeverPanics, Window, Critical, Polling,
       irqVars, taskVars, timerVars
  <2>3. Lifecycle'
    BY <1>15 DEF EnableInterrupt, MainAt, Window, Critical, Polling, Lifecycle, Polled,
       Resting, Queued, Armed, irqVars, taskVars, timerVars
  <2> QED
    BY <2>1, <2>2, <2>3
<1>16. CASE Halt
  <2>1. TypeOK' /\ Unique' /\ NeverEarly'
    BY <1>16 DEF Halt, TypeOK, Unique, NeverEarly, irqVars, taskVars, timerVars
  <2>2. NeverPanics' /\ Window'
    BY <1>16 DEF Halt, MainAt, TypeOK, NeverPanics, Window, Critical, Polling,
       irqVars, taskVars, timerVars
  <2>3. Lifecycle'
    BY <1>16 DEF Halt, MainAt, Window, Critical, Polling, Lifecycle, Polled,
       Resting, Queued, Armed, irqVars, taskVars, timerVars
  <2> QED
    BY <2>1, <2>2, <2>3
<1>17. CASE IrqReturn
  <2>1. TypeOK' /\ Unique' /\ NeverEarly'
    BY <1>17 DEF IrqReturn, TypeOK, Unique, NeverEarly, irqVars, taskVars, timerVars
  <2>2. NeverPanics' /\ Window'
    BY <1>17 DEF IrqReturn, MainAt, TypeOK, NeverPanics, Window, Critical, Polling,
       irqVars, taskVars, timerVars
  <2>3. Lifecycle'
    BY <1>17 DEF IrqReturn, MainAt, Window, Critical, Polling, Lifecycle, Polled,
       Resting, Queued, Armed, irqVars, taskVars, timerVars
  <2> QED
    BY <2>1, <2>2, <2>3
<1>18. CASE NetIrq
  <2>1. TypeOK' /\ Unique' /\ NeverEarly'
    BY <1>18 DEF NetIrq, Awake, TypeOK, Unique, NeverEarly, irqVars, taskVars, timerVars
  <2>2. NeverPanics' /\ Window'
    BY <1>18 DEF NetIrq, Awake, MainAt, TypeOK, NeverPanics, Window, Critical, Polling,
       irqVars, taskVars, timerVars
  <2>3. Lifecycle'
    BY <1>18 DEF NetIrq, Awake, MainAt, Window, Critical, Polling, Lifecycle, Polled,
       Resting, Queued, Armed, irqVars, taskVars, timerVars
  <2> QED
    BY <2>1, <2>2, <2>3
<1>19. CASE Tick
  <2>1. TypeOK' /\ Unique' /\ NeverEarly'
    BY <1>19 DEF Tick, TypeOK, Unique, NeverEarly, irqVars, taskVars, timerVars
  <2>2. NeverPanics' /\ Window'
    BY <1>19 DEF Tick, MainAt, TypeOK, NeverPanics, Window, Critical, Polling,
       irqVars, taskVars, timerVars
  <2>3. Lifecycle'
    BY <1>19 DEF Tick, MainAt, Window, Critical, Polling, Lifecycle, Polled,
       Resting, Queued, Armed, irqVars, taskVars, timerVars
  <2> QED
    BY <2>1, <2>2, <2>3
<1>20. CASE UNCHANGED vars
  BY <1>20 DEF vars, irqVars, taskVars, timerVars, TypeOK, NeverPanics, Window,
     Unique, Lifecycle, NeverEarly, Polled, Resting, Queued, Armed
<1> HIDE DEF IndInv
<1>21. MainStep => IndInv'
  BY <1>1, <1>2, <1>3, <1>7, <1>8, <1>9, <1>10, <1>11, <1>12, <1>13, <1>14,
     <1>15, <1>16, Zenon
  DEF MainStep
<1>22. Handler => IndInv'
  BY <1>4, <1>5, <1>17, Zenon DEF Handler
<1> QED
  BY <1>6, <1>18, <1>19, <1>20, <1>21, <1>22, Zenon DEF Next

(* Every state the executor and the timer interrupt reach satisfies the    *)
(* inductive invariant.                                                    *)
THEOREM IndInvariant == Spec => []IndInv
<1>1. Init => IndInv
  BY InitIndInv
<1>2. IndInv /\ [Next]_vars => IndInv'
  BY NextIndInv
<1> QED
  BY <1>1, <1>2, PTL DEF Spec

(* Type correctness of the executor and timer state.                       *)
THEOREM TypeCorrect == Spec => []TypeOK
<1>1. IndInv => TypeOK
  BY DEF IndInv
<1> QED
  BY <1>1, IndInvariant, PTL

(* No task of Executor::run is ever left without a wake-up to come.        *)
THEOREM WakeupNeverLost == Spec => []NoLostWakeup
<1>1. IndInv => NoLostWakeup
  <2> SUFFICES ASSUME IndInv, NEW t \in Task, future[t] = "some", ~ Queued(t)
               PROVE  body[t] = "await" /\ Armed(t) /\ ~ completed[t] /\ waker[t]
    BY DEF NoLostWakeup
  <2>1. t # cur
    BY DEF IndInv, Lifecycle, Polled
  <2> QED
    BY <2>1 DEF IndInv, Lifecycle, Resting
<1> QED
  BY <1>1, IndInvariant, PTL

(* The two bounded queues never overflow, so no expect() of executor.rs or *)
(* timer.rs panics.                                                        *)
THEOREM QueuesNeverOverflow == Spec => []NeverPanics
<1>1. IndInv => NeverPanics
  BY DEF IndInv
<1> QED
  BY <1>1, IndInvariant, PTL

(* check_timerfutures_from_interrupt never spins on a waker lock.          *)
THEOREM HandlerLockFree == Spec => []HandlerNeverSpins
<1>1. IndInv => HandlerNeverSpins
  BY DEF IndInv, Window, Critical, HandlerNeverSpins
<1> QED
  BY <1>1, IndInvariant, PTL

(* No TimerFuture completes before its expiry.                             *)
THEOREM NoEarlyCompletion == Spec => []NeverEarly
<1>1. IndInv => NeverEarly
  BY DEF IndInv
<1> QED
  BY <1>1, IndInvariant, PTL

-----------------------------------------------------------------------------
(* The executor implements Scheduler: every step moves one task from one   *)
(* abstract state to another, or none.                                     *)

(* A step that changes the abstract state of no task and no timer.         *)
LEMMA StutterStep ==
  ASSUME \A t \in Task : TaskState(t)' = TaskState(t), remaining' = remaining
  PROVE  UNCHANGED Sched!vars
  BY DEF Sched!vars

(* A step of run(), of a task or of the handler that moves one task from   *)
(* one abstract state to another.                                          *)
LEMMA MoveStep ==
  ASSUME NEW t \in Task, NEW from, NEW to,
         TaskState(t) = from, TaskState(t)' = to,
         \A u \in Task \ {t} : TaskState(u)' = TaskState(u)
  PROVE  Sched!Move(t, from, to)
  BY DEF Sched!Move

(* The boot state is that of a scheduler to which nothing was given.       *)
LEMMA InitScheduler == Init => Sched!Init
<1> SUFFICES ASSUME Init PROVE Sched!Init
  OBVIOUS
<1>1. \A x : ~ Contains(<< >>, x)
  BY EmptySeq DEF Contains
<1>2. \A t \in Task : TaskState(t) = "unspawned"
  BY <1>1, TaskAssumption DEF Init, TaskState, Queued
<1>3. \A t \in Task : ~ (remaining[t] < 0)
  BY DEF Init
<1> QED
  BY <1>2, <1>3 DEF Sched!Init

-----------------------------------------------------------------------------
(* Executor::spawn and run.                                                *)
LEMMA SpawnStep ==
  ASSUME IndInv, NEW t \in Task, Spawn(t)
  PROVE  Sched!Spawn(t)
<1> USE TaskAssumption, CapAssumption
<1>1. cur = NoTask /\ ~ Queued(t) /\ future[t] = "unspawned"
  BY DEF IndInv, Spawn, MainAt, Window, Polling, Lifecycle, Resting
<1>2. \A u : Contains(tasks', u) <=> (Contains(tasks, u) \/ u = t)
  BY <1>1, PushFresh DEF IndInv, Spawn, TypeOK, Unique, Queued
<1>3. /\ future' = [future EXCEPT ![t] = "some"] /\ future \in [Task -> {"unspawned", "some", "none"}]
      /\ cur' = cur /\ remaining' = remaining
  BY DEF IndInv, TypeOK, Spawn, timerVars
<1>4. TaskState(t) = "unspawned" /\ TaskState(t)' = "ready"
  BY <1>1, <1>2, <1>3 DEF TaskState, Queued
<1>5. \A u \in Task \ {t} : TaskState(u)' = TaskState(u)
  BY <1>1, <1>2, <1>3 DEF TaskState, Queued
<1>6. Sched!Move(t, "unspawned", "ready")
  BY <1>4, <1>5, MoveStep
<1> QED
  BY <1>3, <1>6 DEF Sched!Spawn

(* run pops a task, or finds the queue empty.                              *)
LEMMA RunPopStep ==
  ASSUME IndInv, RunPop
  PROVE  \E t \in Task : Sched!Run(t)
<1> USE TaskAssumption
<1>0. PICK t \in Task : t = Head(tasks)
  BY TailOfDistinct DEF RunPop, IndInv, TypeOK, Unique
<1>1. /\ Queued(t)
      /\ \A u : Contains(tasks', u) <=> (Contains(tasks, u) /\ u # t)
  BY <1>0, TailOfDistinct DEF RunPop, IndInv, TypeOK, Unique, Queued
<1>2. /\ cur = NoTask /\ future[t] = "some"
      /\ body[t] = "start" \/ (body[t] = "await" /\ completed[t])
  <2>1. cur = NoTask
    BY DEF IndInv, RunPop, MainAt, Window, Polling
  <2>2. Resting(t)
    BY <2>1 DEF IndInv, Lifecycle
  <2> QED
    BY <1>1, <2>1, <2>2 DEF Resting, IndInv, TypeOK
<1>3. /\ future' = [future EXCEPT ![t] = "none"] /\ cur' = t
      /\ pc' = IF body[t] = "await" THEN "check" ELSE "new"
      /\ completed' = completed /\ remaining' = remaining
  BY <1>0, <1>2 DEF RunPop, timerVars
<1>4. TaskState(t) = "ready" /\ TaskState(t)' = "running"
  BY <1>1, <1>2, <1>3 DEF TaskState
<1>5. \A u \in Task \ {t} : TaskState(u)' = TaskState(u)
  <2> TAKE u \in Task \ {t}
  <2>1. future'[u] = future[u] /\ (Queued(u)' <=> Queued(u)) /\ u # cur /\ u # cur'
    BY <1>1, <1>2, <1>3 DEF IndInv, TypeOK, Queued
  <2> QED
    BY <2>1 DEF TaskState
<1>6. Sched!Move(t, "ready", "running")
  BY <1>4, <1>5, MoveStep
<1>7. \A u \in Task : TaskState(u) \notin {"running", "armed"}
  BY <1>2 DEF TaskState
<1> QED
  BY <1>3, <1>6, <1>7 DEF Sched!Run

(* TimerFuture::new and poll, and what run() does with the result.         *)
LEMMA NewTimerStep ==
  ASSUME IndInv, NewTimer
  PROVE  \E t \in Task : Sched!Arm(t)
<1> USE TaskAssumption, DurationAssumption, CapAssumption
<1>0. PICK t \in Task : t = cur
  BY DEF IndInv, NewTimer, MainAt, TypeOK, Window, Polling
<1>1. pc = "new" /\ ~ Contains(registered, t)
  BY <1>0 DEF IndInv, NewTimer, MainAt, Lifecycle, Polled, Armed
<1>2. pc' = "check"
  BY <1>0, <1>1, PushFresh DEF IndInv, NewTimer, TypeOK, Unique
<1>3. /\ completed' = [completed EXCEPT ![t] = FALSE]
      /\ completed \in [Task -> BOOLEAN]
      /\ UNCHANGED <<tasks, future, cur>>
  BY <1>0 DEF IndInv, TypeOK, NewTimer
<1>4. TaskState(t) = "running" /\ TaskState(t)' = "armed"
  <2>1. completed'[t] = FALSE
    BY <1>3
  <2> QED
    BY <1>0, <1>1, <1>2, <1>3, <2>1 DEF TaskState
<1>5. \A u \in Task \ {t} : TaskState(u)' = TaskState(u)
  BY <1>0, <1>3 DEF TaskState, Queued
<1>6. Sched!Move(t, "running", "armed")
  BY <1>4, <1>5, MoveStep
<1>7. {u \in Task : remaining'[u] < 0} = {u \in Task : remaining[u] < 0} \ {t}
  <2>1. remaining' = [remaining EXCEPT ![t] = Duration[t]] /\ remaining \in [Task -> Int]
    BY <1>0 DEF IndInv, TypeOK, NewTimer
  <2>2. ~ (Duration[t] < 0)
    OBVIOUS
  <2> QED
    BY <2>1, <2>2
<1> QED
  BY <1>6, <1>7 DEF Sched!Arm

(* A polled task completes.                                                *)
LEMMA PollReadyStep ==
  ASSUME IndInv, PollReady
  PROVE  UNCHANGED Sched!vars \/ Sched!Finish(cur)
<1> USE TaskAssumption
<1>1. /\ cur \in Task /\ completed[cur] /\ body[cur] = "await" /\ pc = "check"
      /\ future[cur] = "none" /\ ~ Queued(cur)
  BY DEF IndInv, PollReady, MainAt, TypeOK, Window, Polling, Lifecycle, Polled
<1>2. UNCHANGED <<tasks, future, completed, remaining>>
  BY DEF PollReady, timerVars
<1>3. remaining[cur] < 0
  BY <1>1 DEF IndInv, NeverEarly
<1>4. CASE cur \in Looping
  <2>1. pc' = "new" /\ cur' = cur
    BY <1>4 DEF PollReady
  <2>2. \A t \in Task : TaskState(t)' = TaskState(t)
    BY <1>1, <1>2, <2>1 DEF TaskState, Queued
  <2> QED
    BY <1>2, <2>2, StutterStep
<1>5. CASE cur \notin Looping
  <2>1. cur' = NoTask
    BY <1>5 DEF PollReady
  <2>2. TaskState(cur) = "running"
    BY <1>1 DEF TaskState
  <2>3. PICK t \in Task : t = cur
    BY <1>1
  <2>4. TaskState(t)' = "done"
    BY <1>1, <1>2, <2>1, <2>3 DEF TaskState, Queued
  <2>5. \A u \in Task \ {t} : TaskState(u)' = TaskState(u)
    BY <1>2, <2>1, <2>3 DEF TaskState, Queued
  <2>6. Sched!Move(t, "running", "done")
    BY <2>2, <2>3, <2>4, <2>5, MoveStep
  <2> QED
    BY <1>2, <1>3, <2>3, <2>6 DEF Sched!Finish
<1> QED
  BY <1>4, <1>5

(* run puts a pending task back.                                           *)
LEMMA PutBackStep ==
  ASSUME IndInv, PutBack
  PROVE  \E t \in Task : Sched!Sleep(t)
<1> USE TaskAssumption
<1>0. PICK t \in Task : t = cur
  BY DEF IndInv, PutBack, MainAt, TypeOK, Window, Polling
<1>1. pc = "putback" /\ ~ completed[t] /\ ~ Queued(t)
  BY <1>0 DEF IndInv, PutBack, MainAt, Lifecycle, Polled
<1>2. /\ UNCHANGED <<tasks, completed, remaining>> /\ cur' = NoTask
      /\ future' = [future EXCEPT ![t] = "some"]
      /\ future \in [Task -> {"unspawned", "some", "none"}]
  BY <1>0 DEF PutBack, timerVars, IndInv, TypeOK
<1>3. TaskState(t) = "armed" /\ TaskState(t)' = "asleep"
  BY <1>0, <1>1, <1>2 DEF TaskState, Queued
<1>4. \A u \in Task \ {t} : TaskState(u)' = TaskState(u)
  BY <1>0, <1>2 DEF TaskState, Queued
<1>5. Sched!Move(t, "armed", "asleep")
  BY <1>3, <1>4, MoveStep
<1> QED
  BY <1>2, <1>5 DEF Sched!Sleep

-----------------------------------------------------------------------------
(* The timer handler and the clock.                                        *)
LEMMA ScanExpiredStep ==
  ASSUME IndInv, ScanExpired
  PROVE  \E t \in Task : Sched!Wake(t)
<1> USE TaskAssumption, CapAssumption
<1>0. PICK s \in Task : s = Head(registered)
  BY TailOfDistinct DEF ScanExpired, IndInv, TypeOK, Unique
<1>1. Armed(s)
  BY <1>0, TailOfDistinct DEF ScanExpired, IndInv, TypeOK, Unique, Armed
<1>2. cur = NoTask
  BY DEF ScanExpired, IndInv, Window, Critical, Polling
<1>3. remaining[s] < 0
  BY <1>0 DEF ScanExpired, IndInv, Window
<1>4. future[s] = "some" /\ ~ Queued(s) /\ waker[s]
  <2>1. Resting(s)
    BY <1>2 DEF IndInv, Lifecycle
  <2> QED
    BY <1>1, <2>1 DEF Resting, IndInv, TypeOK
<1>5. \A u : Contains(tasks', u) <=> (Contains(tasks, u) \/ u = s)
  <2>1. tasks' = Pushed(tasks, s, TaskCap)
    BY <1>0, <1>4 DEF ScanExpired
  <2>2. tasks \in Seq(Task) /\ IsInjective(tasks) /\ ~ Contains(tasks, s)
    BY <1>4 DEF IndInv, TypeOK, Unique, Queued
  <2> QED
    BY <2>1, <2>2, PushFresh
<1>6. UNCHANGED <<future, cur, remaining>>
  BY DEF ScanExpired
<1>7. TaskState(s) = "asleep" /\ TaskState(s)' = "ready"
  BY <1>2, <1>4, <1>5, <1>6 DEF TaskState, Queued
<1>8. \A u \in Task \ {s} : TaskState(u)' = TaskState(u)
  BY <1>2, <1>5, <1>6 DEF TaskState, Queued
<1>9. Sched!Move(s, "asleep", "ready")
  BY <1>7, <1>8, MoveStep
<1> QED
  BY <1>3, <1>6, <1>9 DEF Sched!Wake

(* Time passes.                                                            *)
LEMMA TickStep ==
  ASSUME IndInv, Tick
  PROVE  Sched!Elapse
<1>1. \A t \in Task : TaskState(t)' = TaskState(t)
  BY DEF Tick, taskVars, TaskState, Queued
<1>2. \A t \in Task : remaining[t] < 0 => remaining'[t] < 0
  BY DEF Tick, IndInv, TypeOK
<1> QED
  BY <1>1, <1>2 DEF Sched!Elapse

(* The steps that touch locks, wakers, interrupts and the program counter  *)
(* only: seen from the tasks nothing happens.                              *)
LEMMA QuietStep ==
  ASSUME IndInv,
         \/ Launch \/ DisableInterrupt \/ RunDone \/ PollPending \/ LockWaker
         \/ StoreWaker \/ EnableInterrupt \/ Halt
         \/ TimerIrq \/ ScanRequeue \/ IrqReturn \/ NetIrq
  PROVE  UNCHANGED Sched!vars
<1> USE TaskAssumption
<1>1. UNCHANGED <<tasks, future, cur, completed, remaining>>
  BY DEF Launch, DisableInterrupt, RunDone, PollPending, LockWaker, StoreWaker,
     EnableInterrupt, Halt, TimerIrq, ScanRequeue, IrqReturn, NetIrq, taskVars, timerVars
<1>2. CASE cur = NoTask
  BY <1>1, <1>2, StutterStep DEF TaskState, Queued
<1>3. CASE cur # NoTask
  <2>1. PollPending \/ LockWaker \/ StoreWaker
    BY <1>3 DEF IndInv, Window, Polling, Critical, Launch, DisableInterrupt, RunDone,
       EnableInterrupt, Halt, TimerIrq, ScanRequeue, IrqReturn, NetIrq, MainAt
  <2>2. pc # "new" /\ pc' # "new"
    BY <2>1 DEF PollPending, LockWaker, StoreWaker, MainAt
  <2> QED
    BY <1>1, <2>2, StutterStep DEF TaskState, Queued
<1> QED
  BY <1>2, <1>3

-----------------------------------------------------------------------------
(* Every step of the executor is a step of the scheduler or none at all.   *)
LEMMA NextScheduler == IndInv /\ [Next]_vars => [Sched!Next]_(Sched!vars)
<1> SUFFICES ASSUME IndInv, [Next]_vars PROVE Sched!Next \/ UNCHANGED Sched!vars
  OBVIOUS
<1>1. ASSUME NEW t \in Task, Spawn(t) PROVE Sched!Next
  BY <1>1, SpawnStep DEF Sched!Next
<1>2. CASE RunPop
  BY <1>2, RunPopStep DEF Sched!Next
<1>3. CASE NewTimer
  BY <1>3, NewTimerStep DEF Sched!Next
<1>4. CASE PollReady
  <2>1. cur \in Task
    BY <1>4 DEF IndInv, PollReady, MainAt, TypeOK, Window, Polling
  <2> QED
    BY <1>4, <2>1, PollReadyStep DEF Sched!Next
<1>5. CASE PutBack
  BY <1>5, PutBackStep DEF Sched!Next
<1>6. CASE ScanExpired
  BY <1>6, ScanExpiredStep DEF Sched!Next
<1>7. CASE Tick
  BY <1>7, TickStep DEF Sched!Next
<1>8. CASE UNCHANGED vars
  <2>1. UNCHANGED <<tasks, future, cur, completed, remaining, pc>>
    BY <1>8 DEF vars, taskVars, timerVars
  <2> QED
    BY <2>1, StutterStep DEF TaskState, Queued
<1> QED
  BY <1>1, <1>2, <1>3, <1>4, <1>5, <1>6, <1>7, <1>8, QuietStep
     DEF Next, MainStep, Handler

(* The executor, its timers and the interrupt handler implement Scheduler: *)
(* one task at a time, woken only after its timer has run out, never twice *)
(* for one timer, never while it runs, finished only after its timer.      *)
THEOREM ExecutorImplementsScheduler == Spec => ImplementsScheduler
<1>1. Spec => []IndInv
  BY IndInvariant
<1> QED
  BY <1>1, InitScheduler, NextScheduler, PTL DEF Spec, ImplementsScheduler, Sched!Spec
=============================================================================
