CONSTANTS
  t1 = t1
  t2 = t2
  t3 = t3
  NoTask = NoTask
  Task <- MCThree
  Looping <- MCTwo
  Duration <- MCDurationThree
  TaskCap = 3
  TimerCap = 3
SPECIFICATION FairSpec
INVARIANTS
  NoLostWakeup
  NeverPanics
  HandlerNeverSpins
  NeverEarly
  IndInv
PROPERTIES
  TaskPolledAgain
  ImplementsScheduler
