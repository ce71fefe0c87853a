CONSTANTS
  Cancellers = {"reader", "stopper"}
  MaxCancels = 2
SPECIFICATION TimerFairSpec
INVARIANT TimerInv
PROPERTY ImplementsAtomicTimer
PROPERTY WaitEnds
