--------------------------- MODULE SyncTimerProofs ---------------------------
(***************************************************************************)
(* SyncTimer implements AtomicTimer, for any set of cancelling threads:    *)
(* the protocol modules may treat a start, a cancellation and the end of a *)
(* wait as single steps.                                                   *)
(***************************************************************************)
EXTENDS SyncTimer, TLAPS

(* The invariant, with the Boolean flags apart from the rest *)

TimerFlagsOK == start_running \in BOOLEAN /\ expired \in BOOLEAN /\ notified \in BOOLEAN

TimerControlOK ==
    /\ mutex_lock \in Cancellers \cup {"waiter", "free"}
    /\ waiter \in {"out", "start", "predicate", "sleep", "relock", "return"}
    /\ timer_state \in {"kIdle", "kCancelRequested", "kTimeout"}
    /\ canceller \in [Cancellers -> {"out", "locked", "notify", "unlock"}]
    /\ cancels \in [Cancellers -> 0 .. MaxCancels]

\* Whoever is inside a critical section holds the mutex, and only then; a wait
\* that has ended has a reason.
MutexHeld ==
    /\ waiter \in {"start", "predicate", "return"} <=> mutex_lock = "waiter"
    /\ \A c \in Cancellers : canceller[c] # "out" <=> mutex_lock = c
    /\ waiter = "return" => timer_state \in {"kTimeout", "kCancelRequested"}

\* A step keeps the timer's flags Boolean.
LEMMA TimerFlagsStep == TimerFlagsOK /\ [TimerNext]_timerVars => TimerFlagsOK'
<1> SUFFICES ASSUME TimerFlagsOK, [TimerNext]_timerVars PROVE TimerFlagsOK'
  OBVIOUS
<1> USE DEF TimerFlagsOK
<1>1. CASE WaitForTimeout \/ Waiter \/ SpuriousWakeUp \/ ClockPassesExpiry
  BY <1>1 DEF WaitForTimeout, Waiter, Start, PredicateTimeout, PredicateCancelled,
              Sleep, WakeUp, Relock, ReturnFromStart, SpuriousWakeUp, ClockPassesExpiry
<1>2. ASSUME NEW c \in Cancellers, CancelWait(c) PROVE TimerFlagsOK'
  BY <1>2 DEF CancelWait
<1>3. ASSUME NEW c \in Cancellers, Stop(c) PROVE TimerFlagsOK'
  BY <1>3 DEF Stop, StopRunning, NotifyAll, ReturnFromStop
<1>4. CASE UNCHANGED timerVars
  BY <1>4 DEF timerVars
<1> QED
  BY <1>1, <1>2, <1>3, <1>4 DEF TimerNext

\* A step keeps the locations typed and the mutex with the thread that is in a
\* critical section.
LEMMA MutexStep ==
    TimerControlOK /\ MutexHeld /\ [TimerNext]_timerVars => (TimerControlOK /\ MutexHeld)'
<1> SUFFICES ASSUME TimerControlOK, MutexHeld, [TimerNext]_timerVars
             PROVE  (TimerControlOK /\ MutexHeld)'
  OBVIOUS
<1> USE SyncTimerAssumption DEF TimerControlOK, MutexHeld
<1>1. CASE WaitForTimeout
  BY <1>1 DEF WaitForTimeout
<1>2. CASE Start
  BY <1>2 DEF Start
<1>3. CASE PredicateTimeout
  BY <1>3 DEF PredicateTimeout
<1>4. CASE PredicateCancelled
  BY <1>4 DEF PredicateCancelled
<1>5. CASE Sleep
  BY <1>5 DEF Sleep
<1>6. CASE WakeUp
  BY <1>6 DEF WakeUp
<1>7. CASE SpuriousWakeUp
  BY <1>7 DEF SpuriousWakeUp
<1>8. CASE Relock
  BY <1>8 DEF Relock
<1>9. CASE ReturnFromStart
  BY <1>9 DEF ReturnFromStart
<1>10. CASE ClockPassesExpiry
  BY <1>10 DEF ClockPassesExpiry
<1>11. ASSUME NEW c \in Cancellers, CancelWait(c)
       PROVE  (TimerControlOK /\ MutexHeld)'
  BY <1>11 DEF CancelWait
<1>12. ASSUME NEW c \in Cancellers, StopRunning(c)
       PROVE  (TimerControlOK /\ MutexHeld)'
  BY <1>12 DEF StopRunning
<1>13. ASSUME NEW c \in Cancellers, NotifyAll(c)
       PROVE  (TimerControlOK /\ MutexHeld)'
  BY <1>13 DEF NotifyAll
<1>14. ASSUME NEW c \in Cancellers, ReturnFromStop(c)
       PROVE  (TimerControlOK /\ MutexHeld)'
  BY <1>14 DEF ReturnFromStop
<1>15. CASE UNCHANGED timerVars
  BY <1>15 DEF timerVars
<1> QED
  BY <1>1, <1>2, <1>3, <1>4, <1>5, <1>6, <1>7, <1>8, <1>9, <1>10, <1>11, <1>12,
     <1>13, <1>14, <1>15 DEF TimerNext, Waiter, Stop

\* A thread is inside its critical section of the SyncTimer exactly while it
\* holds mutex_lock_, however many threads cancel.
THEOREM TimerInvariant == TimerSpec => []TimerInv
<1>1. TimerInit => TimerFlagsOK
  BY DEF TimerInit, TimerFlagsOK
<1>2. TimerInit => TimerControlOK /\ MutexHeld
  BY SyncTimerAssumption DEF TimerInit, TimerControlOK, MutexHeld
<1>3. TimerFlagsOK /\ TimerControlOK /\ MutexHeld => TimerInv
  BY DEF TimerFlagsOK, TimerControlOK, MutexHeld, TimerInv, TimerTypeOK
<1> QED
  BY <1>1, <1>2, <1>3, TimerFlagsStep, MutexStep, PTL DEF TimerSpec

-----------------------------------------------------------------------------
(* The refinement *)

\* Every step of a thread is one step of the atomic timer or none: starting
\* takes effect at start_running_ = true, a cancellation at start_running_ =
\* false and the end of a wait where the predicate holds; the mutex, sleeping
\* and waking up are invisible.
THEOREM RefinesAtomicTimer == TimerSpec => ImplementsAtomicTimer
<1>1. TimerInit => Atomic!AtomicInit
  BY DEF TimerInit, Atomic!AtomicInit
<1>2. TimerInv /\ [TimerNext]_timerVars => [Atomic!AtomicNext]_(Atomic!atomicVars)
  <2> SUFFICES ASSUME TimerInv, [TimerNext]_timerVars
               PROVE  Atomic!AtomicNext \/ UNCHANGED Atomic!atomicVars
    OBVIOUS
  <2> USE DEF TimerInv, TimerTypeOK
  <2>1. CASE WaitForTimeout
    BY <2>1 DEF WaitForTimeout, Atomic!atomicVars
  <2>2. CASE Start
    <3>1. Atomic!BeginWait
      BY <2>2 DEF Start, Atomic!BeginWait
    <3> QED
      BY <3>1 DEF Atomic!AtomicNext
  <2>3. CASE PredicateTimeout
    <3>1. Atomic!EndTimeout
      BY <2>3 DEF PredicateTimeout, Atomic!EndTimeout
    <3> QED
      BY <3>1 DEF Atomic!AtomicNext
  <2>4. CASE PredicateCancelled
    <3>1. Atomic!EndCancelled
      BY <2>4 DEF PredicateCancelled, Atomic!EndCancelled
    <3> QED
      BY <3>1 DEF Atomic!AtomicNext
  <2>5. CASE Sleep
    BY <2>5 DEF Sleep, Atomic!atomicVars
  <2>6. CASE WakeUp \/ SpuriousWakeUp
    BY <2>6 DEF WakeUp, SpuriousWakeUp, Atomic!atomicVars
  <2>7. CASE Relock
    BY <2>7 DEF Relock, Atomic!atomicVars
  <2>8. CASE ReturnFromStart
    <3>1. Atomic!Leave
      BY <2>8 DEF ReturnFromStart, Atomic!Leave
    <3> QED
      BY <3>1 DEF Atomic!AtomicNext
  <2>9. CASE ClockPassesExpiry
    <3>1. Atomic!Expire
      BY <2>9 DEF ClockPassesExpiry, Atomic!Expire
    <3> QED
      BY <3>1 DEF Atomic!AtomicNext
  <2>10. ASSUME NEW c \in Cancellers, StopRunning(c) PROVE Atomic!AtomicNext
    <3>1. Atomic!Cancel
      BY <2>10 DEF StopRunning, Atomic!Cancel
    <3> QED
      BY <3>1 DEF Atomic!AtomicNext
  <2>11. ASSUME NEW c \in Cancellers, CancelWait(c) \/ NotifyAll(c) \/ ReturnFromStop(c)
         PROVE  UNCHANGED Atomic!atomicVars
    BY <2>11 DEF CancelWait, NotifyAll, ReturnFromStop, Atomic!atomicVars
  <2>12. CASE UNCHANGED timerVars
    BY <2>12 DEF timerVars, Atomic!atomicVars
  <2> QED
    BY <2>1, <2>2, <2>3, <2>4, <2>5, <2>6, <2>7, <2>8, <2>9, <2>10, <2>11, <2>12
       DEF TimerNext, Waiter, Stop
<1> QED
  BY <1>1, <1>2, TimerInvariant, PTL DEF TimerSpec, ImplementsAtomicTimer, Atomic!AtomicSpec
=============================================================================
