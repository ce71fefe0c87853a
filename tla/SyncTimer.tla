------------------------------ MODULE SyncTimer ------------------------------
(***************************************************************************)
(* utility::sync_timer::SyncTimer: one thread waits with a timeout on a    *)
(* condition variable, other threads cancel the wait.  The steps are those *)
(* of the mutex and of condition_variable::wait_until with a predicate,    *)
(* which evaluates the predicate before it first sleeps, after every       *)
(* notification or spurious wake-up, and once when the time is up.         *)
(***************************************************************************)
EXTENDS Naturals

CONSTANTS
    Cancellers,  \* the threads that may call CancelWait
    MaxCancels   \* bound on the calls of CancelWait by each of them

ASSUME SyncTimerAssumption ==
    /\ MaxCancels \in Nat
    /\ Cancellers \cap {"waiter", "free"} = {}

VARIABLES
    mutex_lock,     \* the thread that holds mutex_lock_, or "free"
    start_running,  \* start_running_
    expired,        \* Clock::now() >= expiry_time_point of the current wait
    waiter,         \* where the waiting thread is
    timer_state,    \* its local timer_state
    notified,       \* the sleeping waiter has been notified
    canceller,      \* where each cancelling thread is in Stop
    cancels         \* the calls of CancelWait so far, per thread

timerVars == <<mutex_lock, start_running, expired, waiter, timer_state, notified,
               canceller, cancels>>

TimerTypeOK ==
    /\ mutex_lock \in Cancellers \cup {"waiter", "free"}
    /\ start_running \in BOOLEAN
    /\ expired \in BOOLEAN
    /\ waiter \in {"out", "start", "predicate", "sleep", "relock", "return"}
    /\ timer_state \in {"kIdle", "kCancelRequested", "kTimeout"}
    /\ notified \in BOOLEAN
    /\ canceller \in [Cancellers -> {"out", "locked", "notify", "unlock"}]
    /\ cancels \in [Cancellers -> 0 .. MaxCancels]

TimerInit ==
    /\ mutex_lock = "free"
    /\ start_running = FALSE
    /\ expired = FALSE
    /\ waiter = "out"
    /\ timer_state = "kIdle"
    /\ notified = FALSE
    /\ canceller = [c \in Cancellers |-> "out"]
    /\ cancels = [c \in Cancellers |-> 0]

-----------------------------------------------------------------------------
(* The waiting thread: Start *)

WaitForTimeout ==
    /\ waiter = "out"
    /\ mutex_lock = "free"
    /\ mutex_lock' = "waiter"
    /\ waiter' = "start"
    /\ timer_state' = "kIdle"
    /\ UNCHANGED <<start_running, expired, notified, canceller, cancels>>

Start ==
    /\ waiter = "start"
    /\ start_running' = TRUE
    /\ expired' = FALSE
    /\ waiter' = "predicate"
    /\ UNCHANGED <<mutex_lock, timer_state, notified, canceller, cancels>>

\* The predicate: expiry is looked at first, then the cancellation.
PredicateTimeout ==
    /\ waiter = "predicate"
    /\ expired
    /\ timer_state' = "kTimeout"
    /\ waiter' = "return"
    /\ UNCHANGED <<mutex_lock, start_running, expired, notified, canceller, cancels>>

\* Mutation: every wake-up counts as a cancellation.
PredicateNotExpired ==
    /\ waiter = "predicate"
    /\ ~expired
    /\ timer_state' = "kCancelRequested"
    /\ waiter' = "return"
    /\ UNCHANGED <<mutex_lock, start_running, expired, notified, canceller, cancels>>

PredicateCancelled ==
    /\ waiter = "predicate"
    /\ ~expired
    /\ ~start_running
    /\ timer_state' = "kCancelRequested"
    /\ waiter' = "return"
    /\ UNCHANGED <<mutex_lock, start_running, expired, notified, canceller, cancels>>

\* wait_until: release the mutex and go to sleep, in one step.
Sleep ==
    /\ waiter = "predicate"
    /\ ~expired
    /\ start_running
    /\ mutex_lock' = "free"
    /\ waiter' = "sleep"
    /\ notified' = FALSE
    /\ UNCHANGED <<start_running, expired, timer_state, canceller, cancels>>

\* Notified or out of time ...
WakeUp ==
    /\ waiter = "sleep"
    /\ notified \/ expired
    /\ waiter' = "relock"
    /\ UNCHANGED <<mutex_lock, start_running, expired, timer_state, notified, canceller, cancels>>

\* ... or for no reason at all.
SpuriousWakeUp ==
    /\ waiter = "sleep"
    /\ ~notified
    /\ ~expired
    /\ waiter' = "relock"
    /\ UNCHANGED <<mutex_lock, start_running, expired, timer_state, notified, canceller, cancels>>

\* Mutation: the woken waiter does not wait for the mutex.
RelockAtOnce ==
    /\ waiter = "relock"
    /\ mutex_lock' = "waiter"
    /\ waiter' = "predicate"
    /\ UNCHANGED <<start_running, expired, timer_state, notified, canceller, cancels>>

Relock ==
    /\ waiter = "relock"
    /\ mutex_lock = "free"
    /\ mutex_lock' = "waiter"
    /\ waiter' = "predicate"
    /\ UNCHANGED <<start_running, expired, timer_state, notified, canceller, cancels>>

\* Unlock and run the callback that timer_state selects.
ReturnFromStart ==
    /\ waiter = "return"
    /\ mutex_lock' = "free"
    /\ waiter' = "out"
    /\ UNCHANGED <<start_running, expired, timer_state, notified, canceller, cancels>>

-----------------------------------------------------------------------------
(* The cancelling threads: CancelWait, which is Stop *)

CancelWait(c) ==
    /\ canceller[c] = "out"
    /\ cancels[c] < MaxCancels
    /\ mutex_lock = "free"
    /\ mutex_lock' = c
    /\ canceller' = [canceller EXCEPT ![c] = "locked"]
    /\ cancels' = [cancels EXCEPT ![c] = @ + 1]
    /\ UNCHANGED <<start_running, expired, waiter, timer_state, notified>>

StopRunning(c) ==
    /\ canceller[c] = "locked"
    /\ start_running' = FALSE
    /\ canceller' = [canceller EXCEPT ![c] = "notify"]
    /\ UNCHANGED <<mutex_lock, expired, waiter, timer_state, notified, cancels>>

\* Mutation: nobody is notified.
NotifyNobody(c) ==
    /\ canceller[c] = "notify"
    /\ canceller' = [canceller EXCEPT ![c] = "unlock"]
    /\ UNCHANGED <<mutex_lock, start_running, expired, waiter, timer_state, notified, cancels>>

NotifyAll(c) ==
    /\ canceller[c] = "notify"
    /\ notified' = (waiter = "sleep" \/ notified)
    /\ canceller' = [canceller EXCEPT ![c] = "unlock"]
    /\ UNCHANGED <<mutex_lock, start_running, expired, waiter, timer_state, cancels>>

ReturnFromStop(c) ==
    /\ canceller[c] = "unlock"
    /\ mutex_lock' = "free"
    /\ canceller' = [canceller EXCEPT ![c] = "out"]
    /\ UNCHANGED <<start_running, expired, waiter, timer_state, notified, cancels>>

\* The clock passes the expiry time point of the wait.
ClockPassesExpiry ==
    /\ waiter \in {"predicate", "sleep", "relock"}
    /\ ~expired
    /\ expired' = TRUE
    /\ UNCHANGED <<mutex_lock, start_running, waiter, timer_state, notified, canceller, cancels>>

-----------------------------------------------------------------------------

Waiter ==
    \/ Start \/ PredicateTimeout \/ PredicateCancelled \/ Sleep \/ WakeUp
    \/ Relock \/ ReturnFromStart

Stop(c) == StopRunning(c) \/ NotifyAll(c) \/ ReturnFromStop(c)

TimerNext ==
    \/ WaitForTimeout \/ Waiter \/ SpuriousWakeUp \/ ClockPassesExpiry
    \/ \E c \in Cancellers : CancelWait(c) \/ Stop(c)

TimerSpec == TimerInit /\ [][TimerNext]_timerVars

\* A thread that holds or awaits the mutex runs on.  Neither the clock nor a
\* spurious wake-up is relied upon.
TimerFairness ==
    /\ WF_timerVars(Waiter)
    /\ \A c \in Cancellers : WF_timerVars(Stop(c))

TimerFairSpec == TimerSpec /\ TimerFairness

-----------------------------------------------------------------------------
(* Properties *)

\* A thread is inside its critical section exactly while it holds the mutex,
\* and a wait that has ended has a reason: what the steps of the wait are
\* atomic by, and the inductive invariant of the refinement below.
TimerInv ==
    /\ TimerTypeOK
    /\ waiter \in {"start", "predicate", "return"} <=> mutex_lock = "waiter"
    /\ \A c \in Cancellers : canceller[c] # "out" <=> mutex_lock = c
    /\ waiter = "return" => timer_state \in {"kTimeout", "kCancelRequested"}

\* The mutex and the predicate make every wait atomic: it ends as kTimeout
\* only when its time is up and as kCancelRequested only if it was cancelled
\* since it started, however often the waiter is woken for another reason.
Atomic == INSTANCE AtomicTimer WITH
    running <- start_running,
    phase <- CASE waiter \in {"out", "start"} -> "out"
               [] waiter \in {"predicate", "sleep", "relock"} -> "waiting"
               [] OTHER -> timer_state

ImplementsAtomicTimer == Atomic!AtomicSpec

Waiting == waiter \in {"predicate", "sleep", "relock"}

\* No wake-up is lost: a wait that has been cancelled ends even if the clock
\* stands still, and one whose time is up ends without a notification.
WaitEnds == Waiting /\ (~start_running \/ expired) ~> ~Waiting
=============================================================================
