----------------------------- MODULE AtomicTimer -----------------------------
(***************************************************************************)
(* The timer the protocol modules assume: starting, cancelling and ending  *)
(* a wait are single steps.  SyncTimer implements it.                      *)
(*                                                                         *)
(* A wait that is cancelled after it started ends; it reports the cancel-  *)
(* lation, or the timeout if its time is up before the waiter looks.  A    *)
(* cancellation from before the start of the wait has no effect on it.     *)
(***************************************************************************)
VARIABLES
    running,  \* the wait has not been cancelled since it started
    expired,  \* the time of the wait is up
    phase     \* "out", "waiting", or how the wait ended

atomicVars == <<running, expired, phase>>

AtomicInit ==
    /\ running = FALSE
    /\ expired = FALSE
    /\ phase = "out"

BeginWait ==
    /\ phase = "out"
    /\ phase' = "waiting"
    /\ running' = TRUE
    /\ expired' = FALSE

Cancel ==
    /\ running' = FALSE
    /\ UNCHANGED <<expired, phase>>

Expire ==
    /\ phase = "waiting"
    /\ expired' = TRUE
    /\ UNCHANGED <<running, phase>>

EndTimeout ==
    /\ phase = "waiting"
    /\ expired
    /\ phase' = "kTimeout"
    /\ UNCHANGED <<running, expired>>

EndCancelled ==
    /\ phase = "waiting"
    /\ ~expired
    /\ ~running
    /\ phase' = "kCancelRequested"
    /\ UNCHANGED <<running, expired>>

Leave ==
    /\ phase \in {"kTimeout", "kCancelRequested"}
    /\ phase' = "out"
    /\ UNCHANGED <<running, expired>>

AtomicNext == BeginWait \/ Cancel \/ Expire \/ EndTimeout \/ EndCancelled \/ Leave

AtomicSpec == AtomicInit /\ [][AtomicNext]_atomicVars
=============================================================================
