---------------------- MODULE RoutingActivationHandler ----------------------
(***************************************************************************)
(* The routing activation handler of one TCP channel                       *)
(* (channel/tcp_channel/doip_routing_activation_handler.cpp).              *)
(*                                                                         *)
(* HandleRoutingActivationRequest runs on the API thread inside a connect: *)
(* it writes the request and waits on the SyncTimer.  The reader thread    *)
(* runs ProcessDoIPRoutingActivationResponse; Stop runs on the thread that *)
(* shuts the channel down and Reset on the API thread.  A single access to *)
(* the state context or to the timer is one step.                          *)
(***************************************************************************)
VARIABLES
    ra_state,    \* state_context_: the active RoutingActivationState
    ra_running,  \* sync_timer_.start_running_
    ra_call,     \* where the API thread is in HandleRoutingActivationRequest
    ra_result,   \* its local result
    ra_rx,       \* where the reader thread is in this handler
    ra_final     \* the reader's local final_state

raVars == <<ra_state, ra_running, ra_call, ra_result, ra_rx, ra_final>>

RoutingActivationState ==
    {"kIdle", "kWaitForRoutingActivationRes", "kRoutingActivationSuccessful",
     "kRoutingActivationFailed"}

\* The codes of a response: 0x10, routing successful, and the others.
ResponseCode == {"successful", "other"}

ConnectionResult == {"kConnectionOk", "kConnectionFailed", "kConnectionTimeout"}

RaTypeOK ==
    /\ ra_state \in RoutingActivationState
    /\ ra_running \in BOOLEAN
    /\ ra_call \in {"out", "send", "sent", "arm", "wait", "timedout", "cancelled",
                    "failed", "return"}
    /\ ra_result \in ConnectionResult
    /\ ra_rx \in {"out", "set", "cancel"}
    /\ ra_final \in {"kRoutingActivationSuccessful", "kRoutingActivationFailed"}

RaInit ==
    /\ ra_state = "kIdle"
    /\ ra_running = FALSE
    /\ ra_call = "out"
    /\ ra_result = "kConnectionFailed"
    /\ ra_rx = "out"
    /\ ra_final = "kRoutingActivationFailed"

-----------------------------------------------------------------------------
(* API thread: HandleRoutingActivationRequest *)

\* Anything but an idle handler refuses the request, an activated one too.
HandleRoutingActivationRequest ==
    /\ ra_call = "out"
    /\ ra_call' = IF ra_state = "kIdle" THEN "send" ELSE "return"
    /\ ra_result' = "kConnectionFailed"
    /\ UNCHANGED <<ra_state, ra_running, ra_rx, ra_final>>

SendRoutingActivationRequestOk ==
    /\ ra_call = "send"
    /\ ra_call' = "sent"
    /\ UNCHANGED <<ra_state, ra_running, ra_result, ra_rx, ra_final>>

SendRoutingActivationRequestFailed ==
    /\ ra_call = "send"
    /\ ra_state' = "kIdle"
    /\ ra_call' = "return"
    /\ UNCHANGED <<ra_running, ra_result, ra_rx, ra_final>>

ToWaitForRoutingActivationRes ==
    /\ ra_call = "sent"
    /\ ra_state' = "kWaitForRoutingActivationRes"
    /\ ra_call' = "arm"
    /\ UNCHANGED <<ra_running, ra_result, ra_rx, ra_final>>

StartActivationTimer ==
    /\ ra_call = "arm"
    /\ ra_running' = TRUE
    /\ ra_call' = "wait"
    /\ UNCHANGED <<ra_state, ra_result, ra_rx, ra_final>>

\* Mutant of ActivationTimerExpires: the wait has no time limit.
ActivationTimerNeverExpires ==
    /\ ra_call = "wait"
    /\ ~ra_running
    /\ ra_call' = "timedout"
    /\ UNCHANGED <<ra_state, ra_running, ra_result, ra_rx, ra_final>>

ActivationTimerExpires ==
    /\ ra_call = "wait"
    /\ ra_call' = "timedout"
    /\ UNCHANGED <<ra_state, ra_running, ra_result, ra_rx, ra_final>>

ActivationTimerCancelled ==
    /\ ra_call = "wait"
    /\ ~ra_running
    /\ ra_call' = "cancelled"
    /\ UNCHANGED <<ra_state, ra_running, ra_result, ra_rx, ra_final>>

ActivationTimeout ==
    /\ ra_call = "timedout"
    /\ ra_result' = "kConnectionTimeout"
    /\ ra_state' = "kIdle"
    /\ ra_call' = "return"
    /\ UNCHANGED <<ra_running, ra_rx, ra_final>>

\* The cancellation callback.
CheckActivation ==
    /\ ra_call = "cancelled"
    /\ \/ /\ ra_state = "kRoutingActivationSuccessful"
          /\ ra_result' = "kConnectionOk"
          /\ ra_call' = "return"
       \/ /\ ra_state # "kRoutingActivationSuccessful"
          /\ ra_call' = "failed"
          /\ UNCHANGED ra_result
    /\ UNCHANGED <<ra_state, ra_running, ra_rx, ra_final>>

ActivationFailed ==
    /\ ra_call = "failed"
    /\ ra_state' = "kIdle"
    /\ ra_call' = "return"
    /\ UNCHANGED <<ra_running, ra_result, ra_rx, ra_final>>

RaReturn ==
    /\ ra_call = "return"
    /\ ra_call' = "out"
    /\ ra_result' = "kConnectionFailed"  \* out of scope
    /\ UNCHANGED <<ra_state, ra_running, ra_rx, ra_final>>

IsRoutingActivated == ra_state = "kRoutingActivationSuccessful"

-----------------------------------------------------------------------------
(* Reader thread *)

\* Mutant of FinalState: the code is not looked at.
FinalStateAlwaysSuccessful(code) == "kRoutingActivationSuccessful"

\* Every code but "routing successful" is a failure, TLS required and
\* confirmation required included.
FinalState(code) ==
    IF code = "successful" THEN "kRoutingActivationSuccessful" ELSE "kRoutingActivationFailed"

\* Mutant of ProcessDoIPRoutingActivationResponse: taken in every state.
ActivationResponseAlwaysTaken(code) ==
    /\ ra_rx = "out"
    /\ ra_rx' = "set"
    /\ ra_final' = FinalState(code)
    /\ UNCHANGED <<ra_state, ra_running, ra_call, ra_result>>

\* A response nobody waits for is ignored.
ProcessDoIPRoutingActivationResponse(code) ==
    /\ ra_rx = "out"
    /\ \/ /\ ra_state = "kWaitForRoutingActivationRes"
          /\ ra_rx' = "set"
          /\ ra_final' = FinalState(code)
       \/ /\ ra_state # "kWaitForRoutingActivationRes"
          /\ UNCHANGED <<ra_rx, ra_final>>
    /\ UNCHANGED <<ra_state, ra_running, ra_call, ra_result>>

RaTransition ==
    /\ ra_rx = "set"
    /\ ra_state' = ra_final
    /\ ra_rx' = "cancel"
    /\ UNCHANGED <<ra_running, ra_call, ra_result, ra_final>>

RaCancelWait ==
    /\ ra_rx = "cancel"
    /\ ra_running' = FALSE
    /\ ra_rx' = "out"
    /\ ra_final' = "kRoutingActivationFailed"  \* out of scope
    /\ UNCHANGED <<ra_state, ra_call, ra_result>>

-----------------------------------------------------------------------------
(* Stop and Reset *)

RaStopCancelWait ==
    /\ ra_running' = FALSE
    /\ UNCHANGED <<ra_state, ra_call, ra_result, ra_rx, ra_final>>

RaStopToIdle ==
    /\ ra_state' = "kIdle"
    /\ UNCHANGED <<ra_running, ra_call, ra_result, ra_rx, ra_final>>
=============================================================================
