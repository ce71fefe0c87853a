---------------------- MODULE DiagnosticMessageHandler ----------------------
(***************************************************************************)
(* The DoIP diagnostic message handler of one TCP channel                  *)
(* (channel/tcp_channel/doip_diagnostic_message_handler.cpp).              *)
(*                                                                         *)
(* Three threads meet in it.  The API thread runs HandleDiagnosticRequest: *)
(* it writes a request to the socket and then waits on the SyncTimer for   *)
(* the acknowledgement.  The reader thread runs ProcessDoIPDiagnosticAck-  *)
(* MessageResponse and ProcessDoIPDiagnosticMessageResponse.  Stop runs on *)
(* the thread that shuts the channel down, Reset on the API thread.        *)
(*                                                                         *)
(* The state context and the timer lock every single access, so an access  *)
(* is the grain of atomicity here: a check of the state and the transition *)
(* that follows it are two steps, and other threads may run in between.    *)
(***************************************************************************)
EXTENDS Naturals

CONSTANT MaxRequests  \* bound on the requests written to the socket

ASSUME MaxRequestsAssumption == MaxRequests \in Nat

VARIABLES
    state,          \* state_context_: the active DiagnosticMessageState
    start_running,  \* sync_timer_.start_running_
    call,           \* where the API thread is in HandleDiagnosticRequest
    result,         \* its local result
    rx,             \* where the reader thread is in this handler
    final_state,    \* the reader's local final_state
    stopping,       \* the operations between the two steps of Stop's code
    reading,        \* the reader thread is alive (it is joined before Stop)
    sent,           \* history: requests written to the socket
    acked,          \* history: positive acknowledgements taken
    accepted,       \* history: requests reported as kTransmitOk
    delivered       \* history: responses handed to the conversation

timerVars == <<start_running>>
apiVars == <<call, result>>
rxVars == <<rx, final_state>>
history == <<sent, acked, accepted, delivered>>
vars == <<state, start_running, call, result, rx, final_state, stopping, reading,
          sent, acked, accepted, delivered>>

DiagnosticMessageState ==
    {"kIdle", "kWaitForDiagnosticAck", "kDiagnosticPositiveAckRecvd",
     "kDiagnosticNegativeAckRecvd", "kWaitForDiagnosticResponse"}

TransmissionResult ==
    {"kTransmitOk", "kTransmitFailed", "kNoTransmitAckReceived",
     "kNegTransmitAckReceived", "kBusyProcessing"}

IndicationResult ==
    {"kIndicationOk", "kIndicationOverflow", "kIndicationPending", "kIndicationNOk"}

CallLocation ==
    {"out", "send", "sent", "arm", "wait", "timedout", "cancelled", "ackPos",
     "ackNeg", "return"}

RxLocation == {"out", "ackSet", "ackCancel", "indicate", "copy", "handle", "finish"}

AckState == {"kDiagnosticPositiveAckRecvd", "kDiagnosticNegativeAckRecvd"}

TypeOK ==
    /\ state \in DiagnosticMessageState
    /\ start_running \in BOOLEAN
    /\ call \in CallLocation
    /\ result \in TransmissionResult
    /\ rx \in RxLocation
    /\ final_state \in AckState
    /\ stopping \subseteq {"Stop", "Reset"}
    /\ reading \in BOOLEAN
    /\ sent \in Nat
    /\ acked \in Nat
    /\ accepted \in Nat
    /\ delivered \in Nat

Init ==
    /\ state = "kIdle"
    /\ start_running = FALSE
    /\ call = "out"
    /\ result = "kTransmitFailed"
    /\ rx = "out"
    /\ final_state = "kDiagnosticNegativeAckRecvd"
    /\ stopping = {}
    /\ reading = TRUE
    /\ sent = 0
    /\ acked = 0
    /\ accepted = 0
    /\ delivered = 0

-----------------------------------------------------------------------------
(* API thread: HandleDiagnosticRequest *)

\* The entry check: busy unless the handler is idle.
HandleDiagnosticRequest ==
    /\ call = "out"
    /\ "Reset" \notin stopping
    /\ sent < MaxRequests
    /\ \/ /\ state = "kIdle"
          /\ call' = "send"
          /\ result' = "kTransmitFailed"
       \/ /\ state # "kIdle"
          /\ call' = "return"
          /\ result' = "kBusyProcessing"
    /\ UNCHANGED <<state, timerVars, rxVars, stopping, reading, history>>

\* The socket takes the request.  The state is still kIdle when it is out.
SendDiagnosticRequestOk ==
    /\ call = "send"
    /\ call' = "sent"
    /\ sent' = sent + 1
    /\ UNCHANGED <<state, timerVars, result, rxVars, stopping, reading, acked, accepted, delivered>>

\* Mutation: leave the handler in the registered, but never left, failure state.
SendFailedNotReset ==
    /\ call = "send"
    /\ state' = "kSendDiagnosticReqFailed"
    /\ call' = "return"
    /\ UNCHANGED <<timerVars, result, rxVars, stopping, reading, history>>

\* The socket refuses it.
SendDiagnosticRequestFailed ==
    /\ call = "send"
    /\ state' = "kIdle"
    /\ call' = "return"
    /\ UNCHANGED <<timerVars, result, rxVars, stopping, reading, history>>

ToWaitForDiagnosticAck ==
    /\ call = "sent"
    /\ state' = "kWaitForDiagnosticAck"
    /\ call' = "arm"
    /\ UNCHANGED <<timerVars, result, rxVars, stopping, reading, history>>

\* Mutation: the timer is not re-armed.
StartWithoutArming ==
    /\ call = "arm"
    /\ call' = "wait"
    /\ UNCHANGED <<state, timerVars, result, rxVars, stopping, reading, history>>

\* SyncTimer::Start: a cancellation from before this point is forgotten.
StartAckTimer ==
    /\ call = "arm"
    /\ start_running' = TRUE
    /\ call' = "wait"
    /\ UNCHANGED <<state, result, rxVars, stopping, reading, history>>

\* Mutation: the wait ends on cancellation only.
AckTimerNeverExpires ==
    /\ call = "wait"
    /\ ~start_running
    /\ call' = "timedout"
    /\ UNCHANGED <<state, timerVars, result, rxVars, stopping, reading, history>>

\* The wait ends with kTimeout once its time is up, cancelled or not.
AckTimerExpires ==
    /\ call = "wait"
    /\ call' = "timedout"
    /\ UNCHANGED <<state, timerVars, result, rxVars, stopping, reading, history>>

AckTimerCancelled ==
    /\ call = "wait"
    /\ ~start_running
    /\ call' = "cancelled"
    /\ UNCHANGED <<state, timerVars, result, rxVars, stopping, reading, history>>

\* Mutation: the timeout callback forgets the result.
AckTimeoutKeepsResult ==
    /\ call = "timedout"
    /\ state' = "kIdle"
    /\ call' = "return"
    /\ UNCHANGED <<timerVars, result, rxVars, stopping, reading, history>>

\* The timeout callback.
AckTimeout ==
    /\ call = "timedout"
    /\ result' = "kNoTransmitAckReceived"
    /\ state' = "kIdle"
    /\ call' = "return"
    /\ UNCHANGED <<timerVars, rxVars, stopping, reading, history>>

\* The cancellation callback reads the state ...
CheckAck ==
    /\ call = "cancelled"
    /\ call' = IF state = "kDiagnosticPositiveAckRecvd" THEN "ackPos" ELSE "ackNeg"
    /\ UNCHANGED <<state, timerVars, result, rxVars, stopping, reading, history>>

\* ... and acts on what it read.
PositiveAck ==
    /\ call = "ackPos"
    /\ state' = "kWaitForDiagnosticResponse"
    /\ result' = "kTransmitOk"
    /\ accepted' = accepted + 1
    /\ call' = "return"
    /\ UNCHANGED <<timerVars, rxVars, stopping, reading, sent, acked, delivered>>

NegativeAck ==
    /\ call = "ackNeg"
    /\ result' = "kNegTransmitAckReceived"
    /\ state' = "kIdle"
    /\ call' = "return"
    /\ UNCHANGED <<timerVars, rxVars, stopping, reading, history>>

Return ==
    /\ call = "return"
    /\ call' = "out"
    /\ UNCHANGED <<state, timerVars, result, rxVars, stopping, reading, history>>

-----------------------------------------------------------------------------
(* Reader thread *)

\* ProcessDoIPDiagnosticAckMessageResponse: an acknowledgement nobody waits
\* for is ignored; otherwise its type fixes final_state.
ProcessDoIPDiagnosticAckMessageResponse(ack) ==
    /\ reading
    /\ rx = "out"
    /\ \/ /\ state = "kWaitForDiagnosticAck"
          /\ rx' = "ackSet"
          /\ final_state' = ack
       \/ /\ state # "kWaitForDiagnosticAck"
          /\ UNCHANGED rxVars
    /\ UNCHANGED <<state, timerVars, apiVars, stopping, reading, history>>

AckTransition ==
    /\ rx = "ackSet"
    /\ state' = final_state
    /\ acked' = IF final_state = "kDiagnosticPositiveAckRecvd" THEN acked + 1 ELSE acked
    /\ rx' = "ackCancel"
    /\ UNCHANGED <<timerVars, apiVars, final_state, stopping, reading, sent, accepted, delivered>>

AckCancelWait ==
    /\ rx = "ackCancel"
    /\ start_running' = FALSE
    /\ rx' = "out"
    /\ UNCHANGED <<state, apiVars, final_state, stopping, reading, history>>

\* Mutation: the state is not checked.
ResponseAlwaysTaken ==
    /\ reading
    /\ rx = "out"
    /\ rx' = "indicate"
    /\ UNCHANGED <<state, timerVars, apiVars, final_state, stopping, reading, history>>

\* ProcessDoIPDiagnosticMessageResponse: ignored unless one is waited for.
ProcessDoIPDiagnosticMessageResponse ==
    /\ reading
    /\ rx = "out"
    /\ \/ /\ state = "kWaitForDiagnosticResponse"
          /\ rx' = "indicate"
       \/ /\ state # "kWaitForDiagnosticResponse"
          /\ UNCHANGED rx
    /\ UNCHANGED <<state, timerVars, apiVars, final_state, stopping, reading, history>>

\* Mutation: a pending response sets the state it means to keep.
IndicatedSetsState(r) ==
    /\ rx = "indicate"
    /\ rx' = CASE r = "kIndicationPending" -> "out"
               [] r = "kIndicationOk" -> "copy"
               [] OTHER -> "finish"
    /\ state' = IF r = "kIndicationPending" THEN "kWaitForDiagnosticResponse" ELSE state
    /\ UNCHANGED <<timerVars, apiVars, final_state, stopping, reading, history>>

\* The conversation's IndicateMessage returns r: on a pending response the
\* handler keeps its state, only kIndicationOk comes with a buffer to fill.
Indicated(r) ==
    /\ rx = "indicate"
    /\ rx' = CASE r = "kIndicationPending" -> "out"
               [] r = "kIndicationOk" -> "copy"
               [] OTHER -> "finish"
    /\ UNCHANGED <<state, timerVars, apiVars, final_state, stopping, reading, history>>

CopyToApplicationBuffer ==
    /\ rx = "copy"
    /\ rx' = "handle"
    /\ UNCHANGED <<state, timerVars, apiVars, final_state, stopping, reading, history>>

\* The conversation's HandleMessage.
HandleMessage ==
    /\ rx = "handle"
    /\ rx' = "finish"
    /\ delivered' = delivered + 1
    /\ UNCHANGED <<state, timerVars, apiVars, final_state, stopping, reading, sent, acked, accepted>>

FinishResponse ==
    /\ rx = "finish"
    /\ state' = "kIdle"
    /\ rx' = "out"
    /\ UNCHANGED <<timerVars, apiVars, final_state, stopping, reading, history>>

-----------------------------------------------------------------------------
(* Stop and Reset *)

\* DoipTcpChannel::Stop joins the reader thread, which finishes the message
\* it is processing, before it stops the handlers.
JoinReader ==
    /\ reading
    /\ rx = "out"
    /\ reading' = FALSE
    /\ UNCHANGED <<state, timerVars, apiVars, rxVars, stopping, history>>

\* Stop, first half: cancel the timer if it is active.
StopCancelWait ==
    /\ ~reading
    /\ "Stop" \notin stopping
    /\ stopping' = stopping \cup {"Stop"}
    /\ start_running' = FALSE
    /\ UNCHANGED <<state, apiVars, rxVars, reading, history>>

\* Reset is the same code, run by the API thread between two calls when it
\* disconnects; the reader may be anywhere.
ResetCancelWait ==
    /\ call = "out"
    /\ "Reset" \notin stopping
    /\ stopping' = stopping \cup {"Reset"}
    /\ start_running' = FALSE
    /\ UNCHANGED <<state, apiVars, rxVars, reading, history>>

\* Second half of both.
StopToIdle(op) ==
    /\ op \in stopping
    /\ stopping' = stopping \ {op}
    /\ state' = "kIdle"
    /\ UNCHANGED <<timerVars, apiVars, rxVars, reading, history>>

-----------------------------------------------------------------------------

Api ==
    \/ SendDiagnosticRequestOk \/ SendDiagnosticRequestFailed
    \/ ToWaitForDiagnosticAck \/ StartAckTimer \/ AckTimerExpires
    \/ AckTimerCancelled \/ AckTimeout \/ CheckAck \/ PositiveAck
    \/ NegativeAck \/ Return

Reader ==
    \/ AckTransition \/ AckCancelWait
    \/ \E r \in IndicationResult : Indicated(r)
    \/ CopyToApplicationBuffer \/ HandleMessage \/ FinishResponse

Receive ==
    \/ \E ack \in AckState : ProcessDoIPDiagnosticAckMessageResponse(ack)
    \/ ProcessDoIPDiagnosticMessageResponse

Next ==
    \/ HandleDiagnosticRequest \/ Api
    \/ Receive \/ Reader
    \/ JoinReader \/ StopCancelWait \/ ResetCancelWait
    \/ \E op \in stopping : StopToIdle(op)

Spec == Init /\ [][Next]_vars

\* A thread inside the handler keeps running, and a started timer expires;
\* whether anything is ever received is up to the server.
Fairness == WF_vars(Api) /\ WF_vars(Reader) /\ WF_vars(\E op \in stopping : StopToIdle(op))

FairSpec == Spec /\ Fairness

-----------------------------------------------------------------------------
(* Properties *)

\* However the threads interleave, and however often the handler is reset,
\* one request never consumes two acknowledgements, kTransmitOk is never
\* reported twice for one acknowledgement, and the conversation is never
\* handed two final responses for one accepted request.
AtMostOneResponsePerRequest ==
    /\ delivered <= accepted
    /\ accepted <= acked
    /\ acked <= sent

\* Between two calls an idle handler stays idle: only an acknowledgement the
\* reader had checked before the wait ended can still move it.
IdleUntilRequested ==
    [][call = "out" /\ state = "kIdle" /\ state' # "kIdle" => rx = "ackSet"]_vars

\* HandleDiagnosticRequest always comes back, whatever the server does.
RequestReturns == call # "out" ~> call = "out"
=============================================================================
