---------------------------- MODULE DmConversation ----------------------------
(***************************************************************************)
(* The diagnostic conversation                                             *)
(* (appl/src/diag-client/dcm/conversation/dm_conversation.cpp).            *)
(*                                                                         *)
(* SendDiagnosticRequest runs on the API thread: it transmits the request  *)
(* through the connection, then supervises P2 and, after every response-   *)
(* pending, P2*.  IndicateMessage and HandleMessage run on the reader      *)
(* thread, called by the DiagnosticMessageHandler.  Both threads move the  *)
(* same state context and the reader cancels the API thread's timer.       *)
(*                                                                         *)
(* What surrounds the conversation is a parameter of the actions here: the *)
(* result of a transmission and the messages that are indicated.           *)
(***************************************************************************)
CONSTANTS
    Payload,  \* what a response may carry
    Unfilled  \* the receive buffer after resize, before the copy

ASSUME UnfilledAssumption == Unfilled \notin Payload

VARIABLES
    conversation_state,  \* the active ConversationState
    p2_running,          \* sync_timer_.start_running_ of the conversation
    conv,                \* where the API thread is in SendDiagnosticRequest
    diag_result,         \* its local result
    ind,                 \* where the reader thread is in the conversation
    payload_rx_buffer    \* payload_rx_buffer_

convApi == <<conv, diag_result>>
convRx == <<ind, payload_rx_buffer>>
convVars == <<conversation_state, p2_running, conv, diag_result, ind, payload_rx_buffer>>

ConversationState ==
    {"kIdle", "kDiagWaitForRes", "kDiagStartP2StarTimer", "kDiagRecvdPendingRes",
     "kDiagRecvdFinalRes", "kDiagSuccess"}

\* A result holding a value refers to payload_rx_buffer_ itself: DmUdsResponse
\* stores a reference to the buffer, not a copy.
Response == "kResponse"

DiagError ==
    {"kDiagGenericFailure", "kDiagRequestSendFailed", "kDiagAckTimeout",
     "kDiagNegAckReceived", "kDiagResponseTimeout", "kDiagInvalidParameter",
     "kDiagBusyProcessing"}

ConvLocation ==
    {"out", "transmit", "sent", "armP2", "waitP2", "armP2Star", "waitP2Star",
     "timedout", "woken", "toP2Star", "loop", "success", "toIdle", "return"}

IndLocation == {"out", "pendingCancel", "final", "finalCancel", "fill", "handle"}

ConvTypeOK ==
    /\ conversation_state \in ConversationState
    /\ p2_running \in BOOLEAN
    /\ conv \in ConvLocation
    /\ diag_result \in DiagError \cup {Response}
    /\ ind \in IndLocation
    /\ payload_rx_buffer \in Payload \cup {Unfilled}

ConvInit ==
    /\ conversation_state = "kIdle"
    /\ p2_running = FALSE
    /\ conv = "out"
    /\ diag_result = "kDiagRequestSendFailed"
    /\ ind = "out"
    /\ payload_rx_buffer = Unfilled

-----------------------------------------------------------------------------
(* API thread: SendDiagnosticRequest *)

ConvertResponseType(r) ==
    CASE r = "kTransmitFailed" -> "kDiagRequestSendFailed"
      [] r = "kNoTransmitAckReceived" -> "kDiagAckTimeout"
      [] r = "kNegTransmitAckReceived" -> "kDiagNegAckReceived"
      [] r = "kBusyProcessing" -> "kDiagBusyProcessing"
      [] OTHER -> "kDiagGenericFailure"

SendDiagnosticRequest ==
    /\ conv = "out"
    /\ conv' = "transmit"
    /\ diag_result' = "kDiagRequestSendFailed"
    /\ UNCHANGED <<conversation_state, p2_running, convRx>>

\* A null message is refused before anything is touched.
SendDiagnosticRequestNull ==
    /\ conv = "out"
    /\ conv' = "return"
    /\ diag_result' = "kDiagInvalidParameter"
    /\ UNCHANGED <<conversation_state, p2_running, convRx>>

\* connection_->Transmit comes back with r.
Transmitted(r) ==
    /\ conv = "transmit"
    /\ \/ /\ r = "kTransmitOk"
          /\ conv' = "sent"
          /\ UNCHANGED diag_result
       \/ /\ r # "kTransmitOk"
          /\ conv' = "return"
          /\ diag_result' = ConvertResponseType(r)
    /\ UNCHANGED <<conversation_state, p2_running, convRx>>

ToWaitForRes ==
    /\ conv = "sent"
    /\ conversation_state' = "kDiagWaitForRes"
    /\ conv' = "armP2"
    /\ UNCHANGED <<p2_running, diag_result, convRx>>

\* SyncTimer::Start, for P2 and for P2*.
StartP2Timer ==
    /\ \/ conv = "armP2" /\ conv' = "waitP2"
       \/ conv = "armP2Star" /\ conv' = "waitP2Star"
    /\ p2_running' = TRUE
    /\ UNCHANGED <<conversation_state, diag_result, convRx>>

P2TimerExpires ==
    /\ conv \in {"waitP2", "waitP2Star"}
    /\ conv' = "timedout"
    /\ UNCHANGED <<conversation_state, p2_running, diag_result, convRx>>

P2TimerCancelled ==
    /\ conv \in {"waitP2", "waitP2Star"}
    /\ ~p2_running
    /\ conv' = "woken"
    /\ UNCHANGED <<conversation_state, p2_running, diag_result, convRx>>

\* The timeout callback of both waits.
P2Timeout ==
    /\ conv = "timedout"
    /\ diag_result' = "kDiagResponseTimeout"
    /\ conversation_state' = "kIdle"
    /\ conv' = "loop"
    /\ UNCHANGED <<p2_running, convRx>>

\* The cancellation callback of both waits: a pending response starts P2*.
P2Woken ==
    /\ conv = "woken"
    /\ conv' = IF conversation_state = "kDiagRecvdPendingRes" THEN "toP2Star" ELSE "loop"
    /\ UNCHANGED <<conversation_state, p2_running, diag_result, convRx>>

ToP2Star ==
    /\ conv = "toP2Star"
    /\ conversation_state' = "kDiagStartP2StarTimer"
    /\ conv' = "loop"
    /\ UNCHANGED <<p2_running, diag_result, convRx>>

\* Mutation: the loop does not handle a pending response.
LoopIgnoresPending ==
    /\ conv = "loop"
    /\ \/ /\ conversation_state = "kIdle"
          /\ conv' = "return"
       \/ /\ conversation_state = "kDiagStartP2StarTimer"
          /\ conv' = "armP2Star"
       \/ /\ conversation_state = "kDiagSuccess"
          /\ conv' = "success"
       \/ /\ conversation_state \notin {"kIdle", "kDiagStartP2StarTimer", "kDiagSuccess"}
          /\ UNCHANGED conv
    /\ UNCHANGED <<conversation_state, p2_running, diag_result, convRx>>

\* One turn of the loop "until final response or timeout".  A turn that finds
\* kDiagWaitForRes or kDiagRecvdFinalRes does nothing: the thread spins.
Loop ==
    /\ conv = "loop"
    /\ \/ /\ conversation_state = "kIdle"
          /\ conv' = "return"
       \/ /\ conversation_state = "kDiagRecvdPendingRes"
          /\ conv' = "toP2Star"
       \/ /\ conversation_state = "kDiagStartP2StarTimer"
          /\ conv' = "armP2Star"
       \/ /\ conversation_state = "kDiagSuccess"
          /\ conv' = "success"
       \/ /\ conversation_state \in {"kDiagWaitForRes", "kDiagRecvdFinalRes"}
          /\ UNCHANGED conv
    /\ UNCHANGED <<conversation_state, p2_running, diag_result, convRx>>

EmplaceValue ==
    /\ conv = "success"
    /\ diag_result' = Response
    /\ conv' = "toIdle"
    /\ UNCHANGED <<conversation_state, p2_running, convRx>>

SuccessToIdle ==
    /\ conv = "toIdle"
    /\ conversation_state' = "kIdle"
    /\ conv' = "loop"
    /\ UNCHANGED <<p2_running, diag_result, convRx>>

ConvReturn ==
    /\ conv = "return"
    /\ conv' = "out"
    /\ UNCHANGED <<conversation_state, p2_running, diag_result, convRx>>

-----------------------------------------------------------------------------
(* Reader thread: IndicateMessage, the copy into the buffer, HandleMessage *)

\* An empty payload or one larger than rx_buffer_size_ is refused: the waiting
\* API thread is neither told nor woken.
IndicateRejected ==
    /\ ind = "out"
    /\ UNCHANGED convVars

\* 0x7F xx 0x78
IndicatePending ==
    /\ ind = "out"
    /\ conversation_state' = "kDiagRecvdPendingRes"
    /\ ind' = "pendingCancel"
    /\ UNCHANGED <<p2_running, convApi, payload_rx_buffer>>

IndicateFinal ==
    /\ ind = "out"
    /\ payload_rx_buffer' = Unfilled
    /\ ind' = "final"
    /\ UNCHANGED <<conversation_state, p2_running, convApi>>

\* Mutation: success is announced before the payload has been copied.
FinalTransitionToSuccess ==
    /\ ind = "final"
    /\ conversation_state' = "kDiagSuccess"
    /\ ind' = "finalCancel"
    /\ UNCHANGED <<p2_running, convApi, payload_rx_buffer>>

FinalTransition ==
    /\ ind = "final"
    /\ conversation_state' = "kDiagRecvdFinalRes"
    /\ ind' = "finalCancel"
    /\ UNCHANGED <<p2_running, convApi, payload_rx_buffer>>

\* IndicateMessage ends with CancelWait; a final response is then copied.
PendingCancelWait ==
    /\ ind = "pendingCancel"
    /\ p2_running' = FALSE
    /\ ind' = "out"
    /\ UNCHANGED <<conversation_state, convApi, payload_rx_buffer>>

FinalCancelWait ==
    /\ ind = "finalCancel"
    /\ p2_running' = FALSE
    /\ ind' = "fill"
    /\ UNCHANGED <<conversation_state, convApi, payload_rx_buffer>>

Fill(payload) ==
    /\ ind = "fill"
    /\ payload_rx_buffer' = payload
    /\ ind' = "handle"
    /\ UNCHANGED <<conversation_state, p2_running, convApi>>

ConvHandleMessage ==
    /\ ind = "handle"
    /\ conversation_state' = "kDiagSuccess"
    /\ ind' = "out"
    /\ UNCHANGED <<p2_running, convApi, payload_rx_buffer>>

-----------------------------------------------------------------------------

\* Steps the API thread takes inside the conversation, once transmitted.
ConvApi ==
    \/ ToWaitForRes \/ StartP2Timer \/ P2TimerExpires \/ P2TimerCancelled
    \/ P2Timeout \/ P2Woken \/ ToP2Star \/ Loop \/ EmplaceValue
    \/ SuccessToIdle \/ ConvReturn

ConvReader ==
    \/ IndicateRejected \/ IndicatePending \/ IndicateFinal \/ FinalTransition
    \/ PendingCancelWait \/ FinalCancelWait
    \/ \E payload \in Payload : Fill(payload)
    \/ ConvHandleMessage

ConvNext ==
    \/ SendDiagnosticRequest \/ SendDiagnosticRequestNull
    \/ \E r \in {"kTransmitOk", "kTransmitFailed", "kNoTransmitAckReceived",
                 "kNegTransmitAckReceived", "kBusyProcessing"} : Transmitted(r)
    \/ ConvApi
    \/ ConvReader

ConvSpec == ConvInit /\ [][ConvNext]_convVars
=============================================================================
