--------------------------- MODULE DiagnosticService ---------------------------
(***************************************************************************)
(* What DiagClientConversation::SendDiagnosticRequest promises its caller, *)
(* with the protocol left out: a blocking call writes at most one request, *)
(* and ends with an error or with a response.                              *)
(*                                                                         *)
(*   - The error tells whether the request left the client: it did not     *)
(*     after kDiagRequestSendFailed, kDiagInvalidParameter and             *)
(*     kDiagBusyProcessing (the call may be repeated without the server    *)
(*     executing it twice), it did after the others.                       *)
(*   - A response answers a request that was written, and no response is   *)
(*     returned twice or after a response to a later request.              *)
(***************************************************************************)
EXTENDS Naturals

VARIABLES
    calling,   \* a call is in progress
    written,   \* the current or last call has written its request
    requests,  \* the number of requests written so far
    answer,    \* the request answered by the last response returned, or 0
    outcome    \* how the last call ended

serviceVars == <<calling, written, requests, answer, outcome>>

NoOutcome == "kNone"

NotWritten == {"kDiagRequestSendFailed", "kDiagInvalidParameter", "kDiagBusyProcessing"}

Unanswered == {"kDiagAckTimeout", "kDiagNegAckReceived", "kDiagResponseTimeout"}

ServiceInit ==
    /\ calling = FALSE
    /\ written = FALSE
    /\ requests = 0
    /\ answer = 0
    /\ outcome = "kDiagRequestSendFailed"

Begin ==
    /\ ~calling
    /\ calling' = TRUE
    /\ written' = FALSE
    /\ outcome' = NoOutcome
    /\ UNCHANGED <<requests, answer>>

WriteRequest ==
    /\ calling
    /\ ~written
    /\ written' = TRUE
    /\ requests' = requests + 1
    /\ UNCHANGED <<calling, answer, outcome>>

EndWithError ==
    /\ calling
    /\ calling' = FALSE
    /\ outcome' \in IF written THEN Unanswered ELSE NotWritten
    /\ UNCHANGED <<written, requests, answer>>

EndWithResponse ==
    /\ calling
    /\ written
    /\ calling' = FALSE
    /\ outcome' = "kResponse"
    /\ answer' \in answer + 1 .. requests
    /\ UNCHANGED <<written, requests>>

ServiceNext == Begin \/ WriteRequest \/ EndWithError \/ EndWithResponse

ServiceSpec == ServiceInit /\ [][ServiceNext]_serviceVars
=============================================================================
