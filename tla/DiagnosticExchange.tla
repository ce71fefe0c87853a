-------------------------- MODULE DiagnosticExchange --------------------------
(***************************************************************************)
(* A diagnostic conversation over an activated DoIP connection: the        *)
(* DmConversation and the DiagnosticMessageHandler on the client's API and *)
(* reader threads, the TCP byte stream, and a diagnostic server.           *)
(*                                                                         *)
(* The API thread is in at most one of the two components at a time, and   *)
(* so is the reader: a call from one into the other is a joint step.  The  *)
(* server is external to the repository.  It acknowledges the requests in  *)
(* order, then answers them, as late as it likes or not at all.            *)
(***************************************************************************)
EXTENDS DiagnosticMessageHandler, DmConversation, Sequences

CONSTANT MaxPending  \* bound on the response-pending messages per request

ASSUME ExchangeAssumption ==
    /\ MaxPending \in Nat
    /\ Payload = 1 .. MaxRequests  \* a response carries the request it answers

VARIABLES
    stream,      \* the messages on their way from the server to the client
    server,      \* the requests the server has not finished with, oldest first
    message,     \* the message the reader thread is processing
    request,     \* the request of the current call, 0 before it is written
    answered,    \* history: the last response returned to the caller, or 0
    failed       \* history: <<request, error>> of the calls that failed once written

handlerVars == vars
conversationVars == convVars
systemVars == <<stream, server, message, request, answered, failed>>
allVars == <<handlerVars, conversationVars, systemVars>>

MessageKind == {"posAck", "negAck", "pending", "final", "tooLong"}

Message == [kind : MessageKind, id : 0 .. MaxRequests]

ServerRequest == [id : 1 .. MaxRequests, acked : BOOLEAN, pending : 0 .. MaxPending]

ExchangeTypeOK ==
    /\ TypeOK
    /\ ConvTypeOK
    /\ stream \in Seq(Message)
    /\ server \in Seq(ServerRequest)
    /\ message \in Message
    /\ request \in 0 .. MaxRequests
    /\ answered \in 0 .. MaxRequests
    /\ failed \subseteq (1 .. MaxRequests) \X DiagError

ExchangeInit ==
    /\ Init
    /\ ConvInit
    /\ stream = <<>>
    /\ server = <<>>
    /\ message = [kind |-> "final", id |-> 0]
    /\ request = 0
    /\ answered = 0
    /\ failed = {}

-----------------------------------------------------------------------------
(* API thread *)

Call ==
    /\ SendDiagnosticRequest
    /\ HandleDiagnosticRequest
    /\ request' = 0
    /\ UNCHANGED <<stream, server, message, answered, failed>>

CallNull ==
    /\ SendDiagnosticRequestNull
    /\ request' = 0
    /\ UNCHANGED <<handlerVars, stream, server, message, answered, failed>>

\* The request reaches the server.
Write ==
    /\ SendDiagnosticRequestOk
    /\ request' = sent + 1
    /\ server' = Append(server, [id |-> sent + 1, acked |-> FALSE, pending |-> 0])
    /\ UNCHANGED <<conversationVars, stream, message, answered, failed>>

InHandler ==
    /\ \/ SendDiagnosticRequestFailed \/ ToWaitForDiagnosticAck \/ StartAckTimer
       \/ AckTimerExpires \/ AckTimerCancelled \/ AckTimeout \/ CheckAck
       \/ PositiveAck \/ NegativeAck
    /\ UNCHANGED <<conversationVars, systemVars>>

BackFromHandler ==
    /\ Return
    /\ Transmitted(result)
    /\ UNCHANGED systemVars

InConversation ==
    /\ \/ ToWaitForRes \/ StartP2Timer \/ P2TimerExpires \/ P2TimerCancelled
       \/ P2Timeout \/ P2Woken \/ ToP2Star \/ Loop \/ EmplaceValue \/ SuccessToIdle
    /\ UNCHANGED <<handlerVars, systemVars>>

CallReturn ==
    /\ ConvReturn
    /\ answered' = IF diag_result = Response THEN payload_rx_buffer ELSE answered
    /\ failed' = IF diag_result # Response /\ request # 0
                 THEN failed \cup {<<request, diag_result>>} ELSE failed
    /\ UNCHANGED <<handlerVars, stream, server, message, request>>

-----------------------------------------------------------------------------
(* Reader thread *)

AckOf(m) == IF m.kind = "posAck"
            THEN "kDiagnosticPositiveAckRecvd" ELSE "kDiagnosticNegativeAckRecvd"

Read ==
    /\ stream # <<>>
    /\ \/ /\ Head(stream).kind \in {"posAck", "negAck"}
          /\ ProcessDoIPDiagnosticAckMessageResponse(AckOf(Head(stream)))
       \/ /\ Head(stream).kind \notin {"posAck", "negAck"}
          /\ ProcessDoIPDiagnosticMessageResponse
    /\ message' = Head(stream)
    /\ stream' = Tail(stream)
    /\ UNCHANGED <<conversationVars, server, request, answered, failed>>

ReaderInHandler ==
    /\ AckTransition \/ AckCancelWait \/ FinishResponse
    /\ UNCHANGED <<conversationVars, systemVars>>

\* IndicateMessage: its steps up to the one that returns to the handler.
Indicate ==
    /\ rx = "indicate"
    /\ \/ message.kind = "pending" /\ IndicatePending
       \/ message.kind = "final" /\ IndicateFinal
       \/ FinalTransition
    /\ UNCHANGED <<handlerVars, systemVars>>

IndicateReturn ==
    /\ \/ PendingCancelWait /\ Indicated("kIndicationPending")
       \/ FinalCancelWait /\ Indicated("kIndicationOk")
       \/ message.kind = "tooLong" /\ IndicateRejected /\ Indicated("kIndicationOverflow")
    /\ UNCHANGED systemVars

Copy ==
    /\ CopyToApplicationBuffer
    /\ Fill(message.id)
    /\ UNCHANGED systemVars

Handle ==
    /\ HandleMessage
    /\ ConvHandleMessage
    /\ UNCHANGED systemVars

-----------------------------------------------------------------------------
(* The diagnostic server (external) *)

Emit(kind) == stream' = Append(stream, [kind |-> kind, id |-> Head(server).id])

serverUnchanged == UNCHANGED <<handlerVars, conversationVars, message, request,
                               answered, failed>>

ServerAcknowledges ==
    /\ server # <<>>
    /\ ~Head(server).acked
    /\ server' = [server EXCEPT ![1].acked = TRUE]
    /\ Emit("posAck")
    /\ serverUnchanged

ServerDenies ==
    /\ server # <<>>
    /\ ~Head(server).acked
    /\ server' = Tail(server)
    /\ Emit("negAck")
    /\ serverUnchanged

ServerPending ==
    /\ server # <<>>
    /\ Head(server).acked
    /\ Head(server).pending < MaxPending
    /\ server' = [server EXCEPT ![1].pending = @ + 1]
    /\ Emit("pending")
    /\ serverUnchanged

ServerResponds ==
    /\ server # <<>>
    /\ Head(server).acked
    /\ server' = Tail(server)
    /\ \E kind \in {"final", "tooLong"} : Emit(kind)
    /\ serverUnchanged

ServerGivesUp ==
    /\ server # <<>>
    /\ server' = Tail(server)
    /\ UNCHANGED stream
    /\ serverUnchanged

-----------------------------------------------------------------------------

ExchangeApi ==
    \/ Write \/ InHandler \/ BackFromHandler \/ InConversation \/ CallReturn

ExchangeReader ==
    \/ Read \/ ReaderInHandler \/ Indicate \/ IndicateReturn \/ Copy \/ Handle

ExchangeServer ==
    \/ ServerAcknowledges \/ ServerDenies \/ ServerPending \/ ServerResponds
    \/ ServerGivesUp

ExchangeNext ==
    \/ Call \/ CallNull
    \/ ExchangeApi \/ ExchangeReader \/ ExchangeServer

ExchangeSpec == ExchangeInit /\ [][ExchangeNext]_allVars

\* Both client threads keep running, a started timer expires and the reader
\* takes what arrives.  Nothing is assumed of the caller or of the server.
ExchangeFairness == WF_allVars(ExchangeApi) /\ WF_allVars(ExchangeReader)

ExchangeFairSpec == ExchangeSpec /\ ExchangeFairness

-----------------------------------------------------------------------------
(* Properties *)

\* Every call keeps the promises of DiagnosticService: at most one request is
\* written, the error tells whether it was, and responses are neither repeated
\* nor returned after a response to a later request.
Service == INSTANCE DiagnosticService WITH
    calling <- conv # "out",
    written <- request # 0,
    requests <- sent,
    answer <- answered,
    outcome <- IF conv = "out" THEN diag_result ELSE "kNone"

ImplementsService == Service!ServiceSpec

\* A response that is returned has been copied completely, and stays so until
\* the caller's next request: the reader thread, which resizes and fills the
\* buffer the response refers to, does not touch it in between.
ResponseIntact ==
    conv \in {"return", "out"} /\ diag_result = Response => payload_rx_buffer \in Payload

\* Requests and responses carry no number that ties them together.  Yet a
\* response to an earlier request is only ever returned if an acknowledgement
\* timeout has let acknowledgements and requests slip against each other.
CorrelatedUnlessAckTimeout ==
    conv = "return" /\ diag_result = Response /\ payload_rx_buffer # request
        => \E id \in 1 .. payload_rx_buffer : <<id, "kDiagAckTimeout">> \in failed

\* A call returns whatever the server does, with one exception: the API thread
\* can be left spinning on kDiagWaitForRes.
ReturnsOrSpins ==
    conv # "out" ~> conv = "out" \/ (conv = "loop" /\ conversation_state = "kDiagWaitForRes")

\* "This is a blocking function i.e. function call either returns with final
\* diagnostic response (Positive/Negative) or with error."
CallReturns == conv # "out" ~> conv = "out"

\* The acknowledgement of the current request has been read from the stream.
AckRead ==
    /\ \E i \in DOMAIN server : server[i].id = request /\ server[i].acked
    /\ ~\E i \in DOMAIN stream : stream[i] = [kind |-> "posAck", id |-> request]

\* "No diagnostic acknowledgement response received within 2 seconds": the
\* acknowledgement timer never expires after the reader has taken and dealt
\* with the acknowledgement of the request.
AckTimeoutMeansNoAck ==
    [][call = "wait" /\ call' = "timedout" /\ rx = "out" => ~AckRead]_allVars

\* "Conversation is already busy processing previous request": when a request
\* is refused because an earlier one awaits its response, the server, the
\* stream or the reader still has something of that earlier one.
BusyMeansProcessing ==
    [][call = "out" /\ call' = "return" /\ state = "kWaitForDiagnosticResponse"
           => server # <<>> \/ stream # <<>> \/ rx # "out"]_allVars
=============================================================================
