---------------------- MODULE DiagnosticExchangeProofs ----------------------
(***************************************************************************)
(* Proofs about the diagnostic exchange, for any number of requests and of *)
(* response-pending messages: its types, ResponseIntact,                   *)
(* CorrelatedUnlessAckTimeout, and that it implements DiagnosticService.   *)
(*                                                                         *)
(* The argument.  The server speaks about one request after the other      *)
(* (Ordered), so what the reader has at hand is newer than what was        *)
(* returned (Reading).  The reader hands a response over only while the    *)
(* handler waits for one, and ends that wait before the handler takes the  *)
(* next request (Phases, Success).  As long as no acknowledgement timeout  *)
(* intervenes the handler turns away from a request only when nothing of   *)
(* it is left on the way (Synchronised): a negative acknowledgement is the *)
(* server's last word about the request that waits (Undisturbed), and so   *)
(* is the response.                                                        *)
(***************************************************************************)
EXTENDS DiagnosticExchange, DiagnosticMessageHandlerProofs, SequenceTheorems

-----------------------------------------------------------------------------
(* The inductive invariant *)

\* Where the API thread and the reader thread can be at the same time in the
\* handler and in the conversation.
Threads ==
    /\ stopping = {}
    /\ conv = "transmit" <=> call # "out"
    /\ rx = "copy" <=> ind = "fill"
    /\ rx = "handle" <=> ind = "handle"
    /\ ind \in {"pendingCancel", "final", "finalCancel"} => rx = "indicate"

\* The handler's state seen from its two threads: the acknowledgement phase
\* belongs to the API thread's call, the response phase to the reader.
Phases ==
    /\ state = "kWaitForDiagnosticAck"
          => call \in {"arm", "wait", "timedout", "cancelled", "ackNeg"}
    /\ state = "kWaitForDiagnosticResponse" => call \in {"out", "return"}
    /\ call = "ackPos" => state = "kDiagnosticPositiveAckRecvd"
    /\ rx = "ackSet" => state \in {"kWaitForDiagnosticAck", "kIdle"}
    /\ rx \in {"indicate", "copy", "handle", "finish"}
          => state = "kWaitForDiagnosticResponse"

AckPhase == {"sent", "arm", "wait", "timedout", "cancelled", "ackPos", "ackNeg"}

ResponsePhase ==
    {"armP2", "waitP2", "armP2Star", "waitP2Star", "timedout", "woken", "toP2Star",
     "loop", "success", "toIdle"}

\* The request of the current call, and what its result says about it.
Outcome ==
    /\ sent <= MaxRequests
    /\ request \in {0, sent}
    /\ call = "send" => request = 0 /\ sent < MaxRequests /\ result = "kTransmitFailed"
    /\ call \in AckPhase \/ conv = "sent" \/ conv \in ResponsePhase => request # 0
    /\ call = "return" =>
          (request = 0 <=> result \in {"kTransmitFailed", "kBusyProcessing"})
    /\ conv \notin ResponsePhase \cup {"return", "out"} => diag_result = "kDiagRequestSendFailed"
    /\ conv \in ResponsePhase
          => diag_result \in {"kDiagRequestSendFailed", "kDiagResponseTimeout", Response}
    /\ conv = "return" =>
          diag_result \in IF request = 0 THEN Service!NotWritten
                          ELSE Service!Unanswered \cup {Response}

\* The conversation's state seen from the API thread's loop.
Looping ==
    /\ conv \in ResponsePhase \ {"loop"} => conversation_state # "kIdle"
    /\ conv = "loop" /\ conversation_state = "kIdle" => diag_result # "kDiagRequestSendFailed"
    /\ conv = "loop" /\ diag_result = Response => conversation_state = "kIdle"
    /\ conv = "success" => conversation_state = "kDiagSuccess"
    /\ diag_result = Response => conv \in {"toIdle", "loop", "return", "out"}
    /\ conv = "toIdle" => diag_result = Response

\* The reader has handed its response over and takes no other one before the
\* next request has been acknowledged.
Settled == rx = "finish" \/ state # "kWaitForDiagnosticResponse"

\* An acknowledgement timeout of a request up to b.
Slipped(b) == \E id \in 1 .. b : <<id, "kDiagAckTimeout">> \in failed

\* What the conversation reports once it is in kDiagSuccess.
Reportable ==
    /\ Settled
    /\ payload_rx_buffer \in Payload
    /\ answered < payload_rx_buffer
    /\ payload_rx_buffer = request \/ Slipped(payload_rx_buffer)

Success ==
    /\ conversation_state = "kDiagSuccess" /\ conv \in ResponsePhase => Reportable
    /\ diag_result = Response /\ conv # "out" => Reportable
    /\ diag_result = Response => Settled /\ payload_rx_buffer \in Payload

-----------------------------------------------------------------------------

\* The server has more to say about m's request after m.
Open(m) == m.kind \in {"posAck", "pending"}

\* m may come before something about request id.
Before(m, id) == m.id < id \/ (m.id = id /\ Open(m))

\* The server's messages come in the order of the requests.
Ordered ==
    /\ \A k, l \in DOMAIN server : k < l => server[k].id < server[l].id
    /\ \A k \in DOMAIN server : server[k].id <= sent
    /\ \A i \in DOMAIN stream, k \in DOMAIN server : Before(stream[i], server[k].id)
    /\ \A i, j \in DOMAIN stream : i < j => Before(stream[i], stream[j].id)
    /\ \A i \in DOMAIN stream : stream[i].id \in 1 .. sent
    /\ \A i \in DOMAIN stream : Before(message, stream[i].id)
    /\ \A k \in DOMAIN server : Before(message, server[k].id)
    /\ message.id <= sent

\* The message the reader has and the buffer it fills.
Reading ==
    /\ rx # "out" => message.id > 0
    /\ rx \in {"ackSet", "ackCancel"} => message.kind \in {"posAck", "negAck"}
    /\ rx = "ackSet" /\ final_state = "kDiagnosticNegativeAckRecvd" => message.kind = "negAck"
    /\ rx \in {"indicate", "copy", "handle", "finish"}
          => message.kind \in {"pending", "final", "tooLong"}
    /\ rx = "finish" => ~Open(message)
    /\ ind = "pendingCancel" => message.kind = "pending"
    /\ ind \in {"final", "finalCancel", "fill", "handle"} => message.kind = "final"
    /\ ind = "handle" => payload_rx_buffer = message.id
    /\ payload_rx_buffer \in Payload
          => \/ payload_rx_buffer < message.id
             \/ payload_rx_buffer = message.id /\ message.kind = "final"
    /\ \/ answered < message.id
       \/ /\ answered = message.id
          /\ message.kind = "final"
          /\ rx \notin {"indicate", "copy", "handle"}

-----------------------------------------------------------------------------

\* The call of request sent will report an acknowledgement timeout.
TimingOut ==
    /\ request = sent /\ request # 0
    /\ \/ call = "return" /\ result = "kNoTransmitAckReceived"
       \/ conv = "return" /\ diag_result = "kDiagAckTimeout"

\* The handler still deals with request sent.
Engaged ==
    \/ call \in AckPhase
    \/ state = "kWaitForDiagnosticResponse"
    \/ TimingOut

InStep(b) == Slipped(b) \/ (b = sent /\ Engaged)

\* The server or a message that is not read yet has to do with request b, ...
Underway(b) ==
    \/ \E k \in DOMAIN server : server[k].id = b
    \/ \E i \in DOMAIN stream : stream[i].id = b

\* ... or the message that the reader works on.
Outstanding(b) == Underway(b) \/ (rx # "out" /\ message.id = b)

\* Nothing is left of an earlier request once the handler has gone on to the
\* next, unless there was an acknowledgement timeout.
Synchronised == \A b \in 1 .. sent : Outstanding(b) => InStep(b)

\* An acknowledgement that is being dealt with is the one of the request that
\* waits for it.
Matched ==
    /\ rx \in {"ackSet", "ackCancel"} => call \in {"arm", "wait", "timedout"}
    /\ rx = "ackSet" => state = "kWaitForDiagnosticAck"
    /\ rx = "ackCancel" => state \in AckState
    /\ state \in AckState => call \in AckPhase \ {"sent"}
    /\ state = "kDiagnosticNegativeAckRecvd" => ~Underway(sent)
    /\ call = "wait" /\ ~start_running => state \in AckState /\ rx # "ackCancel"
    /\ call = "cancelled" => state \in AckState
    /\ call = "ackNeg" => state = "kDiagnosticNegativeAckRecvd"

Undisturbed == Slipped(sent) \/ TimingOut \/ Matched

Control == Threads /\ Phases /\ Outcome /\ Looping

ExchangeInv ==
    /\ ExchangeTypeOK
    /\ Control
    /\ Ordered
    /\ Reading
    /\ Success
    /\ Synchronised
    /\ Undisturbed

-----------------------------------------------------------------------------
(* Sequences *)

\* What reading the first message leaves.
LEMMA TailFacts ==
  ASSUME NEW S, NEW s \in Seq(S), s # <<>>
  PROVE  /\ Head(s) \in S /\ Head(s) = s[1] /\ 1 \in DOMAIN s
         /\ Tail(s) \in Seq(S)
         /\ \A i \in DOMAIN Tail(s) : i \in Nat \ {0} /\ i + 1 \in DOMAIN s /\ Tail(s)[i] = s[i + 1]
  BY HeadTailProperties

\* What writing one more message adds.
LEMMA AppendFacts ==
  ASSUME NEW S, NEW s \in Seq(S), NEW e \in S
  PROVE  /\ Append(s, e) \in Seq(S)
         /\ \A i \in DOMAIN Append(s, e) :
               \/ i \in DOMAIN s /\ Append(s, e)[i] = s[i]
               \/ i = Len(s) + 1 /\ Append(s, e)[i] = e
         /\ \A i \in DOMAIN s : i < Len(s) + 1
         /\ DOMAIN s = 1 .. Len(s) /\ Len(s) \in Nat
  BY AppendProperties

-----------------------------------------------------------------------------
(* The components inside the composition *)

\* A step of the composition is a step of the message handler, or none.
LEMMA HandlerStep == [ExchangeNext]_allVars => [Next]_vars
<1> SUFFICES ASSUME [ExchangeNext]_allVars PROVE Next \/ UNCHANGED vars
  OBVIOUS
<1> USE DEF handlerVars
<1>1. CASE Call
  BY <1>1 DEF Call, Next
<1>2. CASE CallNull \/ InConversation \/ CallReturn \/ Indicate
  BY <1>2 DEF CallNull, InConversation, CallReturn, Indicate
<1>3. CASE Write \/ InHandler \/ BackFromHandler
  BY <1>3 DEF Write, InHandler, BackFromHandler, Next, Api
<1>4. CASE Read
  <2>1. AckOf(Head(stream)) \in AckState
    BY DEF AckOf, AckState
  <2> QED
    BY <1>4, <2>1 DEF Read, Next, Receive
<1>5. CASE ReaderInHandler \/ IndicateReturn \/ Copy \/ Handle
  BY <1>5 DEF ReaderInHandler, IndicateReturn, Copy, Handle, Next, Reader, IndicationResult
<1>6. CASE ExchangeServer
  BY <1>6 DEF ExchangeServer, ServerAcknowledges, ServerDenies, ServerPending,
              ServerResponds, ServerGivesUp, serverUnchanged
<1>7. CASE UNCHANGED allVars
  BY <1>7 DEF allVars
<1> QED
  BY <1>1, <1>2, <1>3, <1>4, <1>5, <1>6, <1>7 DEF ExchangeNext, ExchangeApi, ExchangeReader

\* The handler in the composition behaves as the handler on its own: what is
\* proved of it there holds here.
THEOREM ExchangeRunsHandler == ExchangeSpec => Spec
<1>1. ExchangeInit => Init
  BY DEF ExchangeInit
<1> QED
  BY <1>1, HandlerStep, PTL DEF ExchangeSpec, Spec

-----------------------------------------------------------------------------
(* The control part of the invariant *)

ControlTypes ==
    /\ state \in DiagnosticMessageState
    /\ call \in CallLocation
    /\ result \in TransmissionResult
    /\ rx \in RxLocation
    /\ final_state \in AckState
    /\ conv \in ConvLocation
    /\ diag_result \in DiagError \cup {Response}
    /\ ind \in IndLocation
    /\ conversation_state \in ConversationState
    /\ sent \in Nat

\* A step keeps the two threads' locations, the handler's and the conversation's
\* state and the result of the call consistent.
LEMMA ControlKept ==
    ControlTypes /\ MaxRequests \in Nat /\ Control /\ Success /\ [ExchangeNext]_allVars => Control'
<1> SUFFICES ASSUME ControlTypes, MaxRequests \in Nat, Control, Success, [ExchangeNext]_allVars
             PROVE  Control'
  OBVIOUS
<1> USE DEF ControlTypes, Control, Threads, Phases, Outcome, Looping, Success, Settled,
            ResponsePhase, AckPhase, DiagnosticMessageState, CallLocation,
            TransmissionResult, RxLocation, AckState, ConvLocation, DiagError, Response,
            IndLocation, ConversationState, timerVars, apiVars, rxVars, history, vars,
            convVars, convApi, convRx, handlerVars, conversationVars, systemVars,
            Service!NotWritten, Service!Unanswered
<1>1. CASE Call
  BY <1>1 DEF Call, SendDiagnosticRequest, HandleDiagnosticRequest
<1>2. CASE CallNull
  BY <1>2 DEF CallNull, SendDiagnosticRequestNull
<1>3. CASE Write
  BY <1>3 DEF Write, SendDiagnosticRequestOk
<1>4. CASE InHandler
  <2> UNCHANGED <<conversationVars, systemVars>>
    BY <1>4 DEF InHandler
  <2>1. CASE SendDiagnosticRequestFailed
    BY <2>1 DEF SendDiagnosticRequestFailed
  <2>2. CASE ToWaitForDiagnosticAck \/ StartAckTimer
    BY <2>2 DEF ToWaitForDiagnosticAck, StartAckTimer
  <2>3. CASE AckTimerExpires \/ AckTimerCancelled
    BY <2>3 DEF AckTimerExpires, AckTimerCancelled
  <2>4. CASE AckTimeout
    BY <2>4 DEF AckTimeout
  <2>5. CASE CheckAck
    BY <2>5 DEF CheckAck
  <2>6. CASE PositiveAck
    BY <2>6 DEF PositiveAck
  <2>7. CASE NegativeAck
    BY <2>7 DEF NegativeAck
  <2> QED
    BY <1>4, <2>1, <2>2, <2>3, <2>4, <2>5, <2>6, <2>7 DEF InHandler
<1>5. CASE BackFromHandler
  BY <1>5 DEF BackFromHandler, Return, Transmitted, ConvertResponseType
<1>6. CASE InConversation
  BY <1>6 DEF InConversation, ToWaitForRes, StartP2Timer, P2TimerExpires,
              P2TimerCancelled, P2Timeout, P2Woken, ToP2Star, Loop, EmplaceValue,
              SuccessToIdle
<1>7. CASE CallReturn
  BY <1>7 DEF CallReturn, ConvReturn
<1>8. CASE Read
  BY <1>8 DEF Read, ProcessDoIPDiagnosticAckMessageResponse,
              ProcessDoIPDiagnosticMessageResponse
<1>9. CASE ReaderInHandler
  BY <1>9 DEF ReaderInHandler, AckTransition, AckCancelWait, FinishResponse
<1>10. CASE Indicate
  BY <1>10 DEF Indicate, IndicatePending, IndicateFinal, FinalTransition, Reportable
<1>11. CASE IndicateReturn
  <2> UNCHANGED systemVars
    BY <1>11 DEF IndicateReturn
  <2>1. CASE PendingCancelWait /\ Indicated("kIndicationPending")
    BY <2>1 DEF PendingCancelWait, Indicated
  <2>2. CASE FinalCancelWait /\ Indicated("kIndicationOk")
    BY <2>2 DEF FinalCancelWait, Indicated
  <2>3. CASE IndicateRejected /\ Indicated("kIndicationOverflow")
    BY <2>3 DEF IndicateRejected, Indicated
  <2> QED
    BY <1>11, <2>1, <2>2, <2>3 DEF IndicateReturn
<1>12. CASE Copy
  BY <1>12 DEF Copy, CopyToApplicationBuffer, Fill
<1>13. CASE Handle
  BY <1>13 DEF Handle, HandleMessage, ConvHandleMessage
<1>14. CASE ExchangeServer
  BY <1>14 DEF ExchangeServer, serverUnchanged, ServerAcknowledges, ServerDenies,
               ServerPending, ServerResponds, ServerGivesUp
<1>15. CASE UNCHANGED allVars
  BY <1>15 DEF allVars
<1> QED
  BY <1>1, <1>2, <1>3, <1>4, <1>5, <1>6, <1>7, <1>8, <1>9, <1>10, <1>11, <1>12, <1>13,
     <1>14, <1>15 DEF ExchangeNext, ExchangeApi, ExchangeReader

-----------------------------------------------------------------------------
(* Types *)

\* A step keeps the message handler's variables in their types.
LEMMA HandlerTypes == TypeOK /\ [ExchangeNext]_allVars => TypeOK'
<1> SUFFICES ASSUME TypeOK, [ExchangeNext]_allVars PROVE TypeOK'
  OBVIOUS
<1>1. [Next]_vars
  BY HandlerStep
<1>2. ControlOK
  BY DEF TypeOK, ControlOK
<1>3. FlagsOK' /\ ControlOK'
  BY <1>1, <1>2, FlagsStep, ControlStep
<1> QED
  BY <1>3 DEF FlagsOK, ControlOK, TypeOK

\* A step keeps the conversation's variables in their types.
LEMMA ConversationTypes == ExchangeInv /\ [ExchangeNext]_allVars => ConvTypeOK'
<1> SUFFICES ASSUME ExchangeInv, [ExchangeNext]_allVars PROVE ConvTypeOK'
  OBVIOUS
<1> USE DEF convVars, convApi, convRx, conversationVars
<1>1. /\ ConvTypeOK
      /\ result \in TransmissionResult
      /\ rx = "copy" => message.id \in Payload
  BY ExchangeAssumption, MaxRequestsAssumption
     DEF ExchangeInv, ExchangeTypeOK, TypeOK, Reading, Message
<1>2. CASE Call
  BY <1>1, <1>2 DEF Call, SendDiagnosticRequest, ConvTypeOK, ConvLocation, DiagError
<1>3. CASE CallNull
  BY <1>1, <1>3 DEF CallNull, SendDiagnosticRequestNull, ConvTypeOK, ConvLocation, DiagError
<1>4. CASE Write \/ InHandler \/ Read \/ ReaderInHandler
  BY <1>1, <1>4 DEF Write, InHandler, Read, ReaderInHandler, ConvTypeOK
<1>5. CASE BackFromHandler
  BY <1>1, <1>5 DEF BackFromHandler, Transmitted, ConvertResponseType, ConvTypeOK,
                    ConvLocation, DiagError
<1>6. CASE InConversation
  <2>1. p2_running' \in BOOLEAN
    BY <1>1, <1>6 DEF InConversation, ToWaitForRes, StartP2Timer, P2TimerExpires,
              P2TimerCancelled, P2Timeout, P2Woken, ToP2Star, Loop, EmplaceValue,
              SuccessToIdle, ConvTypeOK
  <2>2. /\ conversation_state' \in ConversationState
        /\ conv' \in ConvLocation
        /\ diag_result' \in DiagError \cup {Response}
        /\ UNCHANGED convRx
    BY <1>1, <1>6 DEF InConversation, ToWaitForRes, StartP2Timer, P2TimerExpires,
              P2TimerCancelled, P2Timeout, P2Woken, ToP2Star, Loop, EmplaceValue,
              SuccessToIdle, ConvTypeOK, ConvLocation, DiagError, ConversationState
  <2> QED
    BY <1>1, <2>1, <2>2 DEF ConvTypeOK
<1>7. CASE CallReturn
  BY <1>1, <1>7 DEF CallReturn, ConvReturn, ConvTypeOK, ConvLocation
<1>8. CASE Indicate
  BY <1>1, <1>8 DEF Indicate, IndicatePending, IndicateFinal, FinalTransition, ConvTypeOK,
                    IndLocation, ConversationState
<1>9. CASE IndicateReturn
  BY <1>1, <1>9 DEF IndicateReturn, PendingCancelWait, FinalCancelWait, IndicateRejected,
                    ConvTypeOK, IndLocation
<1>10. CASE Copy
  BY <1>1, <1>10 DEF Copy, CopyToApplicationBuffer, Fill, ConvTypeOK, IndLocation
<1>11. CASE Handle
  BY <1>1, <1>11 DEF Handle, ConvHandleMessage, ConvTypeOK, IndLocation, ConversationState
<1>12. CASE ExchangeServer
  BY <1>1, <1>12 DEF ExchangeServer, serverUnchanged, ServerAcknowledges, ServerDenies,
                     ServerPending, ServerResponds, ServerGivesUp, ConvTypeOK
<1>13. CASE UNCHANGED allVars
  BY <1>1, <1>13 DEF allVars, ConvTypeOK
<1> QED
  BY <1>2, <1>3, <1>4, <1>5, <1>6, <1>7, <1>8, <1>9, <1>10, <1>11, <1>12, <1>13
     DEF ExchangeNext, ExchangeApi, ExchangeReader

QueueTypes ==
    /\ stream \in Seq(Message)
    /\ server \in Seq(ServerRequest)
    /\ message \in Message
    /\ request \in 0 .. MaxRequests
    /\ answered \in 0 .. MaxRequests
    /\ failed \subseteq (1 .. MaxRequests) \X DiagError

\* A step keeps the messages, the server's requests and the history in their types.
LEMMA SystemTypes == ExchangeInv /\ [ExchangeNext]_allVars => QueueTypes'
<1> SUFFICES ASSUME ExchangeInv, [ExchangeNext]_allVars PROVE QueueTypes'
  OBVIOUS
<1> USE MaxRequestsAssumption, ExchangeAssumption
<1>1. QueueTypes /\ sent \in Nat /\ diag_result \in DiagError \cup {Response}
  BY DEF ExchangeInv, ExchangeTypeOK, TypeOK, ConvTypeOK, QueueTypes
<1>2. ASSUME UNCHANGED systemVars PROVE QueueTypes'
  BY <1>1, <1>2 DEF systemVars, QueueTypes
<1>3. CASE Call \/ CallNull
  BY <1>1, <1>3 DEF Call, CallNull, QueueTypes
<1>4. CASE Write
  <2>1. sent + 1 \in 1 .. MaxRequests
    BY <1>1, <1>4 DEF Write, SendDiagnosticRequestOk, ExchangeInv, Control, Outcome
  <2>2. [id |-> sent + 1, acked |-> FALSE, pending |-> 0] \in ServerRequest
    BY <2>1 DEF ServerRequest
  <2>3. server' \in Seq(ServerRequest)
    BY <1>1, <1>4, <2>2, AppendFacts DEF Write, QueueTypes
  <2> QED
    BY <1>1, <1>4, <2>1, <2>3 DEF Write, QueueTypes
<1>5. CASE InHandler \/ BackFromHandler \/ InConversation
  BY <1>2, <1>5 DEF InHandler, BackFromHandler, InConversation
<1>6. CASE CallReturn
  <2>1. diag_result = Response => payload_rx_buffer \in 1 .. MaxRequests
    BY DEF ExchangeInv, Success
  <2>2. diag_result # Response /\ request # 0
          => <<request, diag_result>> \in (1 .. MaxRequests) \X DiagError
    BY <1>1 DEF QueueTypes
  <2> QED
    BY <1>1, <1>6, <2>1, <2>2 DEF CallReturn, QueueTypes
<1>7. CASE Read
  BY <1>1, <1>7, TailFacts DEF Read, QueueTypes
<1>8. CASE ReaderInHandler \/ Indicate \/ IndicateReturn \/ Copy \/ Handle
  BY <1>2, <1>8 DEF ReaderInHandler, Indicate, IndicateReturn, Copy, Handle
<1>9. CASE ExchangeServer
  <2>1. /\ server # <<>> /\ Head(server) \in ServerRequest
        /\ Head(server) = server[1] /\ 1 \in DOMAIN server
        /\ Tail(server) \in Seq(ServerRequest)
    <3>1. server # <<>>
      BY <1>9 DEF ExchangeServer, ServerAcknowledges, ServerDenies, ServerPending,
                  ServerResponds, ServerGivesUp
    <3> QED
      BY <1>1, <3>1, TailFacts DEF QueueTypes
  <2>2. ASSUME NEW kind \in MessageKind, Emit(kind) PROVE stream' \in Seq(Message)
    <3>1. [kind |-> kind, id |-> Head(server).id] \in Message
      BY <2>1 DEF Message, ServerRequest
    <3> QED
      BY <1>1, <2>2, <3>1, AppendFacts DEF Emit, QueueTypes
  <2>3. UNCHANGED <<message, request, answered, failed>>
    BY <1>9 DEF ExchangeServer, ServerAcknowledges, ServerDenies, ServerPending,
                ServerResponds, ServerGivesUp, serverUnchanged
  <2>4. CASE ServerAcknowledges
    <3>1. [server[1] EXCEPT !.acked = TRUE] \in ServerRequest
      BY <2>1 DEF ServerRequest
    <3>2. server' \in Seq(ServerRequest)
      BY <1>1, <2>1, <2>4, <3>1, ExceptSeq DEF ServerAcknowledges, QueueTypes
    <3> QED
      BY <1>1, <2>2, <2>3, <2>4, <3>2 DEF ServerAcknowledges, QueueTypes, MessageKind
  <2>5. CASE ServerPending
    <3>1. [server[1] EXCEPT !.pending = @ + 1] \in ServerRequest
      BY <2>1, <2>5, SMTT(60) DEF ServerRequest, ServerPending
    <3>2. server' \in Seq(ServerRequest)
      BY <1>1, <2>1, <2>5, <3>1, ExceptSeq DEF ServerPending, QueueTypes
    <3> QED
      BY <1>1, <2>2, <2>3, <2>5, <3>2 DEF ServerPending, QueueTypes, MessageKind
  <2>6. CASE ServerDenies \/ ServerResponds \/ ServerGivesUp
    BY <1>1, <2>1, <2>2, <2>3, <2>6 DEF ServerDenies, ServerResponds, ServerGivesUp,
                                        QueueTypes, MessageKind
  <2> QED
    BY <1>9, <2>4, <2>5, <2>6 DEF ExchangeServer
<1>10. CASE UNCHANGED allVars
  BY <1>2, <1>10 DEF allVars
<1> QED
  BY <1>3, <1>4, <1>5, <1>6, <1>7, <1>8, <1>9, <1>10
     DEF ExchangeNext, ExchangeApi, ExchangeReader

-----------------------------------------------------------------------------
(* The order of the messages *)

\* Only Write changes the number of requests written.
LEMMA SentKept == [ExchangeNext]_allVars /\ ~Write => sent' = sent
<1> SUFFICES ASSUME [ExchangeNext]_allVars, ~Write PROVE sent' = sent
  OBVIOUS
<1> USE DEF handlerVars, vars, history
<1>1. CASE Call \/ CallNull \/ BackFromHandler \/ InConversation \/ CallReturn
  BY <1>1 DEF Call, CallNull, BackFromHandler, InConversation, CallReturn,
              HandleDiagnosticRequest, Return
<1>2. CASE InHandler
  BY <1>2 DEF InHandler, SendDiagnosticRequestFailed, ToWaitForDiagnosticAck, StartAckTimer,
              AckTimerExpires, AckTimerCancelled, AckTimeout, CheckAck, PositiveAck, NegativeAck
<1>3. CASE Read \/ ReaderInHandler \/ Indicate \/ IndicateReturn \/ Copy \/ Handle
  BY <1>3 DEF Read, ReaderInHandler, Indicate, IndicateReturn, Copy, Handle,
              ProcessDoIPDiagnosticAckMessageResponse, ProcessDoIPDiagnosticMessageResponse,
              AckTransition, AckCancelWait, FinishResponse, Indicated,
              CopyToApplicationBuffer, HandleMessage
<1>4. CASE ExchangeServer
  BY <1>4 DEF ExchangeServer, serverUnchanged, ServerAcknowledges, ServerDenies,
              ServerPending, ServerResponds, ServerGivesUp
<1>5. CASE UNCHANGED allVars
  BY <1>5 DEF allVars
<1> QED
  BY <1>1, <1>2, <1>3, <1>4, <1>5 DEF ExchangeNext, ExchangeApi, ExchangeReader

\* What the server does: it takes the first request out or keeps it, and says
\* something about that request or nothing; what it says while it keeps the
\* request is not the last word about it.
ServerStep ==
    /\ server # <<>>
    /\ \/ server' = Tail(server)
       \/ /\ DOMAIN server' = DOMAIN server
          /\ \A k \in DOMAIN server : server'[k].id = server[k].id
    /\ \/ stream' = stream
       \/ \E kind \in MessageKind :
             /\ stream' = Append(stream, [kind |-> kind, id |-> server[1].id])
             /\ kind \in {"posAck", "pending"} \/ server' = Tail(server)
    /\ UNCHANGED <<handlerVars, conversationVars, message, request, answered, failed>>

\* Each of the server's actions is such a step.
LEMMA ServerSteps == QueueTypes /\ ExchangeServer => ServerStep
<1> SUFFICES ASSUME QueueTypes, ExchangeServer PROVE ServerStep
  OBVIOUS
<1>1. server # <<>> /\ serverUnchanged
  BY DEF ExchangeServer, ServerAcknowledges, ServerDenies, ServerPending,
         ServerResponds, ServerGivesUp
<1>2. /\ Head(server) = server[1] /\ 1 \in DOMAIN server
      /\ server \in Seq(ServerRequest)
      /\ server[1] \in ServerRequest
  BY <1>1, TailFacts DEF QueueTypes
<1>3. CASE ServerAcknowledges
  BY <1>1, <1>2, <1>3 DEF ServerAcknowledges, Emit, ServerStep, serverUnchanged,
                          MessageKind, ServerRequest
<1>4. CASE ServerPending
  BY <1>1, <1>2, <1>4 DEF ServerPending, Emit, ServerStep, serverUnchanged,
                          MessageKind, ServerRequest
<1>5. CASE ServerDenies \/ ServerResponds \/ ServerGivesUp
  BY <1>1, <1>2, <1>5 DEF ServerDenies, ServerResponds, ServerGivesUp, Emit, ServerStep,
                          serverUnchanged, MessageKind
<1> QED
  BY <1>3, <1>4, <1>5 DEF ExchangeServer

\* A step that neither writes, nor reads, nor is the server's leaves the
\* messages as they are.
LEMMA MessagesKept ==
    [ExchangeNext]_allVars /\ ~Write /\ ~Read /\ ~ExchangeServer
        => UNCHANGED <<stream, server, message>>
  BY DEF ExchangeNext, ExchangeApi, ExchangeReader, allVars, systemVars, Call, CallNull,
         InHandler, BackFromHandler, InConversation, CallReturn, ReaderInHandler, Indicate,
         IndicateReturn, Copy, Handle

\* A step keeps the order of what the server says.
LEMMA OrderedKept ==
    QueueTypes /\ sent \in Nat /\ Ordered /\ [ExchangeNext]_allVars => Ordered'
<1> SUFFICES ASSUME QueueTypes, sent \in Nat, Ordered, [ExchangeNext]_allVars PROVE Ordered'
  OBVIOUS
<1>1. /\ stream \in Seq(Message) /\ server \in Seq(ServerRequest) /\ message.id \in Nat
      /\ \A i \in DOMAIN stream : stream[i].id \in Nat
      /\ \A k \in DOMAIN server : server[k].id \in Nat \ {0}
  <2>1. /\ \A i \in DOMAIN stream : stream[i] \in Message
        /\ \A k \in DOMAIN server : server[k] \in ServerRequest
    BY LenProperties DEF QueueTypes
  <2> QED
    BY <2>1, MaxRequestsAssumption DEF QueueTypes, Message, ServerRequest
<1>2. CASE Write
  <2>1. /\ sent' = sent + 1
        /\ UNCHANGED <<stream, message>>
        /\ server' = Append(server, [id |-> sent + 1, acked |-> FALSE, pending |-> 0])
    BY <1>2 DEF Write, SendDiagnosticRequestOk
  <2>2. \A k \in DOMAIN server' :
           \/ k \in DOMAIN server /\ server'[k] = server[k]
           \/ k = Len(server) + 1 /\ server'[k].id = sent + 1
    BY <1>1, <2>1
  <2>3. \A k \in DOMAIN server : k < Len(server) + 1 /\ k \in Nat
    BY <1>1
  <2> QED
    BY <1>1, <2>1, <2>2, <2>3, SMTT(60) DEF Ordered, Before, Open
<1>3. CASE Read
  <2>1. /\ sent' = sent /\ server' = server /\ stream # <<>>
        /\ message' = Head(stream) /\ stream' = Tail(stream)
    BY <1>3, SentKept DEF Read, Write, SendDiagnosticRequestOk
  <2>2. /\ message' = stream[1] /\ 1 \in DOMAIN stream
        /\ \A i \in DOMAIN stream' : i \in Nat \ {0} /\ i + 1 \in DOMAIN stream
                                        /\ stream'[i] = stream[i + 1]
    BY <1>1, <2>1, TailFacts
  <2>3. \A i, j \in DOMAIN stream' : i < j => Before(stream'[i], stream'[j].id)
    BY <2>2 DEF Ordered
  <2>4. \A i \in DOMAIN stream' : stream'[i].id \in 1 .. sent /\ Before(message', stream'[i].id)
    <3> TAKE i \in DOMAIN stream'
    <3>1. i + 1 \in DOMAIN stream /\ stream'[i] = stream[i + 1] /\ 1 < i + 1
      BY <2>2
    <3> QED
      BY <2>2, <3>1 DEF Ordered
  <2>5. /\ \A i \in DOMAIN stream', k \in DOMAIN server : Before(stream'[i], server[k].id)
        /\ \A k \in DOMAIN server : Before(message', server[k].id)
        /\ message'.id <= sent
    BY <1>1, <2>2 DEF Ordered
  <2> QED
    BY <2>1, <2>3, <2>4, <2>5 DEF Ordered
<1>4. CASE ExchangeServer
  <2>1. ServerStep /\ sent' = sent /\ message' = message
    BY <1>4, ServerSteps DEF ServerStep, handlerVars, vars
  <2>2. 1 \in DOMAIN server /\ server # <<>> /\ \A k \in DOMAIN server : k \in Nat \ {0}
    BY <1>1, <2>1, TailFacts DEF ServerStep
  <2>3. \A k \in DOMAIN server' :
           /\ k \in Nat \ {0}
           /\ \/ /\ k + 1 \in DOMAIN server /\ server'[k].id = server[k + 1].id
                 /\ server' = Tail(server)
              \/ /\ k \in DOMAIN server /\ server'[k].id = server[k].id
                 /\ server' # Tail(server)
    <3>1. CASE server' = Tail(server)
      BY <1>1, <2>2, <3>1, TailFacts
    <3>2. CASE server' # Tail(server)
      BY <2>1, <2>2, <3>2 DEF ServerStep
    <3> QED
      BY <3>1, <3>2
  <2>4. \A i \in DOMAIN stream' :
           \/ i \in DOMAIN stream /\ stream'[i] = stream[i]
           \/ /\ i = Len(stream) + 1 /\ stream'[i].id = server[1].id
              /\ Open(stream'[i]) \/ server' = Tail(server)
    <3>1. CASE stream' = stream
      BY <3>1
    <3>2. CASE stream' # stream
      <4>1. PICK kind \in MessageKind :
               /\ stream' = Append(stream, [kind |-> kind, id |-> server[1].id])
               /\ kind \in {"posAck", "pending"} \/ server' = Tail(server)
        BY <2>1, <3>2 DEF ServerStep
      <4> QED
        BY <1>1, <4>1 DEF Open
    <3> QED
      BY <3>1, <3>2
  <2>5. \A i \in DOMAIN stream : i < Len(stream) + 1 /\ i \in Nat
    BY <1>1
  <2>6. /\ \A k \in DOMAIN server' : server'[k].id \in Nat /\ server[1].id <= server'[k].id
        /\ server' = Tail(server) => \A k \in DOMAIN server' : server[1].id < server'[k].id
    <3>1. \A k \in Nat \ {0} : k + 1 \in DOMAIN server => server[1].id < server[k + 1].id
      BY <2>2 DEF Ordered
    <3>2. \A k \in DOMAIN server : server[1].id <= server[k].id
      BY <1>1, <2>2 DEF Ordered
    <3> QED
      BY <1>1, <2>2, <2>3, <3>1, <3>2
  <2>7. \A k, l \in DOMAIN server' : k < l => server'[k].id < server'[l].id
    BY <1>1, <2>2, <2>3, SMTT(60) DEF Ordered
  <2>8. \A k \in DOMAIN server' : server'[k].id <= sent
    BY <1>1, <2>2, <2>3 DEF Ordered
  <2>9. \A m : (\A k \in DOMAIN server : Before(m, server[k].id))
                  => \A k \in DOMAIN server' : Before(m, server'[k].id)
    BY <2>3
  <2>10. \A i \in DOMAIN stream', k \in DOMAIN server' : Before(stream'[i], server'[k].id)
    <3> TAKE i \in DOMAIN stream', k \in DOMAIN server'
    <3>1. CASE i \in DOMAIN stream /\ stream'[i] = stream[i]
      <4>1. \A l \in DOMAIN server : Before(stream[i], server[l].id)
        BY <3>1 DEF Ordered
      <4> QED
        BY <2>9, <3>1, <4>1, Zenon
    <3>2. CASE stream'[i].id = server[1].id /\ (Open(stream'[i]) \/ server' = Tail(server))
      <4>1. server[1].id \in Nat /\ server'[k].id \in Nat /\ server[1].id <= server'[k].id
        BY <1>1, <2>2, <2>6
      <4>2. server' = Tail(server) => server[1].id < server'[k].id
        BY <2>6
      <4> QED
        BY <3>2, <4>1, <4>2 DEF Before
    <3> QED
      BY <2>4, <3>1, <3>2
  <2>11. \A i, j \in DOMAIN stream' : i < j => Before(stream'[i], stream'[j].id)
    BY <1>1, <2>2, <2>4, <2>5 DEF Ordered
  <2>12. \A i \in DOMAIN stream' : stream'[i].id \in 1 .. sent /\ Before(message, stream'[i].id)
    BY <1>1, <2>2, <2>4 DEF Ordered
  <2> QED
    BY <2>1, <2>7, <2>8, <2>9, <2>10, <2>11, <2>12 DEF Ordered
<1>5. CASE ~Write /\ ~Read /\ ~ExchangeServer
  BY <1>5, SentKept, MessagesKept DEF Ordered, Before, Open
<1> QED
  BY <1>2, <1>3, <1>4, <1>5

-----------------------------------------------------------------------------
(* The response that is returned *)

\* What the lemmas below use of the types.
LEMMA Numbers ==
    ExchangeInv =>
        /\ ControlTypes /\ QueueTypes
        /\ MaxRequests \in Nat
        /\ Payload = 1 .. MaxRequests
        /\ message.id \in Nat /\ answered \in Nat /\ request \in Nat
  BY MaxRequestsAssumption, ExchangeAssumption
     DEF ExchangeInv, ExchangeTypeOK, TypeOK, ConvTypeOK, ControlTypes, QueueTypes, Message

\* Apart from CallReturn the API thread and the server leave alone what the
\* reader works on.
LEMMA ReaderAlone ==
    [ExchangeNext]_allVars /\ ~ExchangeReader /\ ~CallReturn
        => UNCHANGED <<rx, final_state, ind, message, payload_rx_buffer, answered>>
  BY DEF ExchangeNext, ExchangeApi, ExchangeServer, allVars, systemVars, handlerVars, vars,
         conversationVars, convVars, convRx, rxVars, Call, HandleDiagnosticRequest,
         SendDiagnosticRequest, CallNull, SendDiagnosticRequestNull, Write,
         SendDiagnosticRequestOk, InHandler, SendDiagnosticRequestFailed,
         ToWaitForDiagnosticAck, StartAckTimer, AckTimerExpires, AckTimerCancelled,
         AckTimeout, CheckAck, PositiveAck, NegativeAck, BackFromHandler, Return,
         Transmitted, InConversation, ToWaitForRes, StartP2Timer, P2TimerExpires,
         P2TimerCancelled, P2Timeout, P2Woken, ToP2Star, Loop, EmplaceValue, SuccessToIdle,
         ServerAcknowledges, ServerDenies, ServerPending, ServerResponds, ServerGivesUp,
         serverUnchanged

\* A step keeps the reader's message newer than what was returned to the caller.
LEMMA ReadingKept == ExchangeInv /\ [ExchangeNext]_allVars => Reading'
<1> SUFFICES ASSUME ExchangeInv, [ExchangeNext]_allVars PROVE Reading'
  OBVIOUS
<1>1. /\ Reading /\ Threads /\ Phases /\ Success
      /\ ControlTypes /\ QueueTypes /\ MaxRequests \in Nat /\ Payload = 1 .. MaxRequests
      /\ message.id \in Nat /\ answered \in Nat
  BY Numbers DEF ExchangeInv, Control
<1> USE DEF Reading, Open, convVars, convApi, convRx, conversationVars, rxVars, vars,
            handlerVars, systemVars
<1>2. CASE CallReturn
  BY <1>1, <1>2 DEF CallReturn, ConvReturn, Success, Reportable, Settled, Phases, Response
<1>3. CASE Read
  <2>1. /\ message' = stream[1] /\ stream[1].id \in Nat \ {0} /\ Before(message, stream[1].id)
        /\ stream[1].kind \in MessageKind
    <3>1. stream # <<>> /\ message' = Head(stream) /\ stream \in Seq(Message)
      BY <1>1, <1>3 DEF Read, QueueTypes
    <3>2. Head(stream) = stream[1] /\ 1 \in DOMAIN stream /\ stream[1] \in Message
      BY <3>1, TailFacts
    <3> QED
      BY <3>1, <3>2, <1>1 DEF ExchangeInv, Ordered, Message, ControlTypes
  <2>2. UNCHANGED <<ind, payload_rx_buffer, answered>> /\ rx = "out"
    BY <1>3 DEF Read, ProcessDoIPDiagnosticAckMessageResponse,
                ProcessDoIPDiagnosticMessageResponse
  <2>3. \/ rx' = "out"
        \/ /\ rx' = "ackSet" /\ stream[1].kind \in {"posAck", "negAck"}
           /\ final_state' = AckOf(stream[1])
        \/ rx' = "indicate" /\ stream[1].kind \notin {"posAck", "negAck"}
    <3>1. Head(stream) = stream[1]
      BY <1>1, <1>3, TailFacts DEF Read, QueueTypes
    <3> QED
      BY <1>3, <3>1 DEF Read, ProcessDoIPDiagnosticAckMessageResponse,
                        ProcessDoIPDiagnosticMessageResponse
  <2> QED
    BY <1>1, <2>1, <2>2, <2>3 DEF Before, Threads, MessageKind, ControlTypes, IndLocation, AckOf
<1>4. CASE ReaderInHandler
  BY <1>1, <1>4 DEF ReaderInHandler, AckTransition, AckCancelWait, FinishResponse
<1>5. CASE Indicate
  BY <1>1, <1>5, UnfilledAssumption DEF Indicate, IndicatePending, IndicateFinal, FinalTransition
<1>6. CASE IndicateReturn
  BY <1>1, <1>6 DEF IndicateReturn, PendingCancelWait, FinalCancelWait, IndicateRejected, Indicated
<1>7. CASE Copy
  BY <1>1, <1>7 DEF Copy, CopyToApplicationBuffer, Fill
<1>8. CASE Handle
  BY <1>1, <1>8 DEF Handle, HandleMessage, ConvHandleMessage
<1>9. CASE ~ExchangeReader /\ ~CallReturn
  BY <1>1, <1>9, ReaderAlone
<1> QED
  BY <1>2, <1>3, <1>4, <1>5, <1>6, <1>7, <1>8, <1>9 DEF ExchangeReader

\* A step keeps what the conversation reports, or will report, as it was copied.
LEMMA SuccessKept == ExchangeInv /\ [ExchangeNext]_allVars => Success'
<1> SUFFICES ASSUME ExchangeInv, [ExchangeNext]_allVars PROVE Success'
  OBVIOUS
<1>1. /\ Success /\ Threads /\ Phases /\ Outcome /\ Looping /\ Reading
      /\ ControlTypes /\ QueueTypes /\ MaxRequests \in Nat /\ Payload = 1 .. MaxRequests
      /\ message.id \in Nat /\ answered \in Nat
  BY Numbers DEF ExchangeInv, Control
<1> USE DEF Success, Reportable, Settled, Slipped, Response, convVars, convApi, convRx,
            conversationVars, apiVars, rxVars, timerVars, history, vars, handlerVars, systemVars
<1>2. CASE Call \/ CallNull
  BY <1>1, <1>2 DEF Call, SendDiagnosticRequest, HandleDiagnosticRequest, CallNull,
                    SendDiagnosticRequestNull, ResponsePhase
<1>3. CASE Write \/ InHandler
  <2>1. conv = "transmit" /\ conv' = "transmit" /\ diag_result' = diag_result
    BY <1>1, <1>3 DEF Write, SendDiagnosticRequestOk, InHandler, SendDiagnosticRequestFailed,
         ToWaitForDiagnosticAck, StartAckTimer, AckTimerExpires, AckTimerCancelled,
         AckTimeout, CheckAck, PositiveAck, NegativeAck, Threads
  <2> QED
    BY <1>1, <2>1 DEF Outcome, ResponsePhase
<1>4. CASE BackFromHandler
  BY <1>1, <1>4 DEF BackFromHandler, Return, Transmitted, ConvertResponseType, ResponsePhase,
                    Outcome
<1>5. CASE InConversation
  <2>1. UNCHANGED <<rx, state, payload_rx_buffer, answered, request, failed>>
    BY <1>5 DEF InConversation, ToWaitForRes, StartP2Timer, P2TimerExpires,
              P2TimerCancelled, P2Timeout, P2Woken, ToP2Star, Loop, EmplaceValue, SuccessToIdle
  <2>2. /\ conversation_state' = "kDiagSuccess" /\ conv' \in ResponsePhase
              => conversation_state = "kDiagSuccess" /\ conv \in ResponsePhase
        /\ diag_result' = Response
              => (diag_result = Response /\ conv # "out") \/ conv = "success"
    BY <1>1, <1>5 DEF InConversation, ToWaitForRes, StartP2Timer, P2TimerExpires,
              P2TimerCancelled, P2Timeout, P2Woken, ToP2Star, Loop, EmplaceValue,
              SuccessToIdle, ResponsePhase
  <2> QED
    BY <1>1, <2>1, <2>2 DEF Looping, ResponsePhase
<1>6. CASE CallReturn
  BY <1>1, <1>6 DEF CallReturn, ConvReturn, ResponsePhase
<1>7. CASE Read
  BY <1>1, <1>7 DEF Read, ProcessDoIPDiagnosticAckMessageResponse,
                    ProcessDoIPDiagnosticMessageResponse
<1>8. CASE ReaderInHandler
  BY <1>1, <1>8 DEF ReaderInHandler, AckTransition, AckCancelWait, FinishResponse, Phases,
                    ControlTypes, AckState
<1>9. CASE Indicate
  BY <1>1, <1>9 DEF Indicate, IndicatePending, IndicateFinal, FinalTransition, Phases
<1>10. CASE IndicateReturn
  BY <1>1, <1>10 DEF IndicateReturn, PendingCancelWait, FinalCancelWait, IndicateRejected,
                     Indicated, Phases
<1>11. CASE Copy
  BY <1>1, <1>11 DEF Copy, CopyToApplicationBuffer, Fill, Phases
<1>12. CASE Handle
  <2>1. /\ rx = "handle" /\ rx' = "finish" /\ payload_rx_buffer = message.id
        /\ UNCHANGED <<payload_rx_buffer, answered, request, failed, conv, diag_result>>
    BY <1>1, <1>12 DEF Handle, HandleMessage, ConvHandleMessage, Reading
  <2>2. message.id > 0 /\ answered < message.id /\ message.id <= MaxRequests
    BY <1>1, <2>1 DEF Reading, QueueTypes, Message
  <2>3. diag_result # Response
    BY <1>1, <2>1 DEF Phases
  <2>4. conv \in ResponsePhase => message.id = request \/ Slipped(message.id)
    BY <1>1, <2>1, <2>2 DEF ExchangeInv, Ordered, Synchronised, InStep, Outstanding,
                            Outcome, ControlTypes
  <2> QED
    BY <1>1, <2>1, <2>2, <2>3, <2>4
<1>13. CASE ExchangeServer
  BY <1>1, <1>13, ServerSteps DEF ServerStep
<1>14. CASE UNCHANGED allVars
  BY <1>1, <1>14 DEF allVars
<1> QED
  BY <1>2, <1>3, <1>4, <1>5, <1>6, <1>7, <1>8, <1>9, <1>10, <1>11, <1>12, <1>13, <1>14
     DEF ExchangeNext, ExchangeApi, ExchangeReader

-----------------------------------------------------------------------------
(* Which request the messages belong to *)

\* A step forgets no failed call, so a slip stays one, also for later requests.
LEMMA SlippedKept ==
    [ExchangeNext]_allVars =>
        /\ failed \subseteq failed'
        /\ \A b, c \in Nat : b <= c /\ Slipped(b) => Slipped(c) /\ Slipped(c)'
<1> SUFFICES ASSUME [ExchangeNext]_allVars
             PROVE  /\ failed \subseteq failed'
                    /\ \A b, c \in Nat : b <= c /\ Slipped(b) => Slipped(c) /\ Slipped(c)'
  OBVIOUS
<1>1. failed \subseteq failed'
  BY DEF ExchangeNext, ExchangeApi, ExchangeReader, ExchangeServer, allVars, systemVars, Call,
         CallNull, Write, InHandler, BackFromHandler, InConversation, CallReturn, Read,
         ReaderInHandler, Indicate, IndicateReturn, Copy, Handle, ServerAcknowledges,
         ServerDenies, ServerPending, ServerResponds, ServerGivesUp, serverUnchanged
<1> QED
  BY <1>1 DEF Slipped

\* Only Write makes a request outstanding, and only the one it writes; only the
\* server adds to what is said about it, as long as it has to do with it.
LEMMA OutstandingKept ==
    ExchangeInv /\ [ExchangeNext]_allVars =>
        \A b \in Nat :
            /\ Outstanding(b)' => Outstanding(b) \/ (Write /\ b = sent + 1)
            /\ Underway(b)' => Underway(b) \/ (Write /\ b = sent + 1)
<1> SUFFICES ASSUME ExchangeInv, [ExchangeNext]_allVars, NEW b \in Nat
             PROVE  /\ Outstanding(b)' => Outstanding(b) \/ (Write /\ b = sent + 1)
                    /\ Underway(b)' => Underway(b) \/ (Write /\ b = sent + 1)
  OBVIOUS
<1>1. QueueTypes /\ ControlTypes /\ stream \in Seq(Message) /\ server \in Seq(ServerRequest)
  BY Numbers DEF QueueTypes
<1>2. CASE Write
  <2>1. /\ UNCHANGED <<stream, message, rx>>
        /\ server' = Append(server, [id |-> sent + 1, acked |-> FALSE, pending |-> 0])
    BY <1>2 DEF Write, SendDiagnosticRequestOk, rxVars
  <2>2. \A k \in DOMAIN server' :
           (k \in DOMAIN server /\ server'[k] = server[k]) \/ server'[k].id = sent + 1
    BY <1>1, <2>1
  <2> QED
    BY <1>2, <2>1, <2>2 DEF Outstanding, Underway
<1>3. CASE Read
  <2>1. /\ server' = server /\ message' = stream[1] /\ 1 \in DOMAIN stream
        /\ \A i \in DOMAIN stream' : i + 1 \in DOMAIN stream /\ stream'[i] = stream[i + 1]
    BY <1>1, <1>3, TailFacts DEF Read
  <2> QED
    BY <2>1 DEF Outstanding, Underway
<1>4. CASE ExchangeServer
  <2>1. ServerStep /\ UNCHANGED <<rx, message>>
    BY <1>1, <1>4, ServerSteps DEF ServerStep, handlerVars, vars, rxVars
  <2>2. 1 \in DOMAIN server
    BY <1>1, <2>1, TailFacts DEF ServerStep
  <2>3. \A k \in DOMAIN server' : \E l \in DOMAIN server : server'[k].id = server[l].id
    <3>1. CASE server' = Tail(server)
      BY <1>1, <2>1, <3>1, TailFacts DEF ServerStep
    <3>2. CASE server' # Tail(server)
      BY <2>1, <3>2 DEF ServerStep
    <3> QED
      BY <3>1, <3>2
  <2>4. \A i \in DOMAIN stream' :
           (i \in DOMAIN stream /\ stream'[i] = stream[i]) \/ stream'[i].id = server[1].id
    <3>1. CASE stream' = stream
      BY <3>1
    <3>2. CASE stream' # stream
      <4>1. PICK kind \in MessageKind :
               stream' = Append(stream, [kind |-> kind, id |-> server[1].id])
        BY <2>1, <3>2 DEF ServerStep
      <4> QED
        BY <1>1, <4>1
    <3> QED
      BY <3>1, <3>2
  <2> QED
    BY <2>1, <2>2, <2>3, <2>4 DEF Outstanding, Underway
<1>5. CASE ~Write /\ ~Read /\ ~ExchangeServer
  <2>1. UNCHANGED <<stream, server, message>>
    BY <1>5, MessagesKept
  <2>2. rx' # "out" => rx # "out"
    BY <1>1, <1>5, ReaderAlone
       DEF ExchangeReader, CallReturn, ReaderInHandler, AckTransition, AckCancelWait,
           FinishResponse, Indicate, IndicateReturn, Copy, Handle, Indicated,
           CopyToApplicationBuffer, HandleMessage, handlerVars, vars, rxVars
  <2> QED
    BY <2>1, <2>2 DEF Outstanding, Underway
<1> QED
  BY <1>2, <1>3, <1>4, <1>5

\* A step keeps what is outstanding in step with the handler: the handler turns
\* away from a request only when nothing of it is left, or with an
\* acknowledgement timeout.
LEMMA SynchronisedKept == ExchangeInv /\ [ExchangeNext]_allVars => Synchronised'
<1> SUFFICES ASSUME ExchangeInv, [ExchangeNext]_allVars,
                    NEW b \in 1 .. sent', Outstanding(b)'
             PROVE  InStep(b)'
  BY DEF Synchronised
<1>1. /\ Threads /\ Phases /\ Outcome /\ Reading /\ Ordered /\ Synchronised /\ Undisturbed
      /\ ControlTypes /\ QueueTypes /\ sent \in Nat /\ message.id \in Nat
  BY Numbers DEF ExchangeInv, Control, ControlTypes
<1>2. b \in Nat /\ (Slipped(b) => Slipped(b)')
  BY SlippedKept
<1> USE DEF Engaged, TimingOut, AckPhase
<1>3. CASE Write
  <2>1. call = "send" /\ call' = "sent" /\ sent' = sent + 1
    BY <1>3 DEF Write, SendDiagnosticRequestOk
  <2>2. ~Engaged
    BY <1>1, <2>1 DEF Threads, Phases
  <2>3. CASE b = sent + 1
    BY <2>1, <2>3 DEF InStep
  <2>4. CASE b # sent + 1
    BY <1>1, <1>2, <2>1, <2>2, <2>4, OutstandingKept DEF Synchronised, InStep
  <2> QED
    BY <2>3, <2>4
<1>4. ASSUME ~Write, ~Slipped(b)' PROVE b = sent' /\ Engaged'
  <2>1. sent' = sent /\ Outstanding(b)
    BY <1>2, <1>4, SentKept, OutstandingKept
  <2>2. b = sent /\ Engaged /\ ~Slipped(sent)
    BY <1>1, <1>2, <1>4, <2>1 DEF Synchronised, InStep
  <2> USE DEF handlerVars, vars, apiVars, rxVars, history, systemVars, conversationVars,
              convVars, convApi, convRx
  <2>3. CASE Call \/ CallNull
    BY <1>1, <2>1, <2>2, <2>3 DEF Call, CallNull, HandleDiagnosticRequest,
                      SendDiagnosticRequest, SendDiagnosticRequestNull, Threads
  <2>4. CASE InHandler
    <3>1. CASE NegativeAck
      <4>1. Matched
        BY <1>1, <2>2, <3>1 DEF Undisturbed, NegativeAck, Threads
      <4>2. ~Underway(sent) /\ rx = "out"
        BY <1>1, <3>1, <4>1 DEF Matched, NegativeAck, Phases, ControlTypes, RxLocation
      <4> QED
        BY <2>1, <2>2, <4>2 DEF Outstanding
    <3>2. CASE ~NegativeAck
      BY <1>1, <2>1, <2>2, <2>4, <3>2
         DEF InHandler, SendDiagnosticRequestFailed, ToWaitForDiagnosticAck, StartAckTimer,
             AckTimerExpires, AckTimerCancelled, AckTimeout, CheckAck, PositiveAck, Outcome,
             Threads, Phases
    <3> QED
      BY <3>1, <3>2
  <2>5. CASE BackFromHandler
    BY <1>1, <2>1, <2>2, <2>5 DEF BackFromHandler, Return, Transmitted, ConvertResponseType, Threads
  <2>6. CASE InConversation
    BY <1>1, <2>1, <2>2, <2>6
       DEF InConversation, ToWaitForRes, StartP2Timer, P2TimerExpires, P2TimerCancelled,
           P2Timeout, P2Woken, ToP2Star, Loop, EmplaceValue, SuccessToIdle, Threads
  <2>7. CASE CallReturn
    <3>1. TimingOut => Slipped(sent)'
      BY <1>1, <2>1, <2>2, <2>7 DEF CallReturn, ConvReturn, Slipped, Response, Threads
    <3> QED
      BY <1>1, <1>4, <2>1, <2>2, <2>7, <3>1 DEF CallReturn, ConvReturn, Threads
  <2>8. CASE ReaderInHandler
    <3>1. CASE FinishResponse
      <4>1. rx = "finish" /\ rx' = "out" /\ UNCHANGED <<server, stream, message>>
        BY <2>8, <3>1 DEF ReaderInHandler, FinishResponse
      <4>2. Underway(sent)
        BY <2>2, <4>1 DEF Outstanding, Underway
      <4>3. Before(message, sent) /\ ~Open(message) /\ message.id > 0
        BY <1>1, <4>1, <4>2 DEF Underway, Ordered, Reading
      <4>4. message.id \in 1 .. sent /\ message.id # sent /\ Outstanding(message.id)
        BY <1>1, <4>1, <4>3 DEF Before, Outstanding
      <4>5. Slipped(message.id)
        BY <1>1, <4>4 DEF Synchronised, InStep
      <4> QED
        BY <1>1, <2>2, <4>4, <4>5, SlippedKept
    <3>2. CASE ~FinishResponse
      BY <1>1, <2>1, <2>2, <2>8, <3>2 DEF ReaderInHandler, AckTransition, AckCancelWait, Phases
    <3> QED
      BY <3>1, <3>2
  <2>9. CASE Read \/ Indicate \/ IndicateReturn \/ Copy \/ Handle
    BY <2>1, <2>2, <2>9
       DEF Read, Indicate, IndicateReturn, Copy, Handle, ProcessDoIPDiagnosticAckMessageResponse,
           ProcessDoIPDiagnosticMessageResponse, IndicatePending, IndicateFinal,
           FinalTransition, PendingCancelWait, FinalCancelWait, IndicateRejected, Indicated,
           CopyToApplicationBuffer, Fill, HandleMessage, ConvHandleMessage
  <2>10. CASE ExchangeServer
    BY <1>1, <2>2, <2>10, ServerSteps DEF ServerStep
  <2>11. CASE UNCHANGED allVars
    BY <2>2, <2>11 DEF allVars
  <2> QED
    BY <1>4, <2>3, <2>4, <2>5, <2>6, <2>7, <2>8, <2>9, <2>10, <2>11
       DEF ExchangeNext, ExchangeApi, ExchangeReader
<1> QED
  BY <1>3, <1>4 DEF InStep

\* A step leaves an acknowledgement that is dealt with to the request that waits
\* for it, unless an acknowledgement timeout is on its way to the caller.
LEMMA UndisturbedKept == ExchangeInv /\ [ExchangeNext]_allVars => Undisturbed'
<1> SUFFICES ASSUME ExchangeInv, [ExchangeNext]_allVars, ~Slipped(sent)', ~TimingOut'
             PROVE  Matched'
  BY DEF Undisturbed
<1>1. /\ Threads /\ Phases /\ Outcome /\ Reading /\ Ordered /\ Synchronised /\ Undisturbed
      /\ ControlTypes /\ QueueTypes /\ sent \in Nat /\ message.id \in Nat
  BY Numbers DEF ExchangeInv, Control, ControlTypes
<1> USE DEF AckPhase, AckState
<1>2. CASE Write
  <2>1. sent' = sent + 1 /\ call = "send" /\ call' = "sent" /\ conv = "transmit"
        /\ UNCHANGED <<state, rx>>
    BY <1>1, <1>2 DEF Write, SendDiagnosticRequestOk, rxVars, Threads
  <2>2. Matched
    BY <1>1, <2>1, SlippedKept DEF Undisturbed, TimingOut
  <2> QED
    BY <2>1, <2>2 DEF Matched
<1>3. CASE ~Write
  <2>1. sent' = sent /\ ~Slipped(sent) /\ (Underway(sent)' => Underway(sent))
    <3>1. sent' = sent /\ (Slipped(sent) => Slipped(sent)')
      BY <1>1, <1>3, SentKept, SlippedKept DEF Slipped
    <3>2. Underway(sent)' => Underway(sent)
      BY <1>1, <1>3, <3>1, OutstandingKept DEF Underway
    <3> QED
      BY <3>1, <3>2
  <2> USE DEF handlerVars, vars, apiVars, rxVars, timerVars, history, systemVars,
              conversationVars, convVars, convApi, convRx
  <2>2. ~TimingOut
    <3> SUFFICES ASSUME TimingOut PROVE TimingOut' \/ Slipped(sent)'
      OBVIOUS
    <3> USE DEF TimingOut
    <3>1. CASE CallReturn
      BY <1>1, <2>1, <3>1 DEF CallReturn, ConvReturn, Slipped, Response, Threads
    <3>2. CASE BackFromHandler
      BY <1>1, <2>1, <3>2 DEF BackFromHandler, Return, Transmitted, ConvertResponseType, Threads
    <3>3. CASE Call \/ CallNull \/ InHandler \/ InConversation
      BY <1>1, <3>3
         DEF Call, SendDiagnosticRequest, CallNull, SendDiagnosticRequestNull, InHandler,
             SendDiagnosticRequestFailed, ToWaitForDiagnosticAck, StartAckTimer,
             AckTimerExpires, AckTimerCancelled, AckTimeout, CheckAck, PositiveAck,
             NegativeAck, InConversation, ToWaitForRes, StartP2Timer, P2TimerExpires,
             P2TimerCancelled, P2Timeout, P2Woken, ToP2Star, Loop, EmplaceValue,
             SuccessToIdle, Threads
    <3>4. CASE ExchangeReader
      BY <2>1, <3>4
         DEF ExchangeReader, Read, ReaderInHandler, AckTransition, AckCancelWait,
             FinishResponse, Indicate, IndicateReturn, Copy, Handle,
             ProcessDoIPDiagnosticAckMessageResponse, ProcessDoIPDiagnosticMessageResponse,
             IndicatePending, IndicateFinal, FinalTransition, PendingCancelWait,
             FinalCancelWait, IndicateRejected, Indicated, CopyToApplicationBuffer, Fill,
             HandleMessage, ConvHandleMessage
    <3>5. CASE ExchangeServer \/ UNCHANGED allVars
      BY <1>1, <3>5, ServerSteps DEF ServerStep, allVars
    <3> QED
      BY <1>3, <3>1, <3>2, <3>3, <3>4, <3>5 DEF ExchangeNext, ExchangeApi
  <2>3. Matched
    BY <1>1, <2>1, <2>2 DEF Undisturbed
  <2>4. CASE Call \/ CallNull
    BY <2>1, <2>3, <2>4 DEF Call, HandleDiagnosticRequest, CallNull, Matched
  <2>5. CASE InHandler
    BY <1>1, <2>1, <2>3, <2>5
       DEF InHandler, SendDiagnosticRequestFailed, ToWaitForDiagnosticAck, StartAckTimer,
           AckTimerExpires, AckTimerCancelled, AckTimeout, CheckAck, PositiveAck, NegativeAck,
           Matched, Outcome, TimingOut
  <2>6. CASE BackFromHandler \/ InConversation \/ CallReturn
    BY <2>1, <2>3, <2>6 DEF BackFromHandler, Return, InConversation, CallReturn, Matched
  <2>7. CASE Read
    BY <1>1, <2>1, <2>3, <2>7
       DEF Read, ProcessDoIPDiagnosticAckMessageResponse, ProcessDoIPDiagnosticMessageResponse,
           Matched, Phases
  <2>8. CASE AckTransition /\ UNCHANGED <<conversationVars, systemVars>>
    <3>1. rx = "ackSet" /\ message.id \in 1 .. sent /\ Outstanding(message.id)
      BY <1>1, <2>8 DEF AckTransition, Reading, Ordered, Outstanding
    <3>2. message.id = sent
      BY <1>1, <2>1, <3>1, SlippedKept DEF Synchronised, InStep
    <3>3. final_state = "kDiagnosticNegativeAckRecvd" => ~Underway(sent)
      BY <1>1, <3>1, <3>2 DEF Reading, Ordered, Before, Open, Underway
    <3> QED
      BY <1>1, <2>1, <2>3, <2>8, <3>3 DEF AckTransition, Matched, ControlTypes
  <2>9. CASE (AckCancelWait \/ FinishResponse) /\ UNCHANGED <<conversationVars, systemVars>>
    BY <1>1, <2>1, <2>3, <2>9 DEF AckCancelWait, FinishResponse, Matched, Phases
  <2>10. CASE Indicate \/ IndicateReturn \/ Copy \/ Handle
    BY <1>1, <2>1, <2>3, <2>10
       DEF Indicate, IndicateReturn, Copy, Handle, Indicated, CopyToApplicationBuffer,
           HandleMessage, Matched, Phases
  <2>11. CASE ExchangeServer \/ UNCHANGED allVars
    BY <1>1, <2>1, <2>3, <2>11, ServerSteps DEF ServerStep, allVars, Matched
  <2> QED
    BY <1>3, <2>4, <2>5, <2>6, <2>7, <2>8, <2>9, <2>10, <2>11
       DEF ExchangeNext, ExchangeApi, ExchangeReader, ReaderInHandler
<1> QED
  BY <1>2, <1>3

-----------------------------------------------------------------------------
(* The theorems *)

\* Every reachable state of the exchange satisfies the inductive invariant.
THEOREM ExchangeInvariant == ExchangeSpec => []ExchangeInv
<1>1. ExchangeInit => ExchangeInv
  <2> SUFFICES ASSUME ExchangeInit PROVE ExchangeInv
    OBVIOUS
  <2> USE MaxRequestsAssumption, ExchangeAssumption, UnfilledAssumption
        DEF ExchangeInit, Init, ConvInit
  <2>1. ExchangeTypeOK
    <3>1. TypeOK
      BY DEF TypeOK, DiagnosticMessageState, CallLocation, TransmissionResult, RxLocation,
             AckState
    <3>2. ConvTypeOK
      BY DEF ConvTypeOK, ConversationState, ConvLocation, DiagError, IndLocation
    <3> QED
      BY <3>1, <3>2 DEF ExchangeTypeOK, Message, MessageKind
  <2>2. Control
    BY DEF Control, Threads, Phases, Outcome, Looping, AckPhase, ResponsePhase, Response
  <2>3. Ordered /\ Reading /\ Success
    BY DEF Ordered, Reading, Success, Open, ResponsePhase, Response
  <2>4. Synchronised /\ Undisturbed
    BY DEF Synchronised, Undisturbed, Matched, AckState
  <2> QED
    BY <2>1, <2>2, <2>3, <2>4 DEF ExchangeInv
<1>2. ExchangeInv /\ [ExchangeNext]_allVars => ExchangeInv'
  <2> SUFFICES ASSUME ExchangeInv, [ExchangeNext]_allVars PROVE ExchangeInv'
    OBVIOUS
  <2>1. /\ TypeOK /\ Control /\ Success /\ Ordered
        /\ ControlTypes /\ QueueTypes /\ MaxRequests \in Nat /\ sent \in Nat
    BY Numbers DEF ExchangeInv, ExchangeTypeOK, ControlTypes
  <2>2. ExchangeTypeOK'
    BY <2>1, HandlerTypes, ConversationTypes, SystemTypes DEF ExchangeTypeOK, QueueTypes
  <2>3. Control' /\ Ordered' /\ Reading' /\ Success'
    BY <2>1, ControlKept, OrderedKept, ReadingKept, SuccessKept
  <2> QED
    BY <2>2, <2>3, SynchronisedKept, UndisturbedKept DEF ExchangeInv
<1> QED
  BY <1>1, <1>2, PTL DEF ExchangeSpec

\* The handler, the conversation, the messages and the history stay in their
\* types for any number of requests and of pending responses.
THEOREM ExchangeTypeCorrect == ExchangeSpec => []ExchangeTypeOK
<1>1. ExchangeInv => ExchangeTypeOK
  BY DEF ExchangeInv
<1> QED
  BY <1>1, ExchangeInvariant, PTL

\* The response buffer a caller was given a reference to is complete, and the
\* reader thread leaves it alone until the next request.
THEOREM ResponseStaysIntact == ExchangeSpec => []ResponseIntact
<1>1. ExchangeInv => ResponseIntact
  BY DEF ExchangeInv, Success, ResponseIntact
<1> QED
  BY <1>1, ExchangeInvariant, PTL

\* A response to another request than the one of the call is returned only
\* after an acknowledgement timeout of that, or of an earlier, request.
THEOREM Correlated == ExchangeSpec => []CorrelatedUnlessAckTimeout
<1>1. ExchangeInv => CorrelatedUnlessAckTimeout
  BY DEF ExchangeInv, Success, Reportable, Slipped, CorrelatedUnlessAckTimeout
<1> QED
  BY <1>1, ExchangeInvariant, PTL

\* The conversation in the composition behaves as the conversation on its own:
\* the handler returns to it only with results it knows, and fills its buffer
\* only with payloads of requests that were written.
THEOREM ExchangeRunsConversation == ExchangeSpec => ConvSpec
<1>1. ExchangeInit => ConvInit
  BY DEF ExchangeInit
<1>2. ExchangeInv /\ [ExchangeNext]_allVars => [ConvNext]_convVars
  <2> SUFFICES ASSUME ExchangeInv, [ExchangeNext]_allVars PROVE ConvNext \/ UNCHANGED convVars
    OBVIOUS
  <2>1. CASE Call \/ CallNull
    BY <2>1 DEF Call, CallNull, ConvNext
  <2>2. CASE Write \/ InHandler \/ Read \/ ReaderInHandler
    BY <2>2 DEF Write, InHandler, Read, ReaderInHandler, conversationVars
  <2>3. CASE BackFromHandler
    BY <2>3, Numbers DEF BackFromHandler, ConvNext, ControlTypes, TransmissionResult
  <2>4. CASE InConversation \/ CallReturn
    BY <2>4 DEF InConversation, CallReturn, ConvNext, ConvApi
  <2>5. CASE Indicate \/ IndicateReturn \/ Handle
    BY <2>5 DEF Indicate, IndicateReturn, Handle, ConvNext, ConvReader
  <2>6. CASE Copy
    <3>1. message.id \in Payload
      BY <2>6, Numbers DEF Copy, CopyToApplicationBuffer, ExchangeInv, Reading, QueueTypes, Message
    <3> QED
      BY <2>6, <3>1 DEF Copy, ConvNext, ConvReader
  <2>7. CASE ExchangeServer \/ UNCHANGED allVars
    BY <2>7, Numbers, ServerSteps DEF ServerStep, allVars, conversationVars
  <2> QED
    BY <2>1, <2>2, <2>3, <2>4, <2>5, <2>6, <2>7
       DEF ExchangeNext, ExchangeApi, ExchangeReader
<1> QED
  BY <1>1, <1>2, ExchangeInvariant, PTL DEF ExchangeSpec, ConvSpec

\* The API thread's steps inside the handler and the conversation, the reader's
\* and the server's do not show at the service.
LEMMA Hidden ==
    ExchangeInv /\ [ExchangeNext]_allVars /\ ~Call /\ ~CallNull /\ ~Write /\ ~CallReturn
        => UNCHANGED Service!serviceVars
<1> SUFFICES ASSUME ExchangeInv, [ExchangeNext]_allVars, ~Call, ~CallNull, ~Write, ~CallReturn
             PROVE  UNCHANGED Service!serviceVars
  OBVIOUS
<1>1. sent' = sent
  BY SentKept
<1>2. UNCHANGED <<request, answered>>
  BY DEF ExchangeNext, ExchangeApi, ExchangeReader, ExchangeServer, allVars, systemVars,
         InHandler, BackFromHandler, InConversation, Read, ReaderInHandler, Indicate,
         IndicateReturn, Copy, Handle, ServerAcknowledges, ServerDenies, ServerPending,
         ServerResponds, ServerGivesUp, serverUnchanged
<1>3. (conv = "out" <=> conv' = "out") /\ (conv = "out" => diag_result' = diag_result)
  <2> USE DEF convVars, convApi, convRx, conversationVars
  <2>1. CASE InHandler \/ BackFromHandler \/ InConversation
    BY <2>1
       DEF InHandler, BackFromHandler, Transmitted, InConversation, ToWaitForRes, StartP2Timer,
           P2TimerExpires, P2TimerCancelled, P2Timeout, P2Woken, ToP2Star, Loop, EmplaceValue,
           SuccessToIdle
  <2>2. CASE ExchangeReader
    BY <2>2
       DEF ExchangeReader, Read, ReaderInHandler, Indicate, IndicateReturn, Copy, Handle,
           IndicatePending, IndicateFinal, FinalTransition, PendingCancelWait,
           FinalCancelWait, IndicateRejected, Fill, ConvHandleMessage
  <2>3. CASE ExchangeServer \/ UNCHANGED allVars
    BY <2>3, Numbers, ServerSteps DEF ServerStep, allVars
  <2> QED
    BY <2>1, <2>2, <2>3 DEF ExchangeNext, ExchangeApi
<1> QED
  BY <1>1, <1>2, <1>3 DEF Service!serviceVars

\* The exchange implements the service: Call begins a call, Write writes its
\* request and CallReturn ends it with an error that tells whether the request
\* was written, or with a response newer than all returned before.
THEOREM RefinesService == ExchangeSpec => ImplementsService
<1>1. ExchangeInit => Service!ServiceInit
  BY DEF ExchangeInit, Init, ConvInit, Service!ServiceInit
<1>2. ExchangeInv /\ [ExchangeNext]_allVars => [Service!ServiceNext]_(Service!serviceVars)
  <2> SUFFICES ASSUME ExchangeInv, [ExchangeNext]_allVars
               PROVE  Service!ServiceNext \/ UNCHANGED Service!serviceVars
    OBVIOUS
  <2>1. /\ Outcome /\ Threads /\ Success /\ Ordered /\ Reading
        /\ ControlTypes /\ QueueTypes /\ Payload = 1 .. MaxRequests
        /\ answered \in Nat /\ sent \in Nat /\ message.id \in Nat /\ MaxRequests \in Nat
    BY Numbers DEF ExchangeInv, Control, ControlTypes
  <2>2. CASE Call \/ CallNull
    <3>1. /\ conv = "out" /\ conv' # "out" /\ request' = 0
          /\ UNCHANGED <<sent, answered>>
      BY <2>2 DEF Call, CallNull, SendDiagnosticRequest, SendDiagnosticRequestNull,
                  HandleDiagnosticRequest, history, handlerVars, vars
    <3> QED
      BY <3>1 DEF Service!ServiceNext, Service!Begin, Service!NoOutcome
  <2>3. CASE Write
    <3>1. /\ conv # "out" /\ UNCHANGED <<conv, diag_result, answered>>
          /\ request = 0 /\ request' # 0 /\ sent' = sent + 1
      BY <2>1, <2>3 DEF Write, SendDiagnosticRequestOk, Threads, Outcome, conversationVars,
                        convVars
    <3> QED
      BY <3>1 DEF Service!ServiceNext, Service!WriteRequest
  <2>4. CASE CallReturn
    <3>1. /\ conv = "return" /\ conv' = "out" /\ UNCHANGED <<diag_result, request, sent>>
      BY <2>4 DEF CallReturn, ConvReturn, handlerVars, vars, history
    <3>2. CASE diag_result = Response
      <4>1. answered' = payload_rx_buffer /\ request # 0
        BY <2>1, <2>4, <3>1, <3>2 DEF CallReturn, Outcome, Response, Service!NotWritten
      <4>2. payload_rx_buffer \in answered + 1 .. sent
        BY <2>1, <3>1, <3>2 DEF Success, Reportable, Reading, Ordered
      <4> QED
        BY <3>1, <3>2, <4>1, <4>2 DEF Service!ServiceNext, Service!EndWithResponse, Response
    <3>3. CASE diag_result # Response
      <4>1. /\ answered' = answered
            /\ diag_result \in IF request # 0 THEN Service!Unanswered ELSE Service!NotWritten
        BY <2>1, <2>4, <3>1, <3>3 DEF CallReturn, Outcome
      <4> QED
        BY <3>1, <4>1 DEF Service!ServiceNext, Service!EndWithError
    <3> QED
      BY <3>2, <3>3
  <2>5. CASE ~Call /\ ~CallNull /\ ~Write /\ ~CallReturn
    BY <2>5, Hidden
  <2> QED
    BY <2>2, <2>3, <2>4, <2>5
<1> QED
  BY <1>1, <1>2, ExchangeInvariant, PTL DEF ExchangeSpec, ImplementsService, Service!ServiceSpec
=============================================================================
