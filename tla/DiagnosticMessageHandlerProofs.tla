------------------- MODULE DiagnosticMessageHandlerProofs -------------------
(***************************************************************************)
(* Proofs about DiagnosticMessageHandler, for any number of requests:      *)
(* type correctness, that an idle handler stays idle until it is used, and *)
(* that a request has at most one response.                                *)
(***************************************************************************)
EXTENDS DiagnosticMessageHandler, TLAPS

(* Type correctness.  The Boolean flags have a lemma of their own. *)

FlagsOK == start_running \in BOOLEAN /\ reading \in BOOLEAN

ControlOK ==
    /\ state \in DiagnosticMessageState
    /\ call \in CallLocation
    /\ result \in TransmissionResult
    /\ rx \in RxLocation
    /\ final_state \in AckState
    /\ stopping \subseteq {"Stop", "Reset"}
    /\ sent \in Nat /\ acked \in Nat /\ accepted \in Nat /\ delivered \in Nat

\* A step keeps the timer's flag and the reader's flag Boolean.
LEMMA FlagsStep == TypeOK /\ [Next]_vars => FlagsOK'
<1> SUFFICES ASSUME TypeOK, [Next]_vars PROVE FlagsOK'
  OBVIOUS
<1> USE DEF TypeOK, FlagsOK, timerVars, apiVars, rxVars, history
<1>1. CASE HandleDiagnosticRequest
  BY <1>1 DEF HandleDiagnosticRequest
<1>2. CASE Api
  <2>1. CASE SendDiagnosticRequestOk \/ SendDiagnosticRequestFailed
             \/ ToWaitForDiagnosticAck \/ StartAckTimer
    BY <2>1 DEF SendDiagnosticRequestOk, SendDiagnosticRequestFailed,
                ToWaitForDiagnosticAck, StartAckTimer
  <2>2. CASE AckTimerExpires \/ AckTimerCancelled \/ AckTimeout \/ CheckAck
    BY <2>2 DEF AckTimerExpires, AckTimerCancelled, AckTimeout, CheckAck
  <2>3. CASE PositiveAck \/ NegativeAck \/ Return
    BY <2>3 DEF PositiveAck, NegativeAck, Return
  <2> QED
    BY <1>2, <2>1, <2>2, <2>3 DEF Api
<1>3. CASE Receive
  BY <1>3 DEF Receive, ProcessDoIPDiagnosticAckMessageResponse,
              ProcessDoIPDiagnosticMessageResponse
<1>4. CASE Reader
  <2>1. CASE AckTransition \/ AckCancelWait
    BY <2>1 DEF AckTransition, AckCancelWait
  <2>2. ASSUME NEW r \in IndicationResult, Indicated(r) PROVE FlagsOK'
    BY <2>2 DEF Indicated
  <2>3. CASE CopyToApplicationBuffer \/ HandleMessage \/ FinishResponse
    BY <2>3 DEF CopyToApplicationBuffer, HandleMessage, FinishResponse
  <2> QED
    BY <1>4, <2>1, <2>2, <2>3 DEF Reader
<1>5. CASE JoinReader \/ StopCancelWait \/ ResetCancelWait
  BY <1>5 DEF JoinReader, StopCancelWait, ResetCancelWait
<1>6. ASSUME NEW op \in stopping, StopToIdle(op) PROVE FlagsOK'
  BY <1>6 DEF StopToIdle
<1>7. CASE UNCHANGED vars
  BY <1>7 DEF vars
<1> QED
  BY <1>1, <1>2, <1>3, <1>4, <1>5, <1>6, <1>7 DEF Next

\* A step keeps the states, the locations and the counters in their types.
LEMMA ControlStep == ControlOK /\ [Next]_vars => ControlOK'
<1> SUFFICES ASSUME ControlOK, [Next]_vars PROVE ControlOK'
  OBVIOUS
<1> USE DEF ControlOK, DiagnosticMessageState, CallLocation, TransmissionResult,
            RxLocation, AckState, timerVars, apiVars, rxVars, history
<1>1. CASE HandleDiagnosticRequest
  BY <1>1 DEF HandleDiagnosticRequest
<1>2. CASE Api
  <2>1. CASE SendDiagnosticRequestOk
    BY <2>1 DEF SendDiagnosticRequestOk
  <2>2. CASE SendDiagnosticRequestFailed
    BY <2>2 DEF SendDiagnosticRequestFailed
  <2>3. CASE ToWaitForDiagnosticAck
    BY <2>3 DEF ToWaitForDiagnosticAck
  <2>4. CASE StartAckTimer
    BY <2>4 DEF StartAckTimer
  <2>5. CASE AckTimerExpires
    BY <2>5 DEF AckTimerExpires
  <2>6. CASE AckTimerCancelled
    BY <2>6 DEF AckTimerCancelled
  <2>7. CASE AckTimeout
    BY <2>7 DEF AckTimeout
  <2>8. CASE CheckAck
    BY <2>8 DEF CheckAck
  <2>9. CASE PositiveAck
    BY <2>9 DEF PositiveAck
  <2>10. CASE NegativeAck
    BY <2>10 DEF NegativeAck
  <2>11. CASE Return
    BY <2>11 DEF Return
  <2> QED
    BY <1>2, <2>1, <2>2, <2>3, <2>4, <2>5, <2>6, <2>7, <2>8, <2>9, <2>10,
       <2>11 DEF Api
<1>3. CASE Receive
  <2>1. ASSUME NEW ack \in AckState, ProcessDoIPDiagnosticAckMessageResponse(ack)
        PROVE  ControlOK'
    BY <2>1 DEF ProcessDoIPDiagnosticAckMessageResponse
  <2>2. CASE ProcessDoIPDiagnosticMessageResponse
    BY <2>2 DEF ProcessDoIPDiagnosticMessageResponse
  <2> QED
    BY <1>3, <2>1, <2>2 DEF Receive
<1>4. CASE Reader
  <2>1. CASE AckTransition
    BY <2>1 DEF AckTransition
  <2>2. CASE AckCancelWait
    BY <2>2 DEF AckCancelWait
  <2>3. CASE CopyToApplicationBuffer
    BY <2>3 DEF CopyToApplicationBuffer
  <2>4. CASE HandleMessage
    BY <2>4 DEF HandleMessage
  <2>5. CASE FinishResponse
    BY <2>5 DEF FinishResponse
  <2>6. ASSUME NEW r \in IndicationResult, Indicated(r) PROVE ControlOK'
    BY <2>6 DEF Indicated
  <2> QED
    BY <1>4, <2>1, <2>2, <2>3, <2>4, <2>5, <2>6 DEF Reader
<1>5. CASE JoinReader
  BY <1>5 DEF JoinReader
<1>6. CASE StopCancelWait
  BY <1>6 DEF StopCancelWait
<1>7. CASE ResetCancelWait
  BY <1>7 DEF ResetCancelWait
<1>8. ASSUME NEW op \in stopping, StopToIdle(op) PROVE ControlOK'
  BY <1>8 DEF StopToIdle
<1>9. CASE UNCHANGED vars
  BY <1>9 DEF vars
<1> QED
  BY <1>1, <1>2, <1>3, <1>4, <1>5, <1>6, <1>7, <1>8, <1>9 DEF Next

\* The state, the timer and the locations keep their types; in particular the
\* registered state kSendDiagnosticReqFailed is never entered.
THEOREM HandlerTypeCorrect == Spec => []TypeOK
<1>1. Init => FlagsOK
  BY DEF Init, FlagsOK
<1>2. Init => ControlOK
  BY DEF Init, ControlOK, DiagnosticMessageState, CallLocation,
         TransmissionResult, RxLocation, AckState
<1>3. FlagsOK /\ ControlOK <=> TypeOK
  BY DEF FlagsOK, ControlOK, TypeOK
<1>4. TypeOK /\ [Next]_vars => TypeOK'
  BY <1>3, FlagsStep, ControlStep DEF FlagsOK, ControlOK, TypeOK
<1> QED
  BY <1>1, <1>2, <1>3, <1>4, PTL DEF Spec

-----------------------------------------------------------------------------
(* The counting invariant *)

\* Counts that a fact still to be consumed may become one more of something.
Credit(p) == IF p THEN 1 ELSE 0

\* A response is being taken, or could be: the reader has passed the check of
\* the state, or would pass it.
ResponseCredit ==
    \/ rx \in {"indicate", "copy", "handle"}
    \/ state = "kWaitForDiagnosticResponse" /\ rx # "finish"

\* A positive acknowledgement has been taken that may still be reported.
AcceptCredit == state = "kDiagnosticPositiveAckRecvd" \/ call = "ackPos"

\* An acknowledgement is being taken, or could be.
AckCredit == rx = "ackSet" \/ state = "kWaitForDiagnosticAck"

\* What each of the three history counters may still grow by is covered by the
\* next one: this is AtMostOneResponsePerRequest made inductive.
Covered ==
    /\ delivered + Credit(ResponseCredit) <= accepted
    /\ accepted + Credit(AcceptCredit) <= acked
    /\ acked + Credit(AckCredit) + Credit(call = "sent") <= sent

\* A step of any thread keeps the counts covered.
LEMMA CountStep == ControlOK /\ Covered /\ [Next]_vars => Covered'
<1> SUFFICES ASSUME ControlOK, Covered, [Next]_vars PROVE Covered'
  OBVIOUS
<1> USE DEF ControlOK, Covered, Credit, ResponseCredit, AcceptCredit, AckCredit,
            timerVars, apiVars, rxVars, history
<1>1. CASE HandleDiagnosticRequest
  BY <1>1 DEF HandleDiagnosticRequest
<1>2. CASE Api
  <2>1. CASE SendDiagnosticRequestOk
    BY <2>1 DEF SendDiagnosticRequestOk
  <2>2. CASE SendDiagnosticRequestFailed
    BY <2>2 DEF SendDiagnosticRequestFailed
  <2>3. CASE ToWaitForDiagnosticAck
    BY <2>3 DEF ToWaitForDiagnosticAck
  <2>4. CASE StartAckTimer
    BY <2>4 DEF StartAckTimer
  <2>5. CASE AckTimerExpires
    BY <2>5 DEF AckTimerExpires
  <2>6. CASE AckTimerCancelled
    BY <2>6 DEF AckTimerCancelled
  <2>7. CASE AckTimeout
    BY <2>7 DEF AckTimeout
  <2>8. CASE CheckAck
    BY <2>8 DEF CheckAck
  <2>9. CASE PositiveAck
    BY <2>9 DEF PositiveAck
  <2>10. CASE NegativeAck
    BY <2>10 DEF NegativeAck
  <2>11. CASE Return
    BY <2>11 DEF Return
  <2> QED
    BY <1>2, <2>1, <2>2, <2>3, <2>4, <2>5, <2>6, <2>7, <2>8, <2>9, <2>10,
       <2>11 DEF Api
<1>3. CASE Receive
  <2>1. ASSUME NEW ack \in AckState, ProcessDoIPDiagnosticAckMessageResponse(ack)
        PROVE  Covered'
    BY <2>1 DEF ProcessDoIPDiagnosticAckMessageResponse
  <2>2. CASE ProcessDoIPDiagnosticMessageResponse
    BY <2>2 DEF ProcessDoIPDiagnosticMessageResponse
  <2> QED
    BY <1>3, <2>1, <2>2 DEF Receive
<1>4. CASE Reader
  <2>1. CASE AckTransition
    BY <2>1 DEF AckTransition, AckState
  <2>2. CASE AckCancelWait
    BY <2>2 DEF AckCancelWait
  <2>3. CASE CopyToApplicationBuffer
    BY <2>3 DEF CopyToApplicationBuffer
  <2>4. CASE HandleMessage
    BY <2>4 DEF HandleMessage
  <2>5. CASE FinishResponse
    BY <2>5 DEF FinishResponse
  <2>6. ASSUME NEW r \in IndicationResult, Indicated(r) PROVE Covered'
    BY <2>6 DEF Indicated
  <2> QED
    BY <1>4, <2>1, <2>2, <2>3, <2>4, <2>5, <2>6 DEF Reader
<1>5. CASE JoinReader
  BY <1>5 DEF JoinReader
<1>6. CASE StopCancelWait
  BY <1>6 DEF StopCancelWait
<1>7. CASE ResetCancelWait
  BY <1>7 DEF ResetCancelWait
<1>8. ASSUME NEW op \in stopping, StopToIdle(op) PROVE Covered'
  BY <1>8 DEF StopToIdle
<1>9. CASE UNCHANGED vars
  BY <1>9 DEF vars
<1> QED
  BY <1>1, <1>2, <1>3, <1>4, <1>5, <1>6, <1>7, <1>8, <1>9 DEF Next

\* However the API thread, the reader thread, Stop and Reset interleave, there
\* are never more final responses than accepted requests, never more accepted
\* requests than positive acknowledgements taken, and never more of these than
\* requests written to the socket.
THEOREM AtMostOneResponse == Spec => []AtMostOneResponsePerRequest
<1>1. Init => Covered
  BY DEF Init, Covered, Credit, ResponseCredit, AcceptCredit, AckCredit
<1>2. TypeOK => ControlOK
  BY DEF TypeOK, ControlOK
<1>3. TypeOK /\ Covered /\ [Next]_vars => Covered'
  BY <1>2, CountStep
<1>4. TypeOK /\ Covered => AtMostOneResponsePerRequest
  BY DEF TypeOK, Covered, Credit, AtMostOneResponsePerRequest
<1> QED
  BY <1>1, <1>3, <1>4, HandlerTypeCorrect, PTL DEF Spec


\* Between two calls only an acknowledgement whose check is already past can
\* move an idle handler: what the busy check of the next call relies on.
THEOREM IdleStays == Spec => IdleUntilRequested
<1> DEFINE Moved == call = "out" /\ state = "kIdle" /\ state' # "kIdle"
<1>1. [Next]_vars => [Moved => rx = "ackSet"]_vars
  <2> SUFFICES ASSUME Next, Moved PROVE rx = "ackSet"
    OBVIOUS
  <2>1. CASE HandleDiagnosticRequest
    BY <2>1 DEF HandleDiagnosticRequest
  <2>2. CASE Api
    BY <2>2 DEF Api, SendDiagnosticRequestOk, SendDiagnosticRequestFailed,
                ToWaitForDiagnosticAck, StartAckTimer, AckTimerExpires,
                AckTimerCancelled, AckTimeout, CheckAck, PositiveAck, NegativeAck,
                Return
  <2>3. CASE Receive
    BY <2>3 DEF Receive, ProcessDoIPDiagnosticAckMessageResponse,
                ProcessDoIPDiagnosticMessageResponse
  <2>4. CASE Reader
    BY <2>4 DEF Reader, AckTransition, AckCancelWait, Indicated,
                CopyToApplicationBuffer, HandleMessage, FinishResponse
  <2>5. CASE JoinReader \/ StopCancelWait \/ ResetCancelWait
    BY <2>5 DEF JoinReader, StopCancelWait, ResetCancelWait
  <2>6. ASSUME NEW op \in stopping, StopToIdle(op) PROVE rx = "ackSet"
    BY <2>6 DEF StopToIdle
  <2> QED
    BY <2>1, <2>2, <2>3, <2>4, <2>5, <2>6 DEF Next
<1> QED
  BY <1>1, PTL DEF Spec, IdleUntilRequested
=============================================================================
