------------------------- MODULE DoipTcpChannelProofs -------------------------
(***************************************************************************)
(* Proofs about the TCP channel, for any number of API calls: its types,   *)
(* ActivatedMeansAccepted, SuccessLasts and ShutdownLeavesNothing.         *)
(*                                                                         *)
(* The argument.  A socket is connected once, so a connection starts with  *)
(* nothing read and nothing activated (Fresh), and a "successful" that the *)
(* reader or the handler holds was said by the server on this connection   *)
(* (Granted).  The reader leaves an activated state alone, since it took   *)
(* its response while the handler waited for one (Lasting).  Stop joins    *)
(* the reader before it resets the handler, so afterwards only the call    *)
(* that was interrupted moves it, and that call ends in kIdle (Stopped).   *)
(***************************************************************************)
EXTENDS DoipTcpChannel, SequenceTheorems, TLAPS

-----------------------------------------------------------------------------
(* The inductive invariant *)

\* Before Startup, and before the connection is made.
Unused ==
    reader = "none" => socket = "closed" /\ api = "out" /\ closing = "no"

Fresh ==
    closing = "no" /\ socket \in {"open", "closed"} =>
        /\ remote = "none"
        /\ stream = <<>>
        /\ connection_state = "kDisconnected"
        /\ reader \in {"none", "idle"}
        /\ ~running
        /\ frame = NoFrame
        /\ ra_state = "kIdle"
        /\ ra_call = "out"
        /\ ra_rx = "out"
        /\ ra_final = "kRoutingActivationFailed"
        /\ requests = 0
        /\ api \in {"out", "connect"}

\* None of the frames says that the routing is activated.
NoGrant(frames) == \A i \in DOMAIN frames : frames[i].code # "successful"

\* Whatever says that the routing is activated comes from the server.
Granted ==
    closing = "no" /\ ~accepted =>
        /\ NoGrant(stream)
        /\ frame.code # "successful"
        /\ ra_final # "kRoutingActivationSuccessful"
        /\ ~IsRoutingActivated
        /\ api # "transmit"
        /\ requests = 0

\* What a successful connect rests on.
Lasting ==
    /\ api = "activate" <=> ra_call # "out"
    /\ IsRoutingActivated => ra_rx # "set"
    /\ ra_result = "kConnectionOk" =>
          ra_call = "return" /\ (stopping = "no" => IsRoutingActivated)
    /\ result = "kConnectSuccess" /\ stopping = "no" =>
          api = "reset" \/ (IsRoutingActivated /\ ra_call \in {"out", "return"})

\* The call has to leave its wait before it returns.
Waiting == {"arm", "wait", "timedout", "cancelled", "failed"}

Stopped ==
    /\ ra_rx # "out" => reader = "deliver" /\ TcpHeader(frame) = "ok"
    /\ exit_request => closing \in {"join", "joined"}
    /\ closing = "joined" => reader = "ended"
    /\ stopping # "no" => closing = "joined"
    /\ stopping = "done" =>
          \/ ra_state = "kIdle"
          \/ ra_state = "kWaitForRoutingActivationRes" /\ ra_call \in Waiting

ChannelInv == ChannelTypeOK /\ Unused /\ Fresh /\ Granted /\ Lasting /\ Stopped

\* The type invariant in three parts; the version is never assigned.
FlagsOK ==
    /\ ra_running \in BOOLEAN
    /\ running \in BOOLEAN
    /\ exit_request \in BOOLEAN
    /\ read_ok \in BOOLEAN
    /\ terminated \in BOOLEAN
    /\ accepted \in BOOLEAN

FramesOK == stream \in Seq(Frame) /\ frame \in Frame

LocationsOK ==
    /\ ra_state \in RoutingActivationState
    /\ ra_call \in {"out", "send", "sent", "arm", "wait", "timedout", "cancelled",
                    "failed", "return"}
    /\ ra_result \in ConnectionResult
    /\ ra_rx \in {"out", "set", "cancel"}
    /\ ra_final \in {"kRoutingActivationSuccessful", "kRoutingActivationFailed"}
    /\ socket \in {"closed", "open", "connected", "rdshut", "shut"}
    /\ remote \in {"none", "open", "closed"}
    /\ connection_state \in {"kDisconnected", "kConnected"}
    /\ reader \in {"none", "idle", "read", "payload", "deliver", "store", "ended"}
    /\ closing \in {"no", "shutdown", "close", "exit", "join", "joined"}
    /\ api \in {"out", "connect", "activate", "stopReading", "shutdown", "check",
                "reset", "transmit"}
    /\ result \in ConnectResult \cup {"kNone"}
    /\ calls \in 0 .. MaxCalls
    /\ stopping \in {"no", "routing", "done"}
    /\ asked \in Nat
    /\ requests \in Nat

-----------------------------------------------------------------------------
(* Frames *)

\* What connecting, reading and sending make of the stream.
LEMMA FrameFacts ==
    /\ <<>> \in Seq(Frame) /\ NoGrant(<<>>)
    /\ NoFrame \in Frame /\ NoFrame.code # "successful"
    /\ \A s \in Seq(Frame) :
          /\ s # <<>> =>
                /\ Head(s) \in Frame /\ Tail(s) \in Seq(Frame)
                /\ NoGrant(s) => Head(s).code # "successful" /\ NoGrant(Tail(s))
          /\ \A f \in Frame : Append(s, f) \in Seq(Frame)
          /\ \A f : NoGrant(s) /\ f.code # "successful" => NoGrant(Append(s, f))
<1>1. <<>> \in Seq(Frame) /\ NoGrant(<<>>)
  BY EmptySeq DEF NoGrant
<1>2. NoFrame \in Frame /\ NoFrame.code # "successful"
  BY DEF NoFrame, Frame
<1>3. ASSUME NEW s \in Seq(Frame)
      PROVE  /\ s # <<>> =>
                   /\ Head(s) \in Frame /\ Tail(s) \in Seq(Frame)
                   /\ NoGrant(s) => Head(s).code # "successful" /\ NoGrant(Tail(s))
             /\ \A f \in Frame : Append(s, f) \in Seq(Frame)
             /\ \A f : NoGrant(s) /\ f.code # "successful" => NoGrant(Append(s, f))
  <2>1. ASSUME s # <<>>
        PROVE  /\ Head(s) \in Frame /\ Tail(s) \in Seq(Frame)
               /\ NoGrant(s) => Head(s).code # "successful" /\ NoGrant(Tail(s))
    BY <1>3, <2>1, HeadTailProperties DEF NoGrant
  <2>2. \A f \in Frame : Append(s, f) \in Seq(Frame)
    BY AppendProperties
  <2>3. \A f : NoGrant(s) /\ f.code # "successful" => NoGrant(Append(s, f))
    BY DEF NoGrant
  <2> QED
    BY <2>1, <2>2, <2>3
<1> QED
  BY <1>1, <1>2, <1>3

-----------------------------------------------------------------------------
(* Each part of it is kept *)

\* A step does not use a channel that was not started.
LEMMA UnusedKept == LocationsOK /\ Unused /\ Lasting /\ [ChannelNext]_allVars => Unused'
<1> SUFFICES ASSUME LocationsOK, Unused, Lasting, [ChannelNext]_allVars PROVE Unused'
  OBVIOUS
<1> USE DEF LocationsOK, Unused, Lasting, raVars, tcpVars, readerVars,
        channelVars, allVars
<1>1. CASE Startup
  BY <1>1 DEF Startup, Initialize
<1>2. CASE ConnectToDiagServer
  BY <1>2 DEF ConnectToDiagServer, BeginCall, HandleRoutingActivationRequest
<1>3. CASE DisconnectFromDiagServer \/ Transmit
  BY <1>3 DEF DisconnectFromDiagServer, Transmit, BeginCall
<1>4. CASE SocketConnected \/ SocketRefused
  BY <1>4 DEF SocketConnected, ConnectOk, SocketRefused, ConnectFailed,
         HandleRoutingActivationRequest
<1>5. CASE ActivationRequestSent \/ ActivationRequestRefused
  BY <1>5 DEF ActivationRequestSent, ActivationRequestRefused, TransmitOk,
         TransmitFailed, SendRoutingActivationRequestOk,
         SendRoutingActivationRequestFailed, CanWrite
<1>6. CASE InActivation
  BY <1>6 DEF InActivation, ToWaitForRoutingActivationRes, StartActivationTimer,
         ActivationTimerExpires, ActivationTimerCancelled, ActivationTimeout,
         CheckActivation, ActivationFailed
<1>7. CASE ConnectReturn
  BY <1>7 DEF ConnectReturn, RaReturn, ConvertConnectionResult
<1>8. CASE Disconnecting
  BY <1>8 DEF Disconnecting, DisconnectStopReading, DisconnectShutdown
<1>9. CASE CheckRoutingActivated \/ DisconnectReset
  BY <1>9 DEF CheckRoutingActivated, RaStopCancelWait, DisconnectReset, RaStopToIdle
<1>10. CASE WriteRequest \/ ApiTerminates
  BY <1>10 DEF WriteRequest, TransmitOk, TransmitFailed, ApiTerminates,
         ConnectTerminates, TransmitTerminates, CanWrite
<1>11. CASE InConnection
  BY <1>11 DEF InConnection, ReaderStep, ReaderWakes, ReadHeader, ReadFails,
         ReadPayload, StoreRunning
<1>12. CASE ReaderTerminates \/ Undecodable \/ HeaderRefused
  BY <1>12 DEF ReaderTerminates, RemoteEndpointThrows, Undecodable, HeaderRefused,
         Processable, Delivered
<1>13. CASE ProcessDoIPPayload
  BY <1>13 DEF ProcessDoIPPayload, Processable, Delivered,
         ProcessDoIPRoutingActivationResponse, FinalState
<1>14. CASE ActivationDecided \/ ActivationSignalled
  BY <1>14 DEF ActivationDecided, RaTransition, ActivationSignalled, RaCancelWait,
         Delivered
<1>15. CASE Shutdown \/ ClosingConnection
  BY <1>15 DEF Shutdown, DeInitialize, ClosingConnection, CloseStep, CloseShutdown,
         CloseSocket, RequestExit, JoinThread
<1>16. CASE StopRouting
  BY <1>16 DEF StopRouting, RaStopCancelWait, RaStopToIdle
<1>17. CASE ServerAnswers \/ ServerOfOtherVersion \/ ServerAliveCheck
  BY <1>17 DEF ServerAnswers, ServerOfOtherVersion, ServerAliveCheck, PeerSends
<1>18. CASE ServerCloses
  BY <1>18 DEF ServerCloses, PeerCloses
<1>19. CASE UNCHANGED allVars
  BY <1>19
<1> QED
  BY <1>1, <1>2, <1>3, <1>4, <1>5, <1>6, <1>7, <1>8, <1>9, <1>10, <1>11, <1>12,
     <1>13, <1>14, <1>15, <1>16, <1>17, <1>18, <1>19 DEF ChannelNext, ChannelApi,
     ChannelReader, ChannelStop

\* A step keeps what is known before the connection is made.
LEMMA FreshKept ==
    LocationsOK /\ Unused /\ Fresh /\ Lasting /\ Stopped /\ [ChannelNext]_allVars => Fresh'
<1> SUFFICES ASSUME LocationsOK, Unused, Fresh, Lasting, Stopped, [ChannelNext]_allVars
             PROVE  Fresh'
  OBVIOUS
<1> USE DEF LocationsOK, Unused, Fresh, Lasting, Stopped, IsRoutingActivated,
        NoFrame, raVars, tcpVars, readerVars, channelVars, allVars
<1>1. CASE Startup
  BY <1>1 DEF Startup, Initialize
<1>2. CASE ConnectToDiagServer
  BY <1>2 DEF ConnectToDiagServer, BeginCall, HandleRoutingActivationRequest
<1>3. CASE DisconnectFromDiagServer \/ Transmit
  BY <1>3 DEF DisconnectFromDiagServer, Transmit, BeginCall
<1>4. CASE SocketConnected \/ SocketRefused
  BY <1>4 DEF SocketConnected, ConnectOk, SocketRefused, ConnectFailed,
         HandleRoutingActivationRequest
<1>5. CASE ActivationRequestSent \/ ActivationRequestRefused
  BY <1>5 DEF ActivationRequestSent, ActivationRequestRefused, TransmitOk,
         TransmitFailed, SendRoutingActivationRequestOk,
         SendRoutingActivationRequestFailed, CanWrite
<1>6. CASE InActivation
  BY <1>6 DEF InActivation, ToWaitForRoutingActivationRes, StartActivationTimer,
         ActivationTimerExpires, ActivationTimerCancelled, ActivationTimeout,
         CheckActivation, ActivationFailed
<1>7. CASE ConnectReturn
  BY <1>7 DEF ConnectReturn, RaReturn, ConvertConnectionResult
<1>8. CASE Disconnecting
  BY <1>8 DEF Disconnecting, DisconnectStopReading, DisconnectShutdown
<1>9. CASE CheckRoutingActivated \/ DisconnectReset
  BY <1>9 DEF CheckRoutingActivated, RaStopCancelWait, DisconnectReset, RaStopToIdle
<1>10. CASE WriteRequest \/ ApiTerminates
  BY <1>10 DEF WriteRequest, TransmitOk, TransmitFailed, ApiTerminates,
         ConnectTerminates, TransmitTerminates, CanWrite
<1>11. CASE InConnection
  <2> SUFFICES ASSUME closing' = "no", socket' \in {"open", "closed"} PROVE Fresh'
    OBVIOUS
  <2>1. ReaderWakes
    BY <1>11 DEF InConnection, ReaderStep, ReaderWakes, ReadHeader, ReadFails, ReadPayload,
              StoreRunning
  <2> QED
    BY <1>11, <2>1 DEF InConnection, ReaderWakes
<1>12. CASE ReaderTerminates \/ Undecodable \/ HeaderRefused
  BY <1>12 DEF ReaderTerminates, RemoteEndpointThrows, Undecodable, HeaderRefused,
         Processable, Delivered
<1>13. CASE ProcessDoIPPayload
  BY <1>13 DEF ProcessDoIPPayload, Processable, Delivered,
         ProcessDoIPRoutingActivationResponse, FinalState
<1>14. CASE ActivationDecided \/ ActivationSignalled
  BY <1>14 DEF ActivationDecided, RaTransition, ActivationSignalled, RaCancelWait,
         Delivered
<1>15. CASE Shutdown \/ ClosingConnection
  BY <1>15 DEF Shutdown, DeInitialize, ClosingConnection, CloseStep, CloseShutdown,
         CloseSocket, RequestExit, JoinThread
<1>16. CASE StopRouting
  BY <1>16 DEF StopRouting, RaStopCancelWait, RaStopToIdle
<1>17. CASE ServerAnswers \/ ServerOfOtherVersion \/ ServerAliveCheck
  BY <1>17 DEF ServerAnswers, ServerOfOtherVersion, ServerAliveCheck, PeerSends
<1>18. CASE ServerCloses
  BY <1>18 DEF ServerCloses, PeerCloses
<1>19. CASE UNCHANGED allVars
  BY <1>19
<1> QED
  BY <1>1, <1>2, <1>3, <1>4, <1>5, <1>6, <1>7, <1>8, <1>9, <1>10, <1>11, <1>12,
     <1>13, <1>14, <1>15, <1>16, <1>17, <1>18, <1>19 DEF ChannelNext, ChannelApi,
     ChannelReader, ChannelStop

\* A step keeps what a successful connect rests on.
LEMMA LastingKept == LocationsOK /\ Lasting /\ Stopped /\ [ChannelNext]_allVars => Lasting'
<1> SUFFICES ASSUME LocationsOK, Lasting, Stopped, [ChannelNext]_allVars PROVE Lasting'
  OBVIOUS
<1> USE DEF LocationsOK, Lasting, Stopped, IsRoutingActivated, raVars, tcpVars,
        readerVars, channelVars, allVars
<1>1. CASE Startup
  BY <1>1 DEF Startup, Initialize
<1>2. CASE ConnectToDiagServer
  BY <1>2 DEF ConnectToDiagServer, BeginCall, HandleRoutingActivationRequest
<1>3. CASE DisconnectFromDiagServer \/ Transmit
  BY <1>3 DEF DisconnectFromDiagServer, Transmit, BeginCall
<1>4. CASE SocketConnected \/ SocketRefused
  BY <1>4 DEF SocketConnected, ConnectOk, SocketRefused, ConnectFailed,
         HandleRoutingActivationRequest
<1>5. CASE ActivationRequestSent \/ ActivationRequestRefused
  BY <1>5 DEF ActivationRequestSent, ActivationRequestRefused, TransmitOk,
         TransmitFailed, SendRoutingActivationRequestOk,
         SendRoutingActivationRequestFailed, CanWrite
<1>6. CASE InActivation
  BY <1>6 DEF InActivation, ToWaitForRoutingActivationRes, StartActivationTimer,
         ActivationTimerExpires, ActivationTimerCancelled, ActivationTimeout,
         CheckActivation, ActivationFailed
<1>7. CASE ConnectReturn
  BY <1>7 DEF ConnectReturn, RaReturn, ConvertConnectionResult
<1>8. CASE Disconnecting
  BY <1>8 DEF Disconnecting, DisconnectStopReading, DisconnectShutdown
<1>9. CASE CheckRoutingActivated \/ DisconnectReset
  BY <1>9 DEF CheckRoutingActivated, RaStopCancelWait, DisconnectReset, RaStopToIdle
<1>10. CASE WriteRequest \/ ApiTerminates
  BY <1>10 DEF WriteRequest, TransmitOk, TransmitFailed, ApiTerminates,
         ConnectTerminates, TransmitTerminates, CanWrite
<1>11. CASE InConnection
  BY <1>11 DEF InConnection, ReaderStep, ReaderWakes, ReadHeader, ReadFails,
         ReadPayload, StoreRunning
<1>12. CASE ReaderTerminates \/ Undecodable \/ HeaderRefused
  BY <1>12 DEF ReaderTerminates, RemoteEndpointThrows, Undecodable, HeaderRefused,
         Processable, Delivered
<1>13. CASE ProcessDoIPPayload
  BY <1>13 DEF ProcessDoIPPayload, Processable, Delivered,
         ProcessDoIPRoutingActivationResponse, FinalState
<1>14. CASE ActivationDecided \/ ActivationSignalled
  BY <1>14 DEF ActivationDecided, RaTransition, ActivationSignalled, RaCancelWait,
         Delivered
<1>15. CASE Shutdown \/ ClosingConnection
  BY <1>15 DEF Shutdown, DeInitialize, ClosingConnection, CloseStep, CloseShutdown,
         CloseSocket, RequestExit, JoinThread
<1>16. CASE StopRouting
  BY <1>16 DEF StopRouting, RaStopCancelWait, RaStopToIdle
<1>17. CASE ServerAnswers \/ ServerOfOtherVersion \/ ServerAliveCheck
  BY <1>17 DEF ServerAnswers, ServerOfOtherVersion, ServerAliveCheck, PeerSends
<1>18. CASE ServerCloses
  BY <1>18 DEF ServerCloses, PeerCloses
<1>19. CASE UNCHANGED allVars
  BY <1>19
<1> QED
  BY <1>1, <1>2, <1>3, <1>4, <1>5, <1>6, <1>7, <1>8, <1>9, <1>10, <1>11, <1>12,
     <1>13, <1>14, <1>15, <1>16, <1>17, <1>18, <1>19 DEF ChannelNext, ChannelApi,
     ChannelReader, ChannelStop

\* A step keeps what is known while and after the channel is stopped.
LEMMA StoppedKept == LocationsOK /\ Lasting /\ Stopped /\ [ChannelNext]_allVars => Stopped'
<1> SUFFICES ASSUME LocationsOK, Lasting, Stopped, [ChannelNext]_allVars PROVE Stopped'
  OBVIOUS
<1> USE DEF LocationsOK, Lasting, Stopped, Waiting, IsRoutingActivated, raVars,
        tcpVars, readerVars, channelVars, allVars
<1>1. CASE Startup
  BY <1>1 DEF Startup, Initialize
<1>2. CASE ConnectToDiagServer
  BY <1>2 DEF ConnectToDiagServer, BeginCall, HandleRoutingActivationRequest
<1>3. CASE DisconnectFromDiagServer \/ Transmit
  BY <1>3 DEF DisconnectFromDiagServer, Transmit, BeginCall
<1>4. CASE SocketConnected \/ SocketRefused
  BY <1>4 DEF SocketConnected, ConnectOk, SocketRefused, ConnectFailed,
         HandleRoutingActivationRequest
<1>5. CASE ActivationRequestSent \/ ActivationRequestRefused
  BY <1>5 DEF ActivationRequestSent, ActivationRequestRefused, TransmitOk,
         TransmitFailed, SendRoutingActivationRequestOk,
         SendRoutingActivationRequestFailed, CanWrite
<1>6. CASE InActivation
  BY <1>6 DEF InActivation, ToWaitForRoutingActivationRes, StartActivationTimer,
         ActivationTimerExpires, ActivationTimerCancelled, ActivationTimeout,
         CheckActivation, ActivationFailed
<1>7. CASE ConnectReturn
  BY <1>7 DEF ConnectReturn, RaReturn, ConvertConnectionResult
<1>8. CASE Disconnecting
  BY <1>8 DEF Disconnecting, DisconnectStopReading, DisconnectShutdown
<1>9. CASE CheckRoutingActivated \/ DisconnectReset
  BY <1>9 DEF CheckRoutingActivated, RaStopCancelWait, DisconnectReset, RaStopToIdle
<1>10. CASE WriteRequest \/ ApiTerminates
  BY <1>10 DEF WriteRequest, TransmitOk, TransmitFailed, ApiTerminates,
         ConnectTerminates, TransmitTerminates, CanWrite
<1>11. CASE InConnection
  BY <1>11 DEF InConnection, ReaderStep, ReaderWakes, ReadHeader, ReadFails,
         ReadPayload, StoreRunning
<1>12. CASE ReaderTerminates \/ Undecodable \/ HeaderRefused
  BY <1>12 DEF ReaderTerminates, RemoteEndpointThrows, Undecodable, HeaderRefused,
         Processable, Delivered
<1>13. CASE ProcessDoIPPayload
  BY <1>13 DEF ProcessDoIPPayload, Processable, Delivered,
         ProcessDoIPRoutingActivationResponse, FinalState
<1>14. CASE ActivationDecided \/ ActivationSignalled
  BY <1>14 DEF ActivationDecided, RaTransition, ActivationSignalled, RaCancelWait,
         Delivered
<1>15. CASE Shutdown \/ ClosingConnection
  BY <1>15 DEF Shutdown, DeInitialize, ClosingConnection, CloseStep, CloseShutdown,
         CloseSocket, RequestExit, JoinThread
<1>16. CASE StopRouting
  BY <1>16 DEF StopRouting, RaStopCancelWait, RaStopToIdle
<1>17. CASE ServerAnswers \/ ServerOfOtherVersion \/ ServerAliveCheck
  <2>1. PICK f : PeerSends(f)
    BY <1>17 DEF ServerAnswers, ServerOfOtherVersion, ServerAliveCheck
  <2>2. UNCHANGED <<raVars, stopping>>
    BY <1>17 DEF ServerAnswers, ServerOfOtherVersion, ServerAliveCheck
  <2> QED
    BY <2>1, <2>2 DEF PeerSends
<1>18. CASE ServerCloses
  BY <1>18 DEF ServerCloses, PeerCloses
<1>19. CASE UNCHANGED allVars
  BY <1>19
<1> QED
  BY <1>1, <1>2, <1>3, <1>4, <1>5, <1>6, <1>7, <1>8, <1>9, <1>10, <1>11, <1>12,
     <1>13, <1>14, <1>15, <1>16, <1>17, <1>18, <1>19 DEF ChannelNext, ChannelApi,
     ChannelReader, ChannelStop

\* A step takes a 'successful' only from the server.
LEMMA GrantedKept ==
    LocationsOK /\ FramesOK /\ Fresh /\ Granted /\ Stopped /\ [ChannelNext]_allVars => Granted'
<1> SUFFICES ASSUME LocationsOK, FramesOK, Fresh, Granted, Stopped, [ChannelNext]_allVars
             PROVE  Granted'
  OBVIOUS
<1> USE DEF LocationsOK, FramesOK, Fresh, Granted, Stopped, IsRoutingActivated,
        raVars, tcpVars, readerVars, channelVars, allVars
<1>1. CASE Startup
  BY <1>1 DEF Startup, Initialize
<1>2. CASE ConnectToDiagServer
  BY <1>2 DEF ConnectToDiagServer, BeginCall, HandleRoutingActivationRequest
<1>3. CASE DisconnectFromDiagServer \/ Transmit
  BY <1>3 DEF DisconnectFromDiagServer, Transmit, BeginCall
<1>4. CASE SocketConnected \/ SocketRefused
  BY <1>4, FrameFacts DEF SocketConnected, ConnectOk, SocketRefused, ConnectFailed,
            HandleRoutingActivationRequest
<1>5. CASE ActivationRequestSent \/ ActivationRequestRefused
  BY <1>5 DEF ActivationRequestSent, ActivationRequestRefused, TransmitOk,
         TransmitFailed, SendRoutingActivationRequestOk,
         SendRoutingActivationRequestFailed, CanWrite
<1>6. CASE InActivation
  BY <1>6 DEF InActivation, ToWaitForRoutingActivationRes, StartActivationTimer,
         ActivationTimerExpires, ActivationTimerCancelled, ActivationTimeout,
         CheckActivation, ActivationFailed
<1>7. CASE ConnectReturn
  BY <1>7 DEF ConnectReturn, RaReturn, ConvertConnectionResult
<1>8. CASE Disconnecting
  BY <1>8 DEF Disconnecting, DisconnectStopReading, DisconnectShutdown
<1>9. CASE CheckRoutingActivated \/ DisconnectReset
  BY <1>9 DEF CheckRoutingActivated, RaStopCancelWait, DisconnectReset, RaStopToIdle
<1>10. CASE WriteRequest \/ ApiTerminates
  BY <1>10 DEF WriteRequest, TransmitOk, TransmitFailed, ApiTerminates,
         ConnectTerminates, TransmitTerminates, CanWrite
<1>11. CASE InConnection
  <2> UNCHANGED <<raVars, channelVars, closing>>
    BY <1>11 DEF InConnection, ReaderStep, ReaderWakes, ReadHeader, ReadFails, ReadPayload,
              StoreRunning
  <2>1. CASE ReadHeader
    BY <2>1, FrameFacts DEF ReadHeader
  <2>2. CASE ReadPayload
    BY <2>2 DEF ReadPayload, Frame
  <2>3. CASE StoreRunning
    BY <2>3, FrameFacts DEF StoreRunning
  <2> QED
    BY <1>11, <2>1, <2>2, <2>3 DEF InConnection, ReaderStep, ReaderWakes, ReadFails
<1>12. CASE ReaderTerminates \/ Undecodable \/ HeaderRefused
  BY <1>12 DEF ReaderTerminates, RemoteEndpointThrows, Undecodable, HeaderRefused,
         Processable, Delivered
<1>13. CASE ProcessDoIPPayload
  BY <1>13 DEF ProcessDoIPPayload, Processable, Delivered,
         ProcessDoIPRoutingActivationResponse, FinalState
<1>14. CASE ActivationDecided \/ ActivationSignalled
  BY <1>14 DEF ActivationDecided, RaTransition, ActivationSignalled, RaCancelWait,
         Delivered
<1>15. CASE Shutdown \/ ClosingConnection
  BY <1>15 DEF Shutdown, DeInitialize, ClosingConnection, CloseStep, CloseShutdown,
         CloseSocket, RequestExit, JoinThread
<1>16. CASE StopRouting
  BY <1>16 DEF StopRouting, RaStopCancelWait, RaStopToIdle
<1>17. CASE ServerAnswers \/ ServerOfOtherVersion \/ ServerAliveCheck
  <2> SUFFICES ASSUME closing = "no", ~accepted, ~accepted' PROVE Granted'
    BY <1>17 DEF ServerAnswers, ServerOfOtherVersion, ServerAliveCheck, PeerSends
  <2> UNCHANGED <<raVars, api, requests, frame>>
    BY <1>17 DEF ServerAnswers, ServerOfOtherVersion, ServerAliveCheck, PeerSends
  <2>1. PICK f : PeerSends(f) /\ f.code # "successful"
    <3>1. CASE ServerAnswers
      <4>1. PICK code \in {"successful", "other"}, whole \in BOOLEAN :
               /\ PeerSends([pattern |-> "2019", type |-> "activation", length |-> 13,
                             whole |-> whole, code |-> code])
               /\ accepted' = (accepted \/ code = "successful")
        BY <3>1 DEF ServerAnswers, ResponseCode
      <4>2. code # "successful"
        BY <4>1, Zenon
      <4> DEFINE f == [pattern |-> "2019", type |-> "activation", length |-> 13,
                       whole |-> whole, code |-> code]
      <4>3. f.code # "successful"
        BY <4>2
      <4> QED
        BY <4>1, <4>3, Zenon
    <3>2. CASE ServerOfOtherVersion
      BY <3>2 DEF ServerOfOtherVersion
    <3>3. CASE ServerAliveCheck
      BY <3>3, FrameFacts DEF ServerAliveCheck
    <3> QED
      BY <1>17, <3>1, <3>2, <3>3
  <2> QED
    BY <2>1, FrameFacts DEF PeerSends
<1>18. CASE ServerCloses
  BY <1>18 DEF ServerCloses, PeerCloses
<1>19. CASE UNCHANGED allVars
  BY <1>19
<1> QED
  BY <1>1, <1>2, <1>3, <1>4, <1>5, <1>6, <1>7, <1>8, <1>9, <1>10, <1>11, <1>12,
     <1>13, <1>14, <1>15, <1>16, <1>17, <1>18, <1>19 DEF ChannelNext, ChannelApi,
     ChannelReader, ChannelStop

\* A step keeps the flags in their types.
LEMMA FlagsKept == FlagsOK /\ [ChannelNext]_allVars => FlagsOK'
<1> SUFFICES ASSUME FlagsOK, [ChannelNext]_allVars PROVE FlagsOK'
  OBVIOUS
<1> USE DEF FlagsOK, raVars, tcpVars, readerVars, channelVars, allVars
<1>1. CASE Startup
  BY <1>1 DEF Startup, Initialize
<1>2. CASE ConnectToDiagServer
  BY <1>2 DEF ConnectToDiagServer, BeginCall, HandleRoutingActivationRequest
<1>3. CASE DisconnectFromDiagServer \/ Transmit
  BY <1>3 DEF DisconnectFromDiagServer, Transmit, BeginCall
<1>4. CASE SocketConnected \/ SocketRefused
  BY <1>4 DEF SocketConnected, ConnectOk, SocketRefused, ConnectFailed,
         HandleRoutingActivationRequest
<1>5. CASE ActivationRequestSent \/ ActivationRequestRefused
  BY <1>5 DEF ActivationRequestSent, ActivationRequestRefused, TransmitOk,
         TransmitFailed, SendRoutingActivationRequestOk,
         SendRoutingActivationRequestFailed, CanWrite
<1>6. CASE InActivation
  BY <1>6 DEF InActivation, ToWaitForRoutingActivationRes, StartActivationTimer,
         ActivationTimerExpires, ActivationTimerCancelled, ActivationTimeout,
         CheckActivation, ActivationFailed
<1>7. CASE ConnectReturn
  BY <1>7 DEF ConnectReturn, RaReturn, ConvertConnectionResult
<1>8. CASE Disconnecting
  BY <1>8 DEF Disconnecting, DisconnectStopReading, DisconnectShutdown
<1>9. CASE CheckRoutingActivated \/ DisconnectReset
  BY <1>9 DEF CheckRoutingActivated, RaStopCancelWait, DisconnectReset, RaStopToIdle
<1>10. CASE WriteRequest \/ ApiTerminates
  BY <1>10 DEF WriteRequest, TransmitOk, TransmitFailed, ApiTerminates,
         ConnectTerminates, TransmitTerminates, CanWrite
<1>11. CASE InConnection
  BY <1>11 DEF InConnection, ReaderStep, ReaderWakes, ReadHeader, ReadFails,
         ReadPayload, StoreRunning
<1>12. CASE ReaderTerminates \/ Undecodable \/ HeaderRefused
  BY <1>12 DEF ReaderTerminates, RemoteEndpointThrows, Undecodable, HeaderRefused,
         Processable, Delivered
<1>13. CASE ProcessDoIPPayload
  BY <1>13 DEF ProcessDoIPPayload, Processable, Delivered,
         ProcessDoIPRoutingActivationResponse, FinalState
<1>14. CASE ActivationDecided \/ ActivationSignalled
  BY <1>14 DEF ActivationDecided, RaTransition, ActivationSignalled, RaCancelWait,
         Delivered
<1>15. CASE Shutdown \/ ClosingConnection
  BY <1>15 DEF Shutdown, DeInitialize, ClosingConnection, CloseStep, CloseShutdown,
         CloseSocket, RequestExit, JoinThread
<1>16. CASE StopRouting
  BY <1>16 DEF StopRouting, RaStopCancelWait, RaStopToIdle
<1>17. CASE ServerAnswers \/ ServerOfOtherVersion \/ ServerAliveCheck
  BY <1>17, ZenonT(60) DEF ServerAnswers, ServerOfOtherVersion, ServerAliveCheck, PeerSends
<1>18. CASE ServerCloses
  BY <1>18 DEF ServerCloses, PeerCloses
<1>19. CASE UNCHANGED allVars
  BY <1>19
<1> QED
  BY <1>1, <1>2, <1>3, <1>4, <1>5, <1>6, <1>7, <1>8, <1>9, <1>10, <1>11, <1>12,
     <1>13, <1>14, <1>15, <1>16, <1>17, <1>18, <1>19 DEF ChannelNext, ChannelApi,
     ChannelReader, ChannelStop

\* A step keeps the locations, states, results and counters in their types.
LEMMA LocationsKept == LocationsOK /\ [ChannelNext]_allVars => LocationsOK'
<1> SUFFICES ASSUME LocationsOK, [ChannelNext]_allVars PROVE LocationsOK'
  OBVIOUS
<1> USE MaxCallsAssumption DEF LocationsOK, RoutingActivationState,
        ConnectionResult, ConnectResult, raVars, tcpVars, readerVars,
        channelVars, allVars
<1>1. CASE Startup
  BY <1>1 DEF Startup, Initialize
<1>2. CASE ConnectToDiagServer
  BY <1>2 DEF ConnectToDiagServer, BeginCall, HandleRoutingActivationRequest
<1>3. CASE DisconnectFromDiagServer \/ Transmit
  BY <1>3 DEF DisconnectFromDiagServer, Transmit, BeginCall
<1>4. CASE SocketConnected \/ SocketRefused
  BY <1>4 DEF SocketConnected, ConnectOk, SocketRefused, ConnectFailed,
         HandleRoutingActivationRequest
<1>5. CASE ActivationRequestSent \/ ActivationRequestRefused
  BY <1>5 DEF ActivationRequestSent, ActivationRequestRefused, TransmitOk,
         TransmitFailed, SendRoutingActivationRequestOk,
         SendRoutingActivationRequestFailed, CanWrite
<1>6. CASE InActivation
  BY <1>6 DEF InActivation, ToWaitForRoutingActivationRes, StartActivationTimer,
         ActivationTimerExpires, ActivationTimerCancelled, ActivationTimeout,
         CheckActivation, ActivationFailed
<1>7. CASE ConnectReturn
  BY <1>7 DEF ConnectReturn, RaReturn, ConvertConnectionResult
<1>8. CASE Disconnecting
  BY <1>8 DEF Disconnecting, DisconnectStopReading, DisconnectShutdown
<1>9. CASE CheckRoutingActivated \/ DisconnectReset
  BY <1>9 DEF CheckRoutingActivated, RaStopCancelWait, DisconnectReset, RaStopToIdle
<1>10. CASE WriteRequest \/ ApiTerminates
  BY <1>10 DEF WriteRequest, TransmitOk, TransmitFailed, ApiTerminates,
         ConnectTerminates, TransmitTerminates, CanWrite
<1>11. CASE InConnection
  BY <1>11 DEF InConnection, ReaderStep, ReaderWakes, ReadHeader, ReadFails,
         ReadPayload, StoreRunning
<1>12. CASE ReaderTerminates \/ Undecodable \/ HeaderRefused
  BY <1>12 DEF ReaderTerminates, RemoteEndpointThrows, Undecodable, HeaderRefused,
         Processable, Delivered
<1>13. CASE ProcessDoIPPayload
  BY <1>13 DEF ProcessDoIPPayload, Processable, Delivered,
         ProcessDoIPRoutingActivationResponse, FinalState
<1>14. CASE ActivationDecided \/ ActivationSignalled
  BY <1>14 DEF ActivationDecided, RaTransition, ActivationSignalled, RaCancelWait,
         Delivered
<1>15. CASE Shutdown \/ ClosingConnection
  BY <1>15 DEF Shutdown, DeInitialize, ClosingConnection, CloseStep, CloseShutdown,
         CloseSocket, RequestExit, JoinThread
<1>16. CASE StopRouting
  BY <1>16 DEF StopRouting, RaStopCancelWait, RaStopToIdle
<1>17. CASE ServerAnswers \/ ServerOfOtherVersion \/ ServerAliveCheck
  <2>1. asked' \in Nat
    BY <1>17 DEF ServerAnswers, ServerOfOtherVersion, ServerAliveCheck
  <2>2. PICK f : PeerSends(f)
    BY <1>17 DEF ServerAnswers, ServerOfOtherVersion, ServerAliveCheck
  <2>3. UNCHANGED <<raVars, api, result, calls, stopping, requests>>
    BY <1>17 DEF ServerAnswers, ServerOfOtherVersion, ServerAliveCheck
  <2> QED
    BY <2>1, <2>2, <2>3 DEF PeerSends
<1>18. CASE ServerCloses
  BY <1>18 DEF ServerCloses, PeerCloses
<1>19. CASE UNCHANGED allVars
  BY <1>19
<1> QED
  BY <1>1, <1>2, <1>3, <1>4, <1>5, <1>6, <1>7, <1>8, <1>9, <1>10, <1>11, <1>12,
     <1>13, <1>14, <1>15, <1>16, <1>17, <1>18, <1>19 DEF ChannelNext, ChannelApi,
     ChannelReader, ChannelStop

\* A step keeps the frames in their type.
LEMMA FramesKept == FramesOK /\ [ChannelNext]_allVars => FramesOK'
<1> SUFFICES ASSUME FramesOK, [ChannelNext]_allVars PROVE FramesOK'
  OBVIOUS
<1> USE DEF FramesOK, raVars, tcpVars, readerVars, channelVars, allVars
<1>1. CASE Startup
  BY <1>1 DEF Startup, Initialize
<1>2. CASE ConnectToDiagServer
  BY <1>2 DEF ConnectToDiagServer, BeginCall, HandleRoutingActivationRequest
<1>3. CASE DisconnectFromDiagServer \/ Transmit
  BY <1>3 DEF DisconnectFromDiagServer, Transmit, BeginCall
<1>4. CASE SocketConnected \/ SocketRefused
  BY <1>4, FrameFacts DEF SocketConnected, ConnectOk, SocketRefused, ConnectFailed
<1>5. CASE ActivationRequestSent \/ ActivationRequestRefused
  BY <1>5 DEF ActivationRequestSent, ActivationRequestRefused, TransmitOk,
         TransmitFailed, SendRoutingActivationRequestOk,
         SendRoutingActivationRequestFailed, CanWrite
<1>6. CASE InActivation
  BY <1>6 DEF InActivation, ToWaitForRoutingActivationRes, StartActivationTimer,
         ActivationTimerExpires, ActivationTimerCancelled, ActivationTimeout,
         CheckActivation, ActivationFailed
<1>7. CASE ConnectReturn
  BY <1>7 DEF ConnectReturn, RaReturn, ConvertConnectionResult
<1>8. CASE Disconnecting
  BY <1>8 DEF Disconnecting, DisconnectStopReading, DisconnectShutdown
<1>9. CASE CheckRoutingActivated \/ DisconnectReset
  BY <1>9 DEF CheckRoutingActivated, RaStopCancelWait, DisconnectReset, RaStopToIdle
<1>10. CASE WriteRequest \/ ApiTerminates
  BY <1>10 DEF WriteRequest, TransmitOk, TransmitFailed, ApiTerminates,
         ConnectTerminates, TransmitTerminates, CanWrite
<1>11. CASE InConnection
  <2>1. CASE ReadHeader
    BY <2>1, FrameFacts DEF ReadHeader
  <2>2. CASE ReadPayload
    BY <2>2 DEF ReadPayload, Frame
  <2>3. CASE StoreRunning
    BY <2>3, FrameFacts DEF StoreRunning
  <2> QED
    BY <1>11, <2>1, <2>2, <2>3 DEF InConnection, ReaderStep, ReaderWakes, ReadFails
<1>12. CASE ReaderTerminates \/ Undecodable \/ HeaderRefused
  BY <1>12 DEF ReaderTerminates, RemoteEndpointThrows, Undecodable, HeaderRefused,
         Processable, Delivered
<1>13. CASE ProcessDoIPPayload
  BY <1>13 DEF ProcessDoIPPayload, Processable, Delivered,
         ProcessDoIPRoutingActivationResponse, FinalState
<1>14. CASE ActivationDecided \/ ActivationSignalled
  BY <1>14 DEF ActivationDecided, RaTransition, ActivationSignalled, RaCancelWait,
         Delivered
<1>15. CASE Shutdown \/ ClosingConnection
  BY <1>15 DEF Shutdown, DeInitialize, ClosingConnection, CloseStep, CloseShutdown,
         CloseSocket, RequestExit, JoinThread
<1>16. CASE StopRouting
  BY <1>16 DEF StopRouting, RaStopCancelWait, RaStopToIdle
<1>17. CASE ServerAnswers \/ ServerOfOtherVersion \/ ServerAliveCheck
  <2>1. PICK f \in Frame : PeerSends(f)
    BY <1>17, FrameFacts DEF ServerAnswers, ServerOfOtherVersion, ServerAliveCheck,
                                ResponseCode, Frame
  <2> QED
    BY <2>1, FrameFacts DEF PeerSends
<1>18. CASE ServerCloses
  BY <1>18 DEF ServerCloses, PeerCloses
<1>19. CASE UNCHANGED allVars
  BY <1>19
<1> QED
  BY <1>1, <1>2, <1>3, <1>4, <1>5, <1>6, <1>7, <1>8, <1>9, <1>10, <1>11, <1>12,
     <1>13, <1>14, <1>15, <1>16, <1>17, <1>18, <1>19 DEF ChannelNext, ChannelApi,
     ChannelReader, ChannelStop

-----------------------------------------------------------------------------
(* The theorems *)

\* Every reachable state of the channel satisfies the inductive invariant.
THEOREM ChannelInvariant == ChannelSpec => []ChannelInv
<1>1. ChannelInit => ChannelInv
  <2> SUFFICES ASSUME ChannelInit PROVE ChannelInv
    OBVIOUS
  <2> USE MaxCallsAssumption DEF ChannelInit, RaInit, TcpInit
  <2>1. FlagsOK
    BY DEF FlagsOK
  <2> LocationsOK /\ version \in {"2019", "other"}
    BY DEF LocationsOK, RoutingActivationState, ConnectionResult, ConnectResult
  <2>2. FramesOK /\ NoGrant(stream) /\ frame.code # "successful"
    BY FrameFacts DEF FramesOK
  <2>3. ChannelTypeOK
    BY <2>1, <2>2 DEF FlagsOK, LocationsOK, FramesOK, ChannelTypeOK, RaTypeOK, TcpTypeOK
  <2>4. Unused /\ Fresh /\ Granted /\ Lasting /\ Stopped
    BY <2>2 DEF Unused, Fresh, Granted, Lasting, Stopped, IsRoutingActivated
  <2> QED
    BY <2>3, <2>4 DEF ChannelInv
<1>2. ChannelInv /\ [ChannelNext]_allVars => ChannelInv'
  <2> SUFFICES ASSUME ChannelInv, [ChannelNext]_allVars PROVE ChannelInv'
    OBVIOUS
  <2>1. /\ FlagsOK /\ LocationsOK /\ FramesOK /\ version \in {"2019", "other"}
        /\ Unused /\ Fresh /\ Granted /\ Lasting /\ Stopped
    BY DEF ChannelInv, ChannelTypeOK, RaTypeOK, TcpTypeOK, FlagsOK, LocationsOK, FramesOK
  <2>2. FlagsOK' /\ LocationsOK' /\ FramesOK'
    BY <2>1, FlagsKept, LocationsKept, FramesKept
  <2>3. version' = version
    BY DEF ChannelNext, Alive, allVars
  <2>4. Unused' /\ Fresh' /\ Granted' /\ Lasting' /\ Stopped'
    BY <2>1, UnusedKept, FreshKept, GrantedKept, LastingKept, StoppedKept
  <2>5. ChannelTypeOK'
    BY <2>1, <2>2, <2>3, <2>4
       DEF FlagsOK, LocationsOK, FramesOK, ChannelTypeOK, RaTypeOK, TcpTypeOK, Fresh
  <2> QED
    BY <2>4, <2>5 DEF ChannelInv
<1> QED
  BY <1>1, <1>2, PTL DEF ChannelSpec

\* The handler's, the connection's and the channel's variables stay in their
\* types, for any number of calls.
THEOREM ChannelTypeCorrect == ChannelSpec => []ChannelTypeOK
<1>1. ChannelInv => ChannelTypeOK
  BY DEF ChannelInv
<1> QED
  BY <1>1, ChannelInvariant, PTL

\* The routing counts as activated, and a diagnostic request is written, only
\* on a connection on which the server has activated the routing.
THEOREM ActivationIsGranted == ChannelSpec => []ActivatedMeansAccepted
<1>1. ChannelInv => ActivatedMeansAccepted
  BY DEF ChannelInv, Granted, ActivatedMeansAccepted
<1> QED
  BY <1>1, ChannelInvariant, PTL

\* A connect that succeeded stays good until the caller disconnects or shuts
\* down.
THEOREM ActivationLasts == ChannelSpec => []SuccessLasts
<1>1. ChannelInv => SuccessLasts
  BY DEF ChannelInv, Lasting, SuccessLasts
<1> QED
  BY <1>1, ChannelInvariant, PTL

\* After Shutdown, and after the call it interrupted, the reader thread is gone
\* and the activation handler is idle.
THEOREM ShutdownIsClean == ChannelSpec => []ShutdownLeavesNothing
<1>1. ChannelInv => ShutdownLeavesNothing
  BY DEF ChannelInv, Lasting, Stopped, Waiting, ShutdownLeavesNothing
<1> QED
  BY <1>1, ChannelInvariant, PTL
===============================================================================
