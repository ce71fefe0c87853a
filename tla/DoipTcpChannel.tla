---------------------------- MODULE DoipTcpChannel ----------------------------
(***************************************************************************)
(* A TCP channel's connection (channel/tcp_channel/doip_tcp_channel.cpp    *)
(* under DmConversation): Startup, ConnectToDiagServer with the routing    *)
(* activation, DisconnectFromDiagServer, the entry of a diagnostic request *)
(* and Shutdown.  It composes the RoutingActivationHandler and the         *)
(* TcpConnection; what the DiagnosticMessageHandler does with a request is *)
(* the subject of DiagnosticExchange.                                      *)
(*                                                                         *)
(* The API calls come one after the other.  Shutdown may come from another *)
(* thread, at any time, and no call is started after it.                   *)
(***************************************************************************)
EXTENDS RoutingActivationHandler, TcpConnection, DoipMessage

CONSTANT MaxCalls  \* bound on the API calls

ASSUME MaxCallsAssumption == MaxCalls \in Nat

VARIABLES
    api,          \* where the API thread is
    result,       \* the last ConnectResult, "kNone" before it and once disconnected
    calls,        \* the API calls so far
    stopping,     \* where the stopping thread is in the channel handler's Stop
    asked,        \* activation requests the server has not answered
    accepted,     \* history: the server activated the routing on this connection
    requests,     \* history: diagnostic requests written to this connection
    version       \* the server's protocol version, as Pattern; never changes

channelVars == <<api, result, calls, stopping, asked, accepted, requests>>
allVars == <<raVars, tcpVars, channelVars, version>>

\* kTlsRequired is declared and never returned.
ConnectResult == {"kConnectSuccess", "kConnectFailed", "kConnectTimeout", "kTlsRequired"}

\* The variables have their types, and connection_state_, which lies in another
\* class than the socket, never tells of a connection on a socket that was not
\* connected: Transmit and DisconnectFromDiagServer rely on it.
ChannelTypeOK ==
    /\ RaTypeOK
    /\ TcpTypeOK
    /\ api \in {"out", "connect", "activate", "stopReading", "shutdown", "check",
                "reset", "transmit"}
    /\ result \in ConnectResult \cup {"kNone"}
    /\ calls \in 0 .. MaxCalls
    /\ stopping \in {"no", "routing", "done"}
    /\ asked \in Nat
    /\ accepted \in BOOLEAN
    /\ requests \in Nat
    /\ version \in {"2019", "other"}
    /\ closing = "no" /\ socket \in {"open", "closed"} => connection_state = "kDisconnected"

ChannelInit ==
    /\ RaInit
    /\ TcpInit
    /\ api = "out"
    /\ result = "kNone"
    /\ calls = 0
    /\ stopping = "no"
    /\ asked = 0
    /\ accepted = FALSE
    /\ requests = 0
    /\ version \in {"2019", "other"}

-----------------------------------------------------------------------------
(* API thread *)

Startup ==
    /\ Initialize
    /\ UNCHANGED <<raVars, channelVars>>

\* A call: the conversation has been started and is not being shut down.
BeginCall(location) ==
    /\ api = "out"
    /\ reader # "none"
    /\ closing = "no"
    /\ calls < MaxCalls
    /\ calls' = calls + 1
    /\ api' = location

\* An existing connection is used again: only the activation is repeated.
ConnectToDiagServer ==
    /\ BeginCall(IF connection_state = "kConnected" THEN "activate" ELSE "connect")
    /\ IF connection_state = "kConnected" THEN HandleRoutingActivationRequest ELSE UNCHANGED raVars
    /\ UNCHANGED <<tcpVars, result, stopping, asked, accepted, requests>>

SocketConnected ==
    /\ api = "connect"
    /\ ConnectOk
    /\ HandleRoutingActivationRequest
    /\ api' = "activate"
    /\ asked' = 0
    /\ accepted' = FALSE
    /\ requests' = 0
    /\ UNCHANGED <<result, calls, stopping>>

SocketRefused ==
    /\ api = "connect"
    /\ ConnectFailed
    /\ api' = "out"
    /\ result' = "kConnectFailed"
    /\ UNCHANGED <<raVars, calls, stopping, asked, accepted, requests>>

ActivationRequestSent ==
    /\ SendRoutingActivationRequestOk
    /\ TransmitOk
    /\ asked' = asked + 1
    /\ UNCHANGED <<api, result, calls, stopping, accepted, requests>>

ActivationRequestRefused ==
    /\ SendRoutingActivationRequestFailed
    /\ TransmitFailed
    /\ UNCHANGED channelVars

InActivation ==
    /\ \/ ToWaitForRoutingActivationRes \/ StartActivationTimer \/ ActivationTimerExpires
       \/ ActivationTimerCancelled \/ ActivationTimeout \/ CheckActivation
       \/ ActivationFailed
    /\ UNCHANGED <<tcpVars, channelVars>>

\* ConnectionResult is cast to ConnectResult: the same numbers.
ConvertConnectionResult(r) ==
    CASE r = "kConnectionOk" -> "kConnectSuccess"
      [] r = "kConnectionTimeout" -> "kConnectTimeout"
      [] OTHER -> "kConnectFailed"

ConnectReturn ==
    /\ api = "activate"
    /\ RaReturn
    /\ api' = "out"
    /\ result' = ConvertConnectionResult(ra_result)
    /\ UNCHANGED <<tcpVars, calls, stopping, asked, accepted, requests>>

\* Without a connection kAlreadyDisconnected is returned and nothing changes.
DisconnectFromDiagServer ==
    /\ BeginCall(IF connection_state = "kConnected" THEN "stopReading" ELSE "out")
    /\ UNCHANGED <<raVars, tcpVars, result, stopping, asked, accepted, requests>>

Disconnecting ==
    /\ \/ /\ api = "stopReading"
          /\ DisconnectStopReading
          /\ api' = "shutdown"
       \/ /\ api = "shutdown"
          /\ DisconnectShutdown
          /\ api' = "check"
    /\ UNCHANGED <<raVars, result, calls, stopping, asked, accepted, requests>>

\* The handlers are reset only if the routing is activated.
CheckRoutingActivated ==
    /\ api = "check"
    /\ \/ /\ IsRoutingActivated
          /\ api' = "reset"
          /\ RaStopCancelWait
          /\ UNCHANGED result
       \/ /\ ~IsRoutingActivated
          /\ api' = "out"
          /\ result' = "kNone"
          /\ UNCHANGED raVars
    /\ UNCHANGED <<tcpVars, calls, stopping, asked, accepted, requests>>

DisconnectReset ==
    /\ api = "reset"
    /\ RaStopToIdle
    /\ api' = "out"
    /\ result' = "kNone"
    /\ UNCHANGED <<tcpVars, calls, stopping, asked, accepted, requests>>

\* DoipTcpChannel::Transmit: a diagnostic request needs an activated routing.
Transmit ==
    /\ BeginCall(IF IsRoutingActivated THEN "transmit" ELSE "out")
    /\ UNCHANGED <<raVars, tcpVars, result, stopping, asked, accepted, requests>>

WriteRequest ==
    /\ api = "transmit"
    /\ api' = "out"
    /\ \/ TransmitOk /\ requests' = requests + 1
       \/ TransmitFailed /\ UNCHANGED requests
    /\ UNCHANGED <<raVars, result, calls, stopping, asked, accepted>>

\* A connect or a write that goes through but finds the connection gone when
\* it is logged.
ApiTerminates ==
    /\ \/ api = "connect" /\ ConnectTerminates
       \/ (ra_call = "send" \/ api = "transmit") /\ TransmitTerminates
    /\ UNCHANGED <<raVars, channelVars>>

-----------------------------------------------------------------------------
(* Reader thread *)

InConnection ==
    /\ ReaderStep
    /\ UNCHANGED <<raVars, channelVars>>

ReaderTerminates ==
    /\ RemoteEndpointThrows
    /\ UNCHANGED <<raVars, channelVars>>

\* HandleMessage decodes the frame before it looks at its header, and Span's
\* index check aborts if the frame has no room for the addresses.
Undecodable ==
    /\ reader = "deliver"
    /\ ~Decodable("kTcp", kDoipHeaderSize + frame.length)
    /\ terminated' = TRUE
    /\ UNCHANGED <<socket, remote, stream, connection_state, running, exit_request,
                   readerVars, closing, raVars, channelVars>>

Processable ==
    /\ reader = "deliver"
    /\ Decodable("kTcp", kDoipHeaderSize + frame.length)

\* "send NACK or ignore": ignored.
HeaderRefused ==
    /\ Processable
    /\ TcpHeader(frame) # "ok"
    /\ Delivered
    /\ UNCHANGED <<raVars, channelVars>>

\* ProcessDoIPPayload hands the frame to the routing activation handler; the
\* reader returns to the connection when that is done.
ProcessDoIPPayload ==
    /\ Processable
    /\ TcpHeader(frame) = "ok"
    /\ ProcessDoIPRoutingActivationResponse(frame.code)
    /\ IF ra_rx' = "out" THEN Delivered ELSE UNCHANGED tcpVars
    /\ UNCHANGED channelVars

ActivationDecided ==
    /\ RaTransition
    /\ UNCHANGED <<tcpVars, channelVars>>

ActivationSignalled ==
    /\ RaCancelWait
    /\ Delivered
    /\ UNCHANGED channelVars

-----------------------------------------------------------------------------
(* Stopping thread: the connection first, then the handlers *)

Shutdown ==
    /\ DeInitialize
    /\ UNCHANGED <<raVars, channelVars>>

ClosingConnection ==
    /\ CloseStep
    /\ UNCHANGED <<raVars, channelVars>>

StopRouting ==
    /\ \/ /\ closing = "joined"
          /\ stopping = "no"
          /\ stopping' = "routing"
          /\ RaStopCancelWait
       \/ /\ stopping = "routing"
          /\ stopping' = "done"
          /\ RaStopToIdle
    /\ UNCHANGED <<tcpVars, api, result, calls, asked, accepted, requests>>

-----------------------------------------------------------------------------
(* The server (external) *)

\* It answers an activation request, possibly closing before the answer is out.
ServerAnswers ==
    /\ version = "2019"
    /\ asked > 0
    /\ asked' = asked - 1
    /\ \E code \in ResponseCode, whole \in BOOLEAN :
          /\ PeerSends([pattern |-> "2019", type |-> "activation", length |-> 13,
                        whole |-> whole, code |-> code])
          /\ accepted' = (accepted \/ code = "successful")
    /\ UNCHANGED <<raVars, api, result, calls, stopping, requests>>

\* It speaks another version of the protocol: it grants the activation in a
\* frame the client does not accept, or refuses the request with a nack.
ServerOfOtherVersion ==
    /\ version = "other"
    /\ asked > 0
    /\ asked' = asked - 1
    /\ \/ /\ PeerSends([pattern |-> "other", type |-> "activation", length |-> 13,
                           whole |-> TRUE, code |-> "successful"])
          /\ accepted' = TRUE
       \/ /\ PeerSends([pattern |-> "other", type |-> "nack", length |-> 1,
                           whole |-> TRUE, code |-> "other"])
          /\ UNCHANGED accepted
    /\ UNCHANGED <<raVars, api, result, calls, stopping, requests>>

\* An alive check request, one at a time.  The reader stops at its length, before
\* the version is looked at, so one version is enough.
ServerAliveCheck ==
    /\ version = "2019"
    /\ \A i \in DOMAIN stream : stream[i].length # 0
    /\ PeerSends(NoFrame)
    /\ UNCHANGED <<raVars, channelVars>>

ServerCloses ==
    /\ PeerCloses
    /\ UNCHANGED <<raVars, channelVars>>

-----------------------------------------------------------------------------

ChannelApi ==
    \/ SocketConnected \/ SocketRefused \/ ActivationRequestSent
    \/ ActivationRequestRefused \/ InActivation \/ ConnectReturn \/ Disconnecting
    \/ CheckRoutingActivated \/ DisconnectReset \/ WriteRequest \/ ApiTerminates

ChannelReader ==
    \/ InConnection \/ ReaderTerminates \/ Undecodable \/ HeaderRefused
    \/ ProcessDoIPPayload \/ ActivationDecided \/ ActivationSignalled

ChannelStop == ClosingConnection \/ StopRouting

\* What every step leaves as it is.
Alive == ~terminated /\ UNCHANGED version

ChannelNext ==
    /\ Alive
    /\ \/ Startup \/ ConnectToDiagServer \/ DisconnectFromDiagServer \/ Transmit
       \/ ChannelApi \/ ChannelReader
       \/ Shutdown \/ ChannelStop
       \/ ServerAnswers \/ ServerOfOtherVersion \/ ServerAliveCheck \/ ServerCloses

ChannelSpec == ChannelInit /\ [][ChannelNext]_allVars

\* The three threads keep running and a started timer expires.  Nothing is
\* assumed of the server.
ChannelFairness ==
    /\ WF_allVars(Alive /\ ChannelApi)
    /\ WF_allVars(Alive /\ ChannelReader)
    /\ WF_allVars(Alive /\ ChannelStop)

ChannelFairSpec == ChannelSpec /\ ChannelFairness

-----------------------------------------------------------------------------
(* Properties *)

\* Routing counts as activated, a connect succeeds and a diagnostic request is
\* written only on a connection on which the server has activated the routing:
\* no late, repeated or truncated response and no reset changes that.  (A
\* connect that races with Shutdown may open the socket a second time.)
ActivatedMeansAccepted ==
    closing = "no" /\ (IsRoutingActivated \/ requests > 0) => accepted

\* A connect that succeeded stays good until the caller disconnects or shuts
\* down: no response still on its way undoes the activation.
SuccessLasts ==
    api = "out" /\ result = "kConnectSuccess" /\ stopping = "no" => IsRoutingActivated

\* Once Shutdown and the call it interrupted are over, the reader thread is
\* gone and has not left the handler in a state Stop had already reset.
ShutdownLeavesNothing ==
    stopping = "done" /\ api = "out" => reader = "ended" /\ ra_state = "kIdle"

\* Connect, disconnect and request return, whatever the server does.
ChannelCallReturns == api # "out" ~> api = "out" \/ terminated

\* Shutdown ends, the reader thread is never left blocked in a read, unless a
\* connect was already on its way to the socket: that one may open the socket
\* again after it was closed.
ShutdownEnds ==
    closing = "shutdown" /\ api # "connect" ~> stopping = "done" \/ terminated

\* "Tcp Message read ignored as header size is zero": a frame that is ignored
\* does not stop the reader; on an open connection it goes on reading.
ReaderReadsWhileConnected ==
    socket = "connected" /\ remote = "open" /\ reader = "idle" /\ api = "out" => running
=============================================================================
