---------------------------- MODULE TcpConnection ----------------------------
(***************************************************************************)
(* The TCP client below a channel: TcpClient with its connection_state_,   *)
(* TcpConnection with its reader thread, and TcpSocket                     *)
(* (boost-support client/tcp, connection/tcp, socket/tcp).                 *)
(*                                                                         *)
(* The operating system's socket is external.  Connecting opens it if it   *)
(* is closed; connecting one that was connected and shut down fails, and   *)
(* shutdown and getpeername fail on one that is not connected (any more):  *)
(* both sides have shut it down, or the peer has reset it.  Where the code *)
(* calls the throwing form of these inside a noexcept function the process *)
(* terminates.                                                             *)
(*                                                                         *)
(* connection_state_, running_ and exit_request_ are atomics; running_ and *)
(* exit_request_ are set under mutex_ except for running_ = ReadMessage(), *)
(* and the condition variable's predicate is evaluated under mutex_.       *)
(***************************************************************************)
EXTENDS Sequences

VARIABLES
    socket,            \* "closed", "open", "connected", "rdshut" or "shut"
    remote,            \* the peer: "none", "open", or "closed"
    stream,            \* the frames that have arrived and are not read yet
    connection_state,  \* TcpClient's connection_state_
    running,           \* running_
    exit_request,      \* exit_request_
    reader,            \* where the reader thread is
    frame,             \* the frame it is reading or has delivered
    read_ok,           \* what its ReadMessage returns
    closing,           \* where the stopping thread is in DeInitialize
    terminated         \* std::terminate has been called

readerVars == <<reader, frame, read_ok>>
tcpVars == <<socket, remote, stream, connection_state, running, exit_request,
             reader, frame, read_ok, closing, terminated>>

\* A DoIP frame: an activation response, an alive check request or a generic
\* header nack, the length of its payload, and whether the peer closes before
\* the end of it.
Frame == [pattern : {"2019", "other"}, type : {"activation", "alive check", "nack"},
          length : {0, 1, 13}, whole : BOOLEAN, code : {"successful", "other"}]

\* The value of the reader's locals while they are out of scope.
NoFrame == [pattern |-> "2019", type |-> "alive check", length |-> 0, whole |-> TRUE,
            code |-> "other"]

TcpTypeOK ==
    /\ socket \in {"closed", "open", "connected", "rdshut", "shut"}
    /\ remote \in {"none", "open", "closed"}
    /\ stream \in Seq(Frame)
    /\ connection_state \in {"kDisconnected", "kConnected"}
    /\ running \in BOOLEAN
    /\ exit_request \in BOOLEAN
    /\ reader \in {"none", "idle", "read", "payload", "deliver", "store", "ended"}
    /\ frame \in Frame
    /\ read_ok \in BOOLEAN
    /\ closing \in {"no", "shutdown", "close", "exit", "join", "joined"}
    /\ terminated \in BOOLEAN

TcpInit ==
    /\ socket = "closed"
    /\ remote = "none"
    /\ stream = <<>>
    /\ connection_state = "kDisconnected"
    /\ running = FALSE
    /\ exit_request = FALSE
    /\ reader = "none"
    /\ frame = NoFrame
    /\ read_ok = FALSE
    /\ closing = "no"
    /\ terminated = FALSE

-----------------------------------------------------------------------------
(* API thread *)

\* Nobody looks at the result of Open: without a socket the thread is started
\* all the same.
Initialize ==
    /\ reader = "none"
    /\ socket' \in {"open", "closed"}
    /\ reader' = "idle"
    /\ UNCHANGED <<remote, stream, connection_state, running, exit_request, frame,
                   read_ok, closing, terminated>>

\* Connect, start reading, remember the state.  The reader sees no difference
\* before running_ is set, and nobody else reads connection_state_.
ConnectOk ==
    /\ connection_state # "kConnected"
    /\ socket \in {"open", "closed"}
    /\ socket' = "connected"
    /\ remote' = "open"
    /\ stream' = <<>>
    /\ running' = TRUE
    /\ connection_state' = "kConnected"
    /\ UNCHANGED <<exit_request, readerVars, closing, terminated>>

\* The log line asks for the remote endpoint, which throws if the peer has
\* already reset the connection; the logger is noexcept.
ConnectTerminates ==
    /\ connection_state # "kConnected"
    /\ socket \in {"open", "closed"}
    /\ terminated' = TRUE
    /\ UNCHANGED <<socket, remote, stream, connection_state, running, exit_request,
                   readerVars, closing>>

\* Mutant of ConnectFailed: the state is stored whatever the connection returns.
ConnectFailedUnnoticed ==
    /\ connection_state # "kConnected"
    /\ connection_state' = "kConnected"
    /\ UNCHANGED <<socket, remote, stream, running, exit_request, readerVars, closing, terminated>>

ConnectFailed ==
    /\ connection_state # "kConnected"
    /\ UNCHANGED tcpVars

DisconnectStopReading ==
    /\ connection_state = "kConnected"
    /\ running' = FALSE
    /\ UNCHANGED <<socket, remote, stream, connection_state, exit_request, readerVars,
                   closing, terminated>>

\* shutdown_both only: the socket stays open.
DisconnectShutdown ==
    /\ socket' = IF socket \in {"connected", "rdshut"} THEN "shut" ELSE socket
    /\ connection_state' = "kDisconnected"
    /\ UNCHANGED <<remote, stream, running, exit_request, readerVars, closing, terminated>>

CanWrite == connection_state = "kConnected" /\ socket \in {"connected", "rdshut"}

\* A write can fail once the peer has closed, and must without a connection.
TransmitOk ==
    /\ CanWrite
    /\ UNCHANGED tcpVars

TransmitFailed ==
    /\ ~CanWrite \/ remote = "closed"
    /\ UNCHANGED tcpVars

\* The log line after the write, as in ConnectTerminates; the stopping thread
\* may also have closed the socket since the write.
TransmitTerminates ==
    /\ CanWrite
    /\ remote = "closed" \/ closing = "close"
    /\ terminated' = TRUE
    /\ UNCHANGED <<socket, remote, stream, connection_state, running, exit_request,
                   readerVars, closing>>

-----------------------------------------------------------------------------
(* Reader thread *)

\* The loop's condition and the condition variable's predicate.
ReaderWakes ==
    /\ reader = "idle"
    /\ \/ exit_request /\ reader' = "ended"
       \/ ~exit_request /\ running /\ reader' = "read"
    /\ UNCHANGED <<socket, remote, stream, connection_state, running, exit_request,
                   frame, read_ok, closing, terminated>>

\* TcpSocket::Read: the header; a frame without payload counts as a failure.
ReadHeader ==
    /\ reader = "read"
    /\ socket # "closed"
    /\ stream # <<>>
    /\ frame' = Head(stream)
    /\ stream' = Tail(stream)
    /\ reader' = IF Head(stream).length = 0 THEN "store" ELSE "payload"
    /\ read_ok' = FALSE
    /\ UNCHANGED <<socket, remote, connection_state, running, exit_request, closing, terminated>>

AtEnd == socket # "connected" \/ remote = "closed"

ReadFails ==
    /\ reader = "read"
    /\ socket = "closed" \/ (stream = <<>> /\ AtEnd)
    /\ reader' = "store"
    /\ read_ok' = FALSE
    /\ UNCHANGED <<socket, remote, stream, connection_state, running, exit_request,
                   frame, closing, terminated>>

\* The payload: the error code of this read is not looked at, so a frame cut
\* short by the end of the connection is delivered too, its rest zero.
ReadPayload ==
    /\ reader = "payload"
    /\ frame.whole \/ AtEnd
    /\ socket # "closed"
    /\ \/ UNCHANGED frame
       \/ ~frame.whole /\ frame' = [frame EXCEPT !.code = "other"]
    /\ reader' = "deliver"
    /\ UNCHANGED <<socket, remote, stream, connection_state, running, exit_request,
                   read_ok, closing, terminated>>

\* remote_endpoint() throws in Read, which is noexcept.
RemoteEndpointThrows ==
    /\ reader = "payload"
    /\ socket = "closed" \/ remote = "closed"
    /\ terminated' = TRUE
    /\ UNCHANGED <<socket, remote, stream, connection_state, running, exit_request,
                   readerVars, closing>>

\* handler_read_ comes back.
Delivered ==
    /\ reader = "deliver"
    /\ reader' = "store"
    /\ read_ok' = TRUE
    /\ UNCHANGED <<socket, remote, stream, connection_state, running, exit_request,
                   frame, closing, terminated>>

\* running_ = ReadMessage()
StoreRunning ==
    /\ reader = "store"
    /\ running' = read_ok
    /\ reader' = "idle"
    /\ frame' = NoFrame
    /\ read_ok' = FALSE
    /\ UNCHANGED <<socket, remote, stream, connection_state, exit_request, closing, terminated>>

ReaderStep ==
    \/ ReaderWakes \/ ReadHeader \/ ReadFails \/ ReadPayload \/ StoreRunning

-----------------------------------------------------------------------------
(* Stopping thread: DeInitialize.  connection_state_ is left as it is. *)

DeInitialize ==
    /\ closing = "no"
    /\ reader # "none"
    /\ closing' = "shutdown"
    /\ UNCHANGED <<socket, remote, stream, connection_state, running, exit_request,
                   readerVars, terminated>>

CloseShutdown ==
    /\ closing = "shutdown"
    /\ \/ /\ socket \in {"connected", "rdshut", "shut"}
          /\ socket' = IF socket = "connected" THEN "rdshut" ELSE socket
          /\ closing' = "close"
          /\ UNCHANGED terminated
       \/ \* shutdown throws in Close, which is noexcept
          /\ socket \in {"open", "closed"} \/ remote = "closed"
          /\ terminated' = TRUE
          /\ UNCHANGED <<socket, closing>>
    /\ UNCHANGED <<remote, stream, connection_state, running, exit_request, readerVars>>

CloseSocket ==
    /\ closing = "close"
    /\ socket' = "closed"
    /\ closing' = "exit"
    /\ UNCHANGED <<remote, stream, connection_state, running, exit_request, readerVars, terminated>>

\* Mutant of RequestExit: the reader is only told to pause.
PauseReader ==
    /\ closing = "exit"
    /\ running' = FALSE
    /\ closing' = "join"
    /\ UNCHANGED <<socket, remote, stream, connection_state, exit_request, readerVars, terminated>>

RequestExit ==
    /\ closing = "exit"
    /\ exit_request' = TRUE
    /\ running' = FALSE
    /\ closing' = "join"
    /\ UNCHANGED <<socket, remote, stream, connection_state, readerVars, terminated>>

\* Mutant of JoinThread: the reader is detached, not joined.
DetachThread ==
    /\ closing = "join"
    /\ closing' = "joined"
    /\ UNCHANGED <<socket, remote, stream, connection_state, running, exit_request,
                   readerVars, terminated>>

JoinThread ==
    /\ closing = "join"
    /\ reader = "ended"
    /\ closing' = "joined"
    /\ UNCHANGED <<socket, remote, stream, connection_state, running, exit_request,
                   readerVars, terminated>>

CloseStep == CloseShutdown \/ CloseSocket \/ RequestExit \/ JoinThread

-----------------------------------------------------------------------------
(* The peer (external).  What it does to a closed socket nobody sees. *)

PeerSends(f) ==
    /\ remote = "open"
    /\ socket # "closed"
    /\ stream' = Append(stream, f)
    /\ remote' = IF f.whole THEN "open" ELSE "closed"
    /\ UNCHANGED <<socket, connection_state, running, exit_request, readerVars, closing, terminated>>

PeerCloses ==
    /\ remote = "open"
    /\ socket # "closed"
    /\ remote' = "closed"
    /\ UNCHANGED <<socket, stream, connection_state, running, exit_request, readerVars,
                   closing, terminated>>
=============================================================================
