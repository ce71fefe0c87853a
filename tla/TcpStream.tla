------------------------------ MODULE TcpStream ------------------------------
(***************************************************************************)
(* The bytes of one connection between a client and a server of            *)
(* boost-support, plain (TcpClient, TcpAcceptor, TcpServer, TcpSocket) or  *)
(* secured (TlsClient, TlsAcceptor, TlsServer, TlsSocket): how messages    *)
(* are written, cut out of the stream again by the reader thread of either *)
(* end's TcpConnection, and handed to its handler.                         *)
(*                                                                         *)
(* A message is a sequence of units.  Its header, eight bytes in the code, *)
(* is two units here: a type and the length of the payload that follows.   *)
(*                                                                         *)
(* The operating system's sockets are external.  A connection is made      *)
(* before the server accepts it.  What is written arrives in pieces: a     *)
(* disconnect loses what has not arrived at the client, which refuses late *)
(* data with a reset, and a close or a reset may lose what is under way to *)
(* the other end, in the middle of a message.  An end that asks for its    *)
(* peer's address afterwards may find none, which terminates the process.  *)
(* A connection that is secured has been accepted by both sides once its   *)
(* handshake has succeeded; asio is supposed to serialise the use two      *)
(* threads make of one TLS stream, which the code does not.                *)
(***************************************************************************)
EXTENDS Naturals, SequencesExt

CONSTANTS
    Secure,      \* a set of BOOLEANs: which kinds of connection to look at
    Lengths,     \* the lengths of the payloads that are sent
    MaxMessages, \* bound on the messages that are sent on a plain connection
    MaxSecured   \* the same on a secured one

ASSUME StreamAssumption ==
    /\ Secure \subseteq BOOLEAN
    /\ Lengths \subseteq Nat
    /\ MaxMessages \in Nat /\ MaxSecured \in Nat

Ends == {"client", "server"}
Peer(e) == IF e = "client" THEN "server" ELSE "client"

VARIABLES
    secure,        \* TLS
    socket,        \* per end, "closed", "open", "connected", "shut" or "reset"
    connect,       \* where the client's ConnectToHost or DisconnectFromHost is
    handler,       \* per end, handler_read_ is set
    wire,          \* per end, the units under way to it
    running,       \* per end, running_
    exit_request,  \* per end, exit_request_
    reader,        \* per end, where the reader thread is
    message,       \* per end, what its Read holds
    closing,       \* per end, how far DeInitialize is
    terminated,    \* std::terminate has been called
    sent,          \* (history) per end, the messages it has written
    taken,         \* (history) per end, the messages its Read has returned
    handed         \* (history) per end, which of them its handler got

threadVars == <<running, exit_request, reader, message>>
historyVars == <<sent, taken, handed>>
vars == <<secure, socket, connect, handler, wire, threadVars, closing, terminated, historyVars>>

kDoipheadrSize == 2

\* An end's k-th message.  Its payload could be taken for a header.
Message(k, length) == <<k, length>> \o [i \in 1 .. length |-> k]
LengthField(units) == units[kDoipheadrSize]

\* The variables have their types; a read for the payload has a whole header.
StreamTypeOK ==
    /\ secure \in BOOLEAN
    /\ socket \in [Ends -> {"closed", "open", "connected", "shut", "reset"}]
    /\ connect \in {"no", "handshake", "kTlsHandshakeFailed", "kConnected", "disconnecting",
                    "close_notify", "kDisconnected"}
    /\ wire \in [Ends -> Seq(Nat)]
    /\ reader \in [Ends -> {"none", "idle", "read", "payload", "store", "ended"}]
    /\ message \in [Ends -> Seq(Nat)]
    /\ \A e \in Ends : reader[e] = "payload" => Len(message[e]) = kDoipheadrSize
    /\ closing \in [Ends -> {"no", "exit", "join", "joined"}]
    /\ handler \in [Ends -> BOOLEAN] /\ running \in [Ends -> BOOLEAN]
    /\ exit_request \in [Ends -> BOOLEAN] /\ terminated \in BOOLEAN
    /\ \A e \in Ends : handed[e] \subseteq 1 .. Len(taken[e])

Init ==
    /\ secure \in Secure
    /\ socket = [e \in Ends |-> "closed"]
    /\ connect = "no"
    /\ handler = [e \in Ends |-> FALSE]
    /\ wire = [e \in Ends |-> <<>>]
    /\ running = [e \in Ends |-> FALSE]
    /\ exit_request = [e \in Ends |-> FALSE]
    /\ reader = [e \in Ends |-> "none"]
    /\ message = [e \in Ends |-> <<>>]
    /\ closing = [e \in Ends |-> "no"]
    /\ terminated = FALSE
    /\ sent = [e \in Ends |-> <<>>]
    /\ taken = [e \in Ends |-> <<>>]
    /\ handed = [e \in Ends |-> {}]

-----------------------------------------------------------------------------
(* Making the connection *)

\* DoipTcpChannel::Start sets the handler before it initializes the client.
ClientInitialize ==
    /\ reader["client"] = "none"
    /\ handler' = [handler EXCEPT !["client"] = TRUE]
    /\ socket' = [socket EXCEPT !["client"] = "open"]
    /\ reader' = [reader EXCEPT !["client"] = "idle"]
    /\ UNCHANGED <<secure, connect, wire, running, exit_request, message, closing,
                   terminated, historyVars>>

\* The server's handler may come at any time after the accept.
SetReadHandler ==
    /\ ~handler["server"]
    /\ socket["server"] = "connected"
    /\ handler' = [handler EXCEPT !["server"] = TRUE]
    /\ UNCHANGED <<secure, socket, connect, wire, threadVars, closing, terminated, historyVars>>

StartClientReading == running' = [running EXCEPT !["client"] = TRUE]

\* The client's ConnectToHost succeeds.
Connected ==
    /\ connect' = "kConnected"
    /\ StartClientReading

\* A plain connection is usable at once; a secured one waits for the handshake.
ConnectToHost ==
    /\ connect = "no"
    /\ socket["client"] = "open"
    /\ closing["client"] = "no"
    /\ socket' = [socket EXCEPT !["client"] = "connected"]
    /\ \/ ~secure /\ Connected
       \/ secure /\ connect' = "handshake" /\ UNCHANGED running
    /\ UNCHANGED <<secure, handler, wire, exit_request, reader, message, closing, terminated,
                   historyVars>>

\* GetTcpServer
AcceptPlain ==
    /\ ~secure
    /\ connect # "no"
    /\ socket["server"] = "closed" /\ closing["server"] = "no"
    /\ socket' = [socket EXCEPT !["server"] = "connected"]
    /\ UNCHANGED <<secure, connect, handler, wire, threadVars, closing, terminated, historyVars>>

\* GetTlsServer and the client's Connect.  The server is returned whether its
\* handshake succeeded or not, and reads and writes on it fail if not; the
\* client's socket stays connected but is not used.
Handshake ==
    /\ connect = "handshake"
    /\ socket' = [socket EXCEPT !["server"] = "connected"]
    /\ \/ Connected
       \/ connect' = "kTlsHandshakeFailed" /\ UNCHANGED running
    /\ UNCHANGED <<secure, handler, wire, exit_request, reader, message, closing, terminated,
                   historyVars>>

\* Mutant of ServerInitialize: the reader is not started.
ServerInitializeIdle ==
    /\ socket["server"] = "connected"
    /\ reader["server"] = "none"
    /\ reader' = [reader EXCEPT !["server"] = "idle"]
    /\ UNCHANGED <<secure, socket, connect, handler, wire, running, exit_request, message,
                   closing, terminated, historyVars>>

\* The server's connection reads at once, with or without a handler.
ServerInitialize ==
    /\ socket["server"] = "connected"
    /\ reader["server"] = "none"
    /\ reader' = [reader EXCEPT !["server"] = "idle"]
    /\ running' = [running EXCEPT !["server"] = TRUE]
    /\ UNCHANGED <<secure, socket, connect, handler, wire, exit_request, message, closing,
                   terminated, historyVars>>

-----------------------------------------------------------------------------
(* Sending and disconnecting *)

Take(e, n) == SubSeq(wire[e], 1, n)
Rest(e, n) == SubSeq(wire[e], n + 1, Len(wire[e]))

\* The client transmits as long as its connection_state_ is kConnected, and not
\* while the same thread disconnects.
CanWrite(e) ==
    /\ socket[e] = "connected"
    /\ IF e = "client" THEN connect = "kConnected" ELSE connect # "kTlsHandshakeFailed"

\* The peer still reads what e writes.
Arrives(e) == closing[Peer(e)] = "no" /\ (e = "server" => connect # "kDisconnected")

\* The client answers late data with a reset, which may overtake its own.
Reset ==
    /\ socket' = [socket EXCEPT !["client"] = "reset"]
    /\ \E n \in 0 .. Len(wire["server"]) : wire' = [wire EXCEPT !["server"] = Take("server", n)]

Transmit(e, length) ==
    LET units == Message(Len(sent[e]) + 1, length) IN
    /\ CanWrite(e)
    /\ closing[e] = "no"
    /\ Len(sent[e]) + Len(sent[Peer(e)]) < IF secure THEN MaxSecured ELSE MaxMessages
    /\ sent' = [sent EXCEPT ![e] = Append(@, units)]
    /\ \/ Arrives(e) /\ wire' = [wire EXCEPT ![Peer(e)] = @ \o units] /\ UNCHANGED socket
       \/ ~Arrives(e) /\ socket[Peer(e)] = "shut" /\ Reset
       \/ ~Arrives(e) /\ socket[Peer(e)] # "shut" /\ UNCHANGED <<wire, socket>>
    /\ UNCHANGED <<secure, connect, handler, threadVars, closing, terminated, taken, handed>>

\* Reading is stopped first.
DisconnectFromHost ==
    /\ connect = "kConnected"
    /\ closing["client"] = "no"
    /\ running' = [running EXCEPT !["client"] = FALSE]
    /\ connect' = "disconnecting"
    /\ UNCHANGED <<secure, socket, handler, wire, exit_request, reader, message, closing,
                   terminated, historyVars>>

\* TcpSocket::Disconnect shuts down both directions: what has arrived, maybe a
\* message in part, can still be read, and what comes later is refused.
TcpDisconnect ==
    /\ connect = "disconnecting" /\ ~secure
    /\ connect' = "kDisconnected"
    /\ \/ socket["client"] = "closed" /\ UNCHANGED <<socket, wire>>
       \/ /\ socket["client"] = "connected"
          /\ socket' = [socket EXCEPT !["client"] = "shut"]
          /\ UNCHANGED wire
       \/ /\ socket["client"] = "connected"
          /\ socket' = [socket EXCEPT !["client"] = "reset"]
          /\ \E n \in 0 .. Len(wire["client"]), k \in 0 .. Len(wire["server"]) :
                /\ n < Len(wire["client"])
                /\ wire' = [wire EXCEPT !["client"] = Take("client", n),
                                        !["server"] = Take("server", k)]
    /\ UNCHANGED <<secure, handler, threadVars, closing, terminated, historyVars>>

\* TlsSocket::Disconnect tells the server that nothing more will come ...
TlsDisconnect ==
    /\ connect = "disconnecting" /\ secure
    /\ connect' = "close_notify"
    /\ UNCHANGED <<secure, socket, handler, wire, threadVars, closing, terminated, historyVars>>

\* ... and waits for the end of the server's data, which comes when an end closes,
\* or fails when it finds data instead.
TlsDisconnected ==
    /\ connect = "close_notify"
    /\ (\E e \in Ends : closing[e] # "no") \/ wire["client"] # <<>>
    /\ connect' = "kDisconnected"
    /\ \E n \in 0 .. Len(wire["client"]) : wire' = [wire EXCEPT !["client"] = Take("client", n)]
    /\ UNCHANGED <<secure, socket, handler, threadVars, closing, terminated, historyVars>>

SocketDisconnect == TcpDisconnect \/ TlsDisconnect \/ TlsDisconnected

-----------------------------------------------------------------------------
(* The reader thread of an end *)

Goto(e, location) == reader' = [reader EXCEPT ![e] = location]

ReaderWakes(e) ==
    /\ reader[e] = "idle"
    /\ \/ exit_request[e] /\ Goto(e, "ended")
       \/ ~exit_request[e] /\ running[e] /\ Goto(e, "read")
    /\ UNCHANGED <<secure, socket, connect, handler, wire, running, exit_request, message,
                   closing, terminated, historyVars>>

\* No more than what is under way will come.
AtEnd(e) ==
    \/ socket[e] # "connected"
    \/ closing[Peer(e)] # "no"
    \/ connect \in {"kDisconnected", "kTlsHandshakeFailed"}
    \/ connect = "close_notify" /\ e = "server"

AtMost(m, n) == IF m < n THEN m ELSE n

\* Mutant of ReadHeader: takes what a single read returns for a header.
ReadSomeHeader(e) ==
    /\ reader[e] = "read"
    /\ socket[e] # "closed"
    /\ \E n \in 1 .. AtMost(kDoipheadrSize, Len(wire[e])) :
          /\ message' = [message EXCEPT ![e] = Take(e, n)]
          /\ wire' = [wire EXCEPT ![e] = Rest(e, n)]
    /\ Goto(e, "payload")
    /\ UNCHANGED <<secure, socket, connect, handler, running, exit_request, closing, terminated,
                   historyVars>>

\* A header; a message without payload counts as a failure.
ReadHeader(e) ==
    /\ reader[e] = "read"
    /\ socket[e] # "closed"
    /\ Len(wire[e]) >= kDoipheadrSize
    /\ message' = [message EXCEPT ![e] = Take(e, kDoipheadrSize)]
    /\ wire' = [wire EXCEPT ![e] = Rest(e, kDoipheadrSize)]
    /\ Goto(e, IF LengthField(Take(e, kDoipheadrSize)) = 0 THEN "store" ELSE "payload")
    /\ UNCHANGED <<secure, socket, connect, handler, running, exit_request, closing, terminated,
                   historyVars>>

ReadFails(e) ==
    /\ reader[e] = "read"
    /\ socket[e] = "closed" \/ (Len(wire[e]) < kDoipheadrSize /\ AtEnd(e))
    /\ Goto(e, "store")
    /\ message' = [message EXCEPT ![e] = <<>>]
    /\ UNCHANGED <<secure, socket, connect, handler, wire, running, exit_request, closing,
                   terminated, historyVars>>

\* What Read makes of a header and the payload that is there: TlsSocket sets
\* the number of bytes to read to zero before it reads them.
BytesToRead(e) == IF secure THEN 0 ELSE LengthField(message[e])

Handed(e) ==
    [handed EXCEPT ![e] = IF handler[e] THEN @ \cup {Len(taken[e]) + 1} ELSE @]

\* Mutant of ReadPayload: what follows the header is left to the next read.
ReadPayloadLater(e) ==
    /\ reader[e] = "payload"
    /\ taken' = [taken EXCEPT ![e] = Append(@, message[e])]
    /\ handed' = Handed(e)
    /\ Goto(e, "store")
    /\ UNCHANGED <<secure, socket, connect, handler, wire, running, exit_request, message,
                   closing, terminated, sent>>

\* The error of this read is not looked at: what does not come any more is zero.
\* A plain socket that was closed meanwhile has no address of its peer.  The
\* message goes to the handler, if there is one.
ReadPayload(e) ==
    LET n == BytesToRead(e)
        m == AtMost(n, Len(wire[e]))
        units == message[e] \o Take(e, m) \o [i \in 1 .. n - m |-> 0]
    IN
    /\ reader[e] = "payload"
    /\ m = n \/ AtEnd(e)
    /\ secure \/ socket[e] # "closed"
    /\ message' = [message EXCEPT ![e] = units]
    /\ taken' = [taken EXCEPT ![e] = Append(@, units)]
    /\ handed' = Handed(e)
    /\ wire' = [wire EXCEPT ![e] = Rest(e, m)]
    /\ Goto(e, "store")
    /\ UNCHANGED <<secure, socket, connect, handler, running, exit_request, closing, terminated,
                   sent>>

\* The peer's address is asked for by Read and by the log line of Transmit.
NoRemoteEndpoint(e) ==
    socket[e] = "closed" \/ closing[Peer(e)] # "no" \/ socket["client"] = "reset"

Terminate ==
    /\ terminated' = TRUE
    /\ UNCHANGED <<secure, socket, connect, handler, wire, threadVars, closing, historyVars>>

ReadThrows(e) ==
    /\ reader[e] = "payload"
    /\ NoRemoteEndpoint(e)
    /\ Terminate

TransmitThrows(e) ==
    /\ CanWrite(e)
    /\ closing[e] = "no"
    /\ NoRemoteEndpoint(e) \/ socket["client"] = "shut"
    /\ Terminate

\* running_ = ReadMessage()
StoreRunning(e) ==
    /\ reader[e] = "store"
    /\ running' = [running EXCEPT ![e] = Len(message[e]) > 0 /\ LengthField(message[e]) # 0]
    /\ message' = [message EXCEPT ![e] = <<>>]
    /\ Goto(e, "idle")
    /\ UNCHANGED <<secure, socket, connect, handler, wire, exit_request, closing, terminated,
                   historyVars>>

ReaderStep(e) ==
    \/ ReaderWakes(e) \/ ReadHeader(e) \/ ReadFails(e) \/ ReadPayload(e) \/ ReadThrows(e)
    \/ StoreRunning(e)

-----------------------------------------------------------------------------
(* DeInitialize of an end *)

\* Close: what is under way to the peer may be lost.
CloseSocket(e) ==
    /\ closing[e] = "no"
    /\ reader[e] # "none"
    /\ e = "client" => connect # "handshake"
    /\ socket[e] \in {"connected", "shut", "reset"}
    /\ socket' = [socket EXCEPT ![e] = "closed"]
    /\ closing' = [closing EXCEPT ![e] = "exit"]
    /\ \E n \in 0 .. Len(wire[Peer(e)]) :
          wire' = [wire EXCEPT ![Peer(e)] = Take(Peer(e), n), ![e] = <<>>]
    /\ UNCHANGED <<secure, connect, handler, threadVars, terminated, historyVars>>

\* shutdown throws in Close: the socket has no connection (any more).
CloseTerminates(e) ==
    /\ closing[e] = "no"
    /\ reader[e] # "none"
    /\ socket[e] = "open" \/ NoRemoteEndpoint(e)
    /\ Terminate

\* Mutant of RequestExit: the reader is only told to pause.
PauseReader(e) ==
    /\ closing[e] = "exit"
    /\ running' = [running EXCEPT ![e] = FALSE]
    /\ closing' = [closing EXCEPT ![e] = "join"]
    /\ UNCHANGED <<secure, socket, connect, handler, wire, exit_request, reader, message,
                   terminated, historyVars>>

RequestExit(e) ==
    /\ closing[e] = "exit"
    /\ exit_request' = [exit_request EXCEPT ![e] = TRUE]
    /\ running' = [running EXCEPT ![e] = FALSE]
    /\ closing' = [closing EXCEPT ![e] = "join"]
    /\ UNCHANGED <<secure, socket, connect, handler, wire, reader, message, terminated,
                   historyVars>>

JoinThread(e) ==
    /\ closing[e] = "join"
    /\ reader[e] = "ended"
    /\ closing' = [closing EXCEPT ![e] = "joined"]
    /\ UNCHANGED <<secure, socket, connect, handler, wire, threadVars, terminated, historyVars>>

-----------------------------------------------------------------------------

Next ==
    /\ ~terminated
    /\ \/ ClientInitialize \/ ConnectToHost \/ AcceptPlain \/ Handshake \/ ServerInitialize
       \/ SetReadHandler \/ DisconnectFromHost \/ SocketDisconnect
       \/ \E e \in Ends :
             \/ ReaderStep(e) \/ TransmitThrows(e)
             \/ CloseSocket(e) \/ CloseTerminates(e) \/ RequestExit(e) \/ JoinThread(e)
             \/ \E length \in Lengths : Transmit(e, length)

\* Reader threads run, and a disconnect or a DeInitialize that has begun goes on.
\* Whether an end sends, disconnects or closes is up to its user.
Spec ==
    /\ Init /\ [][Next]_vars
    /\ WF_vars(~terminated /\ SocketDisconnect)
    /\ \A e \in Ends :
          /\ WF_vars(~terminated /\ ReaderStep(e))
          /\ WF_vars(~terminated /\ (RequestExit(e) \/ JoinThread(e)))

-----------------------------------------------------------------------------
(* Properties *)

\* A message that was read as far as it came.
CutShort(units, original) ==
    /\ Len(units) = Len(original)
    /\ \E n \in kDoipheadrSize .. Len(units) :
          \A i \in 1 .. Len(units) : units[i] = IF i <= n THEN original[i] ELSE 0

\* Plain connections: TcpSocket::Read returns the messages the other end has
\* sent, in their order and none in part.  Only the last one may have zeros for its
\* tail, and only if an end has closed or the client's disconnect has cut off what
\* was still to come: the error of the second read is ignored.
ReadAsSent ==
    ~secure =>
        \A e \in Ends : \A i \in 1 .. Len(taken[e]) :
            /\ i <= Len(sent[Peer(e)])
            /\ \/ taken[e][i] = sent[Peer(e)][i]
               \/ /\ i = Len(taken[e])
                  /\ socket["client"] = "reset" \/ \E j \in Ends : closing[j] # "no"
                  /\ CutShort(taken[e][i], sent[Peer(e)][i])

\* Plain connections: as long as both ends stay connected, every message reaches the
\* handler that was set before it was read, unless one without payload has made
\* that end's reader stop.
SentIsHanded ==
    \A e \in Ends : \A i \in 1 .. MaxMessages :
        /\ ~secure /\ reader[e] # "none" /\ handler[e]
        /\ Len(taken[e]) < i /\ i <= Len(sent[Peer(e)])
        ~> \/ i \in handed[e]
           \/ terminated
           \/ connect = "kDisconnected" \/ \E j \in Ends : closing[j] # "no"
           \/ \E j \in 1 .. Len(sent[Peer(e)]) : j <= i /\ LengthField(sent[Peer(e)][j]) = 0

\* DeInitialize of either end ends, whatever its reader is doing: the close
\* ends a read that waits, and the reader cannot overwrite the exit request.
CloseEnds ==
    \A e \in Ends : (closing[e] # "no") ~> (closing[e] = "joined" \/ terminated)
=============================================================================
