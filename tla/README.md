# A TLA+ development of diag-client-lib

diag-client-lib is a diagnostic client: an application asks for a conversation,
connects it to a diagnostic server over DoIP (TCP), sends UDS requests and gets
UDS responses, and can search for vehicles over UDP. This directory models the
concurrent core of it, checks it with TLC and proves its safety with TLAPS.

## The system

Paths are relative to `src/diag-client-lib/`.

| Part | Where | State it keeps | Operations |
|---|---|---|---|
| Conversation (`DmConversation`) | `appl/src/diag-client/dcm/conversation/dm_conversation.cpp` | conversation state, P2 timer, receive buffer | Startup, Shutdown, ConnectToDiagServer, DisconnectFromDiagServer, SendDiagnosticRequest; IndicateMessage, HandleMessage (callbacks) |
| TCP channel (`DoipTcpChannel`, its handler) | `lib/doip-client/channel/tcp_channel/doip_tcp_channel*.cpp` | none of its own | Start, Stop, ConnectToHost, DisconnectFromHost, Transmit, message dispatch |
| Routing activation handler | `.../doip_routing_activation_handler.cpp` | activation state, timer | request, response, Stop, Reset |
| Diagnostic message handler | `.../doip_diagnostic_message_handler.cpp` | message state, timer | request, acknowledgement, response, Stop, Reset |
| TCP client (`TcpClient`, `TcpConnection`, `TcpSocket`) | `lib/boost-support/src/boost-support/{client,connection,socket}/tcp` | connection state, `running_`, `exit_request_`, socket, reader thread | Initialize, DeInitialize, connect, disconnect, transmit, read |
| `SyncTimer`, `StateContext` | `lib/utility-support/utility` | `start_running_`; the active state | WaitForTimeout, CancelWait; TransitionTo, GetActiveState |
| DoIP message decoding | `lib/doip-client/common/doip_message.cpp`, header checks in `doip_tcp_channel_handler.cpp` and `doip_udp_channel_handler.cpp` | none | decode, check |
| Vehicle discovery (`VdConversation`, the UDP channel and its two handlers) | `vd_conversation.cpp`, `lib/doip-client/channel/udp_channel` | collection of answers, handler state, timer | SendVehicleIdentificationRequest; IndicateMessage, HandleMessage (callbacks) |
| UDP client (`UdpClient`, `UdpConnection`, `UdpSocket`) | `boost-support/{client,connection,socket}/udp` | socket, receive buffer, remote endpoint | Open, Transmit, Close, asynchronous receive |
| `IoContext` | `boost-support/socket/io_context.cpp` | executing thread, `running_`, `exit_request_` | Initialize, DeInitialize, destruction |
| Client, conversation manager | `diagnostic_client.cpp`, `dcm_client.cpp`, `conversation_manager.cpp`, `diagnostic_manager.cpp` | conversation map, `DcmClientMain` thread, `exit_requested_` | Initialize, GetDiagnosticClientConversation, DeInitialize, destruction |
| `Result` | `lib/platform-core/core/include/result.h` | a value or an error | construction, move, emplacement; AndThen, MapError, CheckError, OrElse, Resolve |
| TLS client, servers (`TlsClient`, `TcpAcceptor`, `TcpServer`, `TlsAcceptor`, `TlsServer`) | `boost-support/{client,socket}/tls`, `boost-support/server` | connection state, server's reader thread | connect with handshake, accept, transmit, read, close |

**Who runs where.** The application's *API thread* runs every call; a call blocks
in a `SyncTimer` until an answer arrives or time is up. One *reader thread* per
TCP connection reads frames and calls upwards: connection, channel, handler,
conversation. It changes the same state contexts the API thread changes, and
cancels the API thread's timer. `Shutdown` may come from a third thread: it
closes the socket, joins the reader, then stops the handlers. Initialize starts
*DcmClientMain*, which opens the two UDP sockets of the discovery, waits for the
exit request of DeInitialize and then shuts everything down. Each UDP client has
an *io thread* that performs its receives and calls upwards to the collection the
API thread is waiting to report.

**What is hard.** Each access to a state context or a timer locks, but a check
and the transition after it are two accesses. The request is on the wire before
the handler is ready for its acknowledgement. Frames carry no request number,
so a late answer can meet the next request. Every wait races its timeout. The
responses are written to a buffer shared by two threads and by the caller.
`running_` is stored by the reader without a lock. The discovery's collection is
filled under a mutex and copied and cleared without it; all receives of a UDP
socket share one buffer, and every request starts one more. An io context is
stopped and destroyed while its thread looks at the same flags. A receive that
ends with an error is not started again, and a disconnect may fall between the two
reads of a message. The hazards are listed at
their lines in `PROJECT.json`.

**What makes the parts correct.** The timer: no lost and no invented wake-up. The
message handler: one request never uses up two acknowledgements or yields two
responses; it always returns. The conversation: a call ends, its error says
whether the request was sent, a response is complete and belongs to a request
that was sent. The connection: no request without activation by the server; a
successful connect stays good; shutdown ends. The discovery: an answer that came
in time is reported, by the call it belongs to; reception goes on; the call
returns. The client's life: DeInitialize ends and leaves no thread with work,
whenever it comes. The byte stream: what one end sends the other end's handler
gets, whole and in order. The result type: a value is neither lost nor read after
it was moved, and no failure of a chain is lost.

## Modules

| Module | Models |
|---|---|
| `SyncTimer` | `sync_timer.h` at the grain of its mutex and condition variable |
| `AtomicTimer` | what `SyncTimer` promises: start, cancel and end of a wait are single steps |
| `DiagnosticMessageHandler` | the diagnostic message handler, with an arbitrary network and upper layer |
| `DmConversation` | requests and indications of the conversation; its environment are parameters of its actions |
| `DiagnosticExchange` | both together, the byte stream and a diagnostic server |
| `DiagnosticService` | what `SendDiagnosticRequest` promises its caller |
| `RoutingActivationHandler` | the routing activation handler |
| `TcpConnection` | TcpClient, TcpConnection (client side) and TcpSocket, with the reader thread |
| `DoipTcpChannel` | both together under connect, disconnect, request and shutdown, and a server |
| `DoipMessage` | decoding and header check of a received message, as operators |
| `UdpSocket` | the two UDP clients of a discovery channel and their asynchronous receives |
| `VehicleDiscovery` | the search for vehicles on top of `UdpSocket`, with vehicles and a network |
| `IoContext` | the thread of each UDP client's io context: start, stop, destruction |
| `DcmLifecycle` | a DiagClient from Initialize to destruction, with `IoContext` and the conversations' connections |
| `TcpStream` | the bytes between a client and a server of boost-support, plain or secured, with both readers |
| `Result` | `core_type::Result`: a few objects with a value that can only be moved, a few without, and any sequence of calls on them |
| `DiagnosticMessageHandlerProofs`, `DiagnosticExchangeProofs`, `DoipTcpChannelProofs`, `VehicleDiscoveryProofs`, `DcmLifecycleProofs`, `TcpStreamProofs`, `ResultProofs`, `SyncTimerProofs` | theorems about the module of that name |

`DoipTcpChannel` and `UdpSocket` use `DoipMessage`; `VehicleDiscovery` extends
`UdpSocket`; `DcmLifecycle` extends `IoContext`. A connection is looked at three
times, each time for another question: frame by frame under the channel
(`TcpConnection`), byte by byte between two ends (`TcpStream`), and as a reader
that runs or not (`DcmLifecycle`).

**Correspondence.** A variable is a member of the class named in its comment, or
the place (`call`, `rx`, `conv`, `ind`, `reader`, ...) where a thread is inside a
function; a place is named after what the thread does next. One action is one
access to a state context, a timer, an atomic or the socket, together with the
thread-local work around it. The enumeration values keep their names.
`PROJECT.json` maps every action to its lines.

What the abstraction relies on:

- `StateContext` is one variable. Its accesses lock and the `Start` and `Stop` of
  all its states are empty. `kSendDiagnosticReqFailed` and
  `kDiagnosticFinalResRecvd` are never entered and left out.
- The protocol modules use `AtomicTimer`'s grain: start sets `start_running`,
  cancel clears it, a wait ends by expiry at any time or by cancellation if
  `start_running` is clear. `SyncTimerProofs` proves that `SyncTimer` implements it.
  `IsTimerActive` followed by `CancelWait` is one step: cancelling an inactive
  timer changes nothing.
- Two reads of the conversation state in one turn of the loop (`while` and
  `switch`), and the two in the cancellation callback, are one read. Only the
  API thread enters `kIdle`, and the other values lead to the same turns one
  iteration later.
- A payload is the number of the request it answers; the buffer after `resize`
  and before the copy is `Unfilled`. In `DiagnosticExchange` frames have passed
  the header check; in `DoipTcpChannel` and `VehicleDiscovery` they go through it.
- Locals that are out of scope have a fixed value.
- External: the server, the peer, the clock and the operating system's socket.
  The server acknowledges in order and answers after the acknowledgement, late
  or never; in `DoipTcpChannel` it may also close, in the middle of a frame too,
  send an alive check, or speak another version of the protocol throughout, and
  then refuse with a one-byte nack, which the decoding aborts on. An operating system call that throws inside a
  `noexcept` function is the variable `terminated`: nothing happens after it.
- `Reset` of the message handler runs on the API thread between calls (from a
  disconnect); `Stop` runs on any thread once the reader is joined.
- In `DoipTcpChannel` no call begins once `Shutdown` has ("no further processing
  of any function will be allowed after this call"), but one may be in progress.
- `VehicleDiscovery`: asio is external and modelled from its use. A receive that
  finds no other one waiting is tried by the thread that starts it; the io thread
  performs all waiting receives it has data for and then runs their handlers one
  after the other. A waiting receive may also end with an error, of which asio
  performs at most `MaxFailures`: its handler logs and starts no further one. A
  socket that was opened and could not be bound is bound by its first send
  (`implicit`). A copy of the buffer that races with a receive of the API
  thread may be either datagram or a mixture. A request is its mode and the
  length of its value; a vehicle is its address, and two vehicles share one.
  Vehicles send announcements of 33 bytes, and nacks.
- `IoContext`: a receive is waiting (`work`) or its handler is due (`due`); what
  the handler does is `VehicleDiscovery`'s. Every read of an atomic is a step.
- `DcmLifecycle`: the application calls in the documented order, one `Initialize`
  and one `Startup` per conversation. Two things it may do nevertheless block it
  for good (place `blocked`): destruction without DeInitialize, and asking again
  for a conversation that is active. A disconnect has no action: it leaves the socket
  as `Close` needs it until the server has ended its side too. A conversation that is shut down while not
  connected terminates the process, as in `DoipTcpChannel`.
- `TcpStream`: a header is two units, a type and a length. The payload repeats
  the message's number, so it can be mistaken for a header. A plain connection
  is usable before it is accepted. What is written arrives in pieces: a write puts
  the message under way, and a close, a disconnect or a reset may keep any number of
  its units from arriving. A disconnect is two steps, first `running_` and then the
  socket. A plain one (`shutdown_both`) ends both directions: what has arrived can
  still be read, what is still to come is refused, and refusing resets the
  connection, which may cost the server what the client had sent before. A secured
  one tells the server that no more will come and waits for the end of the server's
  data. A failed handshake leaves a server whose
  reads and writes fail. Reader and writer are assumed not to disturb each other
  inside one TLS stream.
- `Result`: an object holds a value, an error or nothing. A value that was moved out
  leaves a null pointer behind, and the caller does not read an object he has moved
  from, as nowhere in the library. A function given to a chain succeeds or fails as
  it likes, except to `AndThen` of a result without a value (`VoidOutcomes`): there
  the library passes functions that do not fail, and `Result.cfg` does the same.

## Runs

| Run | What it checks | Bounds | States |
|---|---|---|---|
| `handler` | `TypeOK`, `AtMostOneResponsePerRequest`, `IdleUntilRequested`, `RequestReturns` | 3 requests | 6,259 |
| `exchange` | `ExchangeTypeOK`, `ResponseIntact`, `CorrelatedUnlessAckTimeout`, `ImplementsService`, `ReturnsOrSpins` | 3 requests, 1 pending response each | 712,003 |
| `sync_timer` | `TimerInv`, `ImplementsAtomicTimer`, `WaitEnds` | 2 cancelling threads, 2 cancellations each | 757 |
| `channel` | `ChannelTypeOK`, `ActivatedMeansAccepted`, `SuccessLasts`, `ShutdownLeavesNothing`, `ChannelCallReturns`, `ShutdownEnds` | 3 calls, a server of either version | 637,430 |
| `discovery` | `DiscoveryTypeOK`, `LengthFieldIsTrue`, `ReceivesBalanced`, `IntactUnlessOverwritten`, `ReportBelongsToCall`, `InTimeIsReported`, `AnswerIsTaken`, `DiscoveryReturns`, `EveryDatagramRead` | 3 vehicles (two with one address), 2 requests, 2 datagrams, 1 failing receive | 344,632 |
| `lifecycle` | `LifecycleTypeOK`, `DeInitializeLeavesNothing`, `DeInitializeEnds`, `StoppedContextSleeps`, `DestructionEnds` | 1 conversation, both UDP clients | 96,652 |
| `stream` | `StreamTypeOK`, `ReadAsSent`, `SentIsHanded`, `CloseEnds` | 2 messages on a plain connection, 1 on a secured one, without payload or with one as long as a header | 258,223 |
| `result` | `ValueArrives`, `ErrorsTravel` | 2 objects with and 2 without a value, 3 values, 2 errors | 68,688 |
| `ack_timeout`, `call_returns`, `busy`, `zero_length` | one statement of the documentation or the code each, which the code does not keep | 1 or 2 requests, calls or messages | |

**Why the bounds are enough.** An answer of one request meets the next one with
two requests; a third lets acknowledgements and responses slip against each
other twice. One pending response is a P2* wait, during which another request's
late messages arrive. Three calls are connect, disconnect and connect again, or a
connect that times out, one that succeeds, and a late response to the first; a
connect racing with Shutdown reopens the socket only in the third call. Two
cancelling threads are the reader and the stopping thread, the only two there
are. Two searches put an answer to the first into the second one's window, and
leave three receives waiting at once; two datagrams overwrite each other in the
buffer, arrive at once for two waiting receives, or bring the same address twice.
The preselection lengths are an empty value, an odd and an even EID, a VIN, two
EIDs, and 273, which is a VIN's length in eight bits. One conversation is enough
for the client's life because DcmClientMain shuts conversations down one after the
other. Two messages put one behind the other in the stream in one direction, or
one in each; a single one on a secured connection already has its payload read as
a header. One failing receive can be the last one of its socket, or leave
others. Two objects of either kind are the two ends of a move or of a chained
call; three values outlive one that is overwritten and one that is taken over.
The counters in the models have no other use than these bounds.

**Fairness.** Weak fairness of each thread while it is inside the code: a running
thread is scheduled, a thread waiting for a mutex gets it, and a started timer
expires, as `wait_until` guarantees. Nothing is assumed of the application, the
server, the vehicles or the network. `DcmLifecycle` needs one strong fairness:
DcmClientMain must get an io context's mutex that its thread, having no work while
the socket is not open, takes and releases in a loop. In `SyncTimer` the clock is not fair either, so a
cancelled wait ends by its cancellation alone.

**Deadlock** is checked in `handler`, `exchange` and `sync_timer`. In the others
the system may stop: after its last call and Shutdown, after destruction, after
the last datagram or message of the bound, when no more is done with a result, or
after `std::terminate`. What must
still happen there is said by the liveness properties.

**What some of the properties say.** The type invariants have a clause that ties two
members together: a read for a payload has a whole header (`StreamTypeOK`), the
client does not take itself for connected while its socket is not (`ChannelTypeOK`),
an active conversation has had its reader started (`LifecycleTypeOK`).
`ReceivesBalanced` is exact: one receive per socket that was opened and bound, one
more per request sent on the unicast socket, less those that ended with an error;
so reception stops only when errors have used up every receive. `EveryDatagramRead`
says that until then every datagram is read. `ReadAsSent` allows one message to
be cut, the last one read, and only once an end has closed or a disconnect has
reset the connection: the second read's error is ignored and the bytes that did not
come are zero. It is about plain connections: `TlsSocket::Read` sets the number of
payload bytes to zero before it reads them (`tls_socket.cpp:220`), so that the header
alone is handed up and the payload is taken for the next header, although the comment
at line 227 says "all message received". `CloseEnds` is about both kinds.
`ErrorsTravel` holds for functions that do not fail where a result without a value
is chained, as in the library: `AndThen` of such a result calls the function and
returns itself (`result.h:679`), not "the result of the given function" (line 668).
`Resolve` of such a result asks for the error without looking whether there is one
and terminates the process on a success (`result.h:741`), where it is to do nothing
(line 730); nothing calls it.
`IntactUnlessOverwritten` shows that a report can be wrong in one way only: several
receives share one buffer, and two of them are performed before one is copied. `ReportBelongsToCall` names the two ways an
answer can be reported by a later call: it was on its way into the collection
when its window closed, or its own call could not transmit and left the
collection uncleared. `InTimeIsReported` holds although the collection is copied
and cleared without its mutex: by then the window is closed, and what still comes
in is late. `StoppedContextSleeps` holds although `restart()` may undo `stop()`:
the socket is closed first, so that the context has nothing left to run.
`DestructionEnds` names the one way destruction hangs: the destructor of
`IoContext` notifies without the mutex, between the thread's predicate and its
sleep.

**What the four violations show.**

- `ack_timeout`: the handler writes the request and then changes to
  `kWaitForDiagnosticAck`. An acknowledgement read in between is ignored; one
  read before the timer starts is forgotten. The caller is told, two seconds
  later, that none was received.
- `call_returns`: a pending response between the handler's
  `kWaitForDiagnosticResponse` and the conversation's `kDiagWaitForRes` is
  overwritten; the loop in `SendDiagnosticRequest` has nothing to do in that state
  and spins. `ReturnsOrSpins` shows this is the only way a call does not return.
- `busy`: after a P2 timeout nobody takes the handler out of
  `kWaitForDiagnosticResponse`; later requests are refused as busy.
- `zero_length`: a frame without payload ends the reading of an open connection.

A response refers to the conversation's receive buffer, which the next response
overwrites (`dm_uds_message.h:79`). `ResponseIntact` shows that it is complete
and stays so until the caller's next request.

`CorrelatedUnlessAckTimeout` is the strongest correlation the code has: a response
to an earlier request is returned only after an acknowledgement timeout.

## Proofs

Every invariant the passing runs check, every action property and both
refinements are proved, for every value of the constants. The only assumptions
are those named `ASSUME` in the modules, which TLC evaluates in every run: the
bounds are natural numbers; no canceller is named like a value of the mutex
variable; payload numbers are request numbers; there is at least one vehicle (a
nack has a sender), and neither the client nor a mixture of two datagrams is one;
payload lengths are natural numbers; the objects of the two kinds of result are
different ones, and no value is an error or one of the two marks for no value.
`FailuresTravel` also assumes that the functions given to `AndThen` of a result
without a value do not fail. So the numbers in the table above bound the
runs, not the theorems.

| Module | Theorems | Inductive invariant |
|---|---|---|
| `DiagnosticMessageHandlerProofs` | `HandlerTypeCorrect`, `AtMostOneResponse`, `IdleStays` | `Covered` |
| `DiagnosticExchangeProofs` | `ExchangeTypeCorrect`, `ResponseStaysIntact`, `Correlated`, `RefinesService`, `ExchangeRunsHandler`, `ExchangeRunsConversation` | `ExchangeInv` |
| `DoipTcpChannelProofs` | `ChannelTypeCorrect`, `ActivationIsGranted`, `ActivationLasts`, `ShutdownIsClean` | `ChannelInv` |
| `VehicleDiscoveryProofs` | `DiscoveryTypeCorrect`, `LengthFieldCorrect`, `ReceptionIsBalanced`, `CollectionStaysIntact`, `ReportsBelong`, `NoneInTimeIsLost`, `AnswersAreTaken` | `DiscoveryInv` |
| `DcmLifecycleProofs` | `LifecycleTypeCorrect`, `NothingIsLeft` | `LifecycleInv` |
| `TcpStreamProofs` | `StreamTypeCorrect`, `ReadsAsSent` | `StreamInv` |
| `ResultProofs` | `ValuesArrive`, `FailuresTravel` | `IInv` |
| `SyncTimerProofs` | `TimerInvariant`, `RefinesAtomicTimer` | `TimerInv` |

Each inductive invariant was checked with TLC on the states of its run before it
was proved (`StreamInv` with the offsets computed from the state, where the
module says that some exist; `LifecycleInv` with two conversations). In the
modules that have many variables the types are proved first, in groups, because
the SMT backend does not take Boolean-valued variables together with arithmetic
well; the other parts then have one lemma each.

**Message handler.** The ordering `delivered <= accepted <= acked <= sent` is not
inductive: whether an action may increase a counter depends on the state and on
where the two threads are. `Covered` gives each a credit. A request that is
written and not yet acknowledged, an acknowledgement that is taken and not yet
reported, and an accepted request whose response is not yet delivered each hold
one; a step that increases a counter spends a credit, and a reset drops it.

**Exchange.** `ResponseIntact` and `CorrelatedUnlessAckTimeout` say what a caller
gets when it is back; the invariant says how it got there. `Threads` and `Phases`:
the acknowledgement phase belongs to the API thread, the response phase to the
reader, and the reader hands a response over only while the handler waits for one.
`Ordered` and `Reading`: the server's messages come in the order of the requests,
so what the reader has is newer than what was returned. `Success`: once a response
is reported, the reader is out of the way until the next request.
`Synchronised` and `Undisturbed` carry the correlation: unless an acknowledgement
timed out, the handler turns away from a request only when nothing of it is on
the way any more, because a negative acknowledgement and a final response are the
server's last words about it. From the invariant follow the refinement of
`DiagnosticService`, and that the handler and the conversation inside the
composition run as they do alone, which carries the handler's theorems over.

**Channel.** `Fresh`: a socket is connected once, so a connection starts with
nothing read and nothing activated. `Granted`: whatever says "successful", in the
stream, in the reader's hand or in the handler, was said by the server on this
connection. `Lasting`: the reader took its response while the handler waited, so
it has nothing to change once the handler is activated. `Stopped`: the reader is
joined before the handlers are reset, and the call that was interrupted ends in
`kIdle`.

**Discovery.** `Progress` ties the API thread's place to the handler's state.
`Reported` follows an answer taken in time from the collection to the copy and the
result; it holds without the mutex because the window is closed when the copy
begins. `Belonging` marks what earlier calls left behind. `Intact`: as long as
nothing was overwritten there is at most one completed receive, and the buffer
holds what it brought. `Balanced`: each receive that ends is started again, unless
it ended with an error, which is counted. The
lemma `AcceptedLength` shows the eight-bit length check sound for values of any
length, where the run looks at six.

**Client's life.** DcmClientMain gets past its wait only when the application is in
DeInitialize or later (`Phases`), so conversations are never shut down by two
threads at once (`OneLeaves`); a conversation that is not active has neither reader
nor connection (`Inactive`), and the two contexts are stopped one after the other
(`Contexts`). The theorem is about any set of conversations; the run has one.

**Byte stream.** Nothing in a stream marks where a message begins, so the
invariant says it: there is a map from messages to offsets (`LaidOut`), each
message ends where the next begins, and the current one begins where the reader
is. Reading moves all offsets (`LayoutRead`), finishing a message goes to the next
(`LayoutNext`), writing adds one at the end (`LayoutAdd`), and a close, a disconnect
or a reset cuts the stream off but moves none (`LayoutCut`). A read that finds less than the length in
the header is therefore at a cut, and nothing follows it. The theorem holds
although a payload may look like a header.

**Result.** `ValueArrives` is about the objects that report success; a chain
moves values between objects that do not. `OneOwner` says of every object that it
alone has the value stored in it, that nobody has taken that value over and that it
reports success, so that a move or a chained call makes the next owner and leaves
no second one. `TypedErrorsTravel` holds whatever the functions return, since only
the results without a value lose an error.

**Timer.** `TimerInv` is mutual exclusion (a thread is in its critical section
exactly while it holds the mutex) and that a wait which has ended has a reason.
`RefinesAtomicTimer` maps each step to a step of `AtomicTimer` or to a stutter, for
any set of cancelling threads. This justifies the timer of the protocol modules.

**Only model-checked:** liveness (`RequestReturns`, `ReturnsOrSpins`, `WaitEnds`,
`ChannelCallReturns`, `ShutdownEnds`, `DiscoveryReturns`, `EveryDatagramRead`,
`DeInitializeEnds`, `StoppedContextSleeps`, `DestructionEnds`, `SentIsHanded`,
`CloseEnds`), which needs `ENABLED` and fairness and is out of the prover's reach.
The four violations are counterexamples and need no proof.

## Not modelled, and the plan

Left to prove: safety facts the liveness properties rest on and no run states
yet, such as that a reader which waits for bytes can still be woken by a close.

Not modelled:

- A second `Startup` after `Shutdown`, calls after DeInitialize, DeInitialize
  without Initialize: outside the documented order of calls.
- The contents of UDS payloads, beyond which request a response answers and
  whether it is final.
- The TLS context (`tls_context.cpp`: certificates, versions, cipher suites) and
  what OpenSSL does with a stream that two threads use.
- `socket/tcp/tls_client_.*` and `tls_server_.*`, which only an older test uses, and
  `executor.h`, which nothing uses.
- Of `Result`: `Ok`, `Err` and the conversion to bool, which only look at an object,
  and `ValueOr`, `ErrorOr` and `Resolve` of a result with a value, which do not compile
  when they are used.
- Logging, configuration parsing and the span type, apart from what they
  do to the control: a log line that throws, a configuration that cannot be read,
  an index outside a span.
