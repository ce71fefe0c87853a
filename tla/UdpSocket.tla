------------------------------ MODULE UdpSocket ------------------------------
(***************************************************************************)
(* The two UDP clients of a discovery channel: UdpClient, UdpConnection    *)
(* and UdpSocket (boost-support client/udp, connection/udp, socket/udp),   *)
(* below the SocketHandler of doip-client.                                 *)
(*                                                                         *)
(* All receives of a socket share rx_buffer_ and remote_endpoint_.  Asio   *)
(* is external: a receive that finds no other one waiting is tried by the  *)
(* calling thread, otherwise it waits; when data arrives the executing     *)
(* thread performs every waiting receive it has data for and only then     *)
(* runs their handlers, one after the other.  Read copies the buffer       *)
(* without a lock, so a receive performed by the API thread meanwhile      *)
(* leaves any mixture of the two datagrams in the copy.  A receive can end *)
(* with an error, which is logged and starts no further one.               *)
(***************************************************************************)
EXTENDS Naturals, Sequences, DoipMessage

CONSTANTS Peers,    \* the addresses datagrams come from
          Self,     \* the socket's own address
          Corrupt   \* the sender of a mixture of two datagrams

Sockets == {"broadcast", "unicast"}

VARIABLES
    opened,     \* per socket: "closed", "unbound", "bound", or "implicit" if it was
                \* bound by sending only
    arrived,    \* per socket, the datagrams the operating system holds
    receives,   \* per socket, the receives that wait for a datagram
    completed,  \* per socket, the bytes_received of the handlers to be run
    rx_buffer,  \* per socket, rx_buffer_ together with remote_endpoint_
    io,         \* per socket, where its executing thread is
    message,    \* per socket, the message that thread holds
    overwritten, \* per socket (history): a receive has overwritten a datagram
                \* that no handler had copied
    failures    \* per socket (history): how many receives ended with an error

udpVars == <<opened, arrived, receives, completed, rx_buffer, io, message, overwritten,
             failures>>

kMaxUdpResSize == 40

\* What vehicles send: announcements, 33 bytes long after the header, and
\* short messages of types the client does not know (a generic header nack).
\* An announcement answers a request, or none.
Datagram == [from : Peers \cup {Self, Corrupt}, type : {"announcement", "nack"},
             answers : Nat]

Bytes(datagram) == IF datagram.type = "announcement" THEN kMaxUdpResSize ELSE 9

NoDatagram == [from |-> Self, type |-> "nack", answers |-> 0]
Mixture == [from |-> Corrupt, type |-> "announcement", answers |-> 0]
NoMessage == [data |-> NoDatagram, size |-> 0]

UdpTypeOK ==
    /\ opened \in [Sockets -> {"closed", "unbound", "bound", "implicit"}]
    /\ arrived \in [Sockets -> Seq(Datagram)]
    /\ receives \in [Sockets -> Nat]
    /\ completed \in [Sockets -> Seq(0 .. kMaxUdpResSize)]
    /\ rx_buffer \in [Sockets -> Datagram]
    /\ io \in [Sockets -> {"run", "copy", "rearm", "up", "handle"}]
    /\ message \in [Sockets -> [data : Datagram, size : 0 .. kMaxUdpResSize]]
    /\ overwritten \in [Sockets -> BOOLEAN]
    /\ failures \in [Sockets -> Nat]

UdpInit ==
    /\ opened = [s \in Sockets |-> "closed"]
    /\ arrived = [s \in Sockets |-> <<>>]
    /\ receives = [s \in Sockets |-> 0]
    /\ completed = [s \in Sockets |-> <<>>]
    /\ rx_buffer = [s \in Sockets |-> NoDatagram]
    /\ io = [s \in Sockets |-> "run"]
    /\ message = [s \in Sockets |-> NoMessage]
    /\ overwritten = [s \in Sockets |-> FALSE]
    /\ failures = [s \in Sockets |-> 0]

\* n waiting receives are performed at once.
Perform(s, n) ==
    /\ arrived' = [arrived EXCEPT ![s] = SubSeq(@, n + 1, Len(@))]
    /\ completed' = [completed EXCEPT ![s] = @ \o [i \in 1 .. n |-> Bytes(arrived[s][i])]]
    /\ rx_buffer' = [rx_buffer EXCEPT ![s] = arrived[s][n]]
    /\ overwritten' = [overwritten EXCEPT ![s] =
                          @ \/ n > 1 \/ completed[s] # <<>> \/ io[s] = "copy"]

StartReceivingMessage(s) ==
    IF receives[s] = 0 /\ arrived[s] # <<>>
    THEN Perform(s, 1) /\ UNCHANGED receives
    ELSE /\ receives' = [receives EXCEPT ![s] = @ + 1]
         /\ UNCHANGED <<arrived, completed, rx_buffer, overwritten>>

-----------------------------------------------------------------------------
(* The thread that starts the channel; nobody looks at the result. *)

OpenOk(s) ==
    /\ opened[s] = "closed"
    /\ opened' = [opened EXCEPT ![s] = "bound"]
    /\ StartReceivingMessage(s)
    /\ UNCHANGED <<io, message, failures>>

\* open() fails, or bind() does and leaves the socket open.
OpenFailed(s) ==
    /\ opened[s] = "closed"
    /\ \E o \in {"closed", "unbound"} : opened' = [opened EXCEPT ![s] = o]
    /\ UNCHANGED <<arrived, receives, completed, rx_buffer, io, message, overwritten, failures>>

-----------------------------------------------------------------------------
(* The API thread *)

\* send_to, which binds the socket if it is not; the receive that follows is a
\* step of its own.
TransmitSent(s) ==
    /\ opened[s] # "closed"
    /\ opened' = [opened EXCEPT ![s] = IF @ = "bound" THEN "bound" ELSE "implicit"]
    /\ UNCHANGED <<arrived, receives, completed, rx_buffer, io, message, overwritten, failures>>

TransmitReceive(s) ==
    /\ StartReceivingMessage(s)
    /\ UNCHANGED <<opened, io, message, failures>>

\* A closed socket, or the network refuses.
TransmitRefused(s) == UNCHANGED udpVars

-----------------------------------------------------------------------------
(* The executing thread of a socket *)

Reactor(s) ==
    /\ io[s] = "run"
    /\ LET n == IF receives[s] < Len(arrived[s]) THEN receives[s] ELSE Len(arrived[s])
       IN /\ n > 0
          /\ Perform(s, n)
          /\ receives' = [receives EXCEPT ![s] = @ - n]
    /\ UNCHANGED <<opened, io, message, failures>>

\* What is left in the buffer when no handler is due is never read.
Unread(s) == IF completed[s] = <<>> THEN NoDatagram ELSE rx_buffer[s]

\* Mutant of FromSelf: the sender is not looked at.
FromNobody(s) == FALSE

FromSelf(s) == rx_buffer[s].from = Self

\* Read: a datagram from the own address is ignored; any other is copied, which
\* a receive of the API thread may disturb.
ReadBegin(s) ==
    /\ io[s] = "run"
    /\ completed[s] # <<>>
    /\ completed' = [completed EXCEPT ![s] = Tail(@)]
    /\ message' = [message EXCEPT ![s] =
                      IF FromSelf(s) THEN NoMessage
                      ELSE [data |-> rx_buffer[s], size |-> Head(completed[s])]]
    /\ io' = [io EXCEPT ![s] = IF FromSelf(s) THEN "rearm" ELSE "copy"]
    /\ UNCHANGED <<opened, arrived, receives, rx_buffer, overwritten, failures>>

ReadCopied(s) ==
    /\ io[s] = "copy"
    /\ \E d \in {message[s].data, rx_buffer[s]} \cup
                (IF rx_buffer[s] = message[s].data THEN {} ELSE {Mixture}) :
          message' = [message EXCEPT ![s].data = d]
    /\ rx_buffer' = [rx_buffer EXCEPT ![s] = Unread(s)]
    /\ io' = [io EXCEPT ![s] = "rearm"]
    /\ UNCHANGED <<opened, arrived, receives, completed, overwritten, failures>>

\* Mutant of ReadEnd: an ignored datagram starts no further receive.
ReadEndEarly(s) ==
    /\ io[s] = "rearm"
    /\ IF message[s] = NoMessage
       THEN UNCHANGED <<arrived, receives, completed, rx_buffer, overwritten>>
       ELSE StartReceivingMessage(s)
    /\ io' = [io EXCEPT ![s] = IF message[s] = NoMessage THEN "run" ELSE "up"]
    /\ UNCHANGED <<opened, message, failures>>

\* The next receive is started before the message goes up.
ReadEnd(s) ==
    /\ io[s] = "rearm"
    /\ StartReceivingMessage(s)
    /\ io' = [io EXCEPT ![s] = IF message[s] = NoMessage THEN "run" ELSE "up"]
    /\ UNCHANGED <<opened, message, failures>>

-----------------------------------------------------------------------------
(* The network (external) *)

Arrives(s, datagram) ==
    /\ opened[s] \in {"bound", "implicit"}
    /\ arrived' = [arrived EXCEPT ![s] = Append(@, datagram)]
    /\ UNCHANGED <<opened, receives, completed, rx_buffer, io, message, overwritten, failures>>

\* A receive ends with an error of the network, or because a datagram is larger
\* than the buffer, which the datagram fills and is lost.  Its handler only logs.
ReceiveFails(s) ==
    /\ receives[s] > 0
    /\ receives' = [receives EXCEPT ![s] = @ - 1]
    /\ failures' = [failures EXCEPT ![s] = @ + 1]
    /\ \/ UNCHANGED <<arrived, rx_buffer, overwritten>>
       \/ /\ arrived[s] # <<>>
          /\ arrived' = [arrived EXCEPT ![s] = Tail(@)]
          /\ IF completed[s] # <<>> \/ io[s] = "copy"
             THEN /\ rx_buffer' = [rx_buffer EXCEPT ![s] = Head(arrived[s])]
                  /\ overwritten' = [overwritten EXCEPT ![s] = TRUE]
             ELSE UNCHANGED <<rx_buffer, overwritten>>
    /\ UNCHANGED <<opened, completed, io, message>>
=============================================================================
