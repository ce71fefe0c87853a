------------------------ MODULE VehicleDiscoveryProofs ------------------------
(***************************************************************************)
(* Proofs about the search for vehicles, for any vehicles, any number of   *)
(* requests and of datagrams: its types and all the safety properties.     *)
(*                                                                         *)
(* The argument.  The API thread's place fixes the handler's state and     *)
(* which requests are out (Progress).  An answer that is taken while the   *)
(* handler waits is in the collection, then in the copy, then in the       *)
(* result (Reported); what an earlier call left behind is marked by its    *)
(* window (Belonging).  Every receive that ends is started again, but for  *)
(* an error (ReceivesBalanced, inductive once the types are known).  As    *)
(* long as no receive overwrote a datagram, there is one completed receive *)
(* at most, and the buffer holds what it brought (Intact).                 *)
(***************************************************************************)
EXTENDS VehicleDiscovery, FiniteSetTheorems, SequenceTheorems, TLAPS

-----------------------------------------------------------------------------
(* The inductive invariant *)

\* The API thread's place, the handler's state and the requests that are out.
Progress ==
    /\ Accepting <=> call \in {"send", "receive", "wait"}
    /\ call # "idle" => requests > 0
    /\ call = "send" => requests \notin sent
    /\ call \notin {"idle", "send"} => requests \in sent
    /\ \A n \in sent : n <= requests
    /\ outgoing.length = outgoing.bytes

AddressesOf(entries) == {e.address : e \in entries}

\* Where the addresses taken in time are.
Reported ==
    /\ call \in {"send", "receive", "wait", "timeout", "empty"} =>
          inTime \subseteq AddressesOf(collection)
    /\ call = "copy" => inTime \subseteq AddressesOf(snapshot) /\ snapshot \subseteq collection
    /\ call \in {"clear", "idle"} /\ requests \in sent => inTime \subseteq AddressesOf(result.list)

\* e was let in by an earlier window that was over, or that had no request.
Stray(e) == e.late \/ e.window \notin sent

Belonging ==
    /\ \A e \in collection : Stray(e) \/ (call # "idle" /\ e.window = requests)
    /\ call \in {"clear", "idle", "send"} => \A e \in result.list : Stray(e) \/ e.window = requests

-----------------------------------------------------------------------------

\* Reception as long as the unicast socket's buffer was not overwritten.
Genuine(e) == e.from \in Vehicles /\ e.address = Address(e.from)

Senders == Vehicles \cup {Self}

Known ==
    /\ \A i \in DOMAIN arrived["unicast"] : arrived["unicast"][i].from \in Senders
    /\ rx_buffer["unicast"].from \in Senders

InBuffer ==
    /\ Len(completed["unicast"]) <= 1
    /\ completed["unicast"] # <<>> => completed["unicast"][1] = Bytes(rx_buffer["unicast"])
    /\ io["unicast"] = "copy" =>
          completed["unicast"] = <<>> /\ message["unicast"].data = rx_buffer["unicast"]

InHand ==
    LET m == message["unicast"] IN
    /\ io["unicast"] \in {"copy", "up", "handle"} \/ (io["unicast"] = "rearm" /\ m # NoMessage)
          => m.data.from \in Vehicles /\ m.size = Bytes(m.data)
    /\ io["unicast"] = "handle" => m.data.type = "announcement"

Intact ==
    ~overwritten["unicast"] =>
        /\ InBuffer
        /\ InHand
        /\ \A e \in collection : Genuine(e)
        /\ \A e \in result.list : Genuine(e)

-----------------------------------------------------------------------------

DiscoveryInv ==
    /\ DiscoveryTypeOK
    /\ Progress
    /\ Reported
    /\ Belonging
    /\ Known
    /\ Intact
    /\ ReceivesBalanced

-----------------------------------------------------------------------------
(* The sockets *)

\* What performing n receives does to the socket, and that it leaves the other
\* one alone.
LEMMA Performing ==
  ASSUME UdpTypeOK, NEW s \in Sockets, NEW n \in 1 .. Len(arrived[s]), Perform(s, n)
  PROVE  /\ arrived' \in [Sockets -> Seq(Datagram)]
         /\ completed' \in [Sockets -> Seq(0 .. kMaxUdpResSize)]
         /\ rx_buffer' \in [Sockets -> Datagram]
         /\ overwritten' \in [Sockets -> BOOLEAN]
         /\ Len(completed'[s]) = Len(completed[s]) + n
         /\ rx_buffer'[s] = arrived[s][n]
         /\ \A i \in DOMAIN arrived'[s] :
               \E j \in DOMAIN arrived[s] : arrived'[s][i] = arrived[s][j]
         /\ ~overwritten'[s] =>
               /\ ~overwritten[s] /\ n = 1 /\ completed[s] = <<>> /\ io[s] # "copy"
               /\ completed'[s][1] = Bytes(arrived[s][1])
         /\ \A t \in Sockets \ {s} :
               /\ arrived'[t] = arrived[t] /\ completed'[t] = completed[t]
               /\ rx_buffer'[t] = rx_buffer[t] /\ overwritten'[t] = overwritten[t]
<1> DEFINE sizes == [i \in 1 .. n |-> Bytes(arrived[s][i])]
<1>1. /\ arrived[s] \in Seq(Datagram) /\ completed[s] \in Seq(0 .. kMaxUdpResSize)
      /\ n \in Nat \ {0} /\ n <= Len(arrived[s]) /\ n \in DOMAIN arrived[s]
      /\ Len(arrived[s]) \in Nat
  BY DEF UdpTypeOK
<1>2. sizes \in Seq(0 .. kMaxUdpResSize) /\ Len(sizes) = n /\ sizes[1] = Bytes(arrived[s][1])
  BY <1>1 DEF Bytes, kMaxUdpResSize
<1> HIDE DEF sizes
<1>3. /\ completed[s] \o sizes \in Seq(0 .. kMaxUdpResSize)
      /\ Len(completed[s] \o sizes) = Len(completed[s]) + n
      /\ completed[s] = <<>> => (completed[s] \o sizes)[1] = sizes[1]
  <2>1. /\ completed[s] \o sizes \in Seq(0 .. kMaxUdpResSize)
        /\ Len(completed[s] \o sizes) = Len(completed[s]) + Len(sizes)
    BY <1>1, <1>2, ConcatProperties, ZenonT(60)
  <2>2. <<>> \o sizes = sizes
    BY <1>2, ConcatEmptySeq, Zenon
  <2> QED
    BY <1>2, <2>1, <2>2
<1>4. /\ SubSeq(arrived[s], n + 1, Len(arrived[s])) \in Seq(Datagram)
      /\ \A i \in DOMAIN SubSeq(arrived[s], n + 1, Len(arrived[s])) :
            \E j \in DOMAIN arrived[s] :
               SubSeq(arrived[s], n + 1, Len(arrived[s]))[i] = arrived[s][j]
  BY <1>1
<1>5. arrived[s][n] \in Datagram
  BY <1>1
<1>6. /\ overwritten' \in [Sockets -> BOOLEAN]
      /\ ~overwritten'[s] => ~overwritten[s] /\ n <= 1 /\ completed[s] = <<>> /\ io[s] # "copy"
      /\ \A t \in Sockets \ {s} : overwritten'[t] = overwritten[t]
  <2> DEFINE over == overwritten[s] \/ n > 1 \/ completed[s] # <<>> \/ io[s] = "copy"
  <2>1. over \in BOOLEAN /\ overwritten' = [overwritten EXCEPT ![s] = over]
    BY DEF Perform
  <2>2. ~over => ~overwritten[s] /\ n <= 1 /\ completed[s] = <<>> /\ io[s] # "copy"
    BY <1>1
  <2> HIDE DEF over
  <2> QED
    BY <2>1, <2>2 DEF UdpTypeOK
<1>7. /\ completed' = [completed EXCEPT ![s] = completed[s] \o sizes]
      /\ arrived' = [arrived EXCEPT ![s] = SubSeq(arrived[s], n + 1, Len(arrived[s]))]
      /\ rx_buffer' = [rx_buffer EXCEPT ![s] = arrived[s][n]]
  BY DEF Perform, sizes
<1>8. /\ arrived' \in [Sockets -> Seq(Datagram)]
      /\ completed' \in [Sockets -> Seq(0 .. kMaxUdpResSize)]
      /\ rx_buffer' \in [Sockets -> Datagram]
      /\ completed'[s] = completed[s] \o sizes
      /\ arrived'[s] = SubSeq(arrived[s], n + 1, Len(arrived[s]))
      /\ rx_buffer'[s] = arrived[s][n]
      /\ \A t \in Sockets \ {s} :
            arrived'[t] = arrived[t] /\ completed'[t] = completed[t] /\ rx_buffer'[t] = rx_buffer[t]
  BY <1>3, <1>4, <1>5, <1>7 DEF UdpTypeOK
<1> QED
  BY <1>1, <1>2, <1>3, <1>4, <1>6, <1>8

\* Starting a receive adds one that waits or has been performed.
LEMMA Receiving ==
  ASSUME UdpTypeOK, NEW s \in Sockets, StartReceivingMessage(s)
  PROVE  /\ arrived' \in [Sockets -> Seq(Datagram)]
         /\ receives' \in [Sockets -> Nat]
         /\ completed' \in [Sockets -> Seq(0 .. kMaxUdpResSize)]
         /\ rx_buffer' \in [Sockets -> Datagram]
         /\ overwritten' \in [Sockets -> BOOLEAN]
         /\ receives'[s] + Len(completed'[s]) = receives[s] + Len(completed[s]) + 1
         /\ \/ UNCHANGED <<arrived, completed, rx_buffer, overwritten>>
            \/ 1 \in 1 .. Len(arrived[s]) /\ Perform(s, 1)
         /\ \A t \in Sockets \ {s} :
               /\ arrived'[t] = arrived[t] /\ completed'[t] = completed[t]
               /\ rx_buffer'[t] = rx_buffer[t] /\ overwritten'[t] = overwritten[t]
               /\ receives'[t] = receives[t]
<1>1. CASE receives[s] = 0 /\ arrived[s] # <<>>
  <2>1. Perform(s, 1) /\ UNCHANGED receives
    BY <1>1 DEF StartReceivingMessage
  <2>2. 1 \in 1 .. Len(arrived[s])
    BY <1>1, EmptySeq DEF UdpTypeOK
  <2> QED
    <3>1. /\ arrived' \in [Sockets -> Seq(Datagram)]
          /\ completed' \in [Sockets -> Seq(0 .. kMaxUdpResSize)]
          /\ rx_buffer' \in [Sockets -> Datagram]
          /\ overwritten' \in [Sockets -> BOOLEAN]
          /\ Len(completed'[s]) = Len(completed[s]) + 1
          /\ \A t \in Sockets \ {s} :
                /\ arrived'[t] = arrived[t] /\ completed'[t] = completed[t]
                /\ rx_buffer'[t] = rx_buffer[t] /\ overwritten'[t] = overwritten[t]
      BY <2>1, <2>2, Performing, Zenon
    <3>2. receives \in [Sockets -> Nat] /\ Len(completed[s]) \in Nat
      BY DEF UdpTypeOK
    <3> QED
      BY <2>1, <2>2, <3>1, <3>2, SMTT(60)
<1>2. CASE ~(receives[s] = 0 /\ arrived[s] # <<>>)
  <2>1. /\ receives' = [receives EXCEPT ![s] = @ + 1]
        /\ UNCHANGED <<arrived, completed, rx_buffer, overwritten>>
    BY <1>2 DEF StartReceivingMessage
  <2>2. Len(completed[s]) \in Nat
    BY DEF UdpTypeOK
  <2> QED
    BY <2>1, <2>2, SMTT(60) DEF UdpTypeOK
<1> QED
  BY <1>1, <1>2

\* The reactor performs some of the waiting receives.
LEMMA ReactorPerforms ==
  ASSUME UdpTypeOK, NEW s \in Sockets, Reactor(s)
  PROVE  \E n \in 1 .. Len(arrived[s]) :
            Perform(s, n) /\ n <= receives[s] /\ receives' = [receives EXCEPT ![s] = @ - n]
<1> DEFINE n == IF receives[s] < Len(arrived[s]) THEN receives[s] ELSE Len(arrived[s])
<1>1. receives[s] \in Nat /\ Len(arrived[s]) \in Nat
  BY DEF UdpTypeOK
<1>2. n \in 1 .. Len(arrived[s]) /\ n <= receives[s]
  BY <1>1 DEF Reactor
<1> QED
  BY <1>2 DEF Reactor

\* A receive that ends with an error is one receive less and one failure more; it
\* takes at most the first datagram, and writes over the buffer only as one that
\* is accounted for.
LEMMA Failing ==
  ASSUME UdpTypeOK, NEW s \in Sockets, ReceiveFails(s)
  PROVE  /\ arrived' \in [Sockets -> Seq(Datagram)] /\ receives' \in [Sockets -> Nat]
         /\ rx_buffer' \in [Sockets -> Datagram] /\ overwritten' \in [Sockets -> BOOLEAN]
         /\ failures' \in [Sockets -> Nat]
         /\ receives'[s] = receives[s] - 1 /\ failures'[s] = failures[s] + 1
         /\ \A i \in DOMAIN arrived'[s] :
               \E j \in DOMAIN arrived[s] : arrived'[s][i] = arrived[s][j]
         /\ \/ rx_buffer' = rx_buffer /\ overwritten' = overwritten
            \/ /\ overwritten'[s] = TRUE
               /\ \E j \in DOMAIN arrived[s] : rx_buffer'[s] = arrived[s][j]
         /\ \A t \in Sockets \ {s} :
               /\ receives'[t] = receives[t] /\ failures'[t] = failures[t]
               /\ arrived'[t] = arrived[t] /\ rx_buffer'[t] = rx_buffer[t]
               /\ overwritten'[t] = overwritten[t]
<1>1. /\ receives' \in [Sockets -> Nat] /\ failures' \in [Sockets -> Nat]
      /\ receives'[s] = receives[s] - 1 /\ failures'[s] = failures[s] + 1
      /\ \A t \in Sockets \ {s} : receives'[t] = receives[t] /\ failures'[t] = failures[t]
  BY DEF ReceiveFails, UdpTypeOK
<1>2. CASE UNCHANGED <<arrived, rx_buffer, overwritten>>
  BY <1>1, <1>2 DEF UdpTypeOK
<1>3. CASE arrived[s] # <<>> /\ arrived' = [arrived EXCEPT ![s] = Tail(@)]
  <2>1. arrived[s] \in Seq(Datagram) /\ arrived[s] # <<>> /\ Len(arrived[s]) \in Nat
    BY <1>3 DEF UdpTypeOK
  <2>2. /\ Tail(arrived[s]) \in Seq(Datagram) /\ Head(arrived[s]) \in Datagram
        /\ 1 \in DOMAIN arrived[s] /\ Head(arrived[s]) = arrived[s][1]
        /\ \A i \in DOMAIN Tail(arrived[s]) :
              \E j \in DOMAIN arrived[s] : Tail(arrived[s])[i] = arrived[s][j]
    <3>1. /\ Tail(arrived[s]) \in Seq(Datagram) /\ Head(arrived[s]) \in Datagram
          /\ 1 \in DOMAIN arrived[s] /\ Head(arrived[s]) = arrived[s][1]
      BY <2>1, EmptySeq
    <3>2. ASSUME NEW i \in DOMAIN Tail(arrived[s])
          PROVE  i + 1 \in DOMAIN arrived[s] /\ Tail(arrived[s])[i] = arrived[s][i + 1]
      BY <2>1
    <3> QED
      BY <3>1, <3>2
  <2>3. /\ arrived' \in [Sockets -> Seq(Datagram)]
        /\ arrived'[s] = Tail(arrived[s])
        /\ \A t \in Sockets \ {s} : arrived'[t] = arrived[t]
    BY <1>3, <2>2 DEF UdpTypeOK
  <2>4. \/ UNCHANGED <<rx_buffer, overwritten>>
        \/ /\ rx_buffer' = [rx_buffer EXCEPT ![s] = Head(arrived[s])]
           /\ overwritten' = [overwritten EXCEPT ![s] = TRUE]
    <3>1. arrived' # arrived
      <4>1. Len(Tail(arrived[s])) = Len(arrived[s]) - 1
        BY <2>1, HeadTailProperties
      <4> QED
        BY <2>1, <2>3, <4>1
    <3> QED
      BY <3>1 DEF ReceiveFails
  <2>5. /\ rx_buffer' \in [Sockets -> Datagram] /\ overwritten' \in [Sockets -> BOOLEAN]
        /\ \/ rx_buffer' = rx_buffer /\ overwritten' = overwritten
           \/ overwritten'[s] = TRUE /\ rx_buffer'[s] = arrived[s][1]
        /\ \A t \in Sockets \ {s} :
              rx_buffer'[t] = rx_buffer[t] /\ overwritten'[t] = overwritten[t]
    <3>1. CASE UNCHANGED <<rx_buffer, overwritten>>
      BY <3>1 DEF UdpTypeOK
    <3>2. CASE /\ rx_buffer' = [rx_buffer EXCEPT ![s] = Head(arrived[s])]
               /\ overwritten' = [overwritten EXCEPT ![s] = TRUE]
      <4>1. /\ rx_buffer' \in [Sockets -> Datagram] /\ rx_buffer'[s] = arrived[s][1]
            /\ \A t \in Sockets \ {s} : rx_buffer'[t] = rx_buffer[t]
        BY <2>2, <3>2 DEF UdpTypeOK
      <4>2. /\ overwritten' \in [Sockets -> BOOLEAN] /\ overwritten'[s] = TRUE
            /\ \A t \in Sockets \ {s} : overwritten'[t] = overwritten[t]
        BY <3>2, Zenon DEF UdpTypeOK
      <4> QED
        BY <4>1, <4>2
    <3> QED
      BY <2>4, <3>1, <3>2
  <2> QED
    BY <1>1, <2>2, <2>3, <2>5
<1> QED
  BY <1>2, <1>3 DEF ReceiveFails

\* What the executing thread of socket s does with a message that went up.
GoesUp(s) ==
    /\ io[s] \in {"up", "handle"}
    /\ \/ Done(s)
       \/ io[s] = "up" /\ Goto(s, "handle")
    /\ UNCHANGED <<opened, arrived, receives, completed, rx_buffer, overwritten, failures>>

\* A step of the sockets.
UdpStep(s) ==
    \/ OpenOk(s) \/ OpenFailed(s)
    \/ s = "unicast" /\ (TransmitSent(s) \/ TransmitReceive(s))
    \/ Reactor(s) \/ ReadBegin(s) \/ ReadCopied(s) \/ ReadEnd(s)
    \/ GoesUp(s)
    \/ \E d \in Datagram : d.from \in Senders /\ Arrives(s, d)
    \/ ReceiveFails(s)

\* That is all a step of the specification does to the sockets.
LEMMA UdpSteps ==
  DiscoveryTypeOK /\ [Next]_vars => UNCHANGED udpVars \/ \E s \in Sockets : UdpStep(s)
<1> SUFFICES ASSUME DiscoveryTypeOK, [Next]_vars, ~UNCHANGED udpVars
             PROVE  \E s \in Sockets : UdpStep(s)
  OBVIOUS
<1>1. "unicast" \in Sockets /\ "broadcast" \in Sockets
  BY DEF Sockets
<1>2. CASE StartBroadcast \/ StartUnicast
  BY <1>1, <1>2 DEF StartBroadcast, StartUnicast, OpenSocket, UdpStep
<1>3. ASSUME NEW r \in Requests, HandleVehicleIdentificationRequest(r) \/ RequestInvalid(r)
      PROVE  FALSE
  BY <1>3 DEF HandleVehicleIdentificationRequest, RequestInvalid
<1>4. CASE Caller
  BY <1>1, <1>4
     DEF Caller, Sending, SendVehicleIdentificationRequest,
         SendVehicleIdentificationRequestFailed, TransmitRefused, ReceiveAnswers, CtrlTimeout,
         BackToIdle, Collecting, NoResponseReceived, CopyBegin, CopyEnd, Clear, UdpStep
<1>5. ASSUME NEW s \in Sockets, Executing(s)
      PROVE  UdpStep(s)
  <2>1. CASE Socket(s)
    BY <2>1 DEF Socket, UdpStep
  <2>2. CASE s = "broadcast" /\ HandleMessageBroadcast
    BY <2>2 DEF HandleMessageBroadcast, UdpStep, GoesUp
  <2>3. CASE s = "unicast" /\ HandleMessageUnicast
    BY <2>3 DEF HandleMessageUnicast, UdpStep, GoesUp
  <2>4. CASE s = "unicast" /\ HandleMessage
    BY <2>4 DEF HandleMessage, UdpStep, GoesUp
  <2> QED
    BY <1>5, <2>1, <2>2, <2>3, <2>4 DEF Executing
<1>6. CASE Network
  <2>1. Someone \in Vehicles
    BY DiscoveryAssumption DEF Someone
  <2>2. sent \subseteq Nat
    BY DiscoveryAssumption DEF DiscoveryTypeOK
  <2> USE DEF Datagrams, Datagram, Senders, Vehicles
  <2>3. ASSUME NEW v \in Vehicles, VehicleAnswers(v) PROVE \E s \in Sockets : UdpStep(s)
    <3>1. PICK n \in sent : Arrives("unicast", [from |-> v, type |-> "announcement", answers |-> n])
      BY <2>3 DEF VehicleAnswers
    <3>2. [from |-> v, type |-> "announcement", answers |-> n] \in Datagram
      BY <2>2
    <3> QED
      BY <1>1, <3>1, <3>2 DEF UdpStep
  <2>4. CASE VehicleRefuses
    <3>1. Arrives("unicast", [from |-> Someone, type |-> "nack", answers |-> 0])
      BY <2>4 DEF VehicleRefuses
    <3> QED
      BY <1>1, <2>1, <3>1 DEF UdpStep
  <2>5. CASE VehicleAnnounces
    <3>1. Arrives("broadcast", [from |-> Someone, type |-> "announcement", answers |-> 0])
      BY <2>5 DEF VehicleAnnounces
    <3> QED
      BY <1>1, <2>1, <3>1 DEF UdpStep
  <2>6. CASE OtherClient
    <3>1. Arrives("unicast", [from |-> Self, type |-> "announcement", answers |-> 0])
      BY <2>6 DEF OtherClient
    <3> QED
      BY <1>1, <3>1 DEF UdpStep
  <2>7. ASSUME NEW s \in Sockets, ReceptionFails(s) PROVE UdpStep(s)
    BY <2>7 DEF ReceptionFails, UdpStep
  <2> QED
    BY <1>6, <2>3, <2>4, <2>5, <2>6, <2>7 DEF Network
<1> QED
  BY <1>2, <1>3, <1>4, <1>5, <1>6 DEF Next, vars

\* A step keeps the sockets' variables in their types.
LEMMA UdpTypes == DiscoveryTypeOK /\ [Next]_vars => UdpTypeOK'
<1> SUFFICES ASSUME DiscoveryTypeOK, [Next]_vars PROVE UdpTypeOK'
  OBVIOUS
<1>1. UdpTypeOK
  BY DEF DiscoveryTypeOK
<1>2. CASE UNCHANGED udpVars
  BY <1>1, <1>2 DEF udpVars, UdpTypeOK
<1>3. ASSUME NEW s \in Sockets, UdpStep(s) PROVE UdpTypeOK'
  <2>1. CASE OpenOk(s)
    BY <1>1, <2>1, Receiving DEF OpenOk, UdpTypeOK
  <2>2. CASE OpenFailed(s) \/ TransmitSent(s)
    BY <1>1, <2>2 DEF OpenFailed, TransmitSent, UdpTypeOK
  <2>3. CASE TransmitReceive(s)
    BY <1>1, <2>3, Receiving DEF TransmitReceive, UdpTypeOK
  <2>4. CASE Reactor(s)
    <3>1. PICK n \in 1 .. Len(arrived[s]) :
             Perform(s, n) /\ n <= receives[s] /\ receives' = [receives EXCEPT ![s] = @ - n]
      BY <1>1, <2>4, ReactorPerforms
    <3>3. /\ arrived' \in [Sockets -> Seq(Datagram)]
          /\ completed' \in [Sockets -> Seq(0 .. kMaxUdpResSize)]
          /\ rx_buffer' \in [Sockets -> Datagram]
          /\ overwritten' \in [Sockets -> BOOLEAN]
      BY <1>1, <3>1, Performing, Zenon
    <3>4. receives' \in [Sockets -> Nat]
      BY <1>1, <3>1 DEF UdpTypeOK
    <3> QED
      BY <1>1, <2>4, <3>3, <3>4 DEF Reactor, UdpTypeOK
  <2>5. CASE ReadBegin(s)
    <3>1. /\ completed[s] \in Seq(0 .. kMaxUdpResSize) /\ completed[s] # <<>>
          /\ Tail(completed[s]) \in Seq(0 .. kMaxUdpResSize)
          /\ Head(completed[s]) \in 0 .. kMaxUdpResSize
      BY <1>1, <2>5, HeadTailProperties DEF ReadBegin, UdpTypeOK, kMaxUdpResSize
    <3>2. [data |-> rx_buffer[s], size |-> Head(completed[s])]
             \in [data : Datagram, size : 0 .. kMaxUdpResSize]
      BY <1>1, <3>1 DEF UdpTypeOK
    <3>3. NoMessage \in [data : Datagram, size : 0 .. kMaxUdpResSize]
      BY DEF NoMessage, NoDatagram, Datagram, kMaxUdpResSize
    <3> QED
      BY <1>1, <2>5, <3>1, <3>2, <3>3 DEF ReadBegin, UdpTypeOK
  <2>6. CASE ReadCopied(s)
    <3>1. Mixture \in Datagram /\ NoDatagram \in Datagram
      BY DEF Mixture, NoDatagram, Datagram
    <3>2. message[s] \in [data : Datagram, size : 0 .. kMaxUdpResSize] /\ rx_buffer[s] \in Datagram
      BY <1>1 DEF UdpTypeOK
    <3>3. PICK d \in Datagram : message' = [message EXCEPT ![s].data = d]
      BY <2>6, <3>1, <3>2 DEF ReadCopied
    <3>4. message' \in [Sockets -> [data : Datagram, size : 0 .. kMaxUdpResSize]]
      BY <1>1, <3>2, <3>3 DEF UdpTypeOK
    <3>5. rx_buffer' \in [Sockets -> Datagram]
      BY <1>1, <2>6, <3>1, <3>2 DEF ReadCopied, Unread, UdpTypeOK
    <3> QED
      BY <1>1, <2>6, <3>4, <3>5 DEF ReadCopied, UdpTypeOK
  <2>7. CASE ReadEnd(s)
    BY <1>1, <2>7, Receiving DEF ReadEnd, UdpTypeOK
  <2>8. CASE GoesUp(s)
    <3>1. NoMessage \in [data : Datagram, size : 0 .. kMaxUdpResSize]
      BY DEF NoMessage, NoDatagram, Datagram, kMaxUdpResSize
    <3>2. /\ io' \in [Sockets -> {"run", "copy", "rearm", "up", "handle"}]
          /\ message' \in [Sockets -> [data : Datagram, size : 0 .. kMaxUdpResSize]]
      <4>1. CASE Done(s)
        BY <1>1, <3>1, <4>1 DEF Done, UdpTypeOK
      <4>2. CASE Goto(s, "handle")
        BY <1>1, <4>2 DEF Goto, UdpTypeOK
      <4> QED
        BY <2>8, <4>1, <4>2 DEF GoesUp
    <3> QED
      BY <1>1, <2>8, <3>2 DEF GoesUp, UdpTypeOK
  <2>9. ASSUME NEW d \in Datagram, Arrives(s, d) PROVE UdpTypeOK'
    BY <1>1, <2>9, AppendProperties DEF Arrives, UdpTypeOK
  <2>10. CASE ReceiveFails(s)
    <3>1. /\ arrived' \in [Sockets -> Seq(Datagram)] /\ receives' \in [Sockets -> Nat]
          /\ rx_buffer' \in [Sockets -> Datagram] /\ overwritten' \in [Sockets -> BOOLEAN]
          /\ failures' \in [Sockets -> Nat]
      BY <1>1, <2>10, Failing, ZenonT(60)
    <3> QED
      BY <1>1, <2>10, <3>1 DEF ReceiveFails, UdpTypeOK
  <2> QED
    BY <1>3, <2>1, <2>2, <2>3, <2>4, <2>5, <2>6, <2>7, <2>8, <2>9, <2>10 DEF UdpStep
<1> QED
  BY <1>2, <1>3, UdpSteps

-----------------------------------------------------------------------------
(* The receives in flight *)

\* The counts are numbers.
LEMMA FlightCounts ==
  ASSUME UdpTypeOK
  PROVE  \A t \in Sockets : ReceivesInFlight(t) \in Nat /\ failures[t] \in Nat
<1>1. \A t \in Sockets : /\ receives[t] \in Nat /\ Len(completed[t]) \in Nat
                         /\ failures[t] \in Nat
  BY DEF UdpTypeOK
<1> QED
  BY <1>1 DEF ReceivesInFlight

\* Opening a socket and the second half of Transmit start a receive.
LEMMA FlightStarts ==
  ASSUME UdpTypeOK, NEW s \in Sockets, StartReceivingMessage(s), UNCHANGED io
  PROVE  /\ ReceivesInFlight(s)' = ReceivesInFlight(s) + 1
         /\ \A t \in Sockets \ {s} : ReceivesInFlight(t)' = ReceivesInFlight(t)
<1>1. \A t \in Sockets : receives[t] \in Nat /\ Len(completed[t]) \in Nat
  BY DEF UdpTypeOK
<1>2. /\ receives' \in [Sockets -> Nat]
      /\ completed' \in [Sockets -> Seq(0 .. kMaxUdpResSize)]
      /\ receives'[s] + Len(completed'[s]) = receives[s] + Len(completed[s]) + 1
      /\ \A t \in Sockets \ {s} : completed'[t] = completed[t] /\ receives'[t] = receives[t]
  BY Receiving, Zenon
<1>3. receives'[s] \in Nat /\ Len(completed'[s]) \in Nat
  BY <1>2
<1> QED
  BY <1>1, <1>2, <1>3 DEF ReceivesInFlight

\* An error ends one.
LEMMA FlightFails ==
  ASSUME UdpTypeOK, NEW s \in Sockets, ReceiveFails(s)
  PROVE  \A t \in Sockets : ReceivesInFlight(t)' + failures'[t] = ReceivesInFlight(t) + failures[t]
<1>1. \A t \in Sockets : /\ receives[t] \in Nat /\ Len(completed[t]) \in Nat
                         /\ failures[t] \in Nat
  BY DEF UdpTypeOK
<1>2. /\ receives'[s] = receives[s] - 1 /\ failures'[s] = failures[s] + 1
      /\ \A t \in Sockets \ {s} : receives'[t] = receives[t] /\ failures'[t] = failures[t]
  BY Failing, ZenonT(60)
<1>3. UNCHANGED <<completed, io>>
  BY DEF ReceiveFails
<1>4. ReceivesInFlight(s)' + failures'[s] = ReceivesInFlight(s) + failures[s]
  <2>1. ReceivesInFlight(s)' = ReceivesInFlight(s) - 1
    BY <1>1, <1>2, <1>3 DEF ReceivesInFlight
  <2>2. ReceivesInFlight(s) \in Nat
    BY FlightCounts
  <2> QED
    BY <1>1, <1>2, <2>1, <2>2, SMTT(60)
<1>5. \A t \in Sockets \ {s} : ReceivesInFlight(t)' = ReceivesInFlight(t)
  BY <1>2, <1>3 DEF ReceivesInFlight
<1> QED
  BY <1>2, <1>4, <1>5

\* All other steps leave the number of receives in flight as it is.
LEMMA FlightKept ==
  ASSUME UdpTypeOK, NEW s \in Sockets,
         \/ OpenFailed(s) \/ TransmitSent(s) \/ Reactor(s) \/ ReadBegin(s) \/ ReadCopied(s)
         \/ ReadEnd(s) \/ GoesUp(s) \/ \E d \in Datagram : Arrives(s, d)
  PROVE  \A t \in Sockets : ReceivesInFlight(t)' = ReceivesInFlight(t)
<1>1. \A t \in Sockets : /\ receives[t] \in Nat /\ completed[t] \in Seq(0 .. kMaxUdpResSize)
                         /\ Len(completed[t]) \in Nat
  BY DEF UdpTypeOK
<1>2. io \in [Sockets -> {"run", "copy", "rearm", "up", "handle"}]
  BY DEF UdpTypeOK
<1>3. CASE OpenFailed(s) \/ TransmitSent(s) \/ \E d \in Datagram : Arrives(s, d)
  BY <1>3 DEF OpenFailed, TransmitSent, Arrives, ReceivesInFlight
<1>4. CASE Reactor(s)
  <2>1. PICK n \in 1 .. Len(arrived[s]) :
           Perform(s, n) /\ n <= receives[s] /\ receives' = [receives EXCEPT ![s] = @ - n]
    BY <1>4, ReactorPerforms
  <2>2. /\ Len(completed'[s]) = Len(completed[s]) + n
        /\ \A t \in Sockets \ {s} : completed'[t] = completed[t]
    BY <2>1, Performing, ZenonT(60)
  <2>3. UNCHANGED io
    BY <1>4 DEF Reactor
  <2>4. /\ receives'[s] = receives[s] - n /\ n \in Nat
        /\ \A t \in Sockets \ {s} : receives'[t] = receives[t]
    BY <2>1 DEF UdpTypeOK
  <2> QED
    BY <1>1, <2>2, <2>3, <2>4, SMTT(60) DEF ReceivesInFlight
<1>5. CASE ReadBegin(s)
  <2>1. completed[s] # <<>> /\ Len(Tail(completed[s])) = Len(completed[s]) - 1
    BY <1>1, <1>5, HeadTailProperties DEF ReadBegin
  <2>2. /\ io[s] = "run" /\ io'[s] \in {"copy", "rearm"} /\ UNCHANGED receives
        /\ completed'[s] = Tail(completed[s])
        /\ \A t \in Sockets \ {s} : completed'[t] = completed[t] /\ io'[t] = io[t]
    BY <1>2, <1>5 DEF ReadBegin, UdpTypeOK
  <2>3. ReceivesInFlight(s)' = ReceivesInFlight(s)
    BY <1>1, <2>1, <2>2, SMTT(60) DEF ReceivesInFlight
  <2>4. \A t \in Sockets \ {s} : ReceivesInFlight(t)' = ReceivesInFlight(t)
    BY <2>2 DEF ReceivesInFlight
  <2> QED
    BY <2>3, <2>4
<1>6. CASE ReadCopied(s)
  BY <1>1, <1>2, <1>6 DEF ReadCopied, ReceivesInFlight
<1>7. CASE ReadEnd(s)
  <2>1. /\ receives' \in [Sockets -> Nat]
        /\ completed' \in [Sockets -> Seq(0 .. kMaxUdpResSize)]
        /\ receives'[s] + Len(completed'[s]) = receives[s] + Len(completed[s]) + 1
        /\ \A t \in Sockets \ {s} : completed'[t] = completed[t] /\ receives'[t] = receives[t]
    BY <1>7, Receiving, Zenon DEF ReadEnd
  <2>2. receives'[s] \in Nat /\ Len(completed'[s]) \in Nat
    BY <2>1
  <2>3. /\ io[s] = "rearm" /\ io'[s] \in {"run", "up"}
        /\ \A t \in Sockets \ {s} : io'[t] = io[t]
    BY <1>2, <1>7 DEF ReadEnd
  <2>4. ReceivesInFlight(s)' = ReceivesInFlight(s)
    BY <1>1, <2>1, <2>2, <2>3 DEF ReceivesInFlight
  <2>5. \A t \in Sockets \ {s} : ReceivesInFlight(t)' = ReceivesInFlight(t)
    BY <2>1, <2>3 DEF ReceivesInFlight
  <2> QED
    BY <2>4, <2>5
<1>8. CASE GoesUp(s)
  <2>1. /\ io'[s] \notin {"copy", "rearm"} /\ io[s] \notin {"copy", "rearm"}
        /\ UNCHANGED <<receives, completed>>
        /\ \A t \in Sockets \ {s} : io'[t] = io[t]
    BY <1>2, <1>8 DEF GoesUp, Done, Goto
  <2> QED
    BY <2>1 DEF ReceivesInFlight
<1> QED
  BY <1>3, <1>4, <1>5, <1>6, <1>7, <1>8

-----------------------------------------------------------------------------
(* The application's calls *)

\* A value that VerifyVehicleInfoRequest accepts has the length that
\* GetVehicleIdentificationPayloadLength gives the header, for a value of any
\* length, although both lengths are cast to 8 bits on the way.
LEMMA AcceptedLength ==
  ASSUME NEW mode \in 0 .. 3, NEW length \in Nat,
         VerifyVehicleInfoRequest(mode, PreselectionLength(mode, length))
  PROVE  /\ PreselectionLength(mode, length) \in 0 .. 255
         /\ GetVehicleIdentificationPayloadLength(mode) = PreselectionLength(mode, length)
<1>1. length % 256 \in 0 .. 255
  OBVIOUS
<1>2. CASE mode = 1
  BY <1>1, <1>2
     DEF VerifyVehicleInfoRequest, PreselectionLength, SerializeVINFromString,
         GetVehicleIdentificationPayloadLength
<1>3. CASE mode = 2
  BY <1>1, <1>3
     DEF VerifyVehicleInfoRequest, PreselectionLength, SerializeEIDGIDFromString,
         GetVehicleIdentificationPayloadLength
<1>4. CASE mode \notin {1, 2}
  BY <1>4 DEF PreselectionLength, GetVehicleIdentificationPayloadLength
<1> QED
  BY <1>2, <1>3, <1>4

\* An entry that DeserializeVehicleInfoResponse makes has an address and a sender.
LEMMA EntryTypes ==
  ASSUME UdpTypeOK, NEW v \in Deserialized(message["unicast"])
  PROVE  v.address \in Addresses /\ v.from \in Vehicles \cup {Self, Corrupt}
<1> DEFINE m == message["unicast"]
<1>1. m.data.from \in Vehicles \cup {Self, Corrupt}
  BY DEF UdpTypeOK, Sockets, Datagram, Vehicles
<1>2. CASE m.data.from = Corrupt \/ PayloadSize("kUdp", m.size) < 31
  BY <1>2 DEF Deserialized
<1>3. CASE ~(m.data.from = Corrupt \/ PayloadSize("kUdp", m.size) < 31)
  <2>1. v = [address |-> Address(m.data.from), from |-> m.data.from]
    BY <1>3 DEF Deserialized
  <2> QED
    BY <1>1, <1>3, <2>1 DEF Addresses
<1> QED
  BY <1>2, <1>3

\* A step keeps all variables in their types.
LEMMA TypesKept == DiscoveryTypeOK /\ Progress /\ [Next]_vars => DiscoveryTypeOK'
<1> SUFFICES ASSUME DiscoveryTypeOK, Progress, [Next]_vars PROVE DiscoveryTypeOK'
  OBVIOUS
<1>1. UdpTypeOK'
  BY UdpTypes
<1>2. CASE UNCHANGED discoveryVars
  BY <1>1, <1>2 DEF discoveryVars, DiscoveryTypeOK
<1>3. CASE StartBroadcast \/ StartUnicast
  <2>1. /\ activity' \in {"kInactive", "starting", "kActive"}
        /\ UNCHANGED <<identifying, collection, call, snapshot, result, requests, outgoing,
                       historyVars>>
    BY <1>3 DEF StartBroadcast, StartUnicast
  <2> QED
    BY <1>1, <2>1 DEF historyVars, DiscoveryTypeOK
<1>4. ASSUME NEW r \in Requests, HandleVehicleIdentificationRequest(r) PROVE DiscoveryTypeOK'
  <2>1. outgoing' \in [length : 0 .. 255, bytes : 0 .. 255]
    <3>1. /\ r.mode \in 0 .. 3 /\ r.length \in Nat
          /\ VerifyVehicleInfoRequest(r.mode, PreselectionLength(r.mode, r.length))
      BY <1>4 DEF HandleVehicleIdentificationRequest, Valid, Requests
    <3>2. /\ PreselectionLength(r.mode, r.length) \in 0 .. 255
          /\ GetVehicleIdentificationPayloadLength(r.mode) \in 0 .. 255
      BY <3>1, AcceptedLength, ZenonT(60)
    <3> QED
      BY <1>4, <3>2 DEF HandleVehicleIdentificationRequest
  <2>2. requests' \in 0 .. MaxRequests
    BY <1>4, DiscoveryAssumption DEF HandleVehicleIdentificationRequest, DiscoveryTypeOK
  <2> QED
    BY <1>1, <1>4, <2>1, <2>2
       DEF HandleVehicleIdentificationRequest, DiscoveryTypeOK, VehicleIdentificationState,
           VehicleInfoResponseError
<1>5. ASSUME NEW r \in Requests, RequestInvalid(r) PROVE DiscoveryTypeOK'
  BY <1>1, <1>5 DEF RequestInvalid, DiscoveryTypeOK, VehicleInfoResponseError
<1>6. CASE Sending
  <2>1. NoRequest \in [length : 0 .. 255, bytes : 0 .. 255]
    BY DEF NoRequest
  <2>2. sent' \subseteq 1 .. MaxRequests
    <3>1. sent' \subseteq sent \cup {requests} /\ call = "send"
      BY <1>6
         DEF Sending, SendVehicleIdentificationRequest, SendVehicleIdentificationRequestFailed,
             historyVars
    <3> QED
      BY <3>1, DiscoveryAssumption DEF DiscoveryTypeOK, Progress
  <2> QED
    BY <1>1, <1>6, <2>1, <2>2
       DEF Sending, SendVehicleIdentificationRequest, SendVehicleIdentificationRequestFailed,
           historyVars, DiscoveryTypeOK, VehicleIdentificationState
<1>7. CASE ReceiveAnswers \/ CtrlTimeout \/ BackToIdle
  <2>1. /\ call' \in {"wait", "timeout", "empty"}
        /\ identifying' = identifying \/ identifying' \in {"kDoIPCtrlTimeout", "kIdle"}
        /\ UNCHANGED <<activity, collection, snapshot, result, requests, outgoing, historyVars>>
    BY <1>7 DEF ReceiveAnswers, CtrlTimeout, BackToIdle
  <2> QED
    BY <1>1, <2>1 DEF historyVars, DiscoveryTypeOK, VehicleIdentificationState
<1>12. CASE NoResponseReceived \/ CopyBegin \/ Clear
  <2>1. CASE NoResponseReceived
    BY <1>1, <2>1 DEF NoResponseReceived, historyVars, DiscoveryTypeOK, VehicleInfoResponseError
  <2>2. CASE CopyBegin
    BY <1>1, <2>2 DEF CopyBegin, historyVars, DiscoveryTypeOK
  <2>3. CASE Clear
    BY <1>1, <2>3 DEF Clear, historyVars, DiscoveryTypeOK
  <2> QED
    BY <1>12, <2>1, <2>2, <2>3
<1>11. CASE CopyEnd
  <2>1. PICK met \in SUBSET (collection \ snapshot) :
           result' = [error |-> "none", list |-> snapshot \cup met]
    BY <1>11 DEF CopyEnd
  <2>2. result'.error = "none" /\ result'.list \subseteq Entry
    BY <2>1 DEF DiscoveryTypeOK
  <2> QED
    BY <1>1, <1>11, <2>2 DEF CopyEnd, historyVars, DiscoveryTypeOK
<1>8. CASE HandleMessageUnicast
  BY <1>1, <1>8, DiscoveryAssumption DEF HandleMessageUnicast, DiscoveryTypeOK
<1>9. CASE HandleMessage
  <2> DEFINE late == window # requests \/ ~Accepting
  <2>1. PICK v \in Deserialized(message["unicast"]) :
           /\ collection' =
                 IF \E e \in collection : e.address = v.address THEN collection
                 ELSE collection \cup {[address |-> v.address, from |-> v.from,
                                        window |-> window, late |-> late]}
           /\ inTime' = IF late THEN inTime ELSE inTime \cup {v.address}
    BY <1>9 DEF HandleMessage
  <2>2. v.address \in Addresses /\ v.from \in Vehicles \cup {Self, Corrupt}
    BY EntryTypes DEF DiscoveryTypeOK
  <2>3. late \in BOOLEAN /\ window \in Nat
    BY DiscoveryAssumption DEF DiscoveryTypeOK
  <2> HIDE DEF late
  <2>4. collection' \subseteq Entry /\ inTime' \subseteq Addresses
    BY <2>1, <2>2, <2>3 DEF Entry, DiscoveryTypeOK
  <2>5. \A e, f \in collection' : e.address = f.address => e = f
    BY <2>1 DEF DiscoveryTypeOK
  <2>6. window' \in 0 .. MaxRequests
    BY <1>9, DiscoveryAssumption DEF HandleMessage
  <2> QED
    BY <1>1, <1>9, <2>4, <2>5, <2>6 DEF HandleMessage, DiscoveryTypeOK
<1>10. CASE Network
  <2>1. /\ \/ UNCHANGED datagrams
           \/ datagrams' = datagrams + 1 /\ datagrams < MaxDatagrams
        /\ UNCHANGED <<activity, identifying, collection, call, snapshot, result, requests,
                       outgoing, sent, inTime, window>>
    BY <1>10
       DEF Network, VehicleAnswers, VehicleRefuses, VehicleAnnounces, OtherClient, Datagrams,
           ReceptionFails, discoveryVars
  <2>2. datagrams' \in 0 .. MaxDatagrams
    BY <2>1, DiscoveryAssumption DEF DiscoveryTypeOK
  <2> QED
    BY <1>1, <2>1, <2>2 DEF DiscoveryTypeOK
<1> QED
  BY <1>2, <1>3, <1>4, <1>5, <1>6, <1>7, <1>8, <1>9, <1>10, <1>11, <1>12
     DEF Next, vars, Caller, Collecting, Executing, Socket, HandleMessageBroadcast

\* What the network does leaves the API thread and the collection alone.
LEMMA NetworkLeaves ==
  ASSUME Network
  PROVE  UNCHANGED <<activity, identifying, collection, call, snapshot, result, requests,
                     outgoing, sent, inTime, window>>
BY DEF Network, VehicleAnswers, VehicleRefuses, VehicleAnnounces, OtherClient, Datagrams,
       ReceptionFails, discoveryVars

\* A step keeps the API thread's place, the handler's state and the requests that
\* are out in step.
LEMMA ProgressKept == DiscoveryTypeOK /\ Progress /\ [Next]_vars => Progress'
<1> SUFFICES ASSUME DiscoveryTypeOK, Progress, [Next]_vars PROVE Progress'
  OBVIOUS
<1>1. requests \in Nat /\ sent \subseteq Nat
  BY DiscoveryAssumption DEF DiscoveryTypeOK
<1> USE DEF Progress, Accepting, historyVars
<1>2. CASE UNCHANGED <<identifying, call, requests, outgoing, sent>>
  BY <1>2
<1>3. CASE StartBroadcast \/ StartUnicast
  BY <1>2, <1>3 DEF StartBroadcast, StartUnicast
<1>4. ASSUME NEW r \in Requests, HandleVehicleIdentificationRequest(r) PROVE Progress'
  <2>1. outgoing'.length = outgoing'.bytes
    <3>1. /\ r.mode \in 0 .. 3 /\ r.length \in Nat
          /\ VerifyVehicleInfoRequest(r.mode, PreselectionLength(r.mode, r.length))
      BY <1>4 DEF HandleVehicleIdentificationRequest, Valid, Requests
    <3>2. GetVehicleIdentificationPayloadLength(r.mode) = PreselectionLength(r.mode, r.length)
      BY <3>1, AcceptedLength
    <3> QED
      BY <1>4, <3>2 DEF HandleVehicleIdentificationRequest
  <2>2. requests' = requests + 1 /\ requests + 1 \notin sent /\ requests + 1 > 0
    BY <1>1, <1>4 DEF HandleVehicleIdentificationRequest
  <2> QED
    BY <1>1, <1>4, <2>1, <2>2 DEF HandleVehicleIdentificationRequest
<1>5. ASSUME NEW r \in Requests, RequestInvalid(r) PROVE Progress'
  BY <1>2, <1>5 DEF RequestInvalid
<1>6. CASE Sending
  <2>1. CASE SendVehicleIdentificationRequest
    BY <1>1, <2>1 DEF SendVehicleIdentificationRequest, NoRequest
  <2>2. CASE SendVehicleIdentificationRequestFailed
    BY <1>1, <2>2 DEF SendVehicleIdentificationRequestFailed, NoRequest
  <2> QED
    BY <1>6, <2>1, <2>2 DEF Sending
<1>7. CASE ReceiveAnswers \/ CtrlTimeout \/ BackToIdle
  BY <1>7 DEF ReceiveAnswers, CtrlTimeout, BackToIdle
<1>8. CASE NoResponseReceived \/ CopyBegin \/ CopyEnd \/ Clear
  BY <1>8 DEF NoResponseReceived, CopyBegin, CopyEnd, Clear
<1>9. ASSUME NEW s \in Sockets, Executing(s) PROVE Progress'
  BY <1>2, <1>9
     DEF Executing, Socket, HandleMessageUnicast, HandleMessageBroadcast, HandleMessage,
         discoveryVars
<1>10. CASE Network
  BY <1>2, <1>10, NetworkLeaves
<1> QED
  BY <1>2, <1>3, <1>4, <1>5, <1>6, <1>7, <1>8, <1>9, <1>10
     DEF Next, vars, Caller, Collecting, discoveryVars

\* An address that was taken in time stays on its way to the result.
LEMMA ReportedKept == DiscoveryTypeOK /\ Progress /\ Reported /\ [Next]_vars => Reported'
<1> SUFFICES ASSUME DiscoveryTypeOK, Progress, Reported, [Next]_vars PROVE Reported'
  OBVIOUS
<1> USE DEF Reported, AddressesOf, historyVars
<1>2. CASE UNCHANGED <<collection, call, snapshot, result, requests, sent, inTime>>
  BY <1>2
<1>3. CASE StartBroadcast \/ StartUnicast
  BY <1>2, <1>3 DEF StartBroadcast, StartUnicast
<1>4. ASSUME NEW r \in Requests, HandleVehicleIdentificationRequest(r) \/ RequestInvalid(r)
      PROVE  Reported'
  BY <1>4 DEF HandleVehicleIdentificationRequest, RequestInvalid
<1>6. CASE Sending
  BY <1>6
     DEF Sending, SendVehicleIdentificationRequest, SendVehicleIdentificationRequestFailed,
         Progress
<1>7. CASE ReceiveAnswers \/ CtrlTimeout \/ BackToIdle
  BY <1>7 DEF ReceiveAnswers, CtrlTimeout, BackToIdle
<1>8. CASE NoResponseReceived \/ CopyBegin \/ Clear
  BY <1>8 DEF NoResponseReceived, CopyBegin, Clear
<1>9. CASE CopyEnd
  <2>1. snapshot \subseteq result'.list
    BY <1>9 DEF CopyEnd
  <2> QED
    BY <1>9, <2>1 DEF CopyEnd
<1>10. CASE HandleMessage
  <2> DEFINE late == window # requests \/ ~Accepting
  <2>1. PICK v \in Deserialized(message["unicast"]) :
           /\ collection' =
                 IF \E e \in collection : e.address = v.address THEN collection
                 ELSE collection \cup {[address |-> v.address, from |-> v.from,
                                        window |-> window, late |-> late]}
           /\ inTime' = IF late THEN inTime ELSE inTime \cup {v.address}
    BY <1>10 DEF HandleMessage
  <2>2. ~late => call \in {"send", "receive", "wait"}
    BY DEF Progress
  <2> HIDE DEF late
  <2>3. collection \subseteq collection' /\ \E e \in collection' : e.address = v.address
    <3>1. CASE \E e \in collection : e.address = v.address
      BY <2>1, <3>1
    <3>2. CASE ~\E e \in collection : e.address = v.address
      <4> DEFINE new == [address |-> v.address, from |-> v.from, window |-> window, late |-> late]
      <4>1. collection' = collection \cup {new} /\ new.address = v.address
        BY <2>1, <3>2
      <4> QED
        BY <4>1
    <3> QED
      BY <3>1, <3>2
  <2>5. \/ inTime' = inTime
        \/ inTime' = inTime \cup {v.address} /\ call \in {"send", "receive", "wait"}
    BY <2>1, <2>2
  <2>4. UNCHANGED <<call, snapshot, result, requests, sent>>
    BY <1>10 DEF HandleMessage
  <2> QED
    BY <2>3, <2>4, <2>5
<1>11. ASSUME NEW s \in Sockets, Executing(s), ~HandleMessage PROVE Reported'
  BY <1>2, <1>11
     DEF Executing, Socket, HandleMessageUnicast, HandleMessageBroadcast, discoveryVars
<1>12. CASE Network
  BY <1>2, <1>12, NetworkLeaves
<1> QED
  BY <1>2, <1>3, <1>4, <1>6, <1>7, <1>8, <1>9, <1>10, <1>11, <1>12
     DEF Next, vars, Caller, Collecting, discoveryVars

\* An entry that this call's window did not let in stays marked as a stray one.
LEMMA BelongingKept ==
  DiscoveryTypeOK /\ Progress /\ Reported /\ Belonging /\ [Next]_vars => Belonging'
<1> SUFFICES ASSUME DiscoveryTypeOK, Progress, Reported, Belonging, [Next]_vars PROVE Belonging'
  OBVIOUS
<1> USE DEF Belonging, Stray, historyVars
<1>2. CASE UNCHANGED <<collection, call, result, requests, sent>>
  BY <1>2
<1>3. CASE StartBroadcast \/ StartUnicast
  BY <1>2, <1>3 DEF StartBroadcast, StartUnicast
<1>4. ASSUME NEW r \in Requests, HandleVehicleIdentificationRequest(r) \/ RequestInvalid(r)
      PROVE  Belonging'
  BY <1>4 DEF HandleVehicleIdentificationRequest, RequestInvalid
<1>5. CASE SendVehicleIdentificationRequest
  BY <1>5 DEF SendVehicleIdentificationRequest
<1>6. CASE SendVehicleIdentificationRequestFailed
  BY <1>6 DEF SendVehicleIdentificationRequestFailed, Progress
<1>7. CASE ReceiveAnswers \/ CtrlTimeout \/ BackToIdle
  BY <1>7 DEF ReceiveAnswers, CtrlTimeout, BackToIdle
<1>8. CASE NoResponseReceived \/ CopyBegin \/ Clear
  BY <1>8 DEF NoResponseReceived, CopyBegin, Clear
<1>9. CASE CopyEnd
  <2>1. result'.list \subseteq collection
    BY <1>9 DEF CopyEnd, Reported
  <2> QED
    BY <1>9, <2>1 DEF CopyEnd
<1>10. CASE HandleMessage
  <2> DEFINE late == window # requests \/ ~Accepting
  <2>1. PICK v \in Deserialized(message["unicast"]) :
           collection' =
                 IF \E e \in collection : e.address = v.address THEN collection
                 ELSE collection \cup {[address |-> v.address, from |-> v.from,
                                        window |-> window, late |-> late]}
    BY <1>10 DEF HandleMessage
  <2>2. ~late => window = requests /\ call # "idle"
    BY DEF Progress
  <2>3. UNCHANGED <<call, result, requests, sent>>
    BY <1>10 DEF HandleMessage
  <2> HIDE DEF late
  <2>4. ASSUME NEW e \in collection' PROVE Stray(e) \/ (call # "idle" /\ e.window = requests)
    BY <2>1, <2>2
  <2> QED
    BY <2>3, <2>4
<1>11. ASSUME NEW s \in Sockets, Executing(s), ~HandleMessage PROVE Belonging'
  BY <1>2, <1>11
     DEF Executing, Socket, HandleMessageUnicast, HandleMessageBroadcast, discoveryVars
<1>12. CASE Network
  BY <1>2, <1>12, NetworkLeaves
<1> QED
  BY <1>2, <1>3, <1>4, <1>5, <1>6, <1>7, <1>8, <1>9, <1>10, <1>11, <1>12
     DEF Next, vars, Caller, Sending, Collecting, discoveryVars

-----------------------------------------------------------------------------
(* What a datagram brings *)

\* Datagrams come from the vehicles and from this host, and so does what is in
\* the unicast socket's buffer.
LEMMA KnownKept == DiscoveryTypeOK /\ Known /\ [Next]_vars => Known'
<1> SUFFICES ASSUME DiscoveryTypeOK, Known, [Next]_vars PROVE Known'
  OBVIOUS
<1>1. UdpTypeOK /\ "unicast" \in Sockets
  BY DEF DiscoveryTypeOK, Sockets
<1>2. CASE UNCHANGED <<arrived, rx_buffer>>
  BY <1>2 DEF Known
<1>3. ASSUME NEW s \in Sockets, NEW n \in 1 .. Len(arrived[s]), Perform(s, n) PROVE Known'
  <2>1. /\ rx_buffer'[s] = arrived[s][n]
        /\ \A i \in DOMAIN arrived'[s] : \E j \in DOMAIN arrived[s] : arrived'[s][i] = arrived[s][j]
        /\ \A t \in Sockets \ {s} : arrived'[t] = arrived[t] /\ rx_buffer'[t] = rx_buffer[t]
    BY <1>1, <1>3, Performing, ZenonT(60)
  <2>2. n \in DOMAIN arrived[s]
    BY <1>1 DEF UdpTypeOK
  <2> QED
    BY <1>1, <2>1, <2>2 DEF Known
<1>4. ASSUME NEW s \in Sockets, StartReceivingMessage(s) PROVE Known'
  <2>1. \/ UNCHANGED <<arrived, rx_buffer>>
        \/ 1 \in 1 .. Len(arrived[s]) /\ Perform(s, 1)
    BY <1>1, <1>4, Receiving
  <2> QED
    BY <1>2, <1>3, <2>1
<1>5. ASSUME NEW s \in Sockets, UdpStep(s) PROVE Known'
  <2>1. CASE OpenOk(s) \/ TransmitReceive(s) \/ ReadEnd(s)
    BY <1>4, <2>1 DEF OpenOk, TransmitReceive, ReadEnd
  <2>2. CASE OpenFailed(s) \/ TransmitSent(s) \/ ReadBegin(s) \/ GoesUp(s)
    BY <1>2, <2>2 DEF OpenFailed, TransmitSent, ReadBegin, GoesUp
  <2>3. CASE Reactor(s)
    BY <1>1, <1>3, <2>3, ReactorPerforms
  <2>4. CASE ReadCopied(s)
    BY <1>1, <2>4 DEF ReadCopied, Unread, NoDatagram, Known, Senders, UdpTypeOK
  <2>5. ASSUME NEW d \in Datagram, d.from \in Senders, Arrives(s, d) PROVE Known'
    BY <1>1, <2>5 DEF Arrives, Known, UdpTypeOK
  <2>6. CASE ReceiveFails(s)
    <3>1. /\ \A i \in DOMAIN arrived'[s] :
                \E j \in DOMAIN arrived[s] : arrived'[s][i] = arrived[s][j]
          /\ \/ rx_buffer'[s] = rx_buffer[s]
             \/ \E j \in DOMAIN arrived[s] : rx_buffer'[s] = arrived[s][j]
          /\ \A t \in Sockets \ {s} : arrived'[t] = arrived[t] /\ rx_buffer'[t] = rx_buffer[t]
      BY <1>1, <2>6, Failing, ZenonT(60)
    <3> QED
      BY <1>1, <3>1 DEF Known
  <2> QED
    BY <1>5, <2>1, <2>2, <2>3, <2>4, <2>5, <2>6 DEF UdpStep
<1> QED
  BY <1>2, <1>5, UdpSteps DEF udpVars

\* Performing receives leaves the buffer with what one of them brought, unless it
\* overwrites a datagram.
LEMMA BufferKept ==
  ASSUME UdpTypeOK, Intact,
         NEW s \in Sockets, NEW n \in 1 .. Len(arrived[s]), Perform(s, n),
         \/ io'["unicast"] = io["unicast"] /\ message'["unicast"] = message["unicast"]
         \/ io'["unicast"] # "copy",
         ~overwritten'["unicast"]
  PROVE  ~overwritten["unicast"] /\ InBuffer'
<1>1. CASE s = "unicast"
  <2>1. /\ ~overwritten[s] /\ n = 1 /\ completed[s] = <<>> /\ io[s] # "copy"
        /\ completed'[s][1] = Bytes(arrived[s][1])
        /\ rx_buffer'[s] = arrived[s][n]
        /\ Len(completed'[s]) = Len(completed[s]) + n
    BY <1>1, Performing, ZenonT(60)
  <2> QED
    BY <1>1, <2>1 DEF InBuffer
<1>2. CASE s # "unicast"
  <2>1. \A t \in Sockets \ {s} :
           /\ completed'[t] = completed[t]
           /\ rx_buffer'[t] = rx_buffer[t] /\ overwritten'[t] = overwritten[t]
    BY Performing, ZenonT(60)
  <2> QED
    BY <1>2, <2>1 DEF InBuffer, Intact, Sockets
<1> QED
  BY <1>1, <1>2

\* The same of a receive that is started.
LEMMA BufferStarts ==
  ASSUME UdpTypeOK, Intact,
         NEW s \in Sockets, StartReceivingMessage(s),
         \/ io'["unicast"] = io["unicast"] /\ message'["unicast"] = message["unicast"]
         \/ io'["unicast"] # "copy",
         ~overwritten'["unicast"]
  PROVE  ~overwritten["unicast"] /\ InBuffer'
<1>1. \/ UNCHANGED <<arrived, completed, rx_buffer, overwritten>>
      \/ 1 \in 1 .. Len(arrived[s]) /\ Perform(s, 1)
  BY Receiving, Zenon
<1>2. CASE UNCHANGED <<arrived, completed, rx_buffer, overwritten>>
  BY <1>2 DEF InBuffer, Intact
<1>3. CASE 1 \in 1 .. Len(arrived[s]) /\ Perform(s, 1)
  BY <1>3, BufferKept
<1> QED
  BY <1>1, <1>2, <1>3

\* A step of the sockets that hands no message to the handler keeps the buffer and
\* the message in hand intact.
LEMMA SocketsIntact ==
  ASSUME UdpTypeOK, Known, Intact, NEW s \in Sockets, UdpStep(s),
         ~overwritten'["unicast"], io'["unicast"] # "handle" \/ io["unicast"] = "handle"
  PROVE  ~overwritten["unicast"] /\ InBuffer' /\ InHand'
<1>1. "unicast" \in Sockets /\ io \in [Sockets -> {"run", "copy", "rearm", "up", "handle"}]
  BY DEF Sockets, UdpTypeOK
<1>2. ASSUME ~overwritten["unicast"], UNCHANGED <<io, message>> PROVE InHand'
  BY <1>2 DEF InHand, Intact
<1>3. CASE OpenOk(s) \/ TransmitReceive(s)
  BY <1>2, <1>3, BufferStarts DEF OpenOk, TransmitReceive
<1>4. CASE OpenFailed(s) \/ TransmitSent(s) \/ \E d \in Datagram : Arrives(s, d)
  BY <1>4 DEF OpenFailed, TransmitSent, Arrives, Intact, InBuffer, InHand
<1>5. CASE Reactor(s)
  <2>1. UNCHANGED <<io, message>>
    BY <1>5 DEF Reactor
  <2>2. ~overwritten["unicast"] /\ InBuffer'
    BY <1>5, <2>1, ReactorPerforms, BufferKept
  <2> QED
    BY <1>2, <2>1, <2>2
<1>6. CASE ReadBegin(s)
  <2>1. ~overwritten["unicast"] /\ UNCHANGED rx_buffer
    BY <1>6 DEF ReadBegin
  <2>2. CASE s # "unicast"
    <3>1. /\ io'["unicast"] = io["unicast"] /\ message'["unicast"] = message["unicast"]
          /\ completed'["unicast"] = completed["unicast"]
      BY <1>1, <1>6, <2>2 DEF ReadBegin, UdpTypeOK
    <3> QED
      BY <2>1, <3>1 DEF Intact, InBuffer, InHand
  <2>3. CASE s = "unicast"
    <3>1. /\ completed[s] \in Seq(0 .. kMaxUdpResSize) /\ completed[s] # <<>>
          /\ Len(completed[s]) <= 1 /\ completed[s][1] = Bytes(rx_buffer[s])
      BY <1>1, <1>6, <2>1, <2>3 DEF ReadBegin, UdpTypeOK, Intact, InBuffer
    <3>2. Tail(completed[s]) = <<>> /\ Head(completed[s]) = Bytes(rx_buffer[s])
      BY <3>1
    <3>3. completed'[s] = <<>>
      BY <1>1, <1>6, <3>2 DEF ReadBegin, UdpTypeOK
    <3>4. CASE FromSelf(s)
      <4>1. io'[s] = "rearm" /\ message'[s] = NoMessage
        BY <1>1, <1>6, <3>4 DEF ReadBegin, UdpTypeOK
      <4> QED
        BY <2>1, <2>3, <3>3, <4>1 DEF InBuffer, InHand
    <3>5. CASE ~FromSelf(s)
      <4>1. io'[s] = "copy" /\ message'[s] = [data |-> rx_buffer[s], size |-> Bytes(rx_buffer[s])]
        BY <1>1, <1>6, <3>2, <3>5 DEF ReadBegin, UdpTypeOK
      <4>2. rx_buffer[s].from \in Vehicles
        BY <2>3, <3>5 DEF FromSelf, Known, Senders
      <4> QED
        BY <2>1, <2>3, <3>3, <4>1, <4>2 DEF InBuffer, InHand
    <3> QED
      BY <3>4, <3>5
  <2> QED
    BY <2>2, <2>3
<1>7. CASE ReadCopied(s)
  <2>1. ~overwritten["unicast"] /\ UNCHANGED completed
    BY <1>7 DEF ReadCopied
  <2>2. CASE s # "unicast"
    <3>1. /\ io'["unicast"] = io["unicast"] /\ message'["unicast"] = message["unicast"]
          /\ rx_buffer'["unicast"] = rx_buffer["unicast"]
      BY <1>1, <1>7, <2>2 DEF ReadCopied, UdpTypeOK
    <3> QED
      BY <2>1, <3>1 DEF Intact, InBuffer, InHand
  <2>3. CASE s = "unicast"
    <3>1. completed[s] = <<>> /\ message[s].data = rx_buffer[s]
      BY <1>7, <2>1, <2>3 DEF ReadCopied, Intact, InBuffer
    <3>2. message' = [message EXCEPT ![s].data = message[s].data] /\ io'[s] = "rearm"
      BY <1>1, <1>7, <3>1 DEF ReadCopied
    <3>3. message'[s].data = message[s].data /\ message'[s].size = message[s].size
      BY <3>2 DEF UdpTypeOK
    <3> QED
      BY <1>7, <2>1, <2>3, <3>1, <3>2, <3>3 DEF ReadCopied, Intact, InBuffer, InHand
  <2> QED
    BY <2>2, <2>3
<1>8. CASE ReadEnd(s)
  <2>1. /\ io[s] = "rearm" /\ UNCHANGED message
        /\ io'[s] = IF message[s] = NoMessage THEN "run" ELSE "up"
        /\ \A t \in Sockets \ {s} : io'[t] = io[t]
    BY <1>1, <1>8 DEF ReadEnd
  <2>2. ~overwritten["unicast"] /\ InBuffer'
    BY <1>1, <1>8, <2>1, BufferStarts DEF ReadEnd
  <2> QED
    BY <1>1, <2>1, <2>2 DEF Intact, InHand
<1>9. CASE GoesUp(s)
  <2>1. ~overwritten["unicast"] /\ UNCHANGED <<completed, rx_buffer>> /\ io[s] \in {"up", "handle"}
    BY <1>9 DEF GoesUp
  <2>2. CASE s # "unicast"
    <3>1. io'["unicast"] = io["unicast"] /\ message'["unicast"] = message["unicast"]
      BY <1>1, <1>9, <2>2 DEF GoesUp, Done, Goto, UdpTypeOK
    <3> QED
      BY <2>1, <3>1 DEF Intact, InBuffer, InHand
  <2>3. CASE s = "unicast"
    <3>1. io'[s] = "run"
      BY <1>1, <1>9, <2>3 DEF GoesUp, Done, Goto
    <3> QED
      BY <2>1, <2>3, <3>1 DEF Intact, InBuffer, InHand
  <2> QED
    BY <2>2, <2>3
<1>10. CASE ReceiveFails(s)
  <2>1. UNCHANGED <<io, message, completed>>
    BY <1>10 DEF ReceiveFails
  <2>2. /\ overwritten'["unicast"] = overwritten["unicast"]
        /\ rx_buffer'["unicast"] = rx_buffer["unicast"]
    <3>1. /\ \/ rx_buffer' = rx_buffer /\ overwritten' = overwritten
             \/ overwritten'[s] = TRUE
          /\ \A t \in Sockets \ {s} :
                rx_buffer'[t] = rx_buffer[t] /\ overwritten'[t] = overwritten[t]
      BY <1>10, Failing, ZenonT(60)
    <3> QED
      BY <1>1, <3>1
  <2> QED
    BY <1>2, <2>1, <2>2 DEF Intact, InBuffer
<1> QED
  BY <1>3, <1>4, <1>5, <1>6, <1>7, <1>8, <1>9, <1>10 DEF UdpStep

\* A step keeps everything intact as long as it overwrites no datagram.
LEMMA IntactKept ==
  DiscoveryTypeOK /\ Reported /\ Known /\ Intact /\ [Next]_vars => Intact'
<1> SUFFICES ASSUME DiscoveryTypeOK, Reported, Known, Intact, [Next]_vars, ~overwritten'["unicast"]
             PROVE  ~overwritten["unicast"] /\ Intact'
  BY DEF Intact
<1>1. UdpTypeOK /\ "unicast" \in Sockets
  BY DEF DiscoveryTypeOK, Sockets
<1>2. CASE HandleMessageUnicast
  <2> DEFINE m == message["unicast"]
             taken == UdpHeader(Frame(m)) = "ok" /\ Accepting
  <2>1. /\ io["unicast"] = "up"
        /\ UNCHANGED <<completed, rx_buffer, overwritten, collection, result>>
        /\ IF taken THEN Goto("unicast", "handle") ELSE Done("unicast")
    BY <1>2 DEF HandleMessageUnicast
  <2>2. taken => m.data.type = "announcement"
    <3>1. Frame(m).pattern = "2019" /\ Frame(m).type = m.data.type
      BY DEF Frame
    <3> QED
      BY <3>1 DEF UdpHeader, ProcessDoIPHeader, UdpPayloadTypes
  <2> HIDE DEF taken
  <2>3. ~overwritten["unicast"]
    BY <2>1
  <2>4. /\ io'["unicast"] = "run" \/ (io'["unicast"] = "handle" /\ taken /\ message' = message)
    BY <1>1, <2>1 DEF Goto, Done, UdpTypeOK
  <2>5. InHand' /\ InBuffer'
    BY <2>1, <2>2, <2>3, <2>4 DEF Intact, InHand, InBuffer
  <2> QED
    BY <2>1, <2>3, <2>5 DEF Intact
<1>3. CASE ~HandleMessageUnicast
  <2>1. io'["unicast"] # "handle" \/ io["unicast"] = "handle"
    <3>1. CASE UNCHANGED udpVars
      BY <3>1 DEF udpVars, DiscoveryTypeOK
    <3>2. CASE StartBroadcast \/ StartUnicast
      BY <3>2 DEF StartBroadcast, StartUnicast, OpenSocket, OpenOk, OpenFailed
    <3>3. ASSUME NEW r \in Requests, HandleVehicleIdentificationRequest(r) \/ RequestInvalid(r)
          PROVE  UNCHANGED udpVars
      BY <3>3 DEF HandleVehicleIdentificationRequest, RequestInvalid
    <3>4. CASE Caller
      BY <3>4
         DEF Caller, Sending, SendVehicleIdentificationRequest, TransmitSent,
             SendVehicleIdentificationRequestFailed, TransmitRefused, ReceiveAnswers,
             TransmitReceive, CtrlTimeout, BackToIdle, Collecting, NoResponseReceived, CopyBegin,
             CopyEnd, Clear, udpVars
    <3>5. ASSUME NEW s \in Sockets, Executing(s)
          PROVE  io'["unicast"] # "handle" \/ io["unicast"] = "handle"
      <4>1. CASE Socket(s)
        BY <1>1, <4>1 DEF Socket, Reactor, ReadBegin, ReadCopied, ReadEnd, UdpTypeOK
      <4>2. CASE HandleMessageBroadcast \/ HandleMessage
        BY <1>1, <4>2 DEF HandleMessageBroadcast, HandleMessage, Done, UdpTypeOK
      <4> QED
        BY <1>3, <3>5, <4>1, <4>2 DEF Executing
    <3>6. CASE Network
      BY <3>6
         DEF Network, VehicleAnswers, VehicleRefuses, VehicleAnnounces, OtherClient, Datagrams,
             Arrives, ReceptionFails, ReceiveFails
    <3> QED
      BY <3>1, <3>2, <3>3, <3>4, <3>5, <3>6 DEF Next, vars
  <2>2. ~overwritten["unicast"] /\ InBuffer' /\ InHand'
    <3>1. CASE UNCHANGED udpVars
      BY <3>1 DEF udpVars, Intact, InBuffer, InHand
    <3>2. ASSUME NEW s \in Sockets, UdpStep(s) PROVE ~overwritten["unicast"] /\ InBuffer' /\ InHand'
      BY <1>1, <2>1, <3>2, SocketsIntact
    <3> QED
      BY <3>1, <3>2, UdpSteps
  <2>3. (\A e \in collection' : Genuine(e)) /\ (\A e \in result'.list : Genuine(e))
    <3>1. (\A e \in collection : Genuine(e)) /\ (\A e \in result.list : Genuine(e))
      BY <2>2 DEF Intact
    <3>2. CASE UNCHANGED <<collection, result>>
      BY <3>1, <3>2
    <3>3. CASE StartBroadcast \/ StartUnicast
      BY <3>2, <3>3 DEF StartBroadcast, StartUnicast
    <3>4. ASSUME NEW r \in Requests, HandleVehicleIdentificationRequest(r) \/ RequestInvalid(r)
          PROVE  UNCHANGED collection /\ result'.list = {}
      BY <3>4 DEF HandleVehicleIdentificationRequest, RequestInvalid
    <3>5. CASE Sending \/ ReceiveAnswers \/ CtrlTimeout \/ BackToIdle \/ CopyBegin
      BY <3>2, <3>5
         DEF Sending, SendVehicleIdentificationRequest, SendVehicleIdentificationRequestFailed,
             ReceiveAnswers, CtrlTimeout, BackToIdle, CopyBegin
    <3>6. CASE NoResponseReceived \/ Clear
      BY <3>1, <3>6 DEF NoResponseReceived, Clear
    <3>7. CASE CopyEnd
      <4>1. result'.list \subseteq collection /\ UNCHANGED collection
        BY <3>7 DEF CopyEnd, Reported
      <4> QED
        BY <3>1, <4>1
    <3>8. CASE HandleMessage
      <4> DEFINE m == message["unicast"]
                 late == window # requests \/ ~Accepting
      <4>1. PICK v \in Deserialized(m) :
               collection' =
                  IF \E e \in collection : e.address = v.address THEN collection
                  ELSE collection \cup {[address |-> v.address, from |-> v.from,
                                         window |-> window, late |-> late]}
        BY <3>8 DEF HandleMessage
      <4>2. m.data.from \in Vehicles /\ m.data.type = "announcement" /\ m.size = Bytes(m.data)
        BY <2>2, <3>8 DEF HandleMessage, Intact, InHand
      <4>3. m.data.from # Corrupt /\ ~(PayloadSize("kUdp", m.size) < 31)
        BY <4>2, DiscoveryAssumption
           DEF Bytes, kMaxUdpResSize, PayloadSize, PayloadOffset, kDoipHeaderSize
      <4>4. v = [address |-> Address(m.data.from), from |-> m.data.from]
        BY <4>3 DEF Deserialized
      <4> HIDE DEF late
      <4>5. \A e \in collection' : Genuine(e)
        BY <3>1, <4>1, <4>2, <4>4 DEF Genuine
      <4> QED
        BY <3>1, <3>8, <4>5 DEF HandleMessage
    <3>9. ASSUME NEW s \in Sockets, Executing(s), ~HandleMessage
          PROVE  UNCHANGED <<collection, result>>
      BY <3>9 DEF Executing, Socket, HandleMessageUnicast, HandleMessageBroadcast, discoveryVars
    <3>10. CASE Network
      BY <3>2, <3>10, NetworkLeaves
    <3> QED
      BY <3>1, <3>2, <3>3, <3>4, <3>5, <3>6, <3>7, <3>8, <3>9, <3>10
         DEF Next, vars, Caller, Collecting, discoveryVars
  <2> QED
    BY <2>2, <2>3 DEF Intact
<1> QED
  BY <1>2, <1>3

-----------------------------------------------------------------------------
(* The balance of the receives *)

\* A step keeps the receives in flight in balance with the sockets that are bound,
\* the requests that are out and the errors.
LEMMA BalanceKept ==
  DiscoveryTypeOK /\ Progress /\ ReceivesBalanced /\ [Next]_vars => ReceivesBalanced'
<1> SUFFICES ASSUME DiscoveryTypeOK, Progress, ReceivesBalanced, [Next]_vars PROVE ReceivesBalanced'
  OBVIOUS
<1>1. UdpTypeOK /\ "unicast" \in Sockets /\ "broadcast" \in Sockets
  BY DEF DiscoveryTypeOK, Sockets
<1>2. IsFiniteSet(sent) /\ Cardinality(sent) \in Nat /\ Sends \in Int
  <2>1. IsFiniteSet(1 .. MaxRequests)
    BY DiscoveryAssumption, FS_Interval
  <2>2. IsFiniteSet(sent) /\ Cardinality(sent) \in Nat
    BY <2>1, FS_Subset, FS_CardinalityType DEF DiscoveryTypeOK
  <2> QED
    BY <2>2 DEF Sends
<1>3. ASSUME \A t \in Sockets :
                ReceivesInFlight(t)' + failures'[t] = ReceivesInFlight(t) + failures[t],
             \A t \in Sockets : opened'[t] = "bound" <=> opened[t] = "bound",
             Sends' = Sends
      PROVE  ReceivesBalanced'
  BY <1>3 DEF ReceivesBalanced, ReceivesStarted
<1>4. ASSUME NEW s \in Sockets, OpenOk(s), UNCHANGED <<call, sent>> PROVE ReceivesBalanced'
  <2>1. /\ opened[s] = "closed" /\ opened'[s] = "bound" /\ UNCHANGED failures
        /\ \A t \in Sockets \ {s} : opened'[t] = opened[t]
    BY <1>1, <1>4 DEF OpenOk, UdpTypeOK
  <2>2. /\ ReceivesInFlight(s)' = ReceivesInFlight(s) + 1
        /\ \A t \in Sockets \ {s} : ReceivesInFlight(t)' = ReceivesInFlight(t)
    BY <1>1, <1>4, FlightStarts DEF OpenOk
  <2>3. Sends' = Sends
    BY <1>4 DEF Sends
  <2>4. \A t \in Sockets : ReceivesInFlight(t) \in Nat /\ failures[t] \in Nat
    BY <1>1, FlightCounts
  <2>5. ASSUME NEW t \in Sockets \ {s}
        PROVE  ReceivesInFlight(t)' + failures'[t] =
                  (IF opened'[t] = "bound" THEN 1 ELSE 0) + (IF t = "unicast" THEN Sends' ELSE 0)
    BY <2>1, <2>2, <2>3 DEF ReceivesBalanced, ReceivesStarted
  <2>6. ReceivesInFlight(s)' + failures'[s] =
           (IF opened'[s] = "bound" THEN 1 ELSE 0) + (IF s = "unicast" THEN Sends' ELSE 0)
    <3>1. ReceivesInFlight(s) + failures[s] = 0 + (IF s = "unicast" THEN Sends ELSE 0)
      BY <2>1 DEF ReceivesBalanced, ReceivesStarted
    <3> QED
      BY <1>2, <2>1, <2>2, <2>3, <2>4, <3>1
  <2> QED
    BY <2>5, <2>6 DEF ReceivesBalanced, ReceivesStarted
<1>5. CASE StartBroadcast \/ StartUnicast
  <2>1. PICK s \in Sockets : OpenSocket(s)
    BY <1>1, <1>5 DEF StartBroadcast, StartUnicast
  <2>2. UNCHANGED <<call, sent>>
    BY <1>5 DEF StartBroadcast, StartUnicast, historyVars
  <2>3. CASE OpenFailed(s)
    <3>1. \A t \in Sockets : ReceivesInFlight(t)' = ReceivesInFlight(t)
      BY <1>1, <2>3, FlightKept
    <3>2. UNCHANGED failures /\ \A t \in Sockets : opened'[t] = "bound" <=> opened[t] = "bound"
      BY <1>1, <2>3 DEF OpenFailed, UdpTypeOK
    <3> QED
      BY <1>3, <2>2, <3>1, <3>2 DEF Sends
  <2> QED
    BY <1>4, <2>1, <2>2, <2>3 DEF OpenSocket
<1>6. CASE SendVehicleIdentificationRequest
  <2>1. /\ call = "send" /\ call' = "receive" /\ sent' = sent \cup {requests}
        /\ TransmitSent("unicast")
    BY <1>6 DEF SendVehicleIdentificationRequest
  <2>2. Cardinality(sent') = Cardinality(sent) + 1
    BY <1>2, <2>1, FS_AddElement DEF Progress
  <2>3. Sends' = Sends
    BY <1>2, <2>1, <2>2 DEF Sends
  <2>4. \A t \in Sockets : ReceivesInFlight(t)' = ReceivesInFlight(t)
    BY <1>1, <2>1, FlightKept
  <2>5. UNCHANGED failures /\ \A t \in Sockets : opened'[t] = "bound" <=> opened[t] = "bound"
    BY <1>1, <2>1 DEF TransmitSent, UdpTypeOK
  <2> QED
    BY <1>3, <2>3, <2>4, <2>5
<1>7. CASE ReceiveAnswers
  <2>1. /\ call = "receive" /\ call' = "wait" /\ UNCHANGED <<sent, opened, io, failures>>
        /\ StartReceivingMessage("unicast")
    BY <1>7 DEF ReceiveAnswers, TransmitReceive, historyVars
  <2>2. Sends' = Sends + 1
    BY <1>2, <2>1 DEF Sends
  <2>3. /\ ReceivesInFlight("unicast")' = ReceivesInFlight("unicast") + 1
        /\ ReceivesInFlight("broadcast")' = ReceivesInFlight("broadcast")
    BY <1>1, <2>1, FlightStarts
  <2>4. \A t \in Sockets : ReceivesInFlight(t) \in Nat /\ failures[t] \in Nat
    BY <1>1, FlightCounts
  <2> QED
    BY <1>1, <1>2, <2>1, <2>2, <2>3, <2>4 DEF ReceivesBalanced, ReceivesStarted, Sockets
<1>8. ASSUME UNCHANGED <<udpVars, sent>>, call' = "receive" <=> call = "receive"
      PROVE  ReceivesBalanced'
  BY <1>3, <1>8 DEF udpVars, ReceivesInFlight, Sends
<1>9. ASSUME NEW r \in Requests, HandleVehicleIdentificationRequest(r) \/ RequestInvalid(r)
      PROVE  ReceivesBalanced'
  BY <1>8, <1>9 DEF HandleVehicleIdentificationRequest, RequestInvalid
<1>10. CASE \/ SendVehicleIdentificationRequestFailed \/ CtrlTimeout \/ BackToIdle
            \/ Collecting
  BY <1>8, <1>10
     DEF SendVehicleIdentificationRequestFailed, TransmitRefused, CtrlTimeout, BackToIdle,
         Collecting, NoResponseReceived, CopyBegin, CopyEnd, Clear, historyVars
<1>11. ASSUME NEW s \in Sockets, Executing(s) PROVE ReceivesBalanced'
  <2>1. Reactor(s) \/ ReadBegin(s) \/ ReadCopied(s) \/ ReadEnd(s) \/ GoesUp(s)
    BY <1>11
       DEF Executing, Socket, HandleMessageUnicast, HandleMessageBroadcast, HandleMessage, GoesUp
  <2>2. \A t \in Sockets : ReceivesInFlight(t)' = ReceivesInFlight(t)
    BY <1>1, <2>1, FlightKept
  <2>3. UNCHANGED <<opened, failures>>
    BY <2>1 DEF Reactor, ReadBegin, ReadCopied, ReadEnd, GoesUp
  <2>4. UNCHANGED <<call, sent>>
    BY <1>11
       DEF Executing, Socket, HandleMessageUnicast, HandleMessageBroadcast, HandleMessage,
           discoveryVars
  <2> QED
    BY <1>3, <2>2, <2>3, <2>4 DEF Sends
<1>12. CASE Network
  <2>1. UNCHANGED <<call, sent>>
    BY <1>12, NetworkLeaves
  <2>2. CASE UNCHANGED <<receives, completed, io, opened, failures>>
    BY <1>3, <2>1, <2>2 DEF ReceivesInFlight, Sends
  <2>3. ASSUME NEW s \in Sockets, ReceiveFails(s) PROVE ReceivesBalanced'
    <3>1. \A t \in Sockets :
             ReceivesInFlight(t)' + failures'[t] = ReceivesInFlight(t) + failures[t]
      BY <1>1, <2>3, FlightFails
    <3>2. UNCHANGED opened
      BY <2>3 DEF ReceiveFails
    <3> QED
      BY <1>3, <2>1, <3>1, <3>2 DEF Sends
  <2> QED
    BY <1>12, <2>2, <2>3
       DEF Network, VehicleAnswers, VehicleRefuses, VehicleAnnounces, OtherClient, Datagrams,
           Arrives, ReceptionFails
<1> QED
  BY <1>5, <1>6, <1>7, <1>8, <1>9, <1>10, <1>11, <1>12
     DEF Next, vars, Caller, Sending, discoveryVars

-----------------------------------------------------------------------------
(* The theorems *)

\* The invariant holds when the client starts.
LEMMA DiscoveryInitially == Init => DiscoveryInv
<1> SUFFICES ASSUME Init PROVE DiscoveryInv
  OBVIOUS
<1>1. UdpInit /\ "unicast" \in Sockets
  BY DEF Init, Sockets
<1>2. UdpTypeOK
  BY <1>1 DEF UdpInit, UdpTypeOK, NoMessage, NoDatagram, Datagram, kMaxUdpResSize
<1>3. DiscoveryTypeOK
  BY <1>2, DiscoveryAssumption
     DEF Init, DiscoveryTypeOK, VehicleIdentificationState, NoRequest, VehicleInfoResponseError
<1>4. Progress /\ Reported /\ Belonging
  BY DEF Init, Progress, Accepting, Reported, AddressesOf, Belonging, NoRequest
<1>5. Known /\ Intact
  BY <1>1
     DEF Init, UdpInit, Known, Intact, InBuffer, InHand, NoDatagram, NoMessage, Senders
<1>6. ReceivesBalanced
  <2>1. \A s \in Sockets : ReceivesInFlight(s) = 0 /\ failures[s] = 0 /\ opened[s] = "closed"
    BY <1>1 DEF UdpInit, ReceivesInFlight
  <2>2. Sends = 0
    BY FS_EmptySet DEF Init, Sends
  <2> QED
    BY <2>1, <2>2 DEF ReceivesBalanced, ReceivesStarted
<1> QED
  BY <1>3, <1>4, <1>5, <1>6 DEF DiscoveryInv

\* DiscoveryInv is an invariant of the search for vehicles.
THEOREM DiscoveryInvariant == Spec => []DiscoveryInv
<1>1. DiscoveryInv /\ [Next]_vars => DiscoveryInv'
  BY TypesKept, ProgressKept, ReportedKept, BelongingKept, KnownKept, IntactKept, BalanceKept
     DEF DiscoveryInv
<1> QED
  BY <1>1, DiscoveryInitially, PTL DEF Spec

\* The variables keep their types; in particular the collection has one entry for
\* an address, whatever answers arrive.
THEOREM DiscoveryTypeCorrect == Spec => []DiscoveryTypeOK
<1>1. DiscoveryInv => DiscoveryTypeOK
  BY DEF DiscoveryInv
<1> QED
  BY <1>1, DiscoveryInvariant, PTL

\* A request goes out with as many bytes as its header says.
THEOREM LengthFieldCorrect == Spec => []LengthFieldIsTrue
<1>1. DiscoveryInv => LengthFieldIsTrue
  BY DEF DiscoveryInv, Progress, LengthFieldIsTrue
<1> QED
  BY <1>1, DiscoveryInvariant, PTL

\* A socket that was opened has exactly one receive in flight, the unicast socket
\* one more for every request that went out, less those that an error ended:
\* reception stops by errors only, and never grows by itself.
THEOREM ReceptionIsBalanced == Spec => []ReceivesBalanced
<1>1. DiscoveryInv => ReceivesBalanced
  BY DEF DiscoveryInv
<1> QED
  BY <1>1, DiscoveryInvariant, PTL

\* What is collected and reported is what one datagram of a vehicle brought,
\* unless a receive overwrote a datagram that was not copied.
THEOREM CollectionStaysIntact == Spec => []IntactUnlessOverwritten
<1>1. DiscoveryInv => IntactUnlessOverwritten
  BY DEF DiscoveryInv, Intact, Genuine, IntactUnlessOverwritten
<1> QED
  BY <1>1, DiscoveryInvariant, PTL

\* A call reports what its own window let in, what was still on its way when an
\* earlier window closed, and what came to a call that could not transmit.
THEOREM ReportsBelong == Spec => []ReportBelongsToCall
<1>1. DiscoveryInv => ReportBelongsToCall
  BY DEF DiscoveryInv, Belonging, Stray, ReportBelongsToCall
<1> QED
  BY <1>1, DiscoveryInvariant, PTL

\* A call that transmitted reports every address that was taken before its time
\* was up, although the collection is copied and cleared without the mutex.
THEOREM NoneInTimeIsLost == Spec => []InTimeIsReported
<1>1. DiscoveryInv => InTimeIsReported
  BY DEF DiscoveryInv, Reported, AddressesOf, InTimeIsReported
<1> QED
  BY <1>1, DiscoveryInvariant, PTL

\* An announcement that goes up while a call is in progress is taken: the handler's
\* state changes before the request is sent.
THEOREM AnswersAreTaken == Spec => AnswerIsTaken
<1>1. ASSUME DiscoveryInv, NEW n \in 1 .. MaxRequests, HandleMessageUnicast,
             message["unicast"].data.type = "announcement", call \in {"send", "receive", "wait"}
      PROVE  io'["unicast"] = "handle"
  <2> DEFINE m == message["unicast"]
  <2>1. /\ Frame(m).pattern = "2019" /\ Frame(m).type = "announcement" /\ Frame(m).length = 33
    BY <1>1 DEF Frame
  <2>2. UdpHeader(Frame(m)) = "ok"
    BY <2>1
       DEF UdpHeader, ProcessDoIPHeader, UdpPayloadTypes, UdpPayloadLengthOk, kUdpChannelLength
  <2>3. Accepting
    BY <1>1 DEF DiscoveryInv, Progress
  <2>4. Goto("unicast", "handle")
    BY <1>1, <2>2, <2>3 DEF HandleMessageUnicast
  <2> QED
    BY <1>1, <2>4 DEF Goto, DiscoveryInv, DiscoveryTypeOK, UdpTypeOK, Sockets
<1>2. DiscoveryInv /\ [Next]_vars =>
         [\A n \in 1 .. MaxRequests :
            /\ HandleMessageUnicast
            /\ message["unicast"].data.type = "announcement"
            /\ message["unicast"].data.answers = n
            /\ n = requests
            /\ call \in {"send", "receive", "wait"}
            => io'["unicast"] = "handle"]_vars
  BY <1>1
<1> QED
  BY <1>2, DiscoveryInvariant, PTL DEF Spec, AnswerIsTaken
=============================================================================
