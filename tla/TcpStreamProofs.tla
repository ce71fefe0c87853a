---------------------------- MODULE TcpStreamProofs ----------------------------
(***************************************************************************)
(* Proofs about the bytes of a connection, for any number of messages of   *)
(* any lengths: the types, and that the reader of a plain connection cuts  *)
(* the stream into the messages that were sent.                            *)
(*                                                                         *)
(* The argument.  Nothing in the stream marks where a message begins, so   *)
(* the invariant says it: there is a map from the messages to their        *)
(* offsets in what is under way (LaidOut), each message ends where the     *)
(* next begins, and the first that is not taken yet begins where the       *)
(* reader is.  A close, or a disconnect that overtakes data, cuts the      *)
(* stream off but moves no offset.  A reader that failed never reads again *)
(* (Halted), and one that ran out of stream has nothing left to read       *)
(* (Drained).                                                              *)
(***************************************************************************)
EXTENDS TcpStream, Integers, SequenceTheorems, TLAPS

-----------------------------------------------------------------------------
(* The inductive invariant *)

HistoryOK ==
    /\ sent \in [Ends -> Seq(Seq(Nat))]
    /\ taken \in [Ends -> Seq(Seq(Nat))]
    /\ handed \in [Ends -> SUBSET Nat]

\* Every message is as long as its header says.
WellFormed ==
    \A e \in Ends : \A k \in DOMAIN sent[e] :
        Len(sent[e][k]) >= kDoipheadrSize /\ Len(sent[e][k]) = kDoipheadrSize + LengthField(sent[e][k])

\* How far the two ends can be when the connection is plain.
Plain ==
    /\ connect \notin {"handshake", "close_notify"}
    /\ reader["client"] = "none" => connect = "no" /\ socket["client"] = "closed"
    /\ connect # "no" /\ socket["client"] = "closed" => closing["client"] # "no"
    /\ connect = "no" => socket["client"] \in {"closed", "open"}
    /\ connect # "no" => socket["client"] # "open"
    /\ socket["client"] \in {"shut", "reset"} => connect = "kDisconnected"
    /\ connect = "kDisconnected" => socket["client"] # "connected"
    /\ connect = "no" => ~running["client"] /\ reader["client"] \in {"none", "idle", "ended"}
    /\ \A e \in Ends : closing[e] # "no" => socket[e] = "closed" /\ reader[e] # "none"

-----------------------------------------------------------------------------

Cut(e) == closing[e] # "no" \/ closing[Peer(e)] # "no" \/ socket["client"] = "reset"

\* The message e's reader is at.
Current(e) == Len(taken[e]) + 1

\* The messages s from the f-th on in the units w: message k begins after at[k]
\* units, the f-th after origin ones.  Units that have been read already have
\* positions below 1, and units that a close has cut off have positions above the
\* length of w.
LaidOut(s, w, f, origin, at) ==
    /\ f <= Len(s) + 1
    /\ at[f] = origin
    /\ \A k \in f .. Len(s) : at[k + 1] = at[k] + Len(s[k])
    /\ \A j, k \in f .. Len(s) + 1 : j <= k => at[j] <= at[k]
    /\ Len(w) <= at[Len(s) + 1]
    /\ \A k \in f .. Len(s) : \A i \in 1 .. Len(s[k]) :
          at[k] + i \in 1 .. Len(w) => w[at[k] + i] = s[k][i]

\* Nothing has been cut off.
Entire(s, w, at) == Len(w) = at[Len(s) + 1]

Origin(e) == IF reader[e] = "payload" THEN 0 - kDoipheadrSize ELSE 0

\* The reader has the header of the current message.
HasHeader(e) ==
    reader[e] = "payload" =>
        /\ Current(e) <= Len(sent[Peer(e)])
        /\ \A i \in 1 .. kDoipheadrSize : message[e][i] = sent[Peer(e)][Current(e)][i]

Layout(e) ==
    /\ HasHeader(e)
    /\ \E at \in [Nat -> Int] :
          /\ LaidOut(sent[Peer(e)], wire[e], Current(e), Origin(e), at)
          /\ ~Cut(e) => Entire(sent[Peer(e)], wire[e], at)

\* Nothing is left to read, and nothing will come.
Drained(e) == Cut(e) /\ wire[e] = <<>> /\ reader[e] # "payload"

\* The reader will not read again.
Halted(e) ==
    \/ reader[e] = "store" /\ ~(Len(message[e]) > 0 /\ LengthField(message[e]) # 0)
    \/ reader[e] = "idle" /\ ~running[e] /\ (e = "client" => connect # "no")
    \/ reader[e] = "ended"

\* What the reader has taken.
Whole(e) ==
    \A i \in 1 .. Len(taken[e]) :
        /\ i <= Len(sent[Peer(e)])
        /\ \/ taken[e][i] = sent[Peer(e)][i]
           \/ i = Len(taken[e]) /\ Drained(e) /\ CutShort(taken[e][i], sent[Peer(e)][i])

Flowing(e) == Layout(e) \/ Drained(e) \/ Halted(e)

StreamInv ==
    /\ StreamTypeOK
    /\ HistoryOK
    /\ WellFormed
    /\ ~secure =>
          /\ Plain
          /\ \A e \in Ends : Flowing(e) /\ Whole(e)

-----------------------------------------------------------------------------
(* Sequences of units *)

\* A message is its header and a payload of the length in the header.
LEMMA MessageShape ==
  ASSUME NEW k \in Nat, NEW length \in Nat
  PROVE  /\ Message(k, length) \in Seq(Nat)
         /\ Len(Message(k, length)) = kDoipheadrSize + length
         /\ LengthField(Message(k, length)) = length
<1> DEFINE header == <<k, length>>
           payload == [i \in 1 .. length |-> k]
<1>1. header \in Seq(Nat) /\ Len(header) = 2 /\ header[2] = length
  OBVIOUS
<1>2. payload \in Seq(Nat) /\ Len(payload) = length
  OBVIOUS
<1> HIDE DEF header, payload
<1>3. /\ header \o payload \in Seq(Nat)
      /\ Len(header \o payload) = Len(header) + Len(payload)
      /\ \A i \in 1 .. Len(header) + Len(payload) :
            (header \o payload)[i] = IF i <= Len(header) THEN header[i] ELSE payload[i - Len(header)]
  BY <1>1, <1>2, ConcatProperties, Zenon
<1> QED
  BY <1>1, <1>2, <1>3 DEF Message, LengthField, kDoipheadrSize, header, payload

\* The first n units of a sequence, and the others.
LEMMA Splitting ==
  ASSUME NEW w \in Seq(Nat), NEW n \in 0 .. Len(w)
  PROVE  /\ SubSeq(w, 1, n) \in Seq(Nat)
         /\ Len(SubSeq(w, 1, n)) = n
         /\ \A i \in 1 .. n : SubSeq(w, 1, n)[i] = w[i]
         /\ SubSeq(w, n + 1, Len(w)) \in Seq(Nat)
         /\ Len(SubSeq(w, n + 1, Len(w))) = Len(w) - n
         /\ \A i \in 1 .. Len(w) - n : SubSeq(w, n + 1, Len(w))[i] = w[n + i]
<1>1. Len(w) \in Nat /\ n \in Nat
  OBVIOUS
<1>2. /\ SubSeq(w, 1, n) \in Seq(Nat)
      /\ Len(SubSeq(w, 1, n)) = n
      /\ \A i \in 1 .. n : SubSeq(w, 1, n)[i] = w[i]
  BY <1>1
<1>3. /\ SubSeq(w, n + 1, Len(w)) \in Seq(Nat)
      /\ Len(SubSeq(w, n + 1, Len(w))) = Len(w) - n
      /\ \A i \in 1 .. Len(w) - n : SubSeq(w, n + 1, Len(w))[i] = w[n + i]
  BY <1>1
<1> QED
  BY <1>2, <1>3

\* t is s with one more message u.
Extended(s, u, t) ==
    /\ Len(t) = Len(s) + 1 /\ t[Len(s) + 1] = u
    /\ \A i \in 1 .. Len(t) : i # Len(s) + 1 => i \in 1 .. Len(s) /\ t[i] = s[i]

\* Append makes it so.
LEMMA Extending ==
  ASSUME NEW s \in Seq(Seq(Nat)), NEW u \in Seq(Nat)
  PROVE  Extended(s, u, Append(s, u))
<1> DEFINE t == Append(s, u)
<1>1. /\ Len(s) \in Nat /\ Len(t) = Len(s) + 1 /\ t[Len(s) + 1] = u
      /\ \A i \in 1 .. Len(s) : t[i] = s[i]
  BY AppendProperties
<1> HIDE DEF t
<1>2. \A i \in 1 .. Len(s) + 1 : i # Len(s) + 1 => i \in 1 .. Len(s)
  BY <1>1
<1>3. Extended(s, u, t)
  BY <1>1, <1>2, Zenon DEF Extended
<1> QED
  BY <1>3 DEF t

\* What Read makes of a header h, the first m units of w, and n - m that did not come.
Assembled(h, w, n, m) == h \o SubSeq(w, 1, m) \o [i \in 1 .. n - m |-> 0]

\* Such units, described one by one.
ReadsAs(units, h, w, n, m) ==
    /\ units \in Seq(Nat)
    /\ Len(units) = kDoipheadrSize + n
    /\ \A i \in 1 .. kDoipheadrSize + n :
          units[i] = IF i <= kDoipheadrSize THEN h[i]
                     ELSE IF i <= kDoipheadrSize + m THEN w[i - kDoipheadrSize] ELSE 0

\* Put together, header and payload are units that read so.
LEMMA Assembling ==
  ASSUME NEW h \in Seq(Nat), Len(h) = kDoipheadrSize, NEW w \in Seq(Nat),
         NEW n \in Nat, NEW m \in 0 .. Len(w), m <= n
  PROVE  ReadsAs(Assembled(h, w, n, m), h, w, n, m)
<1> DEFINE t == SubSeq(w, 1, m)
           z == [i \in 1 .. n - m |-> 0]
<1>1. t \in Seq(Nat) /\ Len(t) = m /\ \A i \in 1 .. m : t[i] = w[i]
  BY Splitting
<1>2. z \in Seq(Nat) /\ Len(z) = n - m /\ \A i \in 1 .. n - m : z[i] = 0
  OBVIOUS
<1> HIDE DEF t, z
<1>3. /\ h \o t \in Seq(Nat)
      /\ Len(h \o t) = Len(h) + Len(t)
      /\ \A i \in 1 .. Len(h) + Len(t) : (h \o t)[i] = IF i <= Len(h) THEN h[i] ELSE t[i - Len(h)]
  BY <1>1, ConcatProperties, Zenon
<1> DEFINE u == h \o t
<1> HIDE DEF u
<1>4. u \in Seq(Nat)
  BY <1>3 DEF u
<1>5. /\ u \o z \in Seq(Nat)
      /\ Len(u \o z) = Len(u) + Len(z)
      /\ \A i \in 1 .. Len(u) + Len(z) : (u \o z)[i] = IF i <= Len(u) THEN u[i] ELSE z[i - Len(u)]
  BY <1>2, <1>4, ConcatProperties, Zenon
<1> DEFINE v == u \o z
<1> HIDE DEF v
<1>6. /\ Len(u) = kDoipheadrSize + m /\ m \in Nat
      /\ \A i \in 1 .. kDoipheadrSize + m :
            u[i] = IF i <= kDoipheadrSize THEN h[i] ELSE w[i - kDoipheadrSize]
  BY <1>1, <1>3, SMTT(60) DEF u, kDoipheadrSize
<1>7. v \in Seq(Nat) /\ Len(v) = kDoipheadrSize + n
  BY <1>2, <1>5, <1>6 DEF v, kDoipheadrSize
<1>8. ASSUME NEW i \in 1 .. kDoipheadrSize + n
      PROVE  v[i] = IF i <= kDoipheadrSize THEN h[i]
                    ELSE IF i <= kDoipheadrSize + m THEN w[i - kDoipheadrSize] ELSE 0
  <2>6. i \in 1 .. Len(u) + Len(z)
    BY <1>2, <1>6 DEF kDoipheadrSize
  <2>1. v[i] = IF i <= Len(u) THEN u[i] ELSE z[i - Len(u)]
    BY <1>5, <2>6, Zenon DEF v
  <2>2. i <= Len(u) => i \in 1 .. kDoipheadrSize + m
    BY <1>6 DEF kDoipheadrSize
  <2>3. ~(i <= Len(u)) => i - Len(u) \in 1 .. n - m
    BY <1>6 DEF kDoipheadrSize
  <2>4. CASE i <= Len(u)
    BY <1>6, <2>1, <2>2, <2>4 DEF kDoipheadrSize
  <2>5. CASE ~(i <= Len(u))
    BY <1>2, <1>6, <2>1, <2>3, <2>5 DEF kDoipheadrSize
  <2> QED
    BY <2>4, <2>5
<1>9. v = Assembled(h, w, n, m)
  BY DEF v, u, t, z, Assembled
<1> QED
  BY <1>7, <1>8, <1>9 DEF ReadsAs

-----------------------------------------------------------------------------
(* Types *)

\* What is left after either stream or both have been cut off.
LEMMA WiresCut ==
  ASSUME StreamTypeOK
  PROVE  /\ \A e \in Ends : \A n \in 0 .. Len(wire[e]) :
               [wire EXCEPT ![e] = Take(e, n)] \in [Ends -> Seq(Nat)]
         /\ \A n \in 0 .. Len(wire["client"]), k \in 0 .. Len(wire["server"]) :
               [wire EXCEPT !["client"] = Take("client", n), !["server"] = Take("server", k)]
                  \in [Ends -> Seq(Nat)]
<1>1. wire \in [Ends -> Seq(Nat)] /\ "client" \in Ends /\ "server" \in Ends
  BY DEF StreamTypeOK, Ends
<1>2. ASSUME NEW e \in Ends, NEW n \in 0 .. Len(wire[e]) PROVE Take(e, n) \in Seq(Nat)
  BY <1>1, Splitting DEF Take
<1>3. ASSUME NEW x \in Seq(Nat), NEW y \in Seq(Nat)
      PROVE  /\ \A e \in Ends : [wire EXCEPT ![e] = x] \in [Ends -> Seq(Nat)]
             /\ [wire EXCEPT !["client"] = x, !["server"] = y] \in [Ends -> Seq(Nat)]
  <2> DEFINE w == [wire EXCEPT !["client"] = x]
  <2>1. w \in [Ends -> Seq(Nat)]
    BY <1>1
  <2> HIDE DEF w
  <2>2. [w EXCEPT !["server"] = y] \in [Ends -> Seq(Nat)]
    BY <1>1, <2>1
  <2> QED
    BY <1>1, <2>2 DEF w
<1> QED
  BY <1>1, <1>2, <1>3

\* A step keeps all variables in their types.
LEMMA TypesKept ==
  StreamTypeOK /\ HistoryOK /\ [Next]_vars => StreamTypeOK' /\ HistoryOK'
<1> SUFFICES ASSUME StreamTypeOK, HistoryOK, [Next]_vars PROVE StreamTypeOK' /\ HistoryOK'
  OBVIOUS
<1> USE DEF StreamTypeOK, HistoryOK, threadVars, historyVars
<1>1. "client" \in Ends /\ "server" \in Ends /\ \A e \in Ends : Peer(e) \in Ends
  BY DEF Ends, Peer
<1>2. CASE UNCHANGED vars
  BY <1>2 DEF vars
<1>3. CASE ClientInitialize \/ AcceptPlain \/ SetReadHandler \/ ServerInitialize
  <2>1. CASE ClientInitialize
    BY <1>1, <2>1 DEF ClientInitialize
  <2>2. CASE AcceptPlain
    BY <1>1, <2>2 DEF AcceptPlain
  <2>3. CASE SetReadHandler
    BY <1>1, <2>3 DEF SetReadHandler
  <2>4. CASE ServerInitialize
    BY <1>1, <2>4 DEF ServerInitialize
  <2> QED
    BY <1>3, <2>1, <2>2, <2>3, <2>4
<1>4. CASE ConnectToHost \/ Handshake
  BY <1>1, <1>4, ZenonT(60) DEF ConnectToHost, Handshake, Connected, StartClientReading
<1>5. CASE DisconnectFromHost
  BY <1>1, <1>5 DEF DisconnectFromHost
<1>15. CASE SocketDisconnect
  <2>1. connect' \in {"close_notify", "kDisconnected"}
    BY <1>15 DEF SocketDisconnect, TcpDisconnect, TlsDisconnect, TlsDisconnected
  <2>2. /\ \/ socket' = socket
           \/ \E v \in {"shut", "reset"} : socket' = [socket EXCEPT !["client"] = v]
        /\ \/ wire' = wire
           \/ \E n \in 0 .. Len(wire["client"]) :
                 wire' = [wire EXCEPT !["client"] = Take("client", n)]
           \/ \E n \in 0 .. Len(wire["client"]), k \in 0 .. Len(wire["server"]) :
                 wire' = [wire EXCEPT !["client"] = Take("client", n), !["server"] = Take("server", k)]
        /\ UNCHANGED <<secure, handler, threadVars, closing, terminated, historyVars>>
    BY <1>15, Zenon DEF SocketDisconnect, TcpDisconnect, TlsDisconnect, TlsDisconnected
  <2>3. wire' \in [Ends -> Seq(Nat)]
    <3>1. wire \in [Ends -> Seq(Nat)]
      OBVIOUS
    <3> QED
      <4>1. CASE \E n \in 0 .. Len(wire["client"]) :
                    wire' = [wire EXCEPT !["client"] = Take("client", n)]
        <5>1. PICK n \in 0 .. Len(wire["client"]) :
                 wire' = [wire EXCEPT !["client"] = Take("client", n)]
          BY <4>1
        <5> QED
          BY <1>1, <5>1, WiresCut
      <4>2. CASE \E n \in 0 .. Len(wire["client"]), k \in 0 .. Len(wire["server"]) :
                    wire' = [wire EXCEPT !["client"] = Take("client", n),
                                         !["server"] = Take("server", k)]
        <5>1. PICK n \in 0 .. Len(wire["client"]), k \in 0 .. Len(wire["server"]) :
                 wire' = [wire EXCEPT !["client"] = Take("client", n),
                                      !["server"] = Take("server", k)]
          BY <4>2
        <5> QED
          BY <5>1, WiresCut
      <4> QED
        BY <2>2, <3>1, <4>1, <4>2
  <2>4. socket' \in [Ends -> {"closed", "open", "connected", "shut", "reset"}]
    BY <1>1, <2>2
  <2> QED
    BY <2>1, <2>2, <2>3, <2>4
<1>6. ASSUME NEW e \in Ends, ReaderWakes(e) PROVE StreamTypeOK' /\ HistoryOK'
  BY <1>6 DEF ReaderWakes, Goto
<1>7. ASSUME NEW e \in Ends, ReadHeader(e) PROVE StreamTypeOK' /\ HistoryOK'
  <2>1. /\ Take(e, kDoipheadrSize) \in Seq(Nat) /\ Len(Take(e, kDoipheadrSize)) = kDoipheadrSize
        /\ Rest(e, kDoipheadrSize) \in Seq(Nat)
    <3>1. wire[e] \in Seq(Nat) /\ 2 \in 0 .. Len(wire[e])
      BY <1>7 DEF ReadHeader, kDoipheadrSize
    <3> QED
      BY <3>1, Splitting DEF Take, Rest, kDoipheadrSize
  <2> QED
    BY <1>7, <2>1 DEF ReadHeader, Goto
<1>8. ASSUME NEW e \in Ends, ReadFails(e) PROVE StreamTypeOK' /\ HistoryOK'
  BY <1>8 DEF ReadFails, Goto
<1>9. ASSUME NEW e \in Ends, ReadPayload(e) PROVE StreamTypeOK' /\ HistoryOK'
  <2> DEFINE n == BytesToRead(e)
             m == AtMost(n, Len(wire[e]))
             units == message[e] \o Take(e, m) \o [i \in 1 .. n - m |-> 0]
  <2>1. wire[e] \in Seq(Nat) /\ message[e] \in Seq(Nat) /\ Len(message[e]) = kDoipheadrSize
    BY <1>9 DEF ReadPayload
  <2>2. n \in Nat /\ m \in 0 .. Len(wire[e]) /\ m <= n
    <3>1. LengthField(message[e]) \in Nat
      <4>1. kDoipheadrSize \in 1 .. Len(message[e])
        BY <2>1 DEF kDoipheadrSize
      <4> QED
        BY <2>1, <4>1, ElementOfSeq, Zenon DEF LengthField
    <3>2. n \in Nat /\ Len(wire[e]) \in Nat
      BY <2>1, <3>1 DEF BytesToRead
    <3> HIDE DEF n
    <3> QED
      BY <3>2 DEF AtMost
  <2>3. units \in Seq(Nat)
    <3>1. units = Assembled(message[e], wire[e], n, m)
      BY DEF Assembled, Take
    <3> HIDE DEF n, m, units
    <3> QED
      BY <2>1, <2>2, <3>1, Assembling, Zenon DEF ReadsAs
  <2>4. Rest(e, m) \in Seq(Nat)
    BY <2>1, <2>2, Splitting DEF Rest
  <2>5. /\ message' = [message EXCEPT ![e] = units]
        /\ taken' = [taken EXCEPT ![e] = Append(@, units)]
        /\ wire' = [wire EXCEPT ![e] = Rest(e, m)]
        /\ handed' = Handed(e)
        /\ reader' = [reader EXCEPT ![e] = "store"]
        /\ UNCHANGED <<secure, socket, connect, handler, running, exit_request, closing,
                       terminated, sent>>
    BY <1>9 DEF ReadPayload, Goto
  <2> HIDE DEF n, m, units
  <2>6. /\ taken' \in [Ends -> Seq(Seq(Nat))]
        /\ Len(taken'[e]) = Len(taken[e]) + 1 /\ Len(taken[e]) \in Nat
        /\ \A d \in Ends \ {e} : taken'[d] = taken[d]
    BY <2>3, <2>5, AppendProperties
  <2>7. /\ handed' \in [Ends -> SUBSET Nat]
        /\ \A d \in Ends : handed'[d] \subseteq 1 .. Len(taken'[d])
    BY <2>5, <2>6 DEF Handed
  <2> QED
    BY <2>3, <2>4, <2>5, <2>6, <2>7
<1>10. ASSUME NEW e \in Ends, ReadThrows(e) \/ TransmitThrows(e) \/ CloseTerminates(e)
       PROVE  StreamTypeOK' /\ HistoryOK'
  BY <1>10 DEF ReadThrows, TransmitThrows, CloseTerminates, Terminate
<1>11. ASSUME NEW e \in Ends, StoreRunning(e) PROVE StreamTypeOK' /\ HistoryOK'
  <2> DEFINE good == Len(message[e]) > 0 /\ LengthField(message[e]) # 0
  <2>1. good \in BOOLEAN /\ running' = [running EXCEPT ![e] = good]
    BY <1>11 DEF StoreRunning
  <2> HIDE DEF good
  <2> QED
    BY <1>11, <2>1 DEF StoreRunning, Goto
<1>12. ASSUME NEW e \in Ends, CloseSocket(e) PROVE StreamTypeOK' /\ HistoryOK'
  <2>1. PICK n \in 0 .. Len(wire[Peer(e)]) :
           wire' = [wire EXCEPT ![Peer(e)] = Take(Peer(e), n), ![e] = <<>>]
    BY <1>12 DEF CloseSocket
  <2>2. Take(Peer(e), n) \in Seq(Nat)
    BY <1>1, Splitting DEF Take
  <2>3. wire' \in [Ends -> Seq(Nat)]
    <3> DEFINE w == [wire EXCEPT ![Peer(e)] = Take(Peer(e), n)]
    <3>1. w \in [Ends -> Seq(Nat)]
      BY <1>1, <2>2
    <3>2. wire' = [w EXCEPT ![e] = <<>>]
      BY <2>1
    <3> HIDE DEF w
    <3> QED
      BY <3>1, <3>2
  <2> QED
    BY <1>12, <2>3 DEF CloseSocket
<1>13. ASSUME NEW e \in Ends, RequestExit(e) \/ JoinThread(e) PROVE StreamTypeOK' /\ HistoryOK'
  BY <1>13 DEF RequestExit, JoinThread
<1>14. ASSUME NEW e \in Ends, NEW length \in Lengths, Transmit(e, length)
       PROVE  StreamTypeOK' /\ HistoryOK'
  <2> DEFINE units == Message(Len(sent[e]) + 1, length)
  <2>1. units \in Seq(Nat)
    BY MessageShape, StreamAssumption
  <2>2. /\ \/ wire' = wire
           \/ wire' = [wire EXCEPT ![Peer(e)] = wire[Peer(e)] \o units]
           \/ Reset
        /\ sent' = [sent EXCEPT ![e] = Append(@, units)]
    BY <1>1, <1>14 DEF Transmit
  <2> HIDE DEF units
  <2>3. wire[Peer(e)] \o units \in Seq(Nat)
    BY <1>1, <2>1, ConcatProperties
  <2>4. sent' \in [Ends -> Seq(Seq(Nat))]
    BY <2>1, <2>2, AppendProperties
  <2>5. wire' \in [Ends -> Seq(Nat)]
    <3>1. wire \in [Ends -> Seq(Nat)]
      OBVIOUS
    <3>2. CASE Reset
      <4>1. PICK n \in 0 .. Len(wire["server"]) :
               wire' = [wire EXCEPT !["server"] = Take("server", n)]
        BY <3>2 DEF Reset
      <4> QED
        BY <1>1, <4>1, WiresCut
    <3>3. CASE wire' = [wire EXCEPT ![Peer(e)] = wire[Peer(e)] \o units]
      BY <1>1, <2>3, <3>1, <3>3
    <3> QED
      BY <2>2, <3>1, <3>2, <3>3
  <2>6. /\ socket' \in [Ends -> {"closed", "open", "connected", "shut", "reset"}]
        /\ UNCHANGED <<secure, connect, handler, threadVars, closing, terminated, taken, handed>>
    <3>1. /\ socket' = socket \/ socket' = [socket EXCEPT !["client"] = "reset"]
          /\ UNCHANGED <<secure, connect, handler, threadVars, closing, terminated, taken, handed>>
      BY <1>14, Zenon DEF Transmit, Reset
    <3> QED
      BY <1>1, <3>1
  <2> QED
    BY <2>4, <2>5, <2>6
<1> QED
  BY <1>15, <1>2, <1>3, <1>4, <1>5, <1>6, <1>7, <1>8, <1>9, <1>10, <1>11, <1>12, <1>13, <1>14
     DEF Next, ReaderStep

\* Messages are written with the length that is in their header.
LEMMA WellFormedKept == HistoryOK /\ WellFormed /\ [Next]_vars => WellFormed'
<1> SUFFICES ASSUME HistoryOK, WellFormed, [Next]_vars PROVE WellFormed'
  OBVIOUS
<1>1. CASE UNCHANGED sent
  BY <1>1 DEF WellFormed
<1>2. ASSUME NEW e \in Ends, NEW length \in Lengths, Transmit(e, length) PROVE WellFormed'
  <2> DEFINE units == Message(Len(sent[e]) + 1, length)
  <2>1. /\ units \in Seq(Nat) /\ Len(units) = kDoipheadrSize + length
        /\ LengthField(units) = length /\ length \in Nat
    <3>1. Len(sent[e]) + 1 \in Nat /\ length \in Nat
      BY StreamAssumption DEF HistoryOK
    <3> QED
      BY <3>1, MessageShape
  <2>2. sent' = [sent EXCEPT ![e] = Append(@, units)]
    BY <1>2 DEF Transmit
  <2> HIDE DEF units
  <2>3. ASSUME NEW k \in DOMAIN sent'[e]
        PROVE  sent'[e][k] = units \/ (k \in DOMAIN sent[e] /\ sent'[e][k] = sent[e][k])
    BY <2>1, <2>2, AppendProperties, SMTT(60) DEF HistoryOK
  <2> QED
    BY <2>1, <2>2, <2>3, SMTT(60) DEF WellFormed, HistoryOK, kDoipheadrSize
<1> QED
  BY <1>1, <1>2, ZenonT(60)
     DEF Next, vars, historyVars, ClientInitialize, ConnectToHost, AcceptPlain, Handshake,
         ServerInitialize, SetReadHandler, DisconnectFromHost, SocketDisconnect, TcpDisconnect,
         TlsDisconnect, TlsDisconnected, ReaderStep, ReaderWakes, ReadHeader, ReadFails,
         ReadPayload, ReadThrows, StoreRunning, TransmitThrows, CloseSocket,
         CloseTerminates, Terminate, RequestExit, JoinThread

-----------------------------------------------------------------------------
(* Plain connections *)

\* A connection stays plain.
LEMMA SecureStays == [Next]_vars => UNCHANGED secure
BY ZenonT(60) DEF Next, vars, ClientInitialize, ConnectToHost, AcceptPlain, Handshake,
       ServerInitialize, SetReadHandler, DisconnectFromHost, SocketDisconnect, TcpDisconnect,
       TlsDisconnect, TlsDisconnected, ReaderStep, ReaderWakes, ReadHeader, ReadFails,
       ReadPayload, ReadThrows, StoreRunning, TransmitThrows, Transmit, CloseSocket,
       CloseTerminates, Terminate, RequestExit, JoinThread

\* A step keeps the ends of a plain connection in step.
LEMMA PlainKept == StreamTypeOK /\ Plain /\ ~secure /\ [Next]_vars => Plain'
<1> SUFFICES ASSUME StreamTypeOK, Plain, ~secure, [Next]_vars PROVE Plain'
  OBVIOUS
<1> USE DEF Plain, threadVars
<1>1. /\ "client" \in Ends /\ "server" \in Ends
      /\ socket \in [Ends -> {"closed", "open", "connected", "shut", "reset"}]
      /\ reader \in [Ends -> {"none", "idle", "read", "payload", "store", "ended"}]
      /\ closing \in [Ends -> {"no", "exit", "join", "joined"}]
      /\ running \in [Ends -> BOOLEAN]
  BY DEF Ends, StreamTypeOK
<1>2. CASE UNCHANGED <<connect, running, reader, closing, socket>>
  BY <1>2
<1>3. CASE ClientInitialize
  BY <1>1, <1>3 DEF ClientInitialize
<1>4. CASE ConnectToHost
  BY <1>1, <1>4 DEF ConnectToHost, Connected
<1>5. CASE AcceptPlain \/ Handshake \/ SetReadHandler
  BY <1>1, <1>5 DEF AcceptPlain, Handshake, Connected, SetReadHandler
<1>6. CASE ServerInitialize
  BY <1>1, <1>6 DEF ServerInitialize
<1>7. CASE DisconnectFromHost
  BY <1>1, <1>7 DEF DisconnectFromHost
<1>15. CASE SocketDisconnect
  BY <1>1, <1>15 DEF SocketDisconnect, TcpDisconnect, TlsDisconnect, TlsDisconnected
<1>8. ASSUME NEW e \in Ends, ReaderWakes(e) PROVE Plain'
  BY <1>1, <1>8 DEF ReaderWakes, Goto
<1>9. ASSUME NEW e \in Ends, ReadHeader(e) \/ ReadFails(e) \/ ReadPayload(e) PROVE Plain'
  <2>1. /\ reader[e] \in {"read", "payload"} /\ UNCHANGED <<connect, running, closing, socket>>
        /\ \E location \in {"payload", "store"} : reader' = [reader EXCEPT ![e] = location]
    BY <1>9 DEF ReadHeader, ReadFails, ReadPayload, Goto
  <2> QED
    BY <1>1, <2>1
<1>10. ASSUME NEW e \in Ends, StoreRunning(e) PROVE Plain'
  <2>1. /\ reader[e] = "store" /\ UNCHANGED <<connect, closing, socket>>
        /\ reader' = [reader EXCEPT ![e] = "idle"]
        /\ \A d \in Ends \ {e} : running'[d] = running[d]
    BY <1>1, <1>10 DEF StoreRunning, Goto
  <2> QED
    BY <1>1, <2>1
<1>11. ASSUME NEW e \in Ends, ReadThrows(e) \/ TransmitThrows(e) \/ CloseTerminates(e) PROVE Plain'
  BY <1>2, <1>11 DEF ReadThrows, TransmitThrows, CloseTerminates, Terminate
<1>12. ASSUME NEW e \in Ends, CloseSocket(e) PROVE Plain'
  BY <1>1, <1>12 DEF CloseSocket
<1>13. ASSUME NEW e \in Ends, RequestExit(e) \/ JoinThread(e) PROVE Plain'
  BY <1>1, <1>13 DEF RequestExit, JoinThread
<1>14. ASSUME NEW e \in Ends, NEW length \in Lengths, Transmit(e, length) PROVE Plain'
  <2>1. /\ UNCHANGED <<connect, running, reader, closing>>
        /\ \/ socket' = socket
           \/ /\ socket' = [socket EXCEPT !["client"] = "reset"]
              /\ socket[Peer(e)] = "shut" /\ ~Arrives(e)
    BY <1>14, Zenon DEF Transmit, Reset
  <2>2. CASE socket' = socket
    BY <1>2, <2>1, <2>2
  <2>3. CASE socket' # socket
    <3>1. socket["client"] = "shut"
      BY <1>1, <2>1, <2>3 DEF Peer, Ends, Arrives
    <3>2. /\ socket'["client"] = "reset" /\ UNCHANGED <<connect, running, reader, closing>>
          /\ \A d \in Ends : d # "client" => socket'[d] = socket[d]
      BY <1>1, <2>1, <2>3
    <3> QED
      BY <1>1, <3>1, <3>2
  <2> QED
    BY <2>2, <2>3
<1> QED
  BY <1>15, <1>2, <1>3, <1>4, <1>5, <1>6, <1>7, <1>8, <1>9, <1>10, <1>11, <1>12, <1>13, <1>14
     DEF Next, vars, ReaderStep

-----------------------------------------------------------------------------
(* Layouts *)

\* The numbers a layout is made of.
LEMMA LayoutTypes ==
  ASSUME NEW s \in Seq(Seq(Nat)), NEW f \in Nat \ {0}, NEW at \in [Nat -> Int]
  PROVE  /\ Len(s) \in Nat /\ at[Len(s) + 1] \in Int
         /\ \A k \in f .. Len(s) : k \in Nat /\ k + 1 \in Nat /\ Len(s[k]) \in Nat
         /\ \A k \in f .. Len(s) + 1 : k \in Nat /\ at[k] \in Int
OBVIOUS

\* Units v that agree with w as far as they go have the same layout, cut off there.
LEMMA LayoutCut ==
  ASSUME NEW s \in Seq(Seq(Nat)), NEW w \in Seq(Nat), NEW v \in Seq(Nat), NEW f \in Nat \ {0},
         NEW origin \in Int, NEW at \in [Nat -> Int], LaidOut(s, w, f, origin, at),
         Len(v) <= Len(w), \A i \in 1 .. Len(v) : v[i] = w[i]
  PROVE  LaidOut(s, v, f, origin, at)
<1>1. Len(s) \in Nat /\ Len(w) \in Nat /\ Len(v) \in Nat /\ at[Len(s) + 1] \in Int
  OBVIOUS
<1>2. Len(v) <= at[Len(s) + 1]
  BY <1>1 DEF LaidOut
<1>3. ASSUME NEW k \in f .. Len(s), NEW i \in 1 .. Len(s[k]), at[k] + i \in 1 .. Len(v)
      PROVE  v[at[k] + i] = s[k][i]
  <2>1. at[k] + i \in 1 .. Len(w)
    BY <1>1, <1>3, SMTT(60)
  <2> QED
    BY <1>3, <2>1 DEF LaidOut
<1> QED
  BY <1>2, <1>3 DEF LaidOut

\* Offsets moved by n.
LEMMA Shifting ==
  ASSUME NEW at \in [Nat -> Int], NEW n \in Nat
  PROVE  \E b \in [Nat -> Int] : \A k \in Nat : at[k] \in Int /\ b[k] \in Int /\ b[k] = at[k] - n
<1> DEFINE b == [k \in Nat |-> at[k] - n]
<1>1. b \in [Nat -> Int] /\ \A k \in Nat : at[k] \in Int /\ b[k] \in Int /\ b[k] = at[k] - n
  OBVIOUS
<1> QED
  BY <1>1

\* Moving all offsets by n keeps the distance between two of them.
LEMMA MovedSum ==
  ASSUME NEW x \in Int, NEW n \in Nat, NEW l \in Int
  PROVE  (x + l) - n = (x - n) + l
OBVIOUS

\* A position before the move is n units after the one behind it.
LEMMA MovedBack ==
  ASSUME NEW x \in Int, NEW n \in Nat, NEW l \in Int
  PROVE  x + l = n + ((x - n) + l)
OBVIOUS

\* The end of the stream moves with the offsets.
LEMMA MovedEnd ==
  ASSUME NEW x \in Int, NEW n \in Nat, NEW l \in Int
  PROVE  /\ n + l <= x => l <= x - n
         /\ n + l = x => l = x - n
OBVIOUS

\* So does the order of two offsets.
LEMMA MovedOrder ==
  ASSUME NEW x \in Int, NEW n \in Nat, NEW y \in Int
  PROVE  y <= x => y - n <= x - n
OBVIOUS

\* v is what is left of w after n units.
LeftAfter(n, w, v) ==
    /\ Len(w) = n + Len(v)
    /\ \A i \in 1 .. Len(v) : v[i] = w[n + i]

\* The first n units are read.
LEMMA LayoutRead ==
  ASSUME NEW s \in Seq(Seq(Nat)), NEW w \in Seq(Nat), NEW f \in Nat \ {0}, NEW origin \in Int,
         NEW at \in [Nat -> Int], LaidOut(s, w, f, origin, at), NEW n \in Nat,
         NEW v \in Seq(Nat), LeftAfter(n, w, v)
  PROVE  \E b \in [Nat -> Int] :
            LaidOut(s, v, f, origin - n, b) /\ (Entire(s, w, at) => Entire(s, v, b))
<1>1. Len(s) \in Nat /\ Len(w) \in Nat /\ Len(v) \in Nat /\ Len(w) = n + Len(v)
  BY DEF LeftAfter
<1>2. PICK b \in [Nat -> Int] : \A k \in Nat : at[k] \in Int /\ b[k] \in Int /\ b[k] = at[k] - n
  BY Shifting
<1>3. f <= Len(s) + 1 /\ b[f] = origin - n
  <2>1. b[f] = at[f] - n /\ f <= Len(s) + 1 /\ at[f] = origin
    BY <1>2 DEF LaidOut
  <2> QED
    BY <2>1
<1>4. ASSUME NEW k \in f .. Len(s) PROVE b[k + 1] = b[k] + Len(s[k])
  <2>1. k \in Nat /\ k + 1 \in Nat /\ Len(s[k]) \in Nat
    BY LayoutTypes
  <2>2. at[k + 1] = at[k] + Len(s[k])
    BY DEF LaidOut
  <2>3. at[k] \in Int /\ b[k + 1] = at[k + 1] - n /\ b[k] = at[k] - n
    BY <1>2, <2>1, Zenon
  <2>4. Len(s[k]) \in Int
    BY <2>1
  <2>5. (at[k] + Len(s[k])) - n = (at[k] - n) + Len(s[k])
    BY <2>3, <2>4, MovedSum, Zenon
  <2> QED
    BY <2>2, <2>3, <2>5, Zenon
<1>5. ASSUME NEW j \in f .. Len(s) + 1, NEW k \in f .. Len(s) + 1, j <= k PROVE b[j] <= b[k]
  <2>1. j \in Nat /\ k \in Nat
    BY LayoutTypes
  <2>2. at[j] <= at[k]
    BY <1>5 DEF LaidOut
  <2>3. at[j] \in Int /\ at[k] \in Int /\ b[j] = at[j] - n /\ b[k] = at[k] - n
    BY <1>2, <2>1, Zenon
  <2>4. at[j] - n <= at[k] - n
    BY <2>2, <2>3, MovedOrder, Zenon
  <2> QED
    BY <2>3, <2>4, Zenon
<1>6. Len(v) <= b[Len(s) + 1] /\ (Len(w) = at[Len(s) + 1] => Len(v) = b[Len(s) + 1])
  <2>1. Len(w) <= at[Len(s) + 1] /\ Len(s) + 1 \in Nat
    BY <1>1 DEF LaidOut
  <2>2. at[Len(s) + 1] \in Int /\ b[Len(s) + 1] = at[Len(s) + 1] - n
    BY <1>2, <2>1, Zenon
  <2>3. Len(v) \in Int
    BY <1>1
  <2>4. n + Len(v) <= at[Len(s) + 1]
    BY <1>1, <2>1, Zenon
  <2>5. Len(v) <= at[Len(s) + 1] - n
    BY <2>2, <2>3, <2>4, MovedEnd, Zenon
  <2>6. Len(w) = at[Len(s) + 1] => Len(v) = at[Len(s) + 1] - n
    <3>1. n + Len(v) = at[Len(s) + 1] => Len(v) = at[Len(s) + 1] - n
      BY <2>2, <2>3, MovedEnd, Zenon
    <3> QED
      BY <1>1, <3>1, Zenon
  <2> QED
    BY <2>2, <2>5, <2>6, Zenon
<1>7. ASSUME NEW k \in f .. Len(s), NEW i \in 1 .. Len(s[k]), b[k] + i \in 1 .. Len(v)
      PROVE  v[b[k] + i] = s[k][i]
  <2>1. k \in Nat /\ Len(s[k]) \in Nat
    BY LayoutTypes
  <2>2. at[k] \in Int /\ b[k] \in Int /\ b[k] = at[k] - n /\ i \in Int
    <3>1. i \in Int
      BY <2>1
    <3> QED
      BY <1>2, <2>1, <3>1, Zenon
  <2>3. at[k] + i \in 1 .. Len(w) /\ at[k] + i = n + (b[k] + i)
    <3>1. at[k] + i = n + ((at[k] - n) + i)
      BY <2>2, MovedBack, ZenonT(60)
    <3>3. at[k] + i = n + (b[k] + i)
      BY <2>2, <3>1, Zenon
    <3>2. ASSUME NEW x \in 1 .. Len(v) PROVE n + x \in 1 .. Len(w)
      BY <1>1
    <3> QED
      BY <1>7, <3>2, <3>3, Zenon
  <2>4. v[b[k] + i] = w[n + (b[k] + i)]
    BY <1>7, Zenon DEF LeftAfter
  <2>5. w[at[k] + i] = s[k][i]
    BY <2>3, Zenon DEF LaidOut
  <2> QED
    BY <2>3, <2>4, <2>5, Zenon
<1>8. LaidOut(s, v, f, origin - n, b)
  BY <1>3, <1>4, <1>5, <1>6, <1>7 DEF LaidOut
<1> QED
  BY <1>2, <1>6, <1>8 DEF Entire

\* The f-th message is done with.
LEMMA LayoutNext ==
  ASSUME NEW s \in Seq(Seq(Nat)), NEW w \in Seq(Nat), NEW f \in Nat \ {0}, NEW origin \in Int,
         NEW at \in [Nat -> Int], LaidOut(s, w, f, origin, at), f <= Len(s)
  PROVE  LaidOut(s, w, f + 1, origin + Len(s[f]), at)
<1>1. Len(s) \in Nat /\ f \in f .. Len(s)
  OBVIOUS
<1>2. f + 1 <= Len(s) + 1
  BY <1>1
<1>3. at[f + 1] = origin + Len(s[f])
  BY <1>1 DEF LaidOut
<1>4. \A k \in f + 1 .. Len(s) : k \in f .. Len(s)
  BY <1>1
<1>5. \A k \in f + 1 .. Len(s) + 1 : k \in f .. Len(s) + 1
  BY <1>1
<1> QED
  BY <1>2, <1>3, <1>4, <1>5 DEF LaidOut

\* v is what w becomes when u is written after end units: the same up to there,
\* and then u, as far as it goes.
WrittenAfter(end, u, w, v) ==
    /\ Len(v) <= end + Len(u)
    /\ \A i \in 1 .. Len(v) : i <= end => i <= Len(w) /\ v[i] = w[i]
    /\ \A i \in 1 .. Len(u) : end + i \in 1 .. Len(v) => v[end + i] = u[i]

\* One more message is written.
LEMMA LayoutAdd ==
  ASSUME NEW s \in Seq(Seq(Nat)), NEW w \in Seq(Nat), NEW f \in Nat \ {0}, NEW origin \in Int,
         NEW at \in [Nat -> Int], LaidOut(s, w, f, origin, at),
         NEW u \in Seq(Nat), NEW v \in Seq(Nat), WrittenAfter(at[Len(s) + 1], u, w, v)
  PROVE  \E b \in [Nat -> Int] :
            /\ LaidOut(Append(s, u), v, f, origin, b)
            /\ Len(v) = at[Len(s) + 1] + Len(u) => Entire(Append(s, u), v, b)
<1> DEFINE L == Len(s)
           t == Append(s, u)
           end == at[L + 1]
<1>1. L \in Nat /\ Len(w) \in Nat /\ Len(v) \in Nat /\ Len(u) \in Nat /\ end \in Int
  BY SMTT(60)
<1>2. Len(t) = L + 1 /\ t[L + 1] = u /\ \A k \in 1 .. L : t[k] = s[k]
  BY AppendProperties
<1> HIDE DEF t, L
<1>3. f <= L + 1 /\ at[f] = origin
  BY DEF LaidOut, L
<1>4. end + Len(u) \in Int
  BY <1>1, SMTT(60)
<1> HIDE DEF end
<1> DEFINE b == [k \in Nat |-> IF k = L + 2 THEN end + Len(u) ELSE at[k]]
<1>5. /\ b \in [Nat -> Int] /\ b[L + 2] = end + Len(u)
      /\ \A k \in Nat : at[k] \in Int /\ (k <= L + 1 => b[k] = at[k])
  <2>1. L + 2 \in Nat /\ \A k \in Nat : k <= L + 1 => k # L + 2
    BY <1>1
  <2> QED
    BY <1>4, <2>1, Zenon
<1> HIDE DEF b
<1>6. ASSUME NEW k \in f .. L + 1 PROVE k \in Nat /\ at[k] \in Int /\ b[k] = at[k]
  <2>1. k \in Nat /\ k <= L + 1
    BY <1>1
  <2> QED
    BY <1>5, <2>1, Zenon
<1>7. b[f] = origin
  <2>1. f \in f .. L + 1
    BY <1>1, <1>3
  <2> QED
    BY <1>3, <1>6, <2>1, Zenon
<1>8. ASSUME NEW k \in f .. L + 1 PROVE b[k + 1] = b[k] + Len(t[k])
  <2>1. CASE k = L + 1
    <3>1. k + 1 = L + 2
      BY <1>1, <2>1
    <3> QED
      BY <1>2, <1>5, <1>6, <2>1, <3>1, Zenon DEF end
  <2>2. CASE k # L + 1
    <3>1. k \in f .. L /\ k + 1 \in f .. L + 1 /\ k \in 1 .. L
      BY <1>1, <2>2
    <3>2. at[k + 1] = at[k] + Len(s[k])
      BY <3>1, Zenon DEF LaidOut, L
    <3> QED
      BY <1>2, <1>6, <3>1, <3>2, Zenon
  <2> QED
    BY <2>1, <2>2
<1>9. ASSUME NEW k \in f .. L + 1 PROVE at[k] <= end
  <2>1. L + 1 \in f .. L + 1 /\ k <= L + 1
    BY <1>1, <1>3
  <2> QED
    BY <2>1, Zenon DEF LaidOut, L, end
<1>10. ASSUME NEW j \in f .. L + 2, NEW k \in f .. L + 2, j <= k PROVE b[j] <= b[k]
  <2>1. CASE k = L + 2 /\ j # L + 2
    <3>1. j \in f .. L + 1
      BY <1>1, <2>1
    <3>2. b[j] = at[j] /\ at[j] <= end /\ at[j] \in Int
      BY <1>6, <1>9, <3>1, Zenon
    <3>3. ASSUME NEW x \in Int, x <= end PROVE x <= end + Len(u)
      BY <1>1, <3>3
    <3> QED
      BY <1>5, <2>1, <3>2, <3>3, Zenon
  <2>2. CASE k # L + 2
    <3>1. j \in f .. L + 1 /\ k \in f .. L + 1
      BY <1>1, <1>10, <2>2
    <3>2. at[j] <= at[k]
      BY <1>10, <3>1, Zenon DEF LaidOut, L
    <3> QED
      BY <1>6, <3>1, <3>2, Zenon
  <2>3. CASE k = L + 2 /\ j = L + 2
    BY <1>4, <1>5, <2>3
  <2> QED
    BY <2>1, <2>2, <2>3
<1>11. Len(v) <= b[L + 2] /\ (Len(v) = end + Len(u) => Len(v) = b[L + 2])
  BY <1>5, Zenon DEF WrittenAfter, L, end
<1>12. ASSUME NEW k \in f .. L + 1, NEW i \in 1 .. Len(t[k]), b[k] + i \in 1 .. Len(v)
       PROVE  v[b[k] + i] = t[k][i]
  <2>1. CASE k = L + 1
    BY <1>2, <1>6, <1>12, <2>1, Zenon DEF WrittenAfter, end, L
  <2>2. CASE k # L + 1
    <3>1. k \in f .. L /\ k + 1 \in f .. L + 1 /\ k \in 1 .. L
      BY <1>1, <2>2
    <3>2. /\ t[k] = s[k] /\ b[k] = at[k] /\ at[k] \in Int
          /\ at[k + 1] = at[k] + Len(s[k]) /\ at[k + 1] <= end
      BY <1>2, <1>6, <1>9, <3>1, Zenon DEF LaidOut, L
    <3>3. i \in 1 .. Len(s[k]) /\ at[k] + i \in 1 .. Len(v)
      BY <1>12, <3>2, Zenon
    <3>4. Len(s[k]) \in Nat
      BY <3>1, LayoutTypes, Zenon DEF L
    <3>5. at[k] + i <= end
      <4>1. ASSUME NEW x \in Int, NEW l \in Nat, NEW y \in 1 .. l, x + l <= end PROVE x + y <= end
        BY <1>1, <4>1
      <4> QED
        BY <3>2, <3>3, <3>4, <4>1, Zenon
    <3>6. at[k] + i <= Len(w) /\ v[at[k] + i] = w[at[k] + i]
      BY <3>3, <3>5, Zenon DEF WrittenAfter, end, L
    <3>7. ASSUME NEW x \in 1 .. Len(v), x <= Len(w) PROVE x \in 1 .. Len(w)
      BY <1>1, <3>7
    <3>8. w[at[k] + i] = s[k][i]
      BY <3>1, <3>3, <3>6, <3>7, Zenon DEF LaidOut, L
    <3> QED
      BY <3>2, <3>6, <3>8, Zenon
  <2> QED
    BY <2>1, <2>2
<1>13. f <= L + 2 /\ L + 1 + 1 = L + 2
  BY <1>1, <1>3
<1>14. LaidOut(t, v, f, origin, b)
  BY <1>2, <1>7, <1>8, <1>10, <1>11, <1>12, <1>13 DEF LaidOut
<1>15. Len(v) = end + Len(u) => Entire(t, v, b)
  BY <1>2, <1>11, <1>13 DEF Entire
<1> QED
  BY <1>5, <1>14, <1>15, Zenon DEF t, end, L

-----------------------------------------------------------------------------
(* Steps *)

\* What the lemmas below need to know of the two ends.
LEMMA EndTypes ==
  ASSUME StreamTypeOK, HistoryOK, NEW e \in Ends
  PROVE  /\ Peer(e) \in Ends /\ Peer(Peer(e)) = e /\ Peer(e) # e
         /\ sent[Peer(e)] \in Seq(Seq(Nat)) /\ taken[e] \in Seq(Seq(Nat))
         /\ wire[e] \in Seq(Nat) /\ message[e] \in Seq(Nat)
         /\ Len(sent[Peer(e)]) \in Nat /\ Len(taken[e]) \in Nat /\ Len(wire[e]) \in Nat
         /\ Current(e) \in Nat \ {0} /\ Origin(e) \in Int
<1>1. Peer(e) \in Ends /\ Peer(Peer(e)) = e /\ Peer(e) # e
  BY DEF Ends, Peer
<1>2. /\ sent[Peer(e)] \in Seq(Seq(Nat)) /\ taken[e] \in Seq(Seq(Nat))
      /\ wire[e] \in Seq(Nat) /\ message[e] \in Seq(Nat)
  BY <1>1 DEF StreamTypeOK, HistoryOK
<1>3. Len(sent[Peer(e)]) \in Nat /\ Len(taken[e]) \in Nat /\ Len(wire[e]) \in Nat
  BY <1>2
<1>4. Current(e) \in Nat \ {0} /\ Origin(e) \in Int
  BY <1>3 DEF Current, Origin, kDoipheadrSize
<1> QED
  BY <1>1, <1>2, <1>3, <1>4

\* A step neither adds to e's stream nor reads from it; it may cut it off.
Keeps(e) ==
    /\ sent'[Peer(e)] = sent[Peer(e)] /\ taken'[e] = taken[e]
    /\ Cut(e) => Cut(e)'
    /\ Len(wire'[e]) <= Len(wire[e])
    /\ \A i \in 1 .. Len(wire'[e]) : wire'[e][i] = wire[e][i]
    /\ wire'[e] = wire[e] \/ Cut(e)'
    /\ reader'[e] = "payload" <=> reader[e] = "payload"
    /\ reader'[e] = "payload" => message'[e] = message[e]
    /\ Halted(e) => Halted(e)'

\* Such a step leaves the layout as it is, cut off or not.
LEMMA KeepsFlow ==
  ASSUME StreamTypeOK, HistoryOK, StreamTypeOK', HistoryOK', NEW e \in Ends, Keeps(e),
         Flowing(e), Whole(e)
  PROVE  Flowing(e)' /\ Whole(e)'
<1>1. /\ Peer(e) \in Ends
      /\ sent[Peer(e)] \in Seq(Seq(Nat)) /\ wire[e] \in Seq(Nat) /\ wire'[e] \in Seq(Nat)
      /\ Len(wire[e]) \in Nat /\ Len(wire'[e]) \in Nat
      /\ Current(e) \in Nat \ {0} /\ Origin(e) \in Int
  <2>1. wire'[e] \in Seq(Nat) /\ Len(wire'[e]) \in Nat
    BY DEF StreamTypeOK
  <2> QED
    BY <2>1, EndTypes, Zenon
<1>2. /\ sent'[Peer(e)] = sent[Peer(e)] /\ taken'[e] = taken[e]
      /\ Current(e)' = Current(e) /\ Origin(e)' = Origin(e)
  BY DEF Keeps, Current, Origin
<1>3. Layout(e) => Layout(e)'
  <2> SUFFICES ASSUME Layout(e) PROVE Layout(e)'
    OBVIOUS
  <2>1. HasHeader(e)'
    BY <1>2, Zenon DEF Layout, HasHeader, Keeps
  <2>2. PICK at \in [Nat -> Int] :
          /\ LaidOut(sent[Peer(e)], wire[e], Current(e), Origin(e), at)
          /\ ~Cut(e) => Entire(sent[Peer(e)], wire[e], at)
    BY Zenon DEF Layout
  <2>3. LaidOut(sent[Peer(e)], wire'[e], Current(e), Origin(e), at)
    <3>1. Len(wire'[e]) <= Len(wire[e]) /\ \A i \in 1 .. Len(wire'[e]) : wire'[e][i] = wire[e][i]
      BY Zenon DEF Keeps
    <3> QED
      BY <1>1, <2>2, <3>1, LayoutCut, Zenon
  <2>4. ~Cut(e)' => Entire(sent[Peer(e)], wire'[e], at)
    BY <2>2, Zenon DEF Keeps
  <2> QED
    BY <1>2, <2>1, <2>3, <2>4, Zenon DEF Layout
<1>4. Drained(e) => Drained(e)'
  <2>1. wire[e] = <<>> => wire'[e] = <<>>
    <3>1. wire[e] = <<>> => Len(wire[e]) = 0
      OBVIOUS
    <3>2. wire[e] = <<>> => Len(wire'[e]) = 0
      BY <1>1, <3>1 DEF Keeps
    <3> QED
      BY <1>1, <3>2, EmptySeq, Zenon
  <2> QED
    BY <2>1, Zenon DEF Drained, Keeps
<1>5. Flowing(e)'
  BY <1>3, <1>4, Zenon DEF Flowing, Keeps
<1>6. Whole(e)'
  BY <1>2, <1>4, Zenon DEF Whole
<1> QED
  BY <1>5, <1>6

\* The reader takes a header: the current message is there, and it is its header.
LEMMA ReadHeaderFlow ==
  ASSUME StreamTypeOK, HistoryOK, WellFormed, NEW e \in Ends, ReadHeader(e),
         Flowing(e), Whole(e)
  PROVE  Flowing(e)' /\ Whole(e)'
<1> DEFINE s == sent[Peer(e)]
           w == wire[e]
           c == Current(e)
           header == SubSeq(w, 1, 2)
           v == SubSeq(w, 2 + 1, Len(w))
<1>1. /\ Peer(e) \in Ends /\ s \in Seq(Seq(Nat)) /\ w \in Seq(Nat)
      /\ Len(s) \in Nat /\ Len(w) \in Nat /\ c \in Nat \ {0}
  BY EndTypes, Zenon
<1>2. /\ Len(w) >= 2 /\ reader[e] = "read"
      /\ message'[e] = header /\ wire'[e] = v
      /\ reader'[e] = IF LengthField(header) = 0 THEN "store" ELSE "payload"
      /\ UNCHANGED <<sent, taken, closing, socket>>
  BY DEF ReadHeader, Goto, Take, Rest, kDoipheadrSize, historyVars, StreamTypeOK
<1> HIDE DEF s, w
<1>3. /\ header \in Seq(Nat) /\ Len(header) = 2 /\ \A i \in 1 .. 2 : header[i] = w[i]
      /\ v \in Seq(Nat) /\ Len(v) = Len(w) - 2 /\ \A i \in 1 .. Len(w) - 2 : v[i] = w[2 + i]
  <2>1. 2 \in 0 .. Len(w)
    BY <1>1, <1>2
  <2> QED
    BY <1>1, <2>1, Splitting, Zenon
<1> HIDE DEF header, v, c
<1>4. /\ Current(e)' = c /\ Cut(e)' = Cut(e) /\ sent'[Peer(e)] = s
  BY <1>2 DEF Current, Cut, c, s
<1>5. ~Halted(e) /\ ~Drained(e)
  <2>1. w # <<>>
    BY <1>1, <1>2
  <2> QED
    BY <1>2, <2>1 DEF Halted, Drained, w
<1>6. PICK at \in [Nat -> Int] :
        LaidOut(s, w, c, 0, at) /\ (~Cut(e) => Entire(s, w, at))
  BY <1>2, <1>5 DEF Flowing, Layout, Origin, c, s, w
<1>7. c <= Len(s) /\ at[c] = 0
  <2>1. c <= Len(s) + 1 /\ at[c] = 0 /\ Len(w) <= at[Len(s) + 1]
    BY <1>6, Zenon DEF LaidOut
  <2>2. c # Len(s) + 1
    <3> SUFFICES ASSUME c = Len(s) + 1 PROVE FALSE
      OBVIOUS
    <3>1. Len(w) <= 0
      BY <2>1, Zenon
    <3> QED
      BY <1>1, <1>2, <3>1
  <2> QED
    BY <1>1, <2>1, <2>2
<1>8. ASSUME NEW i \in 1 .. 2 PROVE header[i] = s[c][i]
  <2>1. c \in c .. Len(s) /\ c \in 1 .. Len(s)
    BY <1>1, <1>7
  <2>2. Len(s[c]) \in Nat /\ Len(s[c]) >= 2
    <3>1. Len(s[c]) >= kDoipheadrSize
      BY <1>1, <2>1 DEF WellFormed, s
    <3>2. Len(s[c]) \in Nat
      BY <1>1, <2>1, LayoutTypes, <1>6, Zenon
    <3> QED
      BY <3>1, <3>2 DEF kDoipheadrSize
  <2>3. i \in 1 .. Len(s[c]) /\ 0 + i = i /\ i \in 1 .. Len(w)
    <3>1. ASSUME NEW x \in Nat, x >= 2 PROVE i \in 1 .. x
      BY <3>1
    <3>2. 0 + i = i
      OBVIOUS
    <3> QED
      BY <1>1, <1>2, <2>2, <3>1, <3>2, Zenon
  <2>4. w[i] = s[c][i]
    BY <1>6, <1>7, <2>1, <2>3, Zenon DEF LaidOut
  <2> QED
    BY <1>3, <2>4, Zenon
<1>9. Whole(e)'
  BY <1>2, <1>4, <1>5, Zenon DEF Whole, s
<1>10. CASE LengthField(header) = 0
  <2>1. Halted(e)'
    BY <1>2, <1>10 DEF Halted
  <2> QED
    BY <1>9, <2>1 DEF Flowing
<1>11. CASE LengthField(header) # 0
  <2>1. reader'[e] = "payload"
    BY <1>2, <1>11
  <2>2. HasHeader(e)'
    BY <1>2, <1>4, <1>7, <1>8 DEF HasHeader, kDoipheadrSize
  <2>3. LeftAfter(2, w, v)
    BY <1>1, <1>2, <1>3, SMTT(60) DEF LeftAfter
  <2>4. PICK b \in [Nat -> Int] :
          LaidOut(s, v, c, 0 - 2, b) /\ (Entire(s, w, at) => Entire(s, v, b))
    <3>1. 2 \in Nat /\ 0 \in Int
      OBVIOUS
    <3> QED
      BY <1>1, <1>3, <1>6, <2>3, <3>1, LayoutRead, ZenonT(60)
  <2>5. Origin(e)' = 0 - 2
    BY <2>1 DEF Origin, kDoipheadrSize
  <2>6. Layout(e)'
    BY <1>2, <1>4, <1>6, <2>2, <2>4, <2>5, Zenon DEF Layout
  <2> QED
    BY <1>9, <2>6 DEF Flowing
<1> QED
  BY <1>10, <1>11

\* The reader takes the payload: all of it, unless the stream was cut off in it.
LEMMA ReadPayloadFlow ==
  ASSUME StreamTypeOK, HistoryOK, WellFormed, ~secure, NEW e \in Ends, ReadPayload(e),
         Flowing(e), Whole(e)
  PROVE  Flowing(e)' /\ Whole(e)'
<1> DEFINE s == sent[Peer(e)]
           w == wire[e]
           c == Current(e)
           h == message[e]
           n == LengthField(h)
           m == AtMost(n, Len(w))
           units == h \o SubSeq(w, 1, m) \o [i \in 1 .. n - m |-> 0]
           v == SubSeq(w, m + 1, Len(w))
<1>1. /\ Peer(e) \in Ends /\ s \in Seq(Seq(Nat)) /\ w \in Seq(Nat) /\ h \in Seq(Nat)
      /\ taken[e] \in Seq(Seq(Nat)) /\ Len(taken[e]) \in Nat
      /\ Len(s) \in Nat /\ Len(w) \in Nat /\ c \in Nat \ {0}
  BY EndTypes, ZenonT(60)
<1>2. /\ reader[e] = "payload" /\ reader'[e] = "store"
      /\ taken'[e] = Append(taken[e], units) /\ wire'[e] = v
      /\ UNCHANGED <<sent, closing, socket>>
  BY DEF ReadPayload, BytesToRead, Goto, Take, Rest, StreamTypeOK, HistoryOK
<1> HIDE DEF s, w, c, h
<1>3. Len(h) = 2
  BY <1>2 DEF StreamTypeOK, h, kDoipheadrSize
<1>4. ~Halted(e) /\ ~Drained(e)
  BY <1>2 DEF Halted, Drained
<1>5. PICK at \in [Nat -> Int] :
        LaidOut(s, w, c, 0 - 2, at) /\ (~Cut(e) => Entire(s, w, at))
  BY <1>2, <1>4 DEF Flowing, Layout, Origin, c, s, w, kDoipheadrSize
<1>6. c <= Len(s) /\ \A i \in 1 .. 2 : h[i] = s[c][i]
  BY <1>2, <1>4 DEF Flowing, Layout, HasHeader, c, s, h, kDoipheadrSize
<1>7. c \in c .. Len(s) /\ c \in 1 .. Len(s) /\ c + 1 \in c .. Len(s) + 1 /\ c + 1 \in Nat \ {0}
      /\ Len(s) + 1 \in c .. Len(s) + 1 /\ c + 1 <= Len(s) + 1
  <2>1. ASSUME NEW k \in Nat \ {0}, NEW l \in Nat, k <= l
        PROVE  /\ k \in k .. l /\ k \in 1 .. l /\ k + 1 \in k .. l + 1 /\ k + 1 \in Nat \ {0}
               /\ l + 1 \in k .. l + 1 /\ k + 1 <= l + 1
    BY <2>1
  <2> QED
    BY <1>1, <1>6, <2>1, Zenon
<1>8. n \in Nat /\ Len(s[c]) = 2 + n /\ s[c] \in Seq(Nat)
  <2>1. s[c] \in Seq(Nat)
    BY <1>1, <1>7, ElementOfSeq, Zenon
  <2>2. Len(s[c]) >= 2 /\ Len(s[c]) = 2 + s[c][2]
    <3>1. c \in DOMAIN s
      BY <1>1, <1>7
    <3> QED
      BY <1>1, <3>1, Zenon DEF WellFormed, s, LengthField, kDoipheadrSize
  <2>3. n = s[c][2]
    BY <1>6 DEF LengthField, kDoipheadrSize
  <2>4. 2 \in 1 .. Len(s[c])
    BY <2>1, <2>2
  <2>5. s[c][2] \in Nat
    BY <2>1, <2>4, ElementOfSeq, Zenon
  <2> QED
    BY <2>1, <2>2, <2>3, <2>5, Zenon
<1> HIDE DEF n
<1>9. m \in 0 .. Len(w) /\ m \in Nat /\ m <= n /\ (m = n \/ m = Len(w))
  <2>1. ASSUME NEW k \in Nat, NEW l \in Nat
        PROVE  /\ AtMost(k, l) \in 0 .. l /\ AtMost(k, l) \in Nat /\ AtMost(k, l) <= k
               /\ AtMost(k, l) = k \/ AtMost(k, l) = l
    BY DEF AtMost
  <2> QED
    BY <1>1, <1>8, <2>1, Zenon
<1> HIDE DEF m
<1>10. /\ units \in Seq(Nat) /\ Len(units) = 2 + n
       /\ \A i \in 1 .. 2 + n :
             units[i] = IF i <= 2 THEN h[i] ELSE IF i <= 2 + m THEN w[i - 2] ELSE 0
  <2>1. Len(h) = kDoipheadrSize
    BY <1>3 DEF kDoipheadrSize
  <2>2. /\ units \in Seq(Nat) /\ Len(units) = kDoipheadrSize + n
        /\ \A i \in 1 .. kDoipheadrSize + n :
              units[i] = IF i <= kDoipheadrSize THEN h[i]
                         ELSE IF i <= kDoipheadrSize + m THEN w[i - kDoipheadrSize] ELSE 0
    <3>1. units = Assembled(h, w, n, m)
      BY DEF Assembled
    <3> HIDE DEF units
    <3>2. ReadsAs(Assembled(h, w, n, m), h, w, n, m)
      BY <1>1, <1>8, <1>9, <2>1, Assembling, Zenon
    <3> QED
      BY <3>1, <3>2, Zenon DEF ReadsAs
  <2> HIDE DEF units
  <2> QED
    BY <2>2, Zenon DEF kDoipheadrSize
<1>11. /\ v \in Seq(Nat) /\ Len(v) = Len(w) - m
       /\ \A i \in 1 .. Len(w) - m : v[i] = w[m + i]
  BY <1>1, <1>9, Splitting, Zenon
<1> HIDE DEF units, v
<1>12. ASSUME NEW i \in 1 .. 2 + n PROVE units[i] = IF i <= 2 + m THEN s[c][i] ELSE 0
  <2>1. CASE i <= 2
    <3>1. i \in 1 .. 2 /\ i <= 2 + m
      BY <1>9, <2>1
    <3> QED
      BY <1>6, <1>10, <2>1, <3>1, Zenon
  <2>2. CASE ~(i <= 2) /\ i <= 2 + m
    <3>1. /\ i - 2 \in 1 .. Len(w) /\ (0 - 2) + i = i - 2 /\ i \in 1 .. Len(s[c])
      <4>1. ASSUME NEW x \in Nat, m <= x PROVE i - 2 \in 1 .. x
        BY <1>8, <1>9, <2>2, <4>1
      <4>2. (0 - 2) + i = i - 2
        BY <1>8
      <4>3. m <= Len(w)
        BY <1>1, <1>9
      <4> QED
        BY <1>1, <1>8, <4>1, <4>2, <4>3, Zenon
    <3>2. at[c] = 0 - 2
      BY <1>5, Zenon DEF LaidOut
    <3>3. w[i - 2] = s[c][i]
      BY <1>5, <1>7, <3>1, <3>2, ZenonT(60) DEF LaidOut
    <3> QED
      BY <1>10, <2>2, <3>3, Zenon
  <2>3. CASE ~(i <= 2) /\ ~(i <= 2 + m)
    BY <1>10, <2>3, Zenon
  <2>4. i <= 2 => i <= 2 + m
    BY <1>9
  <2> QED
    BY <2>1, <2>2, <2>3, <2>4, Zenon
<1>13. LaidOut(s, w, c + 1, (0 - 2) + Len(s[c]), at)
  <2>1. 0 - 2 \in Int
    OBVIOUS
  <2> QED
    BY <1>1, <1>5, <1>6, <2>1, LayoutNext, Zenon
<1>14. (0 - 2) + Len(s[c]) = n
  <2>1. (0 - 2) + (2 + n) = n
    BY <1>8
  <2> QED
    BY <1>8, <2>1, Zenon
<1>15. /\ Current(e)' = c + 1 /\ Cut(e)' = Cut(e) /\ sent'[Peer(e)] = s /\ Origin(e)' = 0
       /\ Len(taken'[e]) = c /\ taken'[e][c] = units
       /\ \A i \in 1 .. Len(taken'[e]) : i # c => i \in 1 .. Len(taken[e]) /\ taken'[e][i] = taken[e][i]
  <2>1. Extended(taken[e], units, taken'[e])
    BY <1>1, <1>2, <1>10, Extending, Zenon
  <2>2. c = Len(taken[e]) + 1
    BY DEF c, Current
  <2>3. Current(e)' = Len(taken'[e]) + 1
    BY DEF Current
  <2>4. Cut(e)' = Cut(e) /\ sent'[Peer(e)] = s /\ Origin(e)' = 0
    BY <1>2 DEF Cut, s, Origin
  <2> QED
    BY <2>1, <2>2, <2>3, <2>4, Zenon DEF Extended
<1>16. ASSUME \/ units = s[c]
              \/ Drained(e)' /\ CutShort(units, s[c])
       PROVE  Whole(e)'
  <2> SUFFICES ASSUME NEW i \in 1 .. Len(taken'[e])
               PROVE  /\ i <= Len(s)
                      /\ \/ taken'[e][i] = s[i]
                         \/ i = Len(taken'[e]) /\ Drained(e)' /\ CutShort(taken'[e][i], s[i])
    BY <1>15, Zenon DEF Whole
  <2>1. CASE i = c
    BY <1>6, <1>15, <1>16, <2>1, Zenon
  <2>2. CASE i # c
    BY <1>4, <1>15, <2>2, Zenon DEF Whole, s
  <2> QED
    BY <2>1, <2>2
<1>17. CASE m = n
  <2>1. LeftAfter(n, w, v)
    BY <1>1, <1>8, <1>9, <1>11, <1>17 DEF LeftAfter
  <2>2. PICK b \in [Nat -> Int] :
          LaidOut(s, v, c + 1, n - n, b) /\ (Entire(s, w, at) => Entire(s, v, b))
    <3>1. n \in Int /\ LaidOut(s, w, c + 1, n, at)
      BY <1>8, <1>13, <1>14
    <3> QED
      BY <1>1, <1>7, <1>8, <1>11, <2>1, <3>1, LayoutRead, ZenonT(60)
  <2>3. n - n = 0
    BY <1>8
  <2>4. HasHeader(e)'
    BY <1>2 DEF HasHeader
  <2>5. Layout(e)'
    BY <1>2, <1>5, <1>15, <2>2, <2>3, <2>4, Zenon DEF Layout
  <2>6. units = s[c]
    <3>1. \A i \in 1 .. 2 + n : i <= 2 + m
      BY <1>8, <1>17
    <3>2. \A i \in 1 .. Len(units) : units[i] = s[c][i]
      BY <1>10, <1>12, <3>1, Zenon
    <3> QED
      BY <1>8, <1>10, <3>2, SeqEqual, Zenon
  <2> QED
    BY <1>16, <2>5, <2>6 DEF Flowing
<1>18. CASE m # n
  <2>1. m = Len(w) /\ Len(w) < n
    BY <1>1, <1>8, <1>9, <1>18
  <2>2. Cut(e)
    <3> SUFFICES ASSUME ~Cut(e) PROVE FALSE
      OBVIOUS
    <3>1. Len(w) = at[Len(s) + 1] /\ at[c + 1] <= at[Len(s) + 1] /\ at[c + 1] = n
      <4>1. at[c + 1] = n
        BY <1>13, <1>14, Zenon DEF LaidOut
      <4> QED
        BY <1>5, <1>7, <4>1, Zenon DEF LaidOut, Entire
    <3>2. n <= Len(w)
      BY <3>1, Zenon
    <3> QED
      BY <1>1, <1>8, <2>1, <3>2
  <2>3. v = <<>>
    <3>1. Len(v) = 0
      BY <1>1, <1>11, <2>1
    <3> QED
      BY <1>11, <3>1, EmptySeq, Zenon
  <2>4. Drained(e)'
    BY <1>2, <1>15, <2>2, <2>3 DEF Drained
  <2>5. CutShort(units, s[c])
    <3>1. 2 + m \in 2 .. Len(units)
      BY <1>8, <1>9, <1>10
    <3>2. \A i \in 1 .. Len(units) : units[i] = IF i <= 2 + m THEN s[c][i] ELSE 0
      BY <1>10, <1>12, Zenon
    <3> QED
      BY <1>8, <1>10, <3>1, <3>2, Zenon DEF CutShort, kDoipheadrSize
  <2> QED
    BY <1>16, <2>4, <2>5 DEF Flowing
<1> QED
  BY <1>17, <1>18

\* A message that is written comes after the others, or is lost behind a cut.
LEMMA TransmitFlow ==
  ASSUME StreamTypeOK, HistoryOK, Plain, NEW e \in Ends, NEW length \in Lengths,
         Transmit(Peer(e), length), Flowing(e), Whole(e)
  PROVE  Flowing(e)' /\ Whole(e)'
<1> DEFINE d == Peer(e)
           s == sent[d]
           w == wire[e]
           c == Current(e)
           u == Message(Len(s) + 1, length)
           v == wire'[e]
<1>1. /\ d \in Ends /\ Peer(d) = e /\ d # e
      /\ s \in Seq(Seq(Nat)) /\ w \in Seq(Nat)
      /\ Len(s) \in Nat /\ Len(w) \in Nat /\ c \in Nat \ {0} /\ Origin(e) \in Int
  BY EndTypes, Zenon
<1>2. u \in Seq(Nat) /\ Len(u) \in Nat
  <2>1. Len(s) + 1 \in Nat /\ length \in Nat
    BY <1>1, StreamAssumption
  <2>2. u \in Seq(Nat)
    BY <2>1, MessageShape, Zenon
  <2> HIDE DEF u
  <2> QED
    BY <2>2
<1>3. /\ sent'[d] = Append(s, u)
      /\ closing[d] = "no" /\ CanWrite(d)
      /\ UNCHANGED <<taken, reader, message, running, connect, closing>>
  BY <1>1 DEF Transmit, threadVars, StreamTypeOK, HistoryOK
<1>12. /\ Arrives(d) => v = w \o u /\ UNCHANGED socket /\ ~Cut(e)
       /\ ~Arrives(d) => v = w /\ Cut(e)'
  <2>1. /\ "client" \in Ends /\ Peer("client") = "server" /\ Peer("server") = "client"
        /\ (e = "client" /\ d = "server") \/ (e = "server" /\ d = "client")
    BY DEF Ends, Peer, d
  <2>2. CASE Arrives(d)
    BY <1>1, <1>3, <2>1, <2>2 DEF Transmit, Arrives, Cut, CanWrite, Plain, StreamTypeOK, u, v, w
  <2>3. CASE ~Arrives(d)
    <3>1. wire'["client"] = wire["client"] \/ d # "server"
      BY <2>1, <2>3 DEF Transmit, Reset, StreamTypeOK, d
    <3> QED
      BY <1>1, <1>3, <2>1, <2>3, <3>1
         DEF Transmit, Reset, Arrives, Cut, CanWrite, Plain, StreamTypeOK, v, w
  <2> QED
    BY <2>2, <2>3
<1> HIDE DEF u, v, s, w, c, d
<1>4. /\ Len(Append(s, u)) = Len(s) + 1
      /\ \A k \in 1 .. Len(s) : Append(s, u)[k] = s[k]
  BY <1>1, <1>2, AppendProperties
<1>5. UNCHANGED <<Halted(e), Origin(e)>> /\ Current(e)' = c
  BY <1>3 DEF Halted, Current, Origin, c
<1>6. /\ IF Cut(e)' THEN v = w ELSE v = w \o u /\ ~Cut(e)
      /\ Cut(e) => Cut(e)' /\ v = w
  <2>1. Arrives(d) => Cut(e)' = Cut(e)
    BY <1>3, <1>12 DEF Cut
  <2> QED
    BY <1>12, <2>1
<1>7. ASSUME NEW k \in 1 .. Len(s) PROVE k <= Len(Append(s, u)) /\ Append(s, u)[k] = s[k]
  <2>1. k <= Len(s) + 1
    BY <1>1
  <2> QED
    BY <1>4, <2>1, Zenon
<1>8. Drained(e) => Drained(e)'
  BY <1>3, <1>5, <1>6 DEF Drained, v, w
<1>9. Layout(e) => Layout(e)'
  <2> SUFFICES ASSUME Layout(e) PROVE Layout(e)'
    OBVIOUS
  <2>1. HasHeader(e)'
    <3> SUFFICES ASSUME reader[e] = "payload"
                 PROVE  /\ c <= Len(Append(s, u))
                        /\ \A i \in 1 .. kDoipheadrSize : message[e][i] = Append(s, u)[c][i]
      BY <1>3, <1>5, Zenon DEF HasHeader, d
    <3>1. c <= Len(s) /\ \A i \in 1 .. kDoipheadrSize : message[e][i] = s[c][i]
      BY Zenon DEF Layout, HasHeader, c, s, d
    <3>2. c \in 1 .. Len(s)
      BY <1>1, <3>1
    <3> QED
      BY <1>7, <3>1, <3>2, Zenon
  <2>2. PICK at \in [Nat -> Int] :
          LaidOut(s, w, c, Origin(e), at) /\ (~Cut(e) => Entire(s, w, at))
    BY Zenon DEF Layout, s, w, c, d
  <2> DEFINE end == at[Len(s) + 1]
  <2>3. end \in Int /\ Len(w) <= end /\ (~Cut(e) => Len(w) = end)
    <3>1. end \in Int
      BY <1>1
    <3> QED
      BY <2>2, <3>1, Zenon DEF LaidOut, Entire
  <2> HIDE DEF end
  <2>4. v \in Seq(Nat) /\ WrittenAfter(end, u, w, v) /\ (~Cut(e)' => Len(v) = end + Len(u))
    <3>1. CASE Cut(e)'
      <4>1. v = w
        BY <1>6, <3>1
      <4>2. Len(w) <= end + Len(u)
        BY <1>1, <1>2, <2>3
      <4>3. ASSUME NEW i \in 1 .. Len(u), end + i \in 1 .. Len(w) PROVE FALSE
        BY <1>1, <1>2, <2>3, <4>3
      <4>4. \A i \in 1 .. Len(w) : i <= Len(w)
        BY <1>1
      <4>5. WrittenAfter(end, u, w, w)
        BY <4>2, <4>3, <4>4, Zenon DEF WrittenAfter
      <4> QED
        BY <1>1, <3>1, <4>1, <4>5, Zenon
    <3>2. CASE ~Cut(e)'
      <4>1. v = w \o u /\ Len(w) = end
        BY <1>6, <2>3, <3>2
      <4>2. /\ v \in Seq(Nat) /\ Len(v) = Len(w) + Len(u)
            /\ \A i \in 1 .. Len(w) + Len(u) : v[i] = IF i <= Len(w) THEN w[i] ELSE u[i - Len(w)]
        BY <1>1, <1>2, <4>1, ConcatProperties, ZenonT(60)
      <4>3. ASSUME NEW i \in 1 .. Len(v), i <= end PROVE i <= Len(w) /\ v[i] = w[i]
        BY <4>1, <4>2, <4>3, Zenon
      <4>4. ASSUME NEW i \in 1 .. Len(u) PROVE v[end + i] = u[i]
        <5>1. ASSUME NEW x \in Nat
              PROVE  x + i \in 1 .. x + Len(u) /\ ~(x + i <= x) /\ (x + i) - x = i
          BY <1>2
        <5>2. /\ Len(w) + i \in 1 .. Len(w) + Len(u) /\ ~(Len(w) + i <= Len(w))
              /\ (Len(w) + i) - Len(w) = i
          BY <1>1, <5>1, Zenon
        <5>3. v[Len(w) + i] = u[(Len(w) + i) - Len(w)]
          BY <4>2, <5>2, Zenon
        <5> QED
          BY <4>1, <5>2, <5>3, Zenon
      <4>5. Len(v) <= end + Len(u)
        BY <1>1, <1>2, <4>1, <4>2
      <4>6. WrittenAfter(end, u, w, v)
        BY <4>3, <4>4, <4>5, Zenon DEF WrittenAfter
      <4> QED
        BY <4>1, <4>2, <4>6, Zenon
    <3> QED
      BY <3>1, <3>2
  <2>5. PICK b \in [Nat -> Int] :
          /\ LaidOut(Append(s, u), v, c, Origin(e), b)
          /\ Len(v) = end + Len(u) => Entire(Append(s, u), v, b)
    BY <1>1, <1>2, <2>2, <2>4, LayoutAdd, Zenon DEF end
  <2> QED
    BY <1>3, <1>5, <2>1, <2>4, <2>5, Zenon DEF Layout, v, d
<1>10. Flowing(e)'
  BY <1>5, <1>8, <1>9, Zenon DEF Flowing
<1>11. Whole(e)'
  <2>1. taken'[e] = taken[e]
    BY <1>3
  <2>2. Len(taken[e]) \in Nat
    BY EndTypes, Zenon
  <2> SUFFICES ASSUME NEW i \in 1 .. Len(taken[e])
               PROVE  /\ i <= Len(Append(s, u))
                      /\ \/ taken[e][i] = Append(s, u)[i]
                         \/ i = Len(taken[e]) /\ Drained(e)' /\ CutShort(taken[e][i], Append(s, u)[i])
    BY <1>3, <2>1, Zenon DEF Whole, d
  <2>3. /\ i <= Len(s)
        /\ \/ taken[e][i] = s[i]
           \/ i = Len(taken[e]) /\ Drained(e) /\ CutShort(taken[e][i], s[i])
    BY Zenon DEF Whole, s, d
  <2>4. i \in 1 .. Len(s)
    BY <1>1, <2>2, <2>3
  <2> QED
    BY <1>7, <1>8, <2>3, <2>4, Zenon
<1> QED
  BY <1>10, <1>11

\* A step keeps what is under way, and what has been read, on a plain connection.
LEMMA FlowKept ==
  ASSUME StreamTypeOK, HistoryOK, StreamTypeOK', HistoryOK', WellFormed, Plain, ~secure,
         [Next]_vars, NEW e \in Ends, Flowing(e), Whole(e)
  PROVE  Flowing(e)' /\ Whole(e)'
<1> USE DEF threadVars, historyVars
<1>1. /\ Ends = {"client", "server"} /\ Peer(e) \in Ends /\ Peer(e) # e
      /\ \A x \in Ends : x = e \/ x = Peer(e)
      /\ \A x \in Ends : Peer(x) \in Ends /\ Peer(x) # x /\ Peer(Peer(x)) = x
  BY DEF Ends, Peer
<1>2. /\ reader \in [Ends -> {"none", "idle", "read", "payload", "store", "ended"}]
      /\ closing \in [Ends -> {"no", "exit", "join", "joined"}]
      /\ running \in [Ends -> BOOLEAN] /\ wire \in [Ends -> Seq(Nat)]
      /\ message \in [Ends -> Seq(Nat)] /\ Len(wire[e]) \in Nat
  BY DEF StreamTypeOK
\* It is enough that a step which leaves the stream alone keeps the reader's place.
<1>3. ASSUME UNCHANGED <<wire, sent, taken>>, Cut(e) => Cut(e)',
             reader'[e] = "payload" <=> reader[e] = "payload",
             reader'[e] = "payload" => message'[e] = message[e],
             Halted(e) => Halted(e)'
      PROVE  Flowing(e)' /\ Whole(e)'
  <2>1. Keeps(e)
    <3>1. Len(wire'[e]) <= Len(wire[e])
      BY <1>2, <1>3
    <3>2. wire'[e] = wire[e] /\ sent'[Peer(e)] = sent[Peer(e)] /\ taken'[e] = taken[e]
      BY <1>3
    <3> QED
      BY <1>3, <3>1, <3>2, Zenon DEF Keeps
  <2> QED
    BY <2>1, KeepsFlow, Zenon
<1>4. CASE UNCHANGED <<wire, sent, taken, closing, reader, message, running, connect, Cut(e)>>
  BY <1>3, <1>4 DEF Cut, Halted
\* Neither does a step that only cuts the stream off.
<1>22. ASSUME NEW m \in 0 .. Len(wire[e]), wire'[e] = SubSeq(wire[e], 1, m), Cut(e)',
              sent'[Peer(e)] = sent[Peer(e)], taken'[e] = taken[e],
              reader'[e] = reader[e], message'[e] = message[e], Halted(e) => Halted(e)'
       PROVE  Flowing(e)' /\ Whole(e)'
  <2>1. wire[e] \in Seq(Nat)
    BY <1>2
  <2>2. Len(wire'[e]) = m /\ \A i \in 1 .. m : wire'[e][i] = wire[e][i]
    BY <1>22, <2>1, Splitting
  <2>3. Len(wire'[e]) <= Len(wire[e])
    BY <1>2, <2>2
  <2>4. Keeps(e)
    BY <1>22, <2>2, <2>3, Zenon DEF Keeps
  <2> QED
    BY <2>4, KeepsFlow, Zenon
<1>5. CASE ClientInitialize
  <2>1. /\ reader["client"] = "none" /\ socket["client"] = "closed"
        /\ reader' = [reader EXCEPT !["client"] = "idle"]
        /\ UNCHANGED <<wire, sent, taken, closing, message, running, connect>>
    BY <1>5 DEF ClientInitialize, Plain
  <2>2. Cut(e) => Cut(e)'
    BY <2>1 DEF Cut
  <2> QED
    BY <1>1, <1>2, <1>3, <2>1, <2>2 DEF Halted
<1>6. CASE SetReadHandler \/ AcceptPlain
  BY <1>1, <1>4, <1>6 DEF SetReadHandler, AcceptPlain, Cut, StreamTypeOK
<1>7. CASE ConnectToHost
  <2>1. connect = "no" /\ connect' = "kConnected" /\ running' = [running EXCEPT !["client"] = TRUE]
        /\ socket["client"] = "open"
        /\ UNCHANGED <<wire, sent, taken, closing, reader, message>>
    BY <1>7 DEF ConnectToHost, Connected, StartClientReading
  <2>2. Cut(e) => Cut(e)'
    BY <2>1 DEF Cut
  <2> QED
    BY <1>1, <1>2, <1>3, <2>1, <2>2 DEF Halted
<1>8. CASE Handshake
  BY <1>8 DEF Handshake, Connected, Plain
<1>9. CASE ServerInitialize
  BY <1>1, <1>2, <1>3, <1>9 DEF ServerInitialize, Cut, Halted
<1>10. CASE DisconnectFromHost
  BY <1>1, <1>2, <1>3, <1>10 DEF DisconnectFromHost, Cut, Halted
<1>21. CASE SocketDisconnect
  <2>1. /\ TcpDisconnect
        /\ connect = "disconnecting" /\ connect' = "kDisconnected"
        /\ UNCHANGED <<sent, taken, reader, message, closing, running>>
    BY <1>21 DEF SocketDisconnect, TcpDisconnect, TlsDisconnect, TlsDisconnected, Plain
  <2>2. Halted(e) => Halted(e)'
    BY <2>1 DEF Halted
  <2>3. CASE UNCHANGED wire
    <3>1. Cut(e) => Cut(e)'
      BY <1>1, <2>1 DEF TcpDisconnect, Cut, Plain
    <3> QED
      BY <1>3, <2>1, <2>2, <2>3, <3>1
  <2>4. CASE ~UNCHANGED wire
    <3>1. PICK n \in 0 .. Len(wire["client"]), k \in 0 .. Len(wire["server"]) :
             wire' = [wire EXCEPT !["client"] = Take("client", n), !["server"] = Take("server", k)]
      BY <2>1, <2>4 DEF TcpDisconnect
    <3>2. Cut(e)'
      BY <1>1, <2>1, <2>4 DEF TcpDisconnect, Cut, StreamTypeOK
    <3>3. PICK m \in 0 .. Len(wire[e]) : wire'[e] = SubSeq(wire[e], 1, m)
      BY <1>1, <1>2, <3>1 DEF Take
    <3> QED
      BY <1>22, <2>1, <2>2, <3>2, <3>3
  <2> QED
    BY <2>3, <2>4
<1>11. ASSUME NEW x \in Ends, ReaderWakes(x) PROVE Flowing(e)' /\ Whole(e)'
  BY <1>1, <1>2, <1>3, <1>11 DEF ReaderWakes, Goto, Cut, Halted
<1>12. ASSUME NEW x \in Ends, ReadHeader(x) PROVE Flowing(e)' /\ Whole(e)'
  <2>1. CASE x = e
    BY <1>12, <2>1, ReadHeaderFlow, Zenon
  <2>2. CASE x # e
    <3>1. /\ wire'[e] = wire[e] /\ message'[e] = message[e] /\ reader'[e] = reader[e]
          /\ UNCHANGED <<sent, taken, closing, running, connect, socket>>
      BY <1>2, <1>12, <2>2 DEF ReadHeader, Goto
    <3>2. Len(wire'[e]) <= Len(wire[e])
      BY <1>2, <3>1
    <3>3. Keeps(e)
      BY <3>1, <3>2 DEF Keeps, Cut, Halted
    <3> QED
      BY <3>3, KeepsFlow, Zenon
  <2> QED
    BY <2>1, <2>2
<1>13. ASSUME NEW x \in Ends, ReadFails(x) PROVE Flowing(e)' /\ Whole(e)'
  BY <1>1, <1>2, <1>3, <1>13 DEF ReadFails, Goto, Cut, Halted
<1>14. ASSUME NEW x \in Ends, ReadPayload(x) PROVE Flowing(e)' /\ Whole(e)'
  <2>1. CASE x = e
    BY <1>14, <2>1, ReadPayloadFlow, Zenon
  <2>2. CASE x # e
    <3>1. /\ wire'[e] = wire[e] /\ message'[e] = message[e] /\ reader'[e] = reader[e]
          /\ taken'[e] = taken[e] /\ UNCHANGED <<sent, closing, running, connect, socket>>
      BY <1>2, <1>14, <2>2 DEF ReadPayload, Goto, HistoryOK
    <3>2. Len(wire'[e]) <= Len(wire[e])
      BY <1>2, <3>1
    <3>3. Keeps(e)
      BY <3>1, <3>2 DEF Keeps, Cut, Halted
    <3> QED
      BY <3>3, KeepsFlow, Zenon
  <2> QED
    BY <2>1, <2>2
<1>15. ASSUME NEW x \in Ends, ReadThrows(x) \/ TransmitThrows(x) \/ CloseTerminates(x)
       PROVE  Flowing(e)' /\ Whole(e)'
  BY <1>4, <1>15 DEF ReadThrows, TransmitThrows, CloseTerminates, Terminate, Cut
<1>16. ASSUME NEW x \in Ends, StoreRunning(x) PROVE Flowing(e)' /\ Whole(e)'
  <2> DEFINE good == Len(message[x]) > 0 /\ LengthField(message[x]) # 0
  <2>1. /\ reader[x] = "store" /\ reader' = [reader EXCEPT ![x] = "idle"]
        /\ running' = [running EXCEPT ![x] = good]
        /\ message' = [message EXCEPT ![x] = <<>>]
        /\ UNCHANGED <<wire, sent, taken, closing, connect, socket>>
    BY <1>16 DEF StoreRunning, Goto
  <2>2. CASE x # e
    BY <1>2, <1>3, <2>1, <2>2 DEF Cut, Halted
  <2>3. CASE x = e
    <3>1. reader'[e] = "idle" /\ reader[e] = "store" /\ (running'[e] <=> good)
      BY <1>2, <2>1, <2>3
    <3>2. e = "client" => connect' # "no"
      BY <2>1, <2>3 DEF Plain
    <3>3. Halted(e) => Halted(e)'
      BY <2>3, <3>1, <3>2, Zenon DEF Halted
    <3> QED
      BY <1>3, <2>1, <3>1, <3>3 DEF Cut
  <2> QED
    BY <2>2, <2>3
<1>17. ASSUME NEW x \in Ends, CloseSocket(x) PROVE Flowing(e)' /\ Whole(e)'
  <2>1. PICK n \in 0 .. Len(wire[Peer(x)]) :
           wire' = [wire EXCEPT ![Peer(x)] = Take(Peer(x), n), ![x] = <<>>]
    BY <1>17 DEF CloseSocket
  <2>2. closing' = [closing EXCEPT ![x] = "exit"]
        /\ UNCHANGED <<sent, taken, reader, message, running, connect>>
    BY <1>17 DEF CloseSocket
  <2>3. Cut(e)'
    BY <1>1, <1>2, <2>2 DEF Cut
  <2>4. PICK m \in 0 .. Len(wire[e]) : wire'[e] = SubSeq(wire[e], 1, m)
    <3>1. CASE x = e
      <4>1. wire'[e] = <<>> /\ 0 \in 0 .. Len(wire[e]) /\ SubSeq(wire[e], 1, 0) = <<>>
        BY <1>1, <1>2, <2>1, <3>1
      <4> QED
        BY <4>1
    <3>2. CASE x # e
      <4>1. Peer(x) = e
        BY <1>1, <3>2
      <4> QED
        BY <1>2, <2>1, <3>2, <4>1 DEF Take
    <3> QED
      BY <3>1, <3>2
  <2> QED
    BY <1>22, <2>2, <2>3, <2>4 DEF Halted
<1>18. ASSUME NEW x \in Ends, RequestExit(x) PROVE Flowing(e)' /\ Whole(e)'
  BY <1>1, <1>2, <1>3, <1>18 DEF RequestExit, Cut, Halted
<1>19. ASSUME NEW x \in Ends, JoinThread(x) PROVE Flowing(e)' /\ Whole(e)'
  BY <1>1, <1>2, <1>3, <1>19 DEF JoinThread, Cut, Halted
<1>20. ASSUME NEW x \in Ends, NEW length \in Lengths, Transmit(x, length)
       PROVE  Flowing(e)' /\ Whole(e)'
  <2>1. CASE x = Peer(e)
    BY <1>20, <2>1, TransmitFlow, Zenon
  <2>2. CASE x = e
    <3>1. /\ sent'[Peer(e)] = sent[Peer(e)]
          /\ UNCHANGED <<taken, reader, message, closing, running, connect>>
      BY <1>1, <1>2, <1>20, <2>2 DEF Transmit, HistoryOK
    <3>2. CASE Reset
      <4>1. PICK n \in 0 .. Len(wire["server"]) :
               wire' = [wire EXCEPT !["server"] = Take("server", n)]
        BY <3>2 DEF Reset
      <4>2. PICK m \in 0 .. Len(wire[e]) : wire'[e] = SubSeq(wire[e], 1, m)
        <5>1. CASE e = "server"
          BY <1>2, <4>1, <5>1 DEF Take
        <5>2. CASE e # "server"
          <6>1. wire'[e] = wire[e] /\ wire[e] \in Seq(Nat)
            BY <1>1, <1>2, <4>1, <5>2
          <6>2. wire[e] = SubSeq(wire[e], 1, Len(wire[e])) /\ Len(wire[e]) \in 0 .. Len(wire[e])
            BY <1>2, <6>1
          <6> QED
            BY <6>1, <6>2
        <5> QED
          BY <5>1, <5>2
      <4>3. Cut(e)'
        BY <1>1, <3>2 DEF Reset, Cut, StreamTypeOK
      <4> QED
        BY <1>22, <3>1, <4>2, <4>3 DEF Halted
    <3>3. CASE ~Reset
      <4>1. UNCHANGED socket /\ wire'[e] = wire[e]
        BY <1>1, <1>2, <1>20, <2>2, <3>3 DEF Transmit
      <4>2. Len(wire'[e]) <= Len(wire[e])
        BY <1>2, <4>1
      <4>3. Keeps(e)
        BY <3>1, <4>1, <4>2 DEF Keeps, Cut, Halted
      <4> QED
        BY <4>3, KeepsFlow, Zenon
    <3> QED
      BY <3>2, <3>3
  <2> QED
    BY <1>1, <2>1, <2>2, Zenon
<1> QED
  BY <1>4, <1>5, <1>6, <1>7, <1>8, <1>9, <1>10, <1>11, <1>12, <1>13, <1>14, <1>15, <1>16, <1>17,
     <1>18, <1>19, <1>20, <1>21 DEF Next, vars, ReaderStep, Cut

-----------------------------------------------------------------------------
(* The theorems *)

\* The invariant, for any number of messages of any lengths.
THEOREM StreamInvariant == Spec => []StreamInv
<1>1. Init => StreamInv
  <2> SUFFICES ASSUME Init PROVE StreamInv
    OBVIOUS
  <2>1. StreamTypeOK
    <3>1. secure \in BOOLEAN
      BY StreamAssumption DEF Init
    <3>2. <<>> \in Seq(Nat)
      OBVIOUS
    <3>3. \A e \in Ends : handed[e] = {}
      BY DEF Init
    <3> QED
      BY <3>1, <3>2, <3>3, Zenon DEF Init, StreamTypeOK
  <2>2. HistoryOK /\ WellFormed /\ Plain
    <3>1. \A e \in Ends : sent[e] = <<>> /\ reader[e] = "none" /\ closing[e] = "no"
      BY DEF Init
    <3>2. <<>> \in Seq(Seq(Nat)) /\ DOMAIN <<>> = {}
      OBVIOUS
    <3>3. HistoryOK
      BY <3>1, <3>2 DEF Init, HistoryOK
    <3>4. WellFormed
      BY <3>1, <3>2 DEF WellFormed
    <3>5. Plain
      BY <3>1 DEF Plain, Init, Ends
    <3> QED
      BY <3>3, <3>4, <3>5
  <2>3. ASSUME NEW e \in Ends PROVE Flowing(e) /\ Whole(e)
    <3>1. /\ sent[Peer(e)] = <<>> /\ taken[e] = <<>> /\ wire[e] = <<>> /\ reader[e] = "none"
      BY DEF Init, Ends, Peer
    <3> DEFINE at == [k \in Nat |-> 0]
    <3>2. at \in [Nat -> Int] /\ \A k \in Nat : at[k] = 0
      OBVIOUS
    <3> HIDE DEF at
    <3>3. LaidOut(<<>>, <<>>, 1, 0, at) /\ Entire(<<>>, <<>>, at)
      BY <3>2 DEF LaidOut, Entire
    <3>4. Current(e) = 1 /\ Origin(e) = 0
      BY <3>1 DEF Current, Origin
    <3>5. Layout(e)
      BY <3>1, <3>2, <3>3, <3>4 DEF Layout, HasHeader
    <3>6. Whole(e)
      BY <3>1 DEF Whole
    <3> QED
      BY <3>5, <3>6 DEF Flowing
  <2> QED
    BY <2>1, <2>2, <2>3 DEF StreamInv
<1>2. StreamInv /\ [Next]_vars => StreamInv'
  <2> SUFFICES ASSUME StreamInv, [Next]_vars PROVE StreamInv'
    OBVIOUS
  <2>1. StreamTypeOK /\ HistoryOK /\ WellFormed
    BY DEF StreamInv
  <2>2. StreamTypeOK' /\ HistoryOK' /\ WellFormed' /\ secure' = secure
    BY <2>1, TypesKept, WellFormedKept, SecureStays, Zenon
  <2>3. ASSUME ~secure' PROVE Plain' /\ \A e \in Ends : Flowing(e)' /\ Whole(e)'
    <3>1. ~secure /\ Plain /\ \A e \in Ends : Flowing(e) /\ Whole(e)
      BY <2>2, <2>3, Zenon DEF StreamInv
    <3>2. Plain'
      BY <2>1, <3>1, PlainKept, Zenon
    <3>3. ASSUME NEW e \in Ends PROVE Flowing(e)' /\ Whole(e)'
      BY <2>1, <2>2, <3>1, FlowKept, Zenon
    <3> QED
      BY <3>2, <3>3, Zenon
  <2> QED
    BY <2>2, <2>3, Zenon DEF StreamInv, Ends
<1> QED
  BY <1>1, <1>2, PTL DEF Spec

\* The types of what either end and the connection hold.
THEOREM StreamTypeCorrect == Spec => []StreamTypeOK
BY StreamInvariant, PTL DEF StreamInv

\* TcpSocket::Read returns the messages the other end has sent, in their order
\* and whole, however many there are and whatever their lengths and contents; only
\* the last one may have lost its tail, to a close or to a disconnect that came
\* before all of it had arrived.
THEOREM ReadsAsSent == Spec => []ReadAsSent
<1>1. StreamInv => ReadAsSent
  <2> SUFFICES ASSUME StreamInv, ~secure, NEW e \in Ends, NEW i \in 1 .. Len(taken[e])
               PROVE  /\ i <= Len(sent[Peer(e)])
                      /\ \/ taken[e][i] = sent[Peer(e)][i]
                         \/ /\ i = Len(taken[e])
                            /\ socket["client"] = "reset" \/ \E j \in Ends : closing[j] # "no"
                            /\ CutShort(taken[e][i], sent[Peer(e)][i])
    BY Zenon DEF ReadAsSent
  <2>1. Whole(e) /\ Peer(e) \in Ends
    BY DEF StreamInv, Ends, Peer
  <2>2. Drained(e) => socket["client"] = "reset" \/ \E j \in Ends : closing[j] # "no"
    BY <2>1, Zenon DEF Drained, Cut
  <2> QED
    BY <2>1, <2>2, Zenon DEF Whole
<1> QED
  BY <1>1, StreamInvariant, PTL
================================================================================
