--------------------------- MODULE VehicleDiscovery ---------------------------
(***************************************************************************)
(* The search for vehicles: VdConversation, the UDP channel with its       *)
(* identification and announcement handlers, and the UDP clients below.    *)
(*                                                                         *)
(* The API thread sends a request, collects answers for two seconds and    *)
(* returns what VdConversation's collection holds.  The executing thread   *)
(* of the unicast socket checks each answer against the handler's state    *)
(* and then adds it to the collection; the broadcast socket's thread only  *)
(* looks at announcements.  DcmClientMain opens the sockets meanwhile.     *)
(***************************************************************************)
EXTENDS UdpSocket, FiniteSets

CONSTANTS Twins,        \* the vehicles that have the same logical address
          MaxRequests,  \* bound: requests of the application
          MaxDatagrams, \* bound: datagrams from the network
          MaxFailures   \* bound: receives that end with an error

Vehicles == Peers

ASSUME DiscoveryAssumption ==
    /\ Vehicles # {} /\ Twins \subseteq Vehicles
    /\ Self \notin Vehicles /\ Corrupt \notin Vehicles /\ Self # Corrupt
    /\ MaxRequests \in Nat /\ MaxDatagrams \in Nat /\ MaxFailures \in Nat

VARIABLES
    activity,    \* how far DcmClientMain is in VdConversation::Startup
    identifying, \* the identification handler's state
    collection,  \* vehicle_info_collection_
    call,        \* where the API thread is in SendVehicleIdentificationRequest
    snapshot,    \* the map as its copy began
    result,      \* what the last call returned
    requests,    \* the number of calls so far
    outgoing,    \* the request being sent: its length field and its payload bytes
    sent,        \* (history) the calls whose request went out
    datagrams,   \* the number of datagrams that have arrived
    inTime,      \* (history) addresses taken before this call's time was up
    window       \* (history) the call whose window let the last answer in

discoveryVars == <<activity, identifying, collection, call, snapshot,
                   result, requests, outgoing, sent, datagrams, inTime, window>>
historyVars == <<sent, datagrams, inTime, window>>
vars == <<udpVars, discoveryVars>>

VehicleIdentificationState ==
    {"kIdle", "kSendVehicleIdentificationReq", "kWaitForVehicleIdentificationRes",
     "kDoIPCtrlTimeout"}

VehicleInfoResponseError ==
    {"kTransmitFailed", "kInvalidParameters", "kNoResponseReceived"}

Address(v) == IF v \in Twins THEN "shared" ELSE v
Addresses == {Address(v) : v \in Vehicles \cup {Self}}

\* An entry of the collection.  Of the history fields, window is the call whose
\* window let the answer in, and late says that it was over by then.
Entry == [address : Addresses, from : Vehicles \cup {Self, Corrupt}, window : Nat, late : BOOLEAN]

\* Requests: a preselection mode and the length of its value, without colons.
\* The lengths are none, an EID with an odd and an even number of digits, a
\* VIN, two EIDs, and one that is a VIN's only in its last eight bits.
Requests == [mode : 0 .. 3, length : {0, 11, 12, 17, 24, 273}]

NoRequest == [length |-> 0, bytes |-> 0]

-----------------------------------------------------------------------------
(* DcmClientMain: VdConversation::Startup *)

OpenSocket(s) == OpenOk(s) \/ OpenFailed(s)

StartBroadcast ==
    /\ activity = "kInactive"
    /\ OpenSocket("broadcast")
    /\ activity' = "starting"
    /\ UNCHANGED <<identifying, collection, call, snapshot, result,
                   requests, outgoing, historyVars>>

StartUnicast ==
    /\ activity = "starting"
    /\ OpenSocket("unicast")
    /\ activity' = "kActive"
    /\ UNCHANGED <<identifying, collection, call, snapshot, result,
                   requests, outgoing, historyVars>>

-----------------------------------------------------------------------------
(* The API thread: SendVehicleIdentificationRequest *)

\* The bytes of a VIN: one per character, of which an 8-bit count is taken.
SerializeVINFromString(length) == length % 256

\* The bytes of an EID: one per two digits, or for a last single one.
SerializeEIDGIDFromString(length) == ((length % 256) + 1) \div 2

\* The number of bytes DeserializeVehicleInfoRequest makes of the value, none
\* in the modes without one.
PreselectionLength(mode, length) ==
    CASE mode = 1 -> SerializeVINFromString(length)
      [] mode = 2 -> SerializeEIDGIDFromString(length)
      [] OTHER    -> 0

\* Mutant of VerifyVehicleInfoRequest: counts the digits of an EID.
VerifyDigits(mode, length) ==
    <<mode, length % 256>> \in {<<0, 0>>, <<1, 17>>, <<2, 12>>}

VerifyVehicleInfoRequest(mode, length) ==
    <<mode, length % 256>> \in {<<0, 0>>, <<1, 17>>, <<2, 6>>}

\* The length field of the request's header; the value follows it as it is.
GetVehicleIdentificationPayloadLength(mode) ==
    CASE mode = 1 -> 17 [] mode = 2 -> 6 [] OTHER -> 0

Valid(request) ==
    VerifyVehicleInfoRequest(request.mode, PreselectionLength(request.mode, request.length))

RequestInvalid(request) ==
    /\ call = "idle"
    /\ ~Valid(request)
    /\ result' = [error |-> "kInvalidParameters", list |-> {}]
    /\ inTime' = {}
    /\ UNCHANGED <<udpVars, activity, identifying, collection, call, snapshot, requests, outgoing,
                   sent, datagrams, window>>

\* The state changes before the request goes out.  This thread is the only one
\* that changes it, so it is kIdle whenever a call begins.
HandleVehicleIdentificationRequest(request) ==
    /\ call = "idle"
    /\ requests < MaxRequests
    /\ Valid(request)
    /\ identifying = "kIdle"
    /\ identifying' = "kWaitForVehicleIdentificationRes"
    /\ requests' = requests + 1
    /\ outgoing' = [length |-> GetVehicleIdentificationPayloadLength(request.mode),
                    bytes |-> PreselectionLength(request.mode, request.length)]
    /\ result' = [error |-> "kTransmitFailed", list |-> {}]
    /\ inTime' = {}
    /\ call' = "send"
    /\ UNCHANGED <<udpVars, activity, collection, snapshot, sent, datagrams,
                   window>>

SendVehicleIdentificationRequest ==
    /\ call = "send"
    /\ TransmitSent("unicast")
    /\ sent' = sent \cup {requests}
    /\ outgoing' = NoRequest
    /\ call' = "receive"
    /\ UNCHANGED <<activity, identifying, collection, snapshot, result,
                   requests, datagrams, inTime, window>>

\* The collection is left as it is.
SendVehicleIdentificationRequestFailed ==
    /\ call = "send"
    /\ TransmitRefused("unicast")
    /\ identifying' = "kIdle"
    /\ outgoing' = NoRequest
    /\ call' = "idle"
    /\ UNCHANGED <<activity, collection, snapshot, result, requests, historyVars>>

ReceiveAnswers ==
    /\ call = "receive"
    /\ TransmitReceive("unicast")
    /\ call' = "wait"
    /\ UNCHANGED <<activity, identifying, collection, snapshot, result,
                   requests, outgoing, historyVars>>

\* Mutant of CtrlTimeout: waits for the first answer.
WaitForAnswer ==
    /\ call = "wait"
    /\ collection # {}
    /\ identifying' = "kDoIPCtrlTimeout"
    /\ call' = "timeout"
    /\ UNCHANGED <<udpVars, activity, collection, snapshot, result,
                   requests, outgoing, historyVars>>

\* WaitForTimeout is never cancelled here: it ends after kDoIPCtrl.
CtrlTimeout ==
    /\ call = "wait"
    /\ identifying' = "kDoIPCtrlTimeout"
    /\ call' = "timeout"
    /\ UNCHANGED <<udpVars, activity, collection, snapshot, result,
                   requests, outgoing, historyVars>>

BackToIdle ==
    /\ call = "timeout"
    /\ identifying' = "kIdle"
    /\ call' = "empty"
    /\ UNCHANGED <<udpVars, activity, collection, snapshot, result,
                   requests, outgoing, historyVars>>

\* Mutant of NoResponseReceived: reported whatever was collected.
NoResponseAnyway ==
    /\ call = "empty"
    /\ result' = [error |-> "kNoResponseReceived", list |-> {}]
    /\ call' = "idle"
    /\ UNCHANGED <<udpVars, activity, identifying, collection, snapshot,
                   requests, outgoing, historyVars>>

\* From here on the collection is used without vehicle_info_container_mutex_.
NoResponseReceived ==
    /\ call = "empty"
    /\ collection = {}
    /\ result' = [error |-> "kNoResponseReceived", list |-> {}]
    /\ call' = "idle"
    /\ UNCHANGED <<udpVars, activity, identifying, collection, snapshot,
                   requests, outgoing, historyVars>>

CopyBegin ==
    /\ call = "empty"
    /\ collection # {}
    /\ snapshot' = collection
    /\ call' = "copy"
    /\ UNCHANGED <<udpVars, activity, identifying, collection, result,
                   requests, outgoing, historyVars>>

\* Whether the iteration meets an entry added meanwhile is open.
CopyEnd ==
    /\ call = "copy"
    /\ \E met \in SUBSET (collection \ snapshot) :
          result' = [error |-> "none", list |-> snapshot \cup met]
    /\ snapshot' = {}
    /\ call' = "clear"
    /\ UNCHANGED <<udpVars, activity, identifying, collection, requests, outgoing,
                   historyVars>>

\* Mutant of Clear: the collection is kept.
KeepCollection ==
    /\ call = "clear"
    /\ call' = "idle"
    /\ UNCHANGED <<udpVars, activity, identifying, collection, snapshot, result,
                   requests, outgoing, historyVars>>

Clear ==
    /\ call = "clear"
    /\ collection' = {}
    /\ call' = "idle"
    /\ UNCHANGED <<udpVars, activity, identifying, snapshot, result,
                   requests, outgoing, historyVars>>

-----------------------------------------------------------------------------
(* The executing threads: HandleMessageUnicast and HandleMessageBroadcast *)

Frame(m) == [pattern |-> "2019", type |-> m.data.type,
             length |-> IF m.data.type = "announcement" THEN 33 ELSE 1]

\* Back in the run loop of the io context.
Done(s) ==
    /\ io' = [io EXCEPT ![s] = "run"]
    /\ message' = [message EXCEPT ![s] = NoMessage]

Goto(s, place) == io' = [io EXCEPT ![s] = place] /\ UNCHANGED message

\* Mutant of Accepting: the state changes after the request is out.
AcceptAfterSend == call = "wait"

Accepting == identifying = "kWaitForVehicleIdentificationRes"

\* Every datagram of a conforming vehicle is long enough to be decoded.  After
\* the header check the handler's state is read; the collection is filled later.
HandleMessageUnicast ==
    LET m == message["unicast"]
        taken == UdpHeader(Frame(m)) = "ok" /\ Accepting
    IN
    /\ io["unicast"] = "up"
    /\ Decodable("kUdp", m.size)
    /\ IF taken THEN Goto("unicast", "handle") ELSE Done("unicast")
    /\ window' = IF taken THEN requests ELSE 0
    /\ UNCHANGED <<opened, arrived, receives, completed, rx_buffer, overwritten, failures,
                   activity, identifying, collection, call, snapshot, result, requests, outgoing, sent,
                   datagrams, inTime>>

\* The announcement handler is always in kWaitForVehicleAnnouncement and only
\* logs.
HandleMessageBroadcast ==
    /\ io["broadcast"] = "up"
    /\ Decodable("kUdp", message["broadcast"].size)
    /\ Done("broadcast")
    /\ UNCHANGED <<opened, arrived, receives, completed, rx_buffer, overwritten, failures,
                   discoveryVars>>

\* Mutant of Deserialized: the key is the vehicle's IP address.
DeserializedByIp(m) == [address : {m.data.from}, from : {m.data.from}]

\* DeserializeVehicleInfoResponse reads 31 bytes of the payload, the address
\* among them, whether it has them or not.
Deserialized(m) ==
    IF m.data.from = Corrupt \/ PayloadSize("kUdp", m.size) < 31
    THEN [address : Addresses, from : {Corrupt}]
    ELSE {[address |-> Address(m.data.from), from |-> m.data.from]}

\* emplace does nothing if the address has an entry.
HandleMessage ==
    LET late == window # requests \/ ~Accepting IN
    /\ io["unicast"] = "handle"
    /\ \E v \in Deserialized(message["unicast"]) :
         /\ collection' =
               IF \E e \in collection : e.address = v.address THEN collection
               ELSE collection \cup {[address |-> v.address, from |-> v.from,
                                      window |-> window, late |-> late]}
         /\ inTime' = IF late THEN inTime ELSE inTime \cup {v.address}
    /\ window' = 0
    /\ Done("unicast")
    /\ UNCHANGED <<opened, arrived, receives, completed, rx_buffer, overwritten, failures,
                   activity, identifying, call, snapshot, result, requests, outgoing, sent, datagrams>>

-----------------------------------------------------------------------------
(* The vehicles (external): they answer requests, at any time or never; the    *)
(* network loses, delays, reorders and repeats the answers.                    *)

Datagrams(s, datagram) ==
    /\ datagrams < MaxDatagrams
    /\ Arrives(s, datagram)
    /\ datagrams' = datagrams + 1
    /\ UNCHANGED <<activity, identifying, collection, call, snapshot, result, requests, outgoing,
                   sent, inTime, window>>

VehicleAnswers(v) ==
    \E n \in sent : Datagrams("unicast", [from |-> v, type |-> "announcement", answers |-> n])

\* An announcement of a vehicle that starts up, a nack (who sends them does not
\* matter), and a datagram of another client on this host.
Someone == CHOOSE v \in Vehicles : TRUE

VehicleAnnounces ==
    Datagrams("broadcast", [from |-> Someone, type |-> "announcement", answers |-> 0])

VehicleRefuses == Datagrams("unicast", [from |-> Someone, type |-> "nack", answers |-> 0])

OtherClient == Datagrams("unicast", [from |-> Self, type |-> "announcement", answers |-> 0])

ReceptionFails(s) ==
    /\ failures["broadcast"] + failures["unicast"] < MaxFailures
    /\ ReceiveFails(s)
    /\ UNCHANGED discoveryVars

-----------------------------------------------------------------------------

Init ==
    /\ UdpInit
    /\ activity = "kInactive"
    /\ identifying = "kIdle"
    /\ collection = {}
    /\ call = "idle"
    /\ snapshot = {}
    /\ result = [error |-> "none", list |-> {}]
    /\ requests = 0
    /\ outgoing = NoRequest
    /\ sent = {}
    /\ datagrams = 0
    /\ inTime = {}
    /\ window = 0

Sending == SendVehicleIdentificationRequest \/ SendVehicleIdentificationRequestFailed

Collecting == NoResponseReceived \/ CopyBegin \/ CopyEnd \/ Clear

Caller == Sending \/ ReceiveAnswers \/ CtrlTimeout \/ BackToIdle \/ Collecting

Socket(s) == (Reactor(s) \/ ReadBegin(s) \/ ReadCopied(s) \/ ReadEnd(s)) /\ UNCHANGED discoveryVars

Executing(s) ==
    \/ Socket(s)
    \/ s = "broadcast" /\ HandleMessageBroadcast
    \/ s = "unicast" /\ (HandleMessageUnicast \/ HandleMessage)

Network ==
    \/ \E v \in Vehicles : VehicleAnswers(v)
    \/ VehicleRefuses \/ VehicleAnnounces \/ OtherClient
    \/ \E s \in Sockets : ReceptionFails(s)

Next ==
    \/ StartBroadcast \/ StartUnicast
    \/ \E r \in Requests : HandleVehicleIdentificationRequest(r) \/ RequestInvalid(r)
    \/ Caller
    \/ \E s \in Sockets : Executing(s)
    \/ Network

\* A thread inside the library is scheduled; the timer expires.
Fairness ==
    /\ WF_vars(Caller)
    /\ \A s \in Sockets : WF_vars(Executing(s))

Spec == Init /\ [][Next]_vars /\ Fairness

-----------------------------------------------------------------------------
(* Properties *)

\* The variables have their types.
DiscoveryTypeOK ==
    /\ UdpTypeOK
    /\ activity \in {"kInactive", "starting", "kActive"}
    /\ identifying \in VehicleIdentificationState
    /\ collection \subseteq Entry
    /\ \A e, f \in collection : e.address = f.address => e = f
    /\ call \in {"idle", "send", "receive", "wait", "timeout", "empty", "copy", "clear"}
    /\ snapshot \subseteq Entry
    /\ result.error \in VehicleInfoResponseError \cup {"none"} /\ result.list \subseteq Entry
    /\ outgoing \in [length : 0 .. 255, bytes : 0 .. 255]
    /\ requests \in 0 .. MaxRequests /\ sent \subseteq 1 .. MaxRequests
    /\ datagrams \in 0 .. MaxDatagrams /\ inTime \subseteq Addresses /\ window \in 0 .. MaxRequests

\* A request goes out with as many bytes as its header says: the value was checked
\* in another class, after digits were joined to bytes and lengths cast to 8 bits.
LengthFieldIsTrue == outgoing.length = outgoing.bytes

ReceivesInFlight(s) ==
    receives[s] + Len(completed[s]) + (IF io[s] \in {"copy", "rearm"} THEN 1 ELSE 0)

Sends == Cardinality(sent) - (IF call = "receive" THEN 1 ELSE 0)

\* The receives that Open and Transmit have started.
ReceivesStarted(s) ==
    (IF opened[s] = "bound" THEN 1 ELSE 0) + (IF s = "unicast" THEN Sends ELSE 0)

\* No receive is lost but to an error, and none is started twice: each socket that
\* was opened and bound has exactly one receive in flight, the unicast socket one
\* more for every request that went out, less those that ended with an error
\* (Open and Transmit start one, Read starts one for each that it ends).
ReceivesBalanced == \A s \in Sockets : ReceivesInFlight(s) + failures[s] = ReceivesStarted(s)

\* The copy of rx_buffer_ is what one datagram brought, with its length, unless a
\* second receive was performed before the first was copied: several receives in
\* flight share one buffer.
IntactUnlessOverwritten ==
    ~overwritten["unicast"] =>
        \A e \in collection \cup result.list : e.from \in Vehicles /\ e.address = Address(e.from)

\* A call reports only vehicles whose answer its own window let in, except for an
\* answer that was still on its way into the collection when an earlier window
\* closed, and answers of a call that could not transmit.
ReportBelongsToCall ==
    call = "idle" =>
        \A e \in result.list : e.window = requests \/ e.late \/ e.window \notin sent

\* No answer that is in the collection when the time is up is lost: the call
\* reports a vehicle of each such address, although it copies and clears the
\* collection without vehicle_info_container_mutex_.
InTimeIsReported ==
    call \in {"clear", "idle"} /\ requests \in sent =>
        inTime \subseteq {e.address : e \in result.list}

\* "change state before sending if SendVehicleIdentificationRequest call takes
\* more time to return and in the same time async reception starts": an answer
\* to the request in progress that goes up before the time is over is taken.
AnswerIsTaken ==
    [][\A n \in 1 .. MaxRequests :
         /\ HandleMessageUnicast
         /\ message["unicast"].data.type = "announcement"
         /\ message["unicast"].data.answers = n
         /\ n = requests
         /\ call \in {"send", "receive", "wait"}
         => io'["unicast"] = "handle"]_vars

\* Every call returns.
DiscoveryReturns == call # "idle" ~> call = "idle"

\* Every datagram is read that arrives at a socket for which more receives were
\* started than have ended with an error, unless the others end so as well.
EveryDatagramRead ==
    \A s \in Sockets :
        arrived[s] # <<>> /\ failures[s] < ReceivesStarted(s)
        ~> arrived[s] = <<>> \/ failures[s] = ReceivesStarted(s)

=============================================================================
