----------------------------- MODULE DoipMessage -----------------------------
(***************************************************************************)
(* Decoding and checking of a received DoIP message: DoipMessage           *)
(* (doip-client/common) and the generic header checks of the UDP and the   *)
(* TCP channel handler.                                                    *)
(*                                                                         *)
(* A frame is a record of what these read: its synchronisation pattern,    *)
(* its payload type, the length field of its header and the number of      *)
(* bytes that were received, which nobody compares with the length field.  *)
(***************************************************************************)
EXTENDS Naturals

kDoipHeaderSize == 8
kSourceAddressSize == 4
kUdpChannelLength == 41
kTcpChannelLength == 4096

Pattern == {"2019", "default", "other"}

\* Span::operator[] checks its index against the size and aborts: taking the
\* address of the first payload byte needs that byte to exist.
Indexable(size, i) == i < size

PayloadOffset(message_type) ==
    IF message_type = "kTcp" THEN kDoipHeaderSize + kSourceAddressSize
                             ELSE kDoipHeaderSize

\* The constructor.  The TCP form reads both addresses below the offset.
Decodable(message_type, size) == Indexable(size, PayloadOffset(message_type))

PayloadSize(message_type, size) == size - PayloadOffset(message_type)

\* ProcessDoIPPayloadLength of the two channels.
UdpPayloadLengthOk(type, length) ==
    type = "announcement" /\ length <= 33

TcpPayloadLengthOk(type, length) ==
    \/ type \in {"activation", "alive check"} /\ length <= 13
    \/ type \in {"positive ack", "negative ack"} /\ length >= 5
    \/ type = "diagnostic" /\ length >= 5

UdpPayloadTypes == {"announcement"}

TcpPayloadTypes ==
    {"activation", "positive ack", "negative ack", "diagnostic", "alive check"}

\* ProcessDoIPHeader: the nack code it finds, none of which is ever sent.  The
\* comparison with kDoip_Protocol_MaxPayload is true of every 32-bit length.
\* Of several codes that apply the code takes the first; only "ok" is used.
ProcessDoIPHeader(frame, types, channelLength, lengthOk) ==
    CASE frame.pattern = "other"      -> "kDoip_GenericHeader_IncorrectPattern"
      [] frame.type \notin types      -> "kDoip_GenericHeader_UnknownPayload"
      [] frame.length > channelLength -> "kDoip_GenericHeader_OutOfMemory"
      [] ~lengthOk                    -> "kDoip_GenericHeader_InvalidPayloadLen"
      [] OTHER                        -> "ok"

UdpHeader(frame) ==
    ProcessDoIPHeader(frame, UdpPayloadTypes, kUdpChannelLength,
                      UdpPayloadLengthOk(frame.type, frame.length))

TcpHeader(frame) ==
    ProcessDoIPHeader(frame, TcpPayloadTypes, kTcpChannelLength,
                      TcpPayloadLengthOk(frame.type, frame.length))
=============================================================================
