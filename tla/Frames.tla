------------------------------- MODULE Frames -------------------------------
(***************************************************************************)
(* PacketParser::parse and DPIEngine::createPacketJob.  The parser walks   *)
(* the Ethernet, IPv4 and TCP or UDP headers of a frame and checks each    *)
(* against the bytes that are there.  createPacketJob does not use the     *)
(* offsets found; it works them out again from the frame, with weaker      *)
(* checks of its own.                                                      *)
(*                                                                         *)
(* A frame is its length and the bytes of the header fields the code looks *)
(* at, each where the headers before it put it.  A field that lies beyond  *)
(* the length is not there: reading it is reading out of bounds.           *)
(***************************************************************************)
EXTENDS Bytes

Frame == [len : Nat, ether_type : Bytes2, version_ihl : ByteValues,
          protocol : ByteValues, src_ip : Bytes4, dest_ip : Bytes4,
          src_port : Bytes2, dest_port : Bytes2, data_offset : ByteValues]

TCP == 6
UDP == 17
IPv4 == 2048  \* EtherType::IPv4, 0x0800

-----------------------------------------------------------------------------
(* PacketParser *)

\* Faulty form of IpToString: the highest byte first.
IpToStringHigh(ip) == SwapBytes32(BytesOf(ip))

\* ipToString: the octets of an address, lowest byte first
IpToString(ip) == BytesOf(ip)

\* parseEthernet
EthernetFits(f) == f.len >= 14
IsIPv4(f) == NetToHost16(f.ether_type) = IPv4

\* parseIPv4: the two tests before and after the header length is known
IPv4Fits(f) == f.len >= 14 + 20
IPHeaderLen(f) == 4 * (f.version_ihl % 16)
IPv4Valid(f) == /\ f.version_ihl \div 16 = 4
                /\ IPHeaderLen(f) >= 20 /\ f.len >= 14 + IPHeaderLen(f)
TransportStart(f) == 14 + IPHeaderLen(f)

\* Faulty form of TCPFits: as for UDP.
TCPFitsShort(f) == f.len >= TransportStart(f) + 8

\* parseTCP
TCPFits(f) == f.len >= TransportStart(f) + 20
TCPHeaderLen(f) == 4 * (f.data_offset \div 16)
TCPValid(f) == /\ TCPHeaderLen(f) >= 20
               /\ f.len >= TransportStart(f) + TCPHeaderLen(f)

\* parseUDP
UDPFits(f) == f.len >= TransportStart(f) + 8

IPv4OK(f) == IPv4Fits(f) /\ IPv4Valid(f)
HasIP(f) == EthernetFits(f) /\ IsIPv4(f) /\ IPv4OK(f)
HasTCP(f) == HasIP(f) /\ f.protocol = TCP /\ TCPFits(f) /\ TCPValid(f)
HasUDP(f) == HasIP(f) /\ f.protocol = UDP /\ UDPFits(f)

\* The offset behind the last header parsed.
HeaderEnd(f) == CASE HasTCP(f) -> TransportStart(f) + TCPHeaderLen(f)
                  [] HasUDP(f) -> TransportStart(f) + 8
                  [] HasIP(f) /\ f.protocol \notin {TCP, UDP} -> TransportStart(f)
                  [] OTHER -> 14

\* Does parse return true?
ParseOK(f) ==
  /\ EthernetFits(f)
  /\ IsIPv4(f) => /\ IPv4OK(f)
                  /\ f.protocol = TCP => HasTCP(f)
                  /\ f.protocol = UDP => HasUDP(f)

\* What the rest of the code uses of a ParsedPacket.
Parsed(f) ==
  [has_tcp |-> HasTCP(f), has_udp |-> HasUDP(f), protocol |-> f.protocol,
   src_ip |-> IpToString(Host32(f.src_ip)),
   dest_ip |-> IpToString(Host32(f.dest_ip)),
   src_port |-> NetToHost16(f.src_port), dest_port |-> NetToHost16(f.dest_port),
   payload_length |-> IF HeaderEnd(f) < f.len THEN f.len - HeaderEnd(f) ELSE 0]

\* The bytes parse reads, whether it succeeds in the end or not.
ParseReads(f) ==
  LET ethernet == EthernetFits(f)
      ip       == ethernet /\ IsIPv4(f) /\ IPv4Fits(f)
      tcp      == ip /\ IPv4Valid(f) /\ f.protocol = TCP /\ TCPFits(f)
      udp      == ip /\ IPv4Valid(f) /\ f.protocol = UDP /\ UDPFits(f)
      If(b, p) == IF b THEN {p} ELSE {}
  IN  If(ethernet, Piece(0, 14)) \cup If(ip, Piece(14, 20))
        \cup If(tcp, Piece(TransportStart(f), 14))
        \cup If(udp, Piece(TransportStart(f), 4))

-----------------------------------------------------------------------------
(* createPacketJob *)

\* parseIP: the octets of the text set disjoint bits, so that "|" is a sum.
ParseIP(text) == Host32(text)

\* The frames readerThreadFunc makes a job of.
Accepted(f) == ParseOK(f) /\ (HasTCP(f) \/ HasUDP(f))

\* Faulty form of TransportOffset: IP options are forgotten.
TransportOffsetPlain(f) == IF f.len > 14 THEN 14 + 20 ELSE 0

\* transport_offset and payload_offset, from the frame
TransportOffset(f) == IF f.len > 14 THEN 14 + 4 * (f.version_ihl % 16) ELSE 0

PayloadOffset(f, p) ==
  CASE f.len > 14 /\ p.has_tcp /\ f.len > TransportOffset(f) ->
         TransportOffset(f) + 4 * (f.data_offset \div 16)
    [] f.len > 14 /\ p.has_udp /\ ~(p.has_tcp /\ f.len > TransportOffset(f)) ->
         TransportOffset(f) + 8
    [] OTHER -> 0

CreatePacketJob(f, p) ==
  [tuple |-> [src_ip |-> ParseIP(p.src_ip), dst_ip |-> ParseIP(p.dest_ip),
              src_port |-> p.src_port, dst_port |-> p.dest_port,
              protocol |-> p.protocol],
   size |-> f.len, payload_offset |-> PayloadOffset(f, p),
   payload_length |-> IF f.len > 14 /\ PayloadOffset(f, p) < f.len
                      THEN f.len - PayloadOffset(f, p) ELSE 0]

\* The bytes of the frame createPacketJob reads, without a look at what the
\* parser checked.
JobReads(f, p) ==
  (IF f.len > 14 THEN {Piece(14, 1)} ELSE {})
    \cup (IF f.len > 14 /\ p.has_tcp /\ f.len > TransportOffset(f)
          THEN {Piece(TransportOffset(f) + 12, 1)} ELSE {})
=============================================================================
