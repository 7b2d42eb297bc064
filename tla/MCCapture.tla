----------------------------- MODULE MCCapture ------------------------------
(* Small instances of Capture. *)
EXTENDS Capture

Port(n) == <<n \div 256, n % 256>>

\* A frame of protocol p with ip and tcp words of header.
Packet(p, ip, tcp, src, dst, len) ==
  [len |-> len, ether_type |-> <<8, 0>>, version_ihl |-> 64 + ip,
   protocol |-> p, src_ip |-> <<10, 0, 1, 20>>, dest_ip |-> <<93, 18, 21, 34>>,
   src_port |-> Port(src), dest_port |-> Port(dst), data_offset |-> 16 * tcp + 3]

\* Payloads to inspect.  TLS: from none to a hello with a second extension, a
\* name and bytes behind it; HTTP: two empty headers and a name; DNS: one label
\* of 63 bytes, tried as TLS before, or many short ones.
Inspect ==
  {Packet(TCP, 5, 5, 40000, 443, n) : n \in 54 .. 54 + 72}
    \cup {Packet(TCP, 5, 5, 40000, 80, n) : n \in 54 .. 54 + 21}
    \cup {Packet(UDP, 5, 0, 40000, 53, n) : n \in 42 .. 42 + 24}
    \cup {Packet(UDP, 5, 0, 53, 40000, n) : n \in 42 + 75 .. 42 + 77}

\* Headers of every length that matters in frames of every length around them.
Headers ==
  {Packet(p, ip, tcp, 1000, 2000, n) :
     p \in {1, TCP, UDP}, ip \in {4, 5, 6, 15}, tcp \in {4, 5, 6, 15},
     n \in (0 .. 103) \cup (133 .. 135)}
    \cup {[Packet(TCP, 5, 5, 1000, 2000, n) EXCEPT !.version_ihl = 6 * 16 + 5] : n \in 33 .. 55}
    \cup {[Packet(TCP, 5, 5, 1000, 2000, n) EXCEPT !.ether_type = <<8, 6>>] : n \in 13 .. 55}

\* A file in the byte order of its magic number, of records that claim a length.
Order(magic, b) == IF magic = "swapped" THEN SwapBytes32(b) ELSE b
Rec(magic, claim, f) == [incl_len |-> Order(magic, claim), data |-> f]
Capt(magic, snap, rs) ==
  [magic |-> magic, snaplen |-> Order(magic, snap),
   records |-> [i \in 1 .. Len(rs) |-> Rec(magic, rs[i][1], rs[i][2])]]

OneFrame == {Capt("native", <<255, 255, 0, 0>>, <<<<BytesOf(f.len), f>>>>) :
               f \in Inspect \cup Headers}

\* Two whole records, the second of which may be no packet, and one that may
\* be longer than snaplen or 65535 or the file.  Snaplens: below the frames,
\* 60, 65535 and 2^18.
Lookup == Packet(UDP, 5, 0, 1000, 2000, 50)
Segment == Packet(TCP, 5, 6, 1000, 2000, 61)
Arp == [Lookup EXCEPT !.ether_type = <<8, 6>>]
Whole2 == {<<BytesOf(f.len), f>> : f \in {Lookup, Segment, Arp}}
Third == Whole2 \cup
  {<<c, Lookup>> : c \in {<<51, 0, 0, 0>>, <<0, 0, 1, 0>>, <<255, 255, 255, 255>>}}
Many ==
  {Capt(m, snap, SubSeq(<<a, b, c>>, 1, n)) :
     m \in Magics, a \in Whole2, b \in Whole2, c \in Third, n \in 0 .. 3,
     snap \in {<<20, 0, 0, 0>>, <<60, 0, 0, 0>>, <<255, 255, 0, 0>>, <<0, 0, 4, 0>>}}

MCFiles == OneFrame \cup Many

\* Lengths at the edges of what the code compares them with.
MCBytes == {0, 1, 63, 64, 255}
MCWords == {0, 1, 4, 5, 6, 7, 12, 65535}
=============================================================================
