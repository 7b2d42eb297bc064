--------------------------- MODULE CaptureProofs ----------------------------
(***************************************************************************)
(* Theorems about module Capture: frames, headers and payloads of any      *)
(* length, and any lengths claimed in them.                                *)
(***************************************************************************)
EXTENDS Capture, ExtractorsProofs

-----------------------------------------------------------------------------
(* Integers and their bytes *)

\* A number splits into its lowest byte and the rest.
LEMMA LowByte ==
  ASSUME NEW b \in ByteValues, NEW m \in Nat
  PROVE  (b + 256 * m) % 256 = b /\ (b + 256 * m) \div 256 = m
BY SMT DEF ByteValues

\* Dividing by 2^16 and 2^24 is dividing by 2^8 twice and three times.
LEMMA Shifts ==
  ASSUME NEW v \in Nat
  PROVE  /\ v \div 65536 = (v \div 256) \div 256
         /\ v \div 16777216 = ((v \div 256) \div 256) \div 256
<1>1. v \div 65536 = (v \div 256) \div 256
  BY SMT
<1>2. v \div 16777216 = (v \div 65536) \div 256
  BY SMT
<1> QED BY <1>1, <1>2

\* An address, read from the wire as an integer and taken apart again, has its
\* octets where they were.
LEMMA BytesOfHost32 ==
  ASSUME NEW b \in Bytes4
  PROVE  Host32(b) \in Nat /\ BytesOf(Host32(b)) = b
<1>1. /\ b[1] \in ByteValues /\ b[2] \in ByteValues /\ b[3] \in ByteValues
      /\ b[4] \in ByteValues /\ b = <<b[1], b[2], b[3], b[4]>>
  BY DEF Bytes4
<1>n. \A x \in ByteValues : x \in Nat /\ x % 256 = x
  BY SMT DEF ByteValues
<1> DEFINE h3 == b[3] + 256 * b[4]
           h2 == b[2] + 256 * h3
           h1 == b[1] + 256 * h2
<1>2. h3 \in Nat /\ h3 % 256 = b[3] /\ h3 \div 256 = b[4]
  <2>1. b[3] \in Nat /\ b[4] \in Nat
    BY <1>1, <1>n
  <2>2. (b[3] + 256 * b[4]) % 256 = b[3] /\ (b[3] + 256 * b[4]) \div 256 = b[4]
    BY <2>1, <1>1, LowByte
  <2> QED BY <2>1, <2>2
<1> HIDE DEF h3
<1>3. h2 \in Nat /\ h2 % 256 = b[2] /\ h2 \div 256 = h3
  <2>1. b[2] \in Nat /\ h3 \in Nat
    BY <1>1, <1>2, <1>n
  <2>2. (b[2] + 256 * h3) % 256 = b[2] /\ (b[2] + 256 * h3) \div 256 = h3
    BY <2>1, <1>1, LowByte
  <2> QED BY <2>1, <2>2
<1> HIDE DEF h2
<1>4. h1 \in Nat /\ h1 % 256 = b[1] /\ h1 \div 256 = h2
  <2>1. b[1] \in Nat /\ h2 \in Nat
    BY <1>1, <1>3, <1>n
  <2>2. (b[1] + 256 * h2) % 256 = b[1] /\ (b[1] + 256 * h2) \div 256 = h2
    BY <2>1, <1>1, LowByte
  <2> QED BY <2>1, <2>2
<1>5. Host32(b) = h1
  BY DEF Host32, h1, h2, h3
<1> HIDE DEF h1
<1>6. h1 \div 65536 = h3 /\ h1 \div 16777216 = b[4]
  BY <1>2, <1>3, <1>4, Shifts
<1>7. BytesOf(h1) = <<b[1], b[2], b[3], b[4]>>
  BY <1>1, <1>2, <1>3, <1>4, <1>6, <1>n DEF BytesOf
<1> QED BY <1>1, <1>4, <1>5, <1>7

\* A port is its high byte and its low byte.
LEMMA PortValue ==
  ASSUME NEW b \in Bytes2
  PROVE  NetToHost16(b) = 256 * b[1] + b[2]
<1>1. b[1] \in ByteValues /\ b[2] \in ByteValues
  BY DEF Bytes2
<1>2. b[1] \in Nat /\ b[2] \in Nat
  BY <1>1, SMT DEF ByteValues
<1>3. (b[1] + 256 * b[2]) % 256 = b[1] /\ (b[1] + 256 * b[2]) \div 256 = b[2]
  BY <1>1, <1>2, LowByte
<1> QED BY <1>2, <1>3 DEF NetToHost16, SwapBytes16, Host16

-----------------------------------------------------------------------------
(* Frames *)

\* Header lengths are natural numbers.
LEMMA HeaderLengths ==
  ASSUME NEW f \in Frame
  PROVE  /\ f.len \in Nat
         /\ IPHeaderLen(f) \in Nat /\ TCPHeaderLen(f) \in Nat
         /\ TransportStart(f) = 14 + IPHeaderLen(f)
<1>1. f.len \in Nat /\ f.version_ihl \in ByteValues /\ f.data_offset \in ByteValues
  BY DEF Frame
<1>2. f.version_ihl % 16 \in Nat /\ f.data_offset \div 16 \in Nat
  BY <1>1, SMT DEF ByteValues
<1> QED BY <1>1, <1>2 DEF IPHeaderLen, TCPHeaderLen, TransportStart

\* The parser reads nothing behind the frame, whatever the frame is.
LEMMA ParserInFrame ==
  ASSUME NEW f \in Frame, NEW r \in ParseReads(f)
  PROVE  r.first + r.count <= f.len
<1>n. /\ f.len \in Nat /\ IPHeaderLen(f) \in Nat
      /\ TransportStart(f) = 14 + IPHeaderLen(f)
  BY HeaderLengths
<1>1. \/ f.len >= 14 /\ r = Piece(0, 14)
      \/ f.len >= 34 /\ r = Piece(14, 20)
      \/ f.len >= TransportStart(f) + 20 /\ r = Piece(TransportStart(f), 14)
      \/ f.len >= TransportStart(f) + 8 /\ r = Piece(TransportStart(f), 4)
  BY DEF ParseReads, EthernetFits, IPv4Fits, TCPFits, UDPFits
<1> QED BY <1>n, <1>1 DEF Piece

\* For a frame that a job is made of, createPacketJob finds the transport
\* header and the payload where the parser found them.
LEMMA OffsetsAgree ==
  ASSUME NEW f \in Frame, Accepted(f)
  PROVE  /\ HeaderEnd(f) \in Nat /\ HeaderEnd(f) <= f.len
         /\ f.len > 14 /\ TransportOffset(f) = TransportStart(f)
         /\ f.len > TransportOffset(f)
         /\ HasTCP(f) => f.len >= TransportStart(f) + 20
         /\ PayloadOffset(f, Parsed(f)) = HeaderEnd(f)
<1>n. /\ f.len \in Nat /\ IPHeaderLen(f) \in Nat /\ TCPHeaderLen(f) \in Nat
      /\ TransportStart(f) = 14 + IPHeaderLen(f)
  BY HeaderLengths
<1>1. HasTCP(f) \/ HasUDP(f)
  BY DEF Accepted
<1>2. HasTCP(f) => /\ f.len >= TransportStart(f) + 20
                   /\ f.len >= TransportStart(f) + TCPHeaderLen(f)
                   /\ f.protocol = TCP
  BY DEF HasTCP, TCPFits, TCPValid
<1>3. HasUDP(f) => f.len >= TransportStart(f) + 8 /\ f.protocol = UDP
  BY DEF HasUDP, UDPFits
<1>4. f.len > 14 /\ f.len > TransportStart(f)
  BY <1>n, <1>1, <1>2, <1>3
<1>5. TransportOffset(f) = TransportStart(f)
  BY <1>4 DEF TransportOffset, TransportStart, IPHeaderLen
<1>6. Parsed(f).has_tcp = HasTCP(f) /\ Parsed(f).has_udp = HasUDP(f)
  BY DEF Parsed
<1>7. CASE HasTCP(f)
  <2>1. HeaderEnd(f) = TransportStart(f) + TCPHeaderLen(f)
    BY <1>7, <1>2 DEF HeaderEnd, HasUDP, TCP, UDP
  <2>2. PayloadOffset(f, Parsed(f)) = TransportStart(f) + 4 * (f.data_offset \div 16)
    BY <1>7, <1>4, <1>5, <1>6 DEF PayloadOffset
  <2> QED BY <2>1, <2>2, <1>n, <1>2, <1>4, <1>5, <1>7 DEF TCPHeaderLen
<1>8. CASE ~HasTCP(f) /\ HasUDP(f)
  <2>1. HeaderEnd(f) = TransportStart(f) + 8
    BY <1>8, <1>3 DEF HeaderEnd, UDP, TCP
  <2>2. PayloadOffset(f, Parsed(f)) = TransportStart(f) + 8
    BY <1>8, <1>4, <1>5, <1>6 DEF PayloadOffset
  <2> QED BY <2>1, <2>2, <1>n, <1>3, <1>4, <1>5, <1>8
<1> QED BY <1>1, <1>7, <1>8

\* createPacketJob reads nothing behind the frame: its own checks would not
\* see to that, those of the parser do.
LEMMA JobInFrame ==
  ASSUME NEW f \in Frame, Accepted(f), NEW r \in JobReads(f, Parsed(f))
  PROVE  r.first + r.count <= f.len
<1>1. /\ f.len > 14 /\ TransportOffset(f) = TransportStart(f)
      /\ HasTCP(f) => f.len >= TransportStart(f) + 20
  BY OffsetsAgree
<1>2. f.len \in Nat /\ TransportStart(f) \in Nat
  BY HeaderLengths
<1>3. \/ r = Piece(14, 1)
      \/ HasTCP(f) /\ r = Piece(TransportOffset(f) + 12, 1)
  BY DEF JobReads, Parsed
<1> QED BY <1>1, <1>2, <1>3 DEF Piece

-----------------------------------------------------------------------------
(* The invariant *)

Extractor == {"tls", "http", "dns"}

\* The job at hand is that of the frame read last.
MadeOfRaw ==
  raw \in Frame /\ Accepted(raw) /\ job = CreatePacketJob(raw, Parsed(raw))

\* Who works on what.
Working ==
  /\ file \in File /\ position \in Nat
  /\ todo \in Seq(Extractor)
  /\ job # None \/ stage = "job" => MadeOfRaw
  /\ stage # "job" => pc = "done" /\ reads = {}
  /\ stage = "job" /\ (reads # {} \/ pc # "done") => length = job.payload_length

\* What the parser and createPacketJob have read of the frame.
Touched == \A r \in touched : r.first + r.count <= raw.len

CaptureInv == Working /\ Touched /\ WalkInv /\ EndsInv

\* The size and the payload of a job.
LEMMA JobFields ==
  ASSUME MadeOfRaw
  PROVE  /\ job.payload_offset = HeaderEnd(raw) /\ HeaderEnd(raw) \in Nat
         /\ job.payload_length = raw.len - HeaderEnd(raw)
         /\ job.payload_length = Parsed(raw).payload_length
         /\ job.payload_length \in Nat /\ raw.len \in Nat
<1>1. /\ HeaderEnd(raw) \in Nat /\ HeaderEnd(raw) <= raw.len /\ raw.len > 14
      /\ PayloadOffset(raw, Parsed(raw)) = HeaderEnd(raw)
  BY OffsetsAgree DEF MadeOfRaw
<1>2. raw.len \in Nat
  BY HeaderLengths DEF MadeOfRaw
<1>3. job.payload_offset = HeaderEnd(raw)
  BY <1>1 DEF MadeOfRaw, CreatePacketJob
<1>4. job.payload_length = IF HeaderEnd(raw) < raw.len THEN raw.len - HeaderEnd(raw)
                                                       ELSE 0
  BY <1>1 DEF MadeOfRaw, CreatePacketJob
<1>5. Parsed(raw).payload_length = job.payload_length
  BY <1>4 DEF Parsed
<1> QED BY <1>1, <1>2, <1>3, <1>4, <1>5

\* Nothing is read before the file is opened.
LEMMA CaptureStart == CaptureInit => CaptureInv
<1> SUFFICES ASSUME CaptureInit PROVE CaptureInv
  OBVIOUS
<1>1. Working /\ Touched
  BY CaptureAssumption DEF CaptureInit, Working, Touched
<1>2. /\ pc = "done" /\ length = 0 /\ offset = 0 /\ limit = 0 /\ ext = 0
      /\ reads = {} /\ name = << >> /\ turns = 0
  BY DEF CaptureInit
<1>3. TypeOK /\ InBounds /\ Progress /\ Pending
  BY <1>2 DEF TypeOK, PCs, InBounds, Progress, Pending
<1>4. NameInside /\ EndsInv
  BY <1>2 DEF NameInside, EndsInv, Moving, Ends
<1> QED BY <1>1, <1>3, <1>4 DEF CaptureInv, WalkInv

\* A walk that has ended does nothing, and none changes the length of its
\* payload.
LEMMA LengthKept == ASSUME Next PROVE pc # "done" /\ UNCHANGED length
BY DEF Next, IsTLSClientHello, SessionId, SkipShort, CipherSuites, Compression,
       ExtensionBlock, Extension, ServerName, IsHTTPRequest, ScanHost, IsDNSQuery,
       Label, Turn

\* A walk at rest, or about to start, with nothing read.
LEMMA WalkFresh ==
  ASSUME pc' \in Extractor \cup {"done"}, length' \in Nat, offset' = 0, limit' = 0,
         ext' = 0, reads' = {}, name' = << >>, turns' = 0
  PROVE  WalkInv' /\ EndsInv'
<1>1. TypeOK' /\ InBounds' /\ Progress' /\ Pending'
  BY DEF TypeOK, PCs, InBounds, Progress, Pending, Extractor
<1>2. NameInside'
  <2>1. pc' # "label"
    BY DEF Extractor
  <2> QED BY <2>1 DEF NameInside
<1>3. EndsInv'
  <2>n. \A n \in Nat : 0 - 1 <= n /\ 0 <= n + 2
    OBVIOUS
  <2>1. /\ turns' - 1 <= length' /\ turns' - 1 <= offset'
        /\ turns' <= length' + 2
    BY <2>n, Zenon
  <2> QED BY <2>1 DEF EndsInv, Moving, Ends
<1> QED BY <1>1, <1>2, <1>3 DEF WalkInv

\* A walk that is left alone.
LEMMA WalkStill ==
  ASSUME CaptureInv, UNCHANGED walkVars
  PROVE  WalkInv' /\ EndsInv'
<1>1. UNCHANGED vars
  BY DEF walkVars, vars
<1> QED BY <1>1, WalkNext, EndsNext DEF CaptureInv

\* The extractors inspectPayload may try.
LEMMA WalksType ==
  ASSUME NEW j PROVE Walks(j) \in Seq(Extractor)
<1> DEFINE If(b, e) == IF b THEN <<e>> ELSE << >>
<1>1. << >> \in Seq(Extractor)
  OBVIOUS
<1>2. \A b \in BOOLEAN : \A e \in Extractor : If(b, e) \in Seq(Extractor)
  OBVIOUS
<1>3. \A s, t \in Seq(Extractor) : s \o t \in Seq(Extractor)
  OBVIOUS
<1>4. "tls" \in Extractor /\ "http" \in Extractor /\ "dns" \in Extractor
  BY DEF Extractor
<1> DEFINE tls == If(j.tuple.dst_port = 443 \/ j.payload_length >= 50, "tls")
           http == If(j.tuple.dst_port = 80, "http")
           dns == If(53 \in {j.tuple.src_port, j.tuple.dst_port}, "dns")
<1>5. tls \in Seq(Extractor) /\ http \in Seq(Extractor) /\ dns \in Seq(Extractor)
  BY <1>4
<1>6. Walks(j) = << >> \/ Walks(j) = (tls \o http) \o dns
  BY DEF Walks
<1> HIDE DEF tls, http, dns
<1>7. (tls \o http) \o dns \in Seq(Extractor)
  BY <1>3, <1>5
<1> QED BY <1>1, <1>6, <1>7

\* The next frame of the file is a frame.
LEMMA FrameRead ==
  ASSUME Working, ReadFrame
  PROVE  /\ raw' \in Frame /\ position' \in Nat /\ UNCHANGED file
         /\ stage = "read"
<1>1. /\ position \in Nat /\ position < Len(file.records) /\ file.records \in Seq(Record)
      /\ position' = position + 1 /\ raw' = file.records[position'].data
      /\ UNCHANGED file /\ stage = "read"
  BY DEF Working, ReadFrame, File, fileVars
<1>2. position' \in 1 .. Len(file.records)
  BY <1>1
<1>3. file.records[position'] \in Record
  BY <1>1, <1>2
<1> QED BY <1>1, <1>3 DEF Record

\* A frame is read; a job is made of it or not.
LEMMA KeepsRead ==
  ASSUME CaptureInv, ReadSkip \/ ReadJob
  PROVE  CaptureInv'
<1>1. ReadFrame /\ Working
  BY DEF ReadSkip, ReadJob, CaptureInv
<1>2. raw' \in Frame /\ position' \in Nat /\ UNCHANGED file /\ stage = "read"
  BY <1>1, FrameRead
<1>3. UNCHANGED walkVars
  BY <1>1 DEF ReadFrame
<1>4. WalkInv' /\ EndsInv'
  BY <1>3, WalkStill
<1>5. pc = "done" /\ pc' = "done" /\ UNCHANGED <<reads, length>>
  BY <1>1, <1>2, <1>3 DEF Working, walkVars
<1>6. CASE ReadSkip
  <2>1. Touched'
    BY <1>6, <1>2, ParserInFrame DEF ReadSkip, Touched
  <2>2. Working'
    BY <1>1, <1>2, <1>5, <1>6 DEF ReadSkip, Working
  <2> QED BY <2>1, <2>2, <1>4 DEF CaptureInv
<1>7. CASE ReadJob
  <2>1. Touched'
    BY <1>7, <1>2, ParserInFrame, JobInFrame DEF ReadJob, Touched
  <2>2. MadeOfRaw'
    BY <1>7, <1>2 DEF ReadJob, MadeOfRaw
  <2>3. todo' \in Seq(Extractor)
    <3>1. Walks(job') \in Seq(Extractor) /\ << >> \in Seq(Extractor)
      BY WalksType
    <3> QED BY <3>1, <1>7 DEF ReadJob
  <2>4. reads' = {} /\ pc' = "done"
    BY <1>1, <1>2, <1>5 DEF Working
  <2>5. Working'
    BY <1>1, <1>2, <1>5, <1>7, <2>2, <2>3, <2>4 DEF ReadJob, Working
  <2> QED BY <2>1, <2>5, <1>4 DEF CaptureInv
<1> QED BY <1>6, <1>7

\* The reader opens the file, or is through with it.
LEMMA KeepsOpen ==
  ASSUME CaptureInv, OpenFails \/ Open \/ ReadEnd \/ UNCHANGED captureVars
  PROVE  CaptureInv'
<1>1. /\ UNCHANGED <<file, position, raw, touched, job, todo>> /\ UNCHANGED walkVars
      /\ \/ stage # "job" /\ stage' # "job"
         \/ UNCHANGED stage
  BY DEF OpenFails, Open, ReadEnd, captureVars, fileVars
<1>2. WalkInv' /\ EndsInv'
  BY <1>1, WalkStill
<1>3. UNCHANGED <<pc, reads, length>>
  BY <1>1 DEF walkVars
<1>4. MadeOfRaw => MadeOfRaw'
  BY <1>1 DEF MadeOfRaw
<1>5. Working' /\ Touched'
  BY <1>1, <1>3, <1>4 DEF CaptureInv, Working, Touched
<1> QED BY <1>2, <1>5 DEF CaptureInv

\* An extractor starts at the first byte of the payload.
LEMMA KeepsBegin ==
  ASSUME CaptureInv, BeginWalk
  PROVE  CaptureInv'
<1>1. Working /\ Touched /\ stage = "job" /\ MadeOfRaw
  BY DEF CaptureInv, BeginWalk, Working
<1>2. /\ UNCHANGED <<file, stage, position, raw, touched, job, name>>
      /\ pc' = Head(todo) /\ todo' = Tail(todo) /\ todo # << >>
      /\ length' = job.payload_length /\ name = << >>
      /\ offset' = 0 /\ limit' = 0 /\ ext' = 0 /\ reads' = {} /\ turns' = 0
  BY DEF BeginWalk, fileVars, Found
<1>3. Head(todo) \in Extractor /\ Tail(todo) \in Seq(Extractor)
  BY <1>1, <1>2 DEF Working
<1>4. length' \in Nat
  BY <1>1, <1>2, JobFields
<1>5. WalkInv' /\ EndsInv'
  <2>1. pc' \in Extractor \cup {"done"} /\ name' = << >>
    BY <1>2, <1>3
  <2> QED BY <2>1, <1>2, <1>4, WalkFresh
<1>6. MadeOfRaw'
  BY <1>1, <1>2 DEF MadeOfRaw
<1>7. Working' /\ Touched'
  BY <1>1, <1>2, <1>3, <1>6 DEF Working, Touched
<1> QED BY <1>5, <1>7 DEF CaptureInv

\* A block of a walk is a step of Extractors.
LEMMA KeepsWalk ==
  ASSUME CaptureInv, Walk
  PROVE  CaptureInv'
<1>1. Working /\ Touched /\ stage = "job" /\ MadeOfRaw /\ Next
  BY DEF CaptureInv, Walk, Working
<1>2. UNCHANGED <<file, stage, position, raw, touched, job, todo>>
  BY DEF Walk, fileVars
<1>3. WalkInv' /\ EndsInv'
  BY <1>1, WalkNext, EndsNext DEF CaptureInv
<1>4. MadeOfRaw'
  BY <1>1, <1>2 DEF MadeOfRaw
<1>5. length' = job.payload_length
  BY <1>1, LengthKept DEF Working
<1>6. Working' /\ Touched'
  BY <1>1, <1>2, <1>4, <1>5 DEF Working, Touched
<1> QED BY <1>3, <1>6 DEF CaptureInv

\* After the verdict the fast path looks at no byte of the job any more.
LEMMA KeepsVerdict ==
  ASSUME CaptureInv, Forward \/ Drop
  PROVE  CaptureInv'
<1>1. Working /\ Touched /\ stage = "job" /\ MadeOfRaw /\ pc = "done"
  BY DEF CaptureInv, Forward, Drop, Inspected, Working
<1>2. /\ UNCHANGED <<file, position, raw, touched, job, pc>>
      /\ stage' = "read" /\ todo' = << >>
      /\ name' = << >> /\ reads' = {} /\ length' = 0 /\ offset' = 0
      /\ limit' = 0 /\ ext' = 0 /\ turns' = 0
  BY DEF Forward, Drop, Reset, fileVars
<1>3. WalkInv' /\ EndsInv'
  <2>1. pc' \in Extractor \cup {"done"} /\ length' \in Nat
    BY <1>1, <1>2
  <2> QED BY <2>1, <1>2, WalkFresh
<1>4. MadeOfRaw'
  BY <1>1, <1>2 DEF MadeOfRaw
<1>5. Working' /\ Touched'
  BY <1>1, <1>2, <1>4 DEF Working, Touched
<1> QED BY <1>3, <1>5 DEF CaptureInv

\* Every step keeps the invariant.
LEMMA CaptureStep == CaptureInv /\ [CaptureNext]_captureVars => CaptureInv'
BY KeepsOpen, KeepsRead, KeepsBegin, KeepsWalk, KeepsVerdict DEF CaptureNext

\* The invariant holds always.
LEMMA CaptureSafe == CaptureSpec => []CaptureInv
BY CaptureStart, CaptureStep, PTL DEF CaptureSpec

-----------------------------------------------------------------------------
(* What follows *)

\* No byte behind a frame is read, by the parser, by createPacketJob or by an
\* extractor, whatever the headers and the payload say.
THEOREM NothingBeyondFrame == CaptureSpec => []InFrame
<1>1. ASSUME CaptureInv PROVE InFrame
  <2>1. ASSUME stage = "job", NEW r \in reads
        PROVE  job.payload_offset + r.first + r.count <= raw.len
    <3>1. MadeOfRaw /\ length = job.payload_length
      BY <1>1, <2>1 DEF CaptureInv, Working
    <3>2. r.first + r.count <= length /\ r.first \in Nat /\ r.count \in Nat
      BY <1>1, <2>1 DEF CaptureInv, WalkInv, InBounds, TypeOK, Pieces
    <3>3. /\ job.payload_offset \in Nat /\ raw.len \in Nat
          /\ job.payload_length = raw.len - job.payload_offset
      BY <3>1, JobFields
    <3> QED BY <3>1, <3>2, <3>3
  <2>2. Touched
    BY <1>1 DEF CaptureInv
  <2> QED BY <2>1, <2>2 DEF InFrame, Touched
<1> QED BY <1>1, CaptureSafe, PTL

\* createPacketJob finds the payload where the parser found it.
THEOREM PayloadIsParsers == CaptureSpec => []PayloadAgrees
<1>1. ASSUME CaptureInv, job # None PROVE MadeOfRaw
  BY <1>1 DEF CaptureInv, Working
<1>2. CaptureInv => PayloadAgrees
  BY <1>1, JobFields DEF PayloadAgrees
<1> QED BY <1>2, CaptureSafe, PTL

\* Addresses and ports reach the rules as a person writes them, after two
\* conversions to an integer and one to a text.
THEOREM KeysAsWritten == CaptureSpec => []KeyAsWritten
<1>1. ASSUME MadeOfRaw PROVE KeyAsWritten
  <2>1. /\ raw.src_ip \in Bytes4 /\ raw.dest_ip \in Bytes4
        /\ raw.src_port \in Bytes2 /\ raw.dest_port \in Bytes2
    BY <1>1 DEF MadeOfRaw, Frame
  <2>2. /\ job.tuple.src_ip = Host32(BytesOf(Host32(raw.src_ip)))
        /\ job.tuple.dst_ip = Host32(BytesOf(Host32(raw.dest_ip)))
        /\ job.tuple.src_port = NetToHost16(raw.src_port)
        /\ job.tuple.dst_port = NetToHost16(raw.dest_port)
    BY <1>1 DEF MadeOfRaw, CreatePacketJob, Parsed, ParseIP, IpToString
  <2>3. /\ BytesOf(Host32(raw.src_ip)) = raw.src_ip
        /\ BytesOf(Host32(raw.dest_ip)) = raw.dest_ip
    BY <2>1, BytesOfHost32
  <2>4. /\ NetToHost16(raw.src_port) = 256 * raw.src_port[1] + raw.src_port[2]
        /\ NetToHost16(raw.dest_port) = 256 * raw.dest_port[1] + raw.dest_port[2]
    BY <2>1, PortValue
  <2> QED BY <2>2, <2>3, <2>4 DEF KeyAsWritten
<1>2. ASSUME CaptureInv PROVE KeyAsWritten
  <2>1. CASE job = None
    BY <2>1 DEF KeyAsWritten
  <2>2. CASE job # None
    BY <1>1, <1>2, <2>2 DEF CaptureInv, Working
  <2> QED BY <2>1, <2>2
<1> QED BY <1>2, CaptureSafe, PTL

\* The walks over the payloads of a capture, one extractor after the other,
\* stay inside the payload, take names from where they should and end.
THEOREM WalksInCapture == CaptureSpec => [](InBounds /\ NameInside /\ Ends)
<1>1. CaptureInv => InBounds /\ NameInside /\ Ends
  BY DEF CaptureInv, WalkInv, EndsInv
<1> QED BY <1>1, CaptureSafe, PTL

-----------------------------------------------------------------------------
(* The output file *)

\* A frame with the header writeOutputPacket puts before it.
Written(f) == [incl_len |-> BytesOf(f.len), data |-> f]

\* A capture in the byte order of the host: the output has the snaplen of the
\* input, the frames forwarded, and each with a header that reads back.
NativeOutput ==
  /\ needs_byte_swap = FALSE /\ snaplen = file.snaplen
  /\ out.magic = "native" /\ out.snaplen = snaplen
  /\ forwarded \in Seq(Frame)
  /\ out.records = [i \in 1 .. Len(forwarded) |-> Written(forwarded[i])]
  /\ \A i \in 1 .. Len(forwarded) :
       ReadNextPacket(FALSE, snaplen, Written(forwarded[i]))
  /\ stage = "job" => ReadNextPacket(FALSE, snaplen, Written(raw))

OutputInv ==
  /\ file \in Files
  /\ stage = "open" => forwarded = << >>
  /\ file.magic = "native" /\ stage # "open" => NativeOutput

\* A record that was read whole reads back under the length of its frame.
LEMMA RecordAgain ==
  ASSUME file \in Files, file.magic = "native", NEW i \in 1 .. Len(file.records),
         ReadNextPacket(FALSE, file.snaplen, file.records[i])
  PROVE  ReadNextPacket(FALSE, file.snaplen, Written(file.records[i].data))
<1> DEFINE r == file.records[i]
           b == r.incl_len
<1>1. file \in File /\ file.records \in Seq(Record) /\ r \in Record
  BY CaptureAssumption DEF File
<1>2. b \in Bytes4 /\ r.data \in Frame /\ r.data.len \in Nat
  BY <1>1 DEF Record, Frame
<1>3. OpenOK(file) /\ NeedsSwap(file) = FALSE /\ DOMAIN file.records = 1 .. Len(file.records)
  BY <1>1 DEF OpenOK, NeedsSwap
<1>4. Fits(b, file.snaplen) /\ Whole(b, r.data)
  BY DEF ReadNextPacket, MaybeSwap32
<1>5. r.data.len <= Host32(b)
  BY <1>3, <1>4, CaptureAssumption DEF Fits, MaybeSwap32
<1>6. Host32(b) <= r.data.len /\ Host32(b) \in Nat /\ BytesOf(Host32(b)) = b
  BY <1>2, <1>4, BytesOfHost32 DEF Whole
<1> HIDE DEF b
<1>7. r.data.len = Host32(b)
  BY <1>2, <1>5, <1>6
<1>8. Written(r.data) = [incl_len |-> b, data |-> r.data]
  BY <1>6, <1>7 DEF Written
<1> HIDE DEF r
<1>9. Written(r.data).incl_len = b /\ Written(r.data).data = r.data
  BY <1>8
<1>10. ReadNextPacket(FALSE, file.snaplen, Written(r.data))
  BY <1>4, <1>9 DEF ReadNextPacket, MaybeSwap32
<1> QED BY <1>10 DEF r

\* Reading such an output brings back the frames forwarded, all of them.
LEMMA ReadsBack ==
  ASSUME NativeOutput
  PROVE  Readable(out) = forwarded
<1> DEFINE k == Len(forwarded)
           Good(i) == ReadNextPacket(NeedsSwap(out), MaybeSwap32(NeedsSwap(out), out.snaplen),
                                     out.records[i])
           P(n) == /\ \A i \in 1 .. n : Good(i)
                   /\ n < Len(out.records) => ~Good(n + 1)
<1>1. /\ forwarded \in Seq(Frame) /\ k \in Nat
      /\ OpenOK(out) /\ NeedsSwap(out) = FALSE
      /\ MaybeSwap32(NeedsSwap(out), out.snaplen) = snaplen
  BY DEF NativeOutput, OpenOK, NeedsSwap, MaybeSwap32
<1>2. /\ Len(out.records) = k
      /\ \A i \in 1 .. k : out.records[i] = Written(forwarded[i])
  BY <1>1 DEF NativeOutput
<1>3. \A i \in 1 .. k : Good(i)
  BY <1>1, <1>2 DEF NativeOutput
<1> HIDE DEF Good
<1>4. \A n \in 0 .. k : P(n) <=> n = k
  BY <1>1, <1>2, <1>3
<1>5. (CHOOSE n \in 0 .. Len(out.records) : P(n)) = k
  BY <1>1, <1>2, <1>4
<1>6. Readable(out) =
        [i \in 1 .. (CHOOSE n \in 0 .. Len(out.records) : P(n)) |-> out.records[i].data]
  BY <1>1 DEF Readable, Good
<1> HIDE DEF P
<1>7. Readable(out) = [i \in 1 .. k |-> out.records[i].data]
  BY <1>5, <1>6
<1> HIDE DEF k
<1>8. \A f : Written(f).data = f
  BY DEF Written
<1>9. \A i \in 1 .. k : out.records[i].data = forwarded[i]
  BY <1>2, <1>8
<1>10. [i \in 1 .. k |-> out.records[i].data] = [i \in 1 .. k |-> forwarded[i]]
  BY <1>9
<1>11. Readable(out) = [i \in 1 .. k |-> forwarded[i]]
  BY <1>7, <1>10
<1>12. forwarded = [i \in 1 .. k |-> forwarded[i]]
  BY <1>1 DEF k
<1> QED BY <1>11, <1>12

\* The input stays the same, and the file is opened once.
LEMMA InputStays ==
  ASSUME [CaptureNext]_captureVars
  PROVE  /\ UNCHANGED file
         /\ stage' = "open" => stage = "open" /\ UNCHANGED forwarded
BY DEF CaptureNext, OpenFails, Open, ReadEnd, ReadSkip, ReadJob, ReadFrame,
       BeginWalk, Walk, Forward, Drop, Reset, Inspected, fileVars, captureVars

\* A step that writes nothing and does not come to a new job.
LEMMA OutputKept ==
  ASSUME NativeOutput, UNCHANGED <<fileVars, forwarded, out>>,
         stage' = "job" => stage = "job" /\ UNCHANGED raw
  PROVE  NativeOutput'
BY DEF NativeOutput, fileVars

\* The next frame may be written: it was read under the same limits.
LEMMA OutputRead ==
  ASSUME CaptureInv, OutputInv, file.magic = "native", ReadFrame
  PROVE  NativeOutput'
<1>1. NativeOutput /\ Working
  BY DEF CaptureInv, OutputInv, ReadFrame
<1>2. /\ position \in Nat /\ position < Len(file.records)
      /\ file.records \in Seq(Record)
      /\ position' = position + 1 /\ raw' = file.records[position'].data
      /\ UNCHANGED <<fileVars, forwarded, out>>
      /\ ReadNextPacket(needs_byte_swap, snaplen, file.records[position + 1])
  BY <1>1 DEF Working, ReadFrame, File
<1>3. position + 1 \in 1 .. Len(file.records)
  BY <1>2
<1>4. needs_byte_swap = FALSE /\ snaplen = file.snaplen
  BY <1>1 DEF NativeOutput
<1>5. ReadNextPacket(FALSE, file.snaplen, Written(file.records[position + 1].data))
  BY <1>2, <1>3, <1>4, RecordAgain DEF OutputInv
<1>6. ReadNextPacket(FALSE, snaplen', Written(raw'))
  BY <1>2, <1>4, <1>5 DEF fileVars
<1> QED BY <1>1, <1>2, <1>6 DEF NativeOutput, fileVars

\* writeOutputPacket appends a record that reads back.
LEMMA OutputWritten ==
  ASSUME CaptureInv, OutputInv, file.magic = "native", Forward
  PROVE  NativeOutput'
<1>1. NativeOutput /\ MadeOfRaw /\ stage = "job" /\ out' = [out EXCEPT !.records =
        Append(@, [incl_len |-> RecordLength(job), data |-> raw])]
  BY DEF CaptureInv, Working, OutputInv, Forward, Inspected
<1>2. /\ forwarded' = Append(forwarded, raw) /\ stage' = "read" /\ UNCHANGED fileVars
      /\ UNCHANGED raw
  BY DEF Forward, Reset
<1>3. [incl_len |-> RecordLength(job), data |-> raw] = Written(raw)
  BY <1>1 DEF MadeOfRaw, CreatePacketJob, RecordLength, Written
<1>4. raw \in Frame /\ forwarded \in Seq(Frame)
  BY <1>1 DEF MadeOfRaw, NativeOutput
<1>5. /\ forwarded' \in Seq(Frame) /\ Len(forwarded') = Len(forwarded) + 1
      /\ Len(forwarded) \in Nat
      /\ \A i \in 1 .. Len(forwarded) + 1 :
           forwarded'[i] = IF i <= Len(forwarded) THEN forwarded[i] ELSE raw
  BY <1>2, <1>4
<1>6. \A i \in 1 .. Len(forwarded') : ReadNextPacket(FALSE, snaplen, Written(forwarded'[i]))
  <2> TAKE i \in 1 .. Len(forwarded')
  <2>1. \/ i \in 1 .. Len(forwarded) /\ forwarded'[i] = forwarded[i]
        \/ forwarded'[i] = raw
    BY <1>5
  <2> QED BY <1>1, <2>1 DEF NativeOutput
<1>7. /\ out'.magic = "native" /\ out'.snaplen = snaplen
      /\ out'.records = [i \in 1 .. Len(forwarded') |-> Written(forwarded'[i])]
  <2> DEFINE old == [i \in 1 .. Len(forwarded) |-> Written(forwarded[i])]
             new == [i \in 1 .. Len(forwarded') |-> Written(forwarded'[i])]
  <2>1. out'.magic = "native" /\ out'.snaplen = snaplen /\ out'.records = Append(old, Written(raw))
    BY <1>1, <1>3 DEF NativeOutput
  <2>2. Append(old, Written(raw)) = new
    <3>1. old \in Seq({Written(f) : f \in Frame}) /\ Written(raw) \in {Written(f) : f \in Frame}
      BY <1>4
    <3>2. new \in Seq({Written(f) : f \in Frame})
      BY <1>5
    <3>3. Len(old) = Len(forwarded) /\ Len(new) = Len(forwarded) + 1
      BY <1>5
    <3>4. \A i \in 1 .. Len(forwarded) + 1 : Append(old, Written(raw))[i] = new[i]
      BY <1>5, <3>1, <3>3
    <3> QED BY <1>5, <3>1, <3>2, <3>3, <3>4
  <2> QED BY <2>1, <2>2
<1> QED BY <1>1, <1>2, <1>5, <1>6, <1>7 DEF NativeOutput, fileVars

\* Writing keeps the output a capture, reading and inspecting leave it alone.
LEMMA OutputStep ==
  CaptureInv /\ OutputInv /\ [CaptureNext]_captureVars => OutputInv'
<1> SUFFICES ASSUME CaptureInv, OutputInv, [CaptureNext]_captureVars,
                    file.magic = "native", stage' # "open"
             PROVE  NativeOutput'
  BY InputStays DEF OutputInv
<1>1. CASE OpenFails
  BY <1>1 DEF OpenFails, OpenOK
<1>2. CASE Open
  <2>1. /\ needs_byte_swap' = FALSE /\ snaplen' = file.snaplen /\ stage' = "read"
        /\ out' = [magic |-> "native", snaplen |-> file.snaplen, records |-> << >>]
        /\ forwarded' = << >> /\ file' = file
    BY <1>2 DEF Open, NeedsSwap, MaybeSwap32, OutputInv
  <2>2. Len(forwarded') = 0 /\ forwarded' \in Seq(Frame)
    BY <2>1
  <2>3. << >> = [i \in 1 .. 0 |-> Written(forwarded'[i])]
    OBVIOUS
  <2> QED BY <2>1, <2>2, <2>3 DEF NativeOutput
<1>3. CASE ReadEnd \/ BeginWalk \/ Walk \/ Drop \/ UNCHANGED captureVars
  <2>1. /\ UNCHANGED <<fileVars, forwarded, out>>
        /\ stage' = "job" => stage = "job" /\ UNCHANGED raw
        /\ stage # "open"
    BY <1>3 DEF ReadEnd, BeginWalk, Walk, Drop, Inspected, Reset, captureVars, fileVars
  <2> QED BY <2>1, OutputKept DEF OutputInv
<1>4. CASE ReadSkip \/ ReadJob
  BY <1>4, OutputRead DEF ReadSkip, ReadJob
<1>5. CASE Forward
  BY <1>5, OutputWritten
<1> QED BY <1>1, <1>2, <1>3, <1>4, <1>5 DEF CaptureNext

\* The output of a capture in the byte order of the host is a capture again,
\* however long it is: PcapReader reads back every frame forwarded, in order,
\* none longer than the snaplen of the input.
THEOREM OutputIsReadable == CaptureSpec => []OutputReadsBack
<1>1. CaptureInit => OutputInv
  BY DEF CaptureInit, OutputInv
<1>2. OutputInv => OutputReadsBack
  BY ReadsBack DEF OutputInv, OutputReadsBack
<1> QED BY <1>1, <1>2, OutputStep, CaptureSafe, PTL DEF CaptureSpec
=============================================================================
