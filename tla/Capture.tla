------------------------------ MODULE Capture -------------------------------
(***************************************************************************)
(* What happens to the bytes of one capture: PcapReader reads its records, *)
(* PacketParser and createPacketJob make jobs of the frames, inspectPayload *)
(* walks over their payloads (Extractors), and the jobs that are forwarded *)
(* are written to the output file.                                         *)
(*                                                                         *)
(* Jobs are taken one at a time: no byte of one is looked at for another,  *)
(* and how jobs overtake each other is the subject of Pipeline.  The       *)
(* verdict on a job, and whether its connection still wants inspecting,    *)
(* are FastPath's and left open here.                                      *)
(*                                                                         *)
(* An integer of a file is its four bytes, in the order of the file.       *)
(***************************************************************************)
EXTENDS Frames, Extractors

CONSTANT Files  \* the input files

Magics == {"native", "swapped", "other"}
Record == [incl_len : Bytes4, data : Frame]
File == [magic : Magics, snaplen : Bytes4, records : Seq(Record)]

VARIABLES
  file,       \* the input
  stage,      \* what the reader, and the fast path behind it, does next
  needs_byte_swap,
  snaplen,    \* global_header_.snaplen, in host order
  position,   \* the record read last
  raw,        \* the frame read last
  touched,    \* history: the bytes of it the parser and createPacketJob read
  job,
  todo,       \* the extractors inspectPayload has still to try
  forwarded,  \* history: the frames handed to the output
  out         \* the output file

walkVars == <<length, pc, offset, limit, ext, reads, name, turns>>
fileVars == <<file, needs_byte_swap, snaplen>>
captureVars == <<file, stage, needs_byte_swap, snaplen, position, raw, touched,
                 job, todo, forwarded, out, walkVars>>

None == [none |-> TRUE]
NoFile == [magic |-> "other", snaplen |-> <<0, 0, 0, 0>>, records |-> << >>]

-----------------------------------------------------------------------------
(* PcapReader *)

\* maybeSwap32, for a reader with needs_byte_swap_ = swap
MaybeSwap32(swap, b) == IF swap THEN SwapBytes32(b) ELSE b

\* open: the byte order follows from the magic number
OpenOK(f) == f.magic \in {"native", "swapped"}
NeedsSwap(f) == f.magic = "swapped"

\* readNextPacket: a length above snaplen, or above 65535, or more than the
\* file has left ends the capture as the end of the file does.
Fits(incl_len, snap) == ~Above(incl_len, snap) /\ ~Above(incl_len, BytesOf(65535))
Whole(incl_len, data) == Host32(incl_len) <= data.len
ReadNextPacket(swap, snap, r) ==
  LET incl_len == MaybeSwap32(swap, r.incl_len)
  IN  Fits(incl_len, snap) /\ Whole(incl_len, r.data)

\* What a reader that opens f gets out of it.
Readable(f) ==
  LET snap == MaybeSwap32(NeedsSwap(f), f.snaplen)
      Good(i) == ReadNextPacket(NeedsSwap(f), snap, f.records[i])
      n == CHOOSE n \in 0 .. Len(f.records) :
             /\ \A i \in 1 .. n : Good(i)
             /\ n < Len(f.records) => ~Good(n + 1)
  IN  IF OpenOK(f) THEN [i \in 1 .. n |-> f.records[i].data] ELSE << >>

\* A record has as many bytes as it claims, or fewer if the file is cut off:
\* what follows them is the next record.
ASSUME CaptureAssumption ==
  /\ Files \subseteq File
  /\ \A f \in Files : OpenOK(f) => \A i \in DOMAIN f.records :
       LET incl_len == MaybeSwap32(NeedsSwap(f), f.records[i].incl_len)
       IN  ~Above(incl_len, BytesOf(65535))
             => f.records[i].data.len <= Host32(incl_len)

-----------------------------------------------------------------------------
CaptureInit ==
  /\ file \in Files
  /\ stage = "open" /\ needs_byte_swap = FALSE /\ snaplen = <<0, 0, 0, 0>>
  /\ position = 0 /\ raw = None /\ touched = {} /\ job = None /\ todo = << >>
  /\ forwarded = << >> /\ out = NoFile
  /\ pc = "done" /\ length = 0 /\ offset = 0 /\ limit = 0 /\ ext = 0
  /\ reads = {} /\ name = << >> /\ turns = 0

\* PcapReader::open fails and the reader thread returns; nothing is written.
OpenFails ==
  /\ stage = "open" /\ ~OpenOK(file)
  /\ stage' = "end"
  /\ UNCHANGED <<fileVars, position, raw, touched, job, todo, forwarded, out, walkVars>>

\* PcapReader::open, then writeOutputHeader writes the header as it now is in
\* memory: the fields swapped, the magic number not.
Open ==
  /\ stage = "open" /\ OpenOK(file)
  /\ stage' = "read"
  /\ needs_byte_swap' = NeedsSwap(file)
  /\ snaplen' = MaybeSwap32(NeedsSwap(file), file.snaplen)
  /\ out' = [magic |-> file.magic, snaplen |-> snaplen', records |-> << >>]
  /\ UNCHANGED <<file, position, raw, touched, job, todo, forwarded, walkVars>>

\* The reader's loop ends.
ReadEnd ==
  /\ stage = "read"
  /\ \/ position = Len(file.records)
     \/ /\ position < Len(file.records)
        /\ ~ReadNextPacket(needs_byte_swap, snaplen, file.records[position + 1])
  /\ stage' = "end"
  /\ UNCHANGED <<fileVars, position, raw, touched, job, todo, forwarded, out, walkVars>>

\* A frame is read.
ReadFrame ==
  /\ stage = "read" /\ position < Len(file.records)
  /\ ReadNextPacket(needs_byte_swap, snaplen, file.records[position + 1])
  /\ position' = position + 1
  /\ raw' = file.records[position'].data
  /\ UNCHANGED <<fileVars, forwarded, out, walkVars>>

\* Nothing is made of a frame that does not parse, or is neither TCP nor UDP.
ReadSkip ==
  /\ ReadFrame
  /\ ~Accepted(raw')
  /\ touched' = ParseReads(raw')
  /\ job' = None /\ UNCHANGED <<stage, todo>>

\* The extractors inspectPayload tries, in order.
Walks(j) ==
  IF j.payload_length = 0 \/ j.payload_offset >= j.size THEN << >> ELSE
  LET If(b, e) == IF b THEN <<e>> ELSE << >>
  IN  If(j.tuple.dst_port = 443 \/ j.payload_length >= 50, "tls")
        \o If(j.tuple.dst_port = 80, "http")
        \o If(53 \in {j.tuple.src_port, j.tuple.dst_port}, "dns")

\* A job is made of a frame.  processPacket inspects it unless its connection
\* has been classified before.
ReadJob ==
  /\ ReadFrame
  /\ Accepted(raw')
  /\ LET parsed == Parsed(raw')
     IN  /\ touched' = ParseReads(raw') \cup JobReads(raw', parsed)
         /\ job' = CreatePacketJob(raw', parsed)
  /\ todo' \in {Walks(job'), << >>}
  /\ stage' = "job"

-----------------------------------------------------------------------------
(* inspectPayload *)

Found == name # << >>

\* The next extractor is called with the payload of the job.
BeginWalk ==
  /\ stage = "job" /\ pc = "done" /\ todo # << >> /\ ~Found
  /\ pc' = Head(todo) /\ todo' = Tail(todo)
  /\ length' = job.payload_length
  /\ offset' = 0 /\ limit' = 0 /\ ext' = 0 /\ reads' = {} /\ turns' = 0
  /\ UNCHANGED <<fileVars, stage, position, raw, touched, job, forwarded, out, name>>

\* A block of the walk (Extractors).
Walk ==
  /\ stage = "job" /\ Next
  /\ UNCHANGED <<fileVars, stage, position, raw, touched, job, todo, forwarded, out>>

\* inspectPayload is through: a name was found, or no extractor is left.
Inspected == stage = "job" /\ pc = "done" /\ (todo = << >> \/ Found)

Reset ==
  /\ stage' = "read" /\ todo' = << >> /\ name' = << >> /\ reads' = {}
  /\ length' = 0 /\ offset' = 0 /\ limit' = 0 /\ ext' = 0 /\ turns' = 0
  /\ UNCHANGED <<fileVars, position, raw, touched, job, pc>>

-----------------------------------------------------------------------------
(* handleOutput and the output thread *)

\* Faulty form of RecordLength: the length of a record in network order.
RecordLengthNet(j) == SwapBytes32(BytesOf(j.size))

\* pkt_header.incl_len, as write leaves it in the file
RecordLength(j) == BytesOf(j.size)

\* writeOutputPacket
Forward ==
  /\ Inspected
  /\ out' = [out EXCEPT !.records =
               Append(@, [incl_len |-> RecordLength(job), data |-> raw])]
  /\ forwarded' = Append(forwarded, raw)
  /\ Reset

Drop == Inspected /\ Reset /\ UNCHANGED <<forwarded, out>>

CaptureNext ==
  \/ OpenFails \/ Open \/ ReadEnd \/ ReadSkip \/ ReadJob
  \/ BeginWalk \/ Walk \/ Forward \/ Drop

CaptureSpec == CaptureInit /\ [][CaptureNext]_captureVars

-----------------------------------------------------------------------------
(* Properties *)

\* Neither the parser nor createPacketJob, which checks less, nor an extractor
\* called with the offset it worked out reads a byte beyond the frame.
InFrame ==
  /\ \A r \in touched : r.first + r.count <= raw.len
  /\ stage = "job" =>
       \A r \in reads : job.payload_offset + r.first + r.count <= raw.len

\* The payload createPacketJob works out from the frame is the one the parser
\* found behind the headers it checked, IP and TCP options included.
PayloadAgrees ==
  job # None => /\ job.payload_offset = HeaderEnd(raw)
                /\ job.payload_length = Parsed(raw).payload_length
                /\ job.payload_offset + job.payload_length = raw.len

\* The addresses and ports of a job are the numbers that a rule for them, as
\* a person writes it, is looked up by: RuleManager::parseIP makes the first
\* octet of a rule the lowest byte, ports are written with the high byte first.
KeyAsWritten ==
  job # None =>
    /\ BytesOf(job.tuple.src_ip) = raw.src_ip
    /\ BytesOf(job.tuple.dst_ip) = raw.dest_ip
    /\ job.tuple.src_port = 256 * raw.src_port[1] + raw.src_port[2]
    /\ job.tuple.dst_port = 256 * raw.dest_port[1] + raw.dest_port[2]

\* The output of a capture in the byte order of the host is a capture that
\* PcapReader reads back: the frames forwarded, every one and in order, none
\* longer than the snaplen the header of the input promised.
OutputReadsBack ==
  file.magic = "native" /\ stage # "open" => Readable(out) = forwarded

\* So is the output of every capture that could be opened, whichever its byte
\* order.
OutputIsCapture == stage \notin {"open"} /\ OpenOK(file) => Readable(out) = forwarded
=============================================================================
