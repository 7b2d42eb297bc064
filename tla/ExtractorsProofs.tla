-------------------------- MODULE ExtractorsProofs --------------------------
(***************************************************************************)
(* Theorems about module Extractors, for payloads of any length and any    *)
(* lengths claimed in them.                                                *)
(***************************************************************************)
EXTENDS Extractors, TLAPS

\* What a block of the walk may rely on when it begins: how far the fixed
\* part of a hello has brought it, and what has been compared with length.
Progress ==
  /\ pc = "session" => offset = 43
  /\ pc = "ciphers" => offset >= 43 + 1
  /\ pc = "compression" => offset >= 43 + 1 + 2
  /\ pc = "block" => offset >= 43 + 1 + 2 + 1
  /\ pc = "extension" => offset >= 43 + 1 + 2 + 1 + 2 /\ limit <= length
  /\ pc = "sni" => /\ offset >= 43 + 1 + 2 + 1 + 2 + 4
                   /\ offset + ext <= limit /\ limit <= length
  /\ pc = "label" /\ name = << >> => offset = 12

\* Only the last block of a TLS walk knows an extension, and only labels are
\* collected before the end.
Pending ==
  /\ pc \notin {"sni", "done"} => ext = 0
  /\ pc \notin {"label", "done"} => name = << >>

WalkInv == TypeOK /\ InBounds /\ Progress /\ Pending /\ NameInside

\* A walk that goes on has moved in all blocks but one.
Moving ==
  pc # "done" =>
    /\ turns - 1 <= length /\ turns - 1 <= offset
    /\ pc \in {"tls", "http", "dns"} => turns = 0

EndsInv == Moving /\ Ends

-----------------------------------------------------------------------------
\* Lengths read from a payload are natural numbers.
LEMMA LengthsAreNat == Bytes \subseteq Nat /\ Words \subseteq Nat
<1>1. ByteValues \subseteq Nat /\ WordValues \subseteq Nat
  BY SMT DEF ByteValues, WordValues
<1> QED BY <1>1, ExtractorAssumption

\* A walk begins with nothing read.
LEMMA WalkInit == Init => WalkInv
<1> SUFFICES ASSUME Init PROVE WalkInv
  OBVIOUS
<1>1. pc \in {"tls", "http", "dns"} /\ length \in Nat
  <2>1. PICK p \in Payloads : pc = p[1] /\ length = p[2]
    BY DEF Init
  <2>2. p[1] \in {"tls", "http", "dns"} /\ p[2] \in Nat
    BY <2>1, ExtractorAssumption
  <2> QED BY <2>1, <2>2
<1>2. turns = 0 /\ reads = {} /\ name = << >> /\ offset = 0 /\ limit = 0 /\ ext = 0
  BY DEF Init
<1>3. TypeOK /\ InBounds /\ Progress /\ Pending
  BY <1>1, <1>2 DEF TypeOK, PCs, InBounds, Progress, Pending
<1>4. NameInside
  BY <1>1, <1>2 DEF NameInside
<1> QED BY <1>3, <1>4 DEF WalkInv

\* Pieces have natural numbers for bounds.
LEMMA PieceType ==
  ASSUME NEW a \in Nat, NEW b \in Nat
  PROVE  /\ Piece(a, b) \in Pieces
         /\ Piece(a, b).first = a /\ Piece(a, b).count = b
BY DEF Piece, Pieces

\* Type correctness of the next state, from its parts.
LEMMA TypeNext ==
  ASSUME TypeOK, Turn, pc' \in PCs, offset' \in Nat, limit' \in Nat,
         ext' \in Nat, reads' \subseteq Pieces, name' \in Seq(Pieces)
  PROVE  TypeOK'
<1>1. length' \in Nat /\ turns' \in Nat
  BY DEF TypeOK, Turn
<1> QED BY <1>1 DEF TypeOK

\* A walk that stops keeps what it has.
LEMMA StopKeeps ==
  ASSUME WalkInv, Stop, Turn,
         reads' \subseteq Pieces, InBounds'
  PROVE  WalkInv'
<1>1. TypeOK'
  <2>1. length' = length /\ pc' = "done" /\ offset' = offset /\ limit' = limit
        /\ ext' = ext /\ name' = name
    BY DEF Stop, Turn
  <2>2. TypeOK
    BY DEF WalkInv
  <2>3. /\ pc' \in PCs /\ offset' \in Nat /\ limit' \in Nat /\ ext' \in Nat
        /\ name' \in Seq(Pieces)
    BY <2>1, <2>2 DEF TypeOK, PCs
  <2> QED BY <2>2, <2>3, TypeNext
<1>2. Progress' BY DEF Progress, Stop
<1>3. Pending' BY DEF Pending, Stop
<1>4. NameInside'
  <2>1. pc' = "done" /\ name' = name /\ ext' = ext /\ offset' = offset
        /\ limit' = limit /\ length' = length
    BY DEF Stop, Turn
  <2>2. \A i \in DOMAIN name : name[i].first + name[i].count <= length
    BY DEF WalkInv, NameInside
  <2>3. ASSUME ext > 0, name # << >>
        PROVE  pc = "done"
    BY <2>3 DEF WalkInv, Pending, TypeOK
  <2>4. ext > 0 /\ name # << >> =>
          /\ name[1].first >= 43 + 1 + 2 + 1 + 2 + 4 + 5
          /\ name[1].first + name[1].count <= offset + ext
          /\ offset + ext <= limit
    BY <2>3 DEF WalkInv, NameInside
  <2> QED BY <2>1, <2>2, <2>4 DEF NameInside
<1> QED BY <1>1, <1>2, <1>3, <1>4 DEF WalkInv

\* A walk that goes on without a name, TLS or HTTP.
LEMMA GoesOn ==
  ASSUME WalkInv, Turn, UNCHANGED name, pc' \in PCs, pc' \notin {"label", "done"},
         name = << >>, offset' \in Nat, limit' \in Nat, ext' \in Nat,
         reads' \subseteq Pieces, InBounds', Progress',
         pc' = "sni" \/ ext' = 0
  PROVE  WalkInv'
<1>1. TypeOK'
  <2>1. TypeOK
    BY DEF WalkInv
  <2>2. name' \in Seq(Pieces)
    BY <2>1 DEF TypeOK
  <2> QED BY <2>1, <2>2, TypeNext
<1>2. Pending' BY DEF Pending
<1>3. NameInside' BY DEF NameInside
<1> QED BY <1>1, <1>2, <1>3 DEF WalkInv

\* Nothing read.
LEMMA ReadsNothing ==
  ASSUME reads' = {} PROVE reads' \subseteq Pieces /\ InBounds'
BY DEF InBounds

\* One piece inside the payload.
LEMMA ReadsOne ==
  ASSUME WalkInv, Turn, NEW a \in Nat, NEW b \in Nat,
         reads' = {Piece(a, b)}, a + b <= length
  PROVE  reads' \subseteq Pieces /\ InBounds'
BY PieceType DEF InBounds, Turn

\* Two pieces inside the payload.
LEMMA ReadsTwo ==
  ASSUME WalkInv, Turn, NEW a \in Nat, NEW b \in Nat,
         NEW c \in Nat, NEW d \in Nat,
         reads' = {Piece(a, b), Piece(c, d)}, a + b <= length, c + d <= length
  PROVE  reads' \subseteq Pieces /\ InBounds'
BY PieceType DEF InBounds, Turn

\* SessionId and Compression.
LEMMA SkipShortKeeps ==
  ASSUME WalkInv, NEW here, NEW next, SkipShort(here, next),
         \/ here = "session" /\ next = "ciphers"
         \/ here = "compression" /\ next = "block"
  PROVE  WalkInv'
<1>t. TypeOK
  BY DEF WalkInv
<1>1. CASE offset >= length
  BY <1>1, StopKeeps, ReadsNothing DEF SkipShort
<1>2. CASE offset < length
  <2>1. PICK n \in Bytes : offset' = offset + 1 + n
    BY <1>2 DEF SkipShort, WalkInv, TypeOK
  <2>2. n \in Nat /\ offset \in Nat /\ length \in Nat
    BY <1>t, <2>1, LengthsAreNat DEF TypeOK
  <2>3. pc = here /\ pc' = next /\ reads' = {Piece(offset, 1)}
        /\ Turn /\ UNCHANGED <<limit, ext, name>>
    BY <1>2, <2>2 DEF SkipShort
  <2>4. reads' \subseteq Pieces /\ InBounds'
    BY <1>2, <2>2, <2>3, ReadsOne
  <2>5. Progress'
    BY <2>1, <2>2, <2>3 DEF WalkInv, Progress
  <2>6. name = << >> /\ ext = 0 /\ limit \in Nat
    BY <2>3 DEF WalkInv, Pending, TypeOK
  <2> QED BY <2>1, <2>2, <2>3, <2>4, <2>5, <2>6, GoesOn DEF PCs
<1> QED BY <1>1, <1>2, <1>t DEF TypeOK

\* isTLSClientHello and the fixed part of the hello.
LEMMA HelloKeeps == ASSUME WalkInv, IsTLSClientHello PROVE WalkInv'
<1>t. TypeOK /\ pc = "tls" /\ Turn
  BY DEF WalkInv, IsTLSClientHello
<1>1. CASE length < 9
  BY <1>1, <1>t, StopKeeps, ReadsNothing DEF IsTLSClientHello
<1>2. CASE length >= 9
  <2>1. reads' = {Piece(0, 9)}
    BY <1>2, <1>t DEF IsTLSClientHello, TypeOK
  <2>2. reads' \subseteq Pieces /\ InBounds'
    BY <1>2, <1>t, <2>1, ReadsOne DEF TypeOK
  <2>3. CASE Stop
    BY <2>2, <2>3, <1>t, StopKeeps
  <2>4. CASE offset' = 43 /\ pc' = "session" /\ UNCHANGED <<limit, ext, name>>
    <3>1. Progress'
      BY <2>4 DEF Progress
    <3>2. name = << >> /\ ext = 0 /\ limit \in Nat
      BY <1>t DEF WalkInv, Pending, TypeOK
    <3> QED BY <1>t, <2>2, <2>4, <3>1, <3>2, GoesOn DEF PCs
  <2> QED BY <1>2, <1>t, <2>3, <2>4 DEF IsTLSClientHello, TypeOK
<1> QED BY <1>1, <1>2, <1>t DEF TypeOK

\* The cipher suites.
LEMMA CiphersKeeps == ASSUME WalkInv, CipherSuites PROVE WalkInv'
<1>t. TypeOK /\ pc = "ciphers" /\ Turn
  BY DEF WalkInv, CipherSuites
<1>1. CASE offset + 2 > length
  BY <1>1, <1>t, StopKeeps, ReadsNothing DEF CipherSuites
<1>2. CASE offset + 2 <= length
  <2>1. PICK n \in Words : offset' = offset + 2 + n
    BY <1>2, <1>t DEF CipherSuites, TypeOK
  <2>2. n \in Nat /\ offset \in Nat /\ length \in Nat
    BY <1>t, <2>1, LengthsAreNat DEF TypeOK
  <2>3. pc' = "compression" /\ reads' = {Piece(offset, 2)}
        /\ UNCHANGED <<limit, ext, name>>
    BY <1>2, <2>2 DEF CipherSuites
  <2>4. reads' \subseteq Pieces /\ InBounds'
    BY <1>2, <1>t, <2>2, <2>3, ReadsOne
  <2>5. Progress'
    BY <1>t, <2>1, <2>2, <2>3 DEF WalkInv, Progress
  <2>6. name = << >> /\ ext = 0 /\ limit \in Nat
    BY <1>t DEF WalkInv, Pending, TypeOK
  <2> QED BY <1>t, <2>1, <2>2, <2>3, <2>4, <2>5, <2>6, GoesOn DEF PCs
<1> QED BY <1>1, <1>2, <1>t DEF TypeOK

\* The extension block: its end is cut at the end of the payload.
LEMMA BlockKeeps == ASSUME WalkInv, ExtensionBlock PROVE WalkInv'
<1>t. TypeOK /\ pc = "block" /\ Turn
  BY DEF WalkInv, ExtensionBlock
<1>1. CASE offset + 2 > length
  BY <1>1, <1>t, StopKeeps, ReadsNothing DEF ExtensionBlock
<1>2. CASE offset + 2 <= length
  <2>1. PICK n \in Words :
          limit' = IF offset + 2 + n > length THEN length ELSE offset + 2 + n
    BY <1>2, <1>t DEF ExtensionBlock, TypeOK
  <2>2. n \in Nat /\ offset \in Nat /\ length \in Nat
    BY <1>t, <2>1, LengthsAreNat DEF TypeOK
  <2>3. pc' = "extension" /\ reads' = {Piece(offset, 2)} /\ offset' = offset + 2
        /\ UNCHANGED <<ext, name>>
    BY <1>2, <2>2 DEF ExtensionBlock
  <2>4. reads' \subseteq Pieces /\ InBounds'
    BY <1>2, <1>t, <2>2, <2>3, ReadsOne
  <2>5. limit' \in Nat /\ limit' <= length
    BY <2>1, <2>2
  <2>6. Progress'
    BY <1>t, <2>2, <2>3, <2>5 DEF WalkInv, Progress, Turn
  <2>7. name = << >> /\ ext = 0
    BY <1>t DEF WalkInv, Pending
  <2> QED BY <1>t, <2>2, <2>3, <2>4, <2>5, <2>6, <2>7, GoesOn DEF PCs
<1> QED BY <1>1, <1>2, <1>t DEF TypeOK

\* One extension, looked into or skipped, ends before the block does.
LEMMA ExtensionKeeps == ASSUME WalkInv, Extension PROVE WalkInv'
<1>t. TypeOK /\ pc = "extension" /\ Turn
  BY DEF WalkInv, Extension
<1>n. name = << >> /\ ext = 0 /\ offset \in Nat /\ limit \in Nat /\ length \in Nat
  BY <1>t DEF WalkInv, Pending, TypeOK
<1>p. offset >= 43 + 1 + 2 + 1 + 2 /\ limit <= length
  BY <1>t DEF WalkInv, Progress
<1>1. CASE offset + 4 > limit
  BY <1>1, <1>t, StopKeeps, ReadsNothing DEF Extension
<1>2. CASE offset + 4 <= limit
  <2>1. reads' = {Piece(offset, 4)}
    BY <1>2, <1>n DEF Extension
  <2>2. reads' \subseteq Pieces /\ InBounds'
    BY <1>2, <1>t, <1>n, <1>p, <2>1, ReadsOne
  <2>3. PICK n \in Words :
          \/ Stop
          \/ /\ offset + 4 + n <= limit
             /\ offset' = offset + 4 /\ ext' = n /\ pc' = "sni"
             /\ UNCHANGED <<limit, name>>
          \/ /\ offset + 4 + n <= limit
             /\ offset' = offset + 4 + n
             /\ UNCHANGED <<pc, limit, ext, name>>
    BY <1>2, <1>n DEF Extension
  <2>4. n \in Nat
    BY <2>3, LengthsAreNat
  <2>5. CASE Stop
    BY <2>2, <2>5, <1>t, StopKeeps
  <2>6. CASE /\ offset + 4 + n <= limit
             /\ offset' = offset + 4 /\ ext' = n /\ pc' = "sni"
             /\ UNCHANGED <<limit, name>>
    <3>1. Progress'
      BY <1>t, <1>n, <1>p, <2>4, <2>6 DEF Progress, Turn
    <3> QED BY <1>t, <1>n, <2>2, <2>4, <2>6, <3>1, GoesOn DEF PCs
  <2>7. CASE /\ offset + 4 + n <= limit
             /\ offset' = offset + 4 + n
             /\ UNCHANGED <<pc, limit, ext, name>>
    <3>1. Progress'
      BY <1>t, <1>n, <1>p, <2>4, <2>7 DEF Progress, Turn
    <3> QED BY <1>t, <1>n, <2>2, <2>4, <2>7, <3>1, GoesOn DEF PCs
  <2> QED BY <2>3, <2>5, <2>6, <2>7
<1> QED BY <1>1, <1>2, <1>n

\* The end of a walk that returns one piece, a name of TLS or a host.
LEMMA ReturnsOne ==
  ASSUME WalkInv, Turn, UNCHANGED <<offset, limit, ext>>, pc' = "done",
         NEW a \in Nat, NEW b \in Nat, name' = <<Piece(a, b)>>, a + b <= length,
         ext > 0 => /\ a >= 43 + 1 + 2 + 1 + 2 + 4 + 5
                    /\ a + b <= offset + ext /\ offset + ext <= limit,
         reads' \subseteq Pieces, InBounds'
  PROVE  WalkInv'
<1>1. Piece(a, b) \in Pieces /\ Piece(a, b).first = a /\ Piece(a, b).count = b
  BY PieceType
<1>2. name' \in Seq(Pieces) /\ Len(name') = 1 /\ name'[1] = Piece(a, b)
      /\ DOMAIN name' = {1}
  BY <1>1
<1>3. TypeOK'
  <2>1. TypeOK
    BY DEF WalkInv
  <2>2. offset' \in Nat /\ limit' \in Nat /\ ext' \in Nat
    BY <2>1 DEF TypeOK
  <2> QED BY <1>2, <2>1, <2>2, TypeNext DEF PCs
<1>4. Progress' /\ Pending'
  BY DEF Progress, Pending
<1>5. NameInside'
  <2>1. \A i \in DOMAIN name' : name'[i].first + name'[i].count <= length'
    BY <1>1, <1>2 DEF Turn
  <2>2. ext' > 0 => /\ name'[1].first >= 43 + 1 + 2 + 1 + 2 + 4 + 5
                    /\ name'[1].first + name'[1].count <= offset' + ext'
                    /\ offset' + ext' <= limit'
    BY <1>1, <1>2
  <2> QED BY <2>1, <2>2 DEF NameInside
<1> QED BY <1>3, <1>4, <1>5 DEF WalkInv

\* The name ends before its extension does.
LEMMA ServerNameKeeps == ASSUME WalkInv, ServerName PROVE WalkInv'
<1>t. TypeOK /\ pc = "sni" /\ Turn
  BY DEF WalkInv, ServerName
<1>n. offset \in Nat /\ limit \in Nat /\ length \in Nat /\ ext \in Nat
  BY <1>t DEF TypeOK
<1>p. /\ offset >= 43 + 1 + 2 + 1 + 2 + 4
      /\ offset + ext <= limit /\ limit <= length
  BY <1>t DEF WalkInv, Progress
<1>1. CASE ext < 5
  BY <1>1, <1>t, StopKeeps, ReadsNothing DEF ServerName
<1>2. CASE ext >= 5 /\ Stop /\ reads' = {Piece(offset, 5)}
  <2>1. reads' \subseteq Pieces /\ InBounds'
    BY <1>2, <1>t, <1>n, <1>p, ReadsOne
  <2> QED BY <1>2, <1>t, <2>1, StopKeeps
<1>3. CASE /\ ext >= 5
           /\ \E n \in Words :
                /\ n <= ext - 5
                /\ name' = <<Piece(offset + 5, n)>>
                /\ reads' = {Piece(offset, 5), Piece(offset + 5, n)}
                /\ pc' = "done" /\ UNCHANGED <<offset, limit, ext>>
  <2>1. PICK n \in Words :
          /\ n <= ext - 5
          /\ name' = <<Piece(offset + 5, n)>>
          /\ reads' = {Piece(offset, 5), Piece(offset + 5, n)}
          /\ pc' = "done" /\ UNCHANGED <<offset, limit, ext>>
    BY <1>3
  <2>2. n \in Nat
    BY <2>1, LengthsAreNat
  <2>3. offset + 5 \in Nat /\ offset + 5 <= length /\ offset + 5 + n <= length
        /\ offset + 5 + n <= offset + ext
    BY <1>n, <1>p, <1>3, <2>1, <2>2
  <2>4. reads' \subseteq Pieces /\ InBounds'
    BY <1>t, <1>n, <2>1, <2>2, <2>3, ReadsTwo
  <2> QED BY <1>t, <1>n, <1>p, <2>1, <2>2, <2>3, <2>4, ReturnsOne
<1> QED BY <1>1, <1>2, <1>3, <1>n DEF ServerName

\* isHTTPRequest.
LEMMA RequestKeeps == ASSUME WalkInv, IsHTTPRequest PROVE WalkInv'
<1>t. TypeOK /\ pc = "http" /\ Turn
  BY DEF WalkInv, IsHTTPRequest
<1>1. CASE length < 4
  BY <1>1, <1>t, StopKeeps, ReadsNothing DEF IsHTTPRequest
<1>2. CASE length >= 4
  <2>1. reads' = {Piece(0, 4)}
    BY <1>2, <1>t DEF IsHTTPRequest, TypeOK
  <2>2. reads' \subseteq Pieces /\ InBounds'
    BY <1>2, <1>t, <2>1, ReadsOne DEF TypeOK
  <2>3. CASE Stop
    BY <2>2, <2>3, <1>t, StopKeeps
  <2>4. CASE pc' = "scan" /\ UNCHANGED <<offset, limit, ext, name>>
    <3>1. Progress'
      BY <2>4 DEF Progress
    <3>2. name = << >> /\ ext = 0 /\ limit \in Nat /\ offset \in Nat
      BY <1>t DEF WalkInv, Pending, TypeOK
    <3> QED BY <1>t, <2>2, <2>4, <3>1, <3>2, GoesOn DEF PCs
  <2> QED BY <1>2, <1>t, <2>3, <2>4 DEF IsHTTPRequest, TypeOK
<1> QED BY <1>1, <1>2, <1>t DEF TypeOK

\* One turn of the HTTP scan.
LEMMA ScanKeeps == ASSUME WalkInv, ScanHost PROVE WalkInv'
<1>t. TypeOK /\ pc = "scan" /\ Turn
  BY DEF WalkInv, ScanHost
<1>n. name = << >> /\ ext = 0 /\ offset \in Nat /\ limit \in Nat /\ length \in Nat
  BY <1>t DEF WalkInv, Pending, TypeOK
<1>1. CASE offset + 6 >= length
  BY <1>1, <1>t, StopKeeps, ReadsNothing DEF ScanHost
<1>2. CASE /\ offset + 6 < length
           /\ reads' = {Piece(offset, 5)}
           /\ offset' = offset + 1 /\ UNCHANGED <<pc, limit, ext, name>>
  <2>1. reads' \subseteq Pieces /\ InBounds'
    BY <1>2, <1>t, <1>n, ReadsOne
  <2>2. Progress'
    BY <1>2, <1>t DEF Progress
  <2> QED BY <1>2, <1>t, <1>n, <2>1, <2>2, GoesOn DEF PCs
<1>3. ASSUME offset + 6 < length,
             NEW start \in offset + 5 .. length, NEW end \in start .. length,
             reads' = {Piece(offset, 5),
                       Piece(offset + 5, (IF end < length THEN end + 1 ELSE end)
                                           - (offset + 5))},
             \/ /\ end > start
                /\ \E n \in 0 .. end - start : name' = <<Piece(start, n)>>
                /\ pc' = "done" /\ UNCHANGED <<offset, limit, ext>>
             \/ /\ end = start
                /\ offset' = offset + 1 /\ limit' = start + 1
                /\ UNCHANGED <<pc, ext, name>>
      PROVE  WalkInv'
  <2> DEFINE count == (IF end < length THEN end + 1 ELSE end) - (offset + 5)
  <2>1. start \in Nat /\ end \in Nat /\ end <= length /\ offset + 5 <= start
    BY <1>3, <1>n
  <2>2. count \in Nat /\ offset + 5 + count <= length /\ offset + 5 \in Nat
    BY <1>n, <2>1
  <2>3. reads' \subseteq Pieces /\ InBounds'
    <3> HIDE DEF count
    <3>1. reads' = {Piece(offset, 5), Piece(offset + 5, count)}
      BY <1>3 DEF count
    <3> QED BY <1>3, <1>t, <1>n, <2>2, <3>1, ReadsTwo
  <2>4. CASE /\ end > start
             /\ \E n \in 0 .. end - start : name' = <<Piece(start, n)>>
             /\ pc' = "done" /\ UNCHANGED <<offset, limit, ext>>
    <3>1. PICK n \in 0 .. end - start : name' = <<Piece(start, n)>>
      BY <2>4
    <3>2. n \in Nat /\ start + n <= length
      BY <2>1, <1>n, <3>1
    <3>3. ~(ext > 0)
      BY <1>n
    <3> QED BY <1>t, <1>n, <2>1, <2>3, <2>4, <3>1, <3>2, <3>3, ReturnsOne
  <2>5. CASE /\ end = start
             /\ offset' = offset + 1 /\ limit' = start + 1
             /\ UNCHANGED <<pc, ext, name>>
    <3>1. Progress'
      BY <2>5, <1>t DEF Progress
    <3>2. offset' \in Nat /\ limit' \in Nat
      BY <2>5, <2>1, <1>n
    <3> QED BY <1>t, <1>n, <2>3, <2>5, <3>1, <3>2, GoesOn DEF PCs
  <2> QED BY <1>3, <2>4, <2>5
<1>4. CASE offset + 6 < length
  <2>1. CASE reads' = {Piece(offset, 5)}
             /\ offset' = offset + 1 /\ UNCHANGED <<pc, limit, ext, name>>
    BY <1>2, <1>4, <2>1
  <2>2. CASE \E start \in offset + 5 .. length : \E end \in start .. length :
               /\ reads' = {Piece(offset, 5),
                            Piece(offset + 5, (IF end < length THEN end + 1 ELSE end)
                                                - (offset + 5))}
               /\ \/ /\ end > start
                     /\ \E n \in 0 .. end - start : name' = <<Piece(start, n)>>
                     /\ pc' = "done" /\ UNCHANGED <<offset, limit, ext>>
                  \/ /\ end = start
                     /\ offset' = offset + 1 /\ limit' = start + 1
                     /\ UNCHANGED <<pc, ext, name>>
    BY <1>3, <1>4, <2>2, Zenon
  <2>3. ~(offset + 6 >= length)
    BY <1>4, <1>n
  <2> QED BY <2>1, <2>2, <2>3 DEF ScanHost
<1> QED BY <1>1, <1>4, <1>n

\* isDNSQuery.
LEMMA QueryKeeps == ASSUME WalkInv, IsDNSQuery PROVE WalkInv'
<1>t. TypeOK /\ pc = "dns" /\ Turn
  BY DEF WalkInv, IsDNSQuery
<1>1. CASE length < 12
  BY <1>1, <1>t, StopKeeps, ReadsNothing DEF IsDNSQuery
<1>2. CASE length >= 12
  <2>1. reads' = {Piece(2, 4)}
    BY <1>2, <1>t DEF IsDNSQuery, TypeOK
  <2>2. reads' \subseteq Pieces /\ InBounds'
    BY <1>2, <1>t, <2>1, ReadsOne DEF TypeOK
  <2>3. CASE Stop
    BY <2>2, <2>3, <1>t, StopKeeps
  <2>4. CASE offset' = 12 /\ pc' = "label" /\ UNCHANGED <<limit, ext, name>>
    <3>1. name = << >> /\ ext = 0 /\ limit \in Nat
      BY <1>t DEF WalkInv, Pending, TypeOK
    <3>2. Progress' /\ Pending' /\ NameInside'
      BY <2>4, <3>1 DEF Progress, Pending, NameInside
    <3>3. name' \in Seq(Pieces)
      BY <2>4, <3>1
    <3>4. TypeOK'
      BY <1>t, <2>2, <2>4, <3>1, <3>3, TypeNext DEF PCs
    <3> QED BY <2>2, <3>2, <3>4 DEF WalkInv
  <2> QED BY <1>2, <1>t, <2>3, <2>4 DEF IsDNSQuery, TypeOK
<1> QED BY <1>1, <1>2, <1>t DEF TypeOK

\* One more label behind the others.
LEMMA LabelAdded ==
  ASSUME WalkInv, pc = "label", Turn, UNCHANGED <<pc, limit, ext>>,
         NEW n \in 1 .. 63, offset + 1 + n <= length,
         name' = Append(name, Piece(offset + 1, n)), offset' = offset + 1 + n,
         reads' \subseteq Pieces, InBounds'
  PROVE  WalkInv'
<1>t. TypeOK /\ name \in Seq(Pieces) /\ offset \in Nat /\ length \in Nat /\ limit \in Nat
      /\ ext \in Nat
  BY DEF WalkInv, TypeOK
<1> DEFINE p == Piece(offset + 1, n)
<1>1. p \in Pieces /\ p.first = offset + 1 /\ p.count = n
  BY <1>t, PieceType
<1> HIDE DEF p
<1>2. name' = Append(name, p)
  BY DEF p
<1>3. /\ name' \in Seq(Pieces) /\ Len(name') = Len(name) + 1 /\ Len(name) \in Nat
      /\ DOMAIN name' = 1 .. Len(name) + 1 /\ DOMAIN name = 1 .. Len(name)
      /\ name'[Len(name) + 1] = p
      /\ \A i \in 1 .. Len(name) : name'[i] = name[i]
  BY <1>1, <1>2, <1>t
<1>4. TypeOK'
  <2>1. pc' \in PCs /\ offset' \in Nat /\ limit' \in Nat /\ ext' \in Nat
    BY <1>t DEF PCs
  <2> QED BY <1>t, <1>3, <2>1, TypeNext
<1>5. name' # << >>
  BY <1>3
<1>6. Progress' /\ Pending'
  BY <1>5 DEF WalkInv, Progress, Pending
<1>7. NameInside'
  <2>1. /\ \A i \in DOMAIN name : name[i].first + name[i].count <= length
        /\ \A i \in DOMAIN name : name[i].count \in 1 .. 63
        /\ \A i \in 1 .. Len(name) - 1 :
             name[i + 1].first = name[i].first + name[i].count + 1
        /\ name # << >> => /\ name[1].first = 13
                           /\ offset = name[Len(name)].first + name[Len(name)].count
    BY DEF WalkInv, NameInside
  <2>2. name = << >> => offset = 12
    BY DEF WalkInv, Progress
  <2>3. \A i \in DOMAIN name' : name'[i].first + name'[i].count <= length'
    BY <1>1, <1>3, <1>t, <2>1 DEF Turn
  <2>4. ASSUME NEW i \in DOMAIN name' PROVE name'[i].count \in 1 .. 63
    <3>1. CASE i \in 1 .. Len(name)
      BY <3>1, <1>3, <2>1
    <3>2. CASE i = Len(name) + 1
      BY <3>2, <1>1, <1>3
    <3> QED BY <3>1, <3>2, <1>3
  <2>5. ASSUME NEW i \in 1 .. Len(name') - 1
        PROVE  name'[i + 1].first = name'[i].first + name'[i].count + 1
    <3>1. CASE i < Len(name)
      BY <3>1, <1>3, <2>1
    <3>2. CASE i = Len(name)
      <4>1. name # << >>
        BY <3>2, <1>3
      <4> QED BY <4>1, <3>2, <1>1, <1>3, <2>1
    <3>3. Len(name) \in Nat /\ Len(name') - 1 = Len(name)
      BY <1>3
    <3>4. i \in 1 .. Len(name)
      BY <3>3
    <3>5. i < Len(name) \/ i = Len(name)
      BY <3>3, <3>4
    <3> QED BY <3>1, <3>2, <3>5
  <2>6. name'[1].first = 13
    <3>1. CASE name = << >>
      BY <3>1, <1>1, <1>3, <2>2
    <3>2. CASE name # << >>
      BY <3>2, <1>3, <1>t, <2>1
    <3> QED BY <3>1, <3>2
  <2>7. offset' = name'[Len(name')].first + name'[Len(name')].count
    BY <1>1, <1>3, <1>t
  <2> QED BY <2>3, <2>4, <2>5, <2>6, <2>7 DEF NameInside
<1> QED BY <1>4, <1>6, <1>7 DEF WalkInv

\* One turn of the label loop.
LEMMA LabelKeeps == ASSUME WalkInv, Label PROVE WalkInv'
<1>t. TypeOK /\ pc = "label" /\ Turn
  BY DEF WalkInv, Label
<1>n. offset \in Nat /\ length \in Nat
  BY <1>t DEF TypeOK
<1>1. CASE offset >= length
  BY <1>1, <1>t, StopKeeps, ReadsNothing DEF Label
<1>2. CASE offset < length
  <2>1. PICK n \in Bytes :
          \/ Stop /\ reads' = {Piece(offset, 1)}
          \/ /\ n # 0 /\ n <= 63 /\ offset + 1 + n <= length
             /\ reads' = {Piece(offset, 1), Piece(offset + 1, n)}
             /\ name' = Append(name, Piece(offset + 1, n))
             /\ offset' = offset + 1 + n /\ UNCHANGED <<pc, limit, ext>>
    BY <1>2, <1>n DEF Label
  <2>2. n \in Nat
    BY <2>1, LengthsAreNat
  <2>3. CASE Stop /\ reads' = {Piece(offset, 1)}
    <3>1. reads' \subseteq Pieces /\ InBounds'
      BY <1>2, <1>t, <1>n, <2>3, ReadsOne
    <3> QED BY <1>t, <2>3, <3>1, StopKeeps
  <2>4. CASE /\ n # 0 /\ n <= 63 /\ offset + 1 + n <= length
             /\ reads' = {Piece(offset, 1), Piece(offset + 1, n)}
             /\ name' = Append(name, Piece(offset + 1, n))
             /\ offset' = offset + 1 + n /\ UNCHANGED <<pc, limit, ext>>
    <3>1. n \in 1 .. 63 /\ offset + 1 \in Nat /\ offset + 1 <= length
      BY <1>2, <1>n, <2>2, <2>4
    <3>2. reads' \subseteq Pieces /\ InBounds'
      BY <1>t, <1>n, <2>2, <2>4, <3>1, ReadsTwo
    <3> QED BY <1>t, <2>4, <3>1, <3>2, LabelAdded
  <2> QED BY <2>1, <2>3, <2>4
<1> QED BY <1>1, <1>2, <1>n

-----------------------------------------------------------------------------
\* Every block of the three walks keeps the invariant.
LEMMA WalkNext == WalkInv /\ [Next]_vars => WalkInv'
<1> SUFFICES ASSUME WalkInv, [Next]_vars PROVE WalkInv'
  OBVIOUS
<1>1. CASE IsTLSClientHello BY <1>1, HelloKeeps
<1>2. CASE SessionId BY <1>2, SkipShortKeeps DEF SessionId
<1>3. CASE CipherSuites BY <1>3, CiphersKeeps
<1>4. CASE Compression BY <1>4, SkipShortKeeps DEF Compression
<1>5. CASE ExtensionBlock BY <1>5, BlockKeeps
<1>6. CASE Extension BY <1>6, ExtensionKeeps
<1>7. CASE ServerName BY <1>7, ServerNameKeeps
<1>8. CASE IsHTTPRequest BY <1>8, RequestKeeps
<1>9. CASE ScanHost BY <1>9, ScanKeeps
<1>10. CASE IsDNSQuery BY <1>10, QueryKeeps
<1>11. CASE Label BY <1>11, LabelKeeps
<1>12. CASE UNCHANGED vars
  <2>1. UNCHANGED <<length, pc, offset, limit, ext, reads, name, turns>>
    BY <1>12 DEF vars
  <2>2. TypeOK' BY <2>1, SMT DEF WalkInv, TypeOK
  <2>3. InBounds' BY <2>1 DEF WalkInv, InBounds
  <2>4. Progress' BY <2>1 DEF WalkInv, Progress
  <2>5. Pending' BY <2>1 DEF WalkInv, Pending
  <2>6. NameInside' BY <2>1 DEF WalkInv, NameInside
  <2> QED BY <2>2, <2>3, <2>4, <2>5, <2>6 DEF WalkInv
<1> QED BY <1>1, <1>2, <1>3, <1>4, <1>5, <1>6, <1>7, <1>8, <1>9, <1>10, <1>11,
           <1>12 DEF Next

\* SNIExtractor::extract, HTTPHostExtractor::extract and extractQuery read
\* nothing outside the payload they are given, however long it is and
\* whatever lengths are written in it.
THEOREM ReadsInBounds == Spec => []InBounds
<1>1. WalkInv => InBounds BY DEF WalkInv
<1> QED BY WalkInit, WalkNext, <1>1, PTL DEF Spec

\* The names they return are pieces of the extension, header line or question
\* they were found in.
THEOREM NamesInside == Spec => []NameInside
<1>1. WalkInv => NameInside BY DEF WalkInv
<1> QED BY WalkInit, WalkNext, <1>1, PTL DEF Spec

-----------------------------------------------------------------------------
(* Termination *)

\* A block that does not end the walk moves the offset; the first block may
\* leave it where it is.
LEMMA EndsNext == WalkInv /\ EndsInv /\ [Next]_vars => EndsInv'
<1> SUFFICES ASSUME WalkInv, EndsInv, [Next]_vars PROVE EndsInv'
  OBVIOUS
<1>t. /\ turns \in Nat /\ offset \in Nat /\ length \in Nat /\ limit \in Nat
      /\ ext \in Nat
  BY DEF WalkInv, TypeOK
<1>m. /\ pc # "done" => turns - 1 <= length /\ turns - 1 <= offset
      /\ pc \in {"tls", "http", "dns"} => turns = 0
  BY DEF EndsInv, Moving
<1>s. ASSUME pc # "done", Turn, pc' = "done" PROVE EndsInv'
  BY <1>s, <1>t, <1>m DEF EndsInv, Moving, Ends, Turn
<1>f. ASSUME pc \in {"tls", "http", "dns"}, Turn, offset' \in Nat,
             pc' \notin {"tls", "http", "dns"}
      PROVE  EndsInv'
  <2>1. turns' = 1 /\ length' = length
    BY <1>f, <1>m DEF Turn
  <2>2. turns' - 1 <= length' /\ turns' - 1 <= offset' /\ turns' <= length' + 2
    BY <2>1, <1>f, <1>t
  <2> QED BY <1>f, <2>2 DEF EndsInv, Moving, Ends
<1>g. ASSUME pc # "done", Turn, offset' \in Nat, offset' > offset, offset < length,
             pc' \notin {"tls", "http", "dns"}
      PROVE  EndsInv'
  <2>1. turns' = turns + 1 /\ length' = length /\ turns - 1 <= offset
    BY <1>g, <1>m DEF Turn
  <2>2. turns' - 1 <= length' /\ turns' - 1 <= offset' /\ turns' <= length' + 2
    BY <2>1, <1>g, <1>t
  <2> QED BY <1>g, <2>2 DEF EndsInv, Moving, Ends
<1>n. \A n \in Bytes \cup Words : n \in Nat
  BY LengthsAreNat
<1>1. CASE IsTLSClientHello
  BY <1>1, <1>s, <1>f DEF IsTLSClientHello, Stop
<1>2. CASE IsHTTPRequest
  BY <1>2, <1>t, <1>s, <1>f DEF IsHTTPRequest, Stop
<1>3. CASE IsDNSQuery
  BY <1>3, <1>s, <1>f DEF IsDNSQuery, Stop
<1>4. ASSUME NEW here, NEW next, SkipShort(here, next),
             here # "done", next \notin {"tls", "http", "dns"}
      PROVE  EndsInv'
  <2>1. CASE Stop
    BY <1>4, <2>1, <1>s DEF SkipShort, Stop
  <2>2. CASE ~Stop
    <3>1. PICK n \in Bytes : offset' = offset + 1 + n
      BY <1>4, <2>2 DEF SkipShort
    <3>2. n \in Nat /\ ~(offset >= length)
      BY <1>4, <2>2, <3>1, <1>n DEF SkipShort
    <3>3. offset' \in Nat /\ offset' > offset /\ offset < length
      BY <3>1, <3>2, <1>t
    <3>4. pc = here /\ pc' = next /\ Turn
      BY <1>4, <2>2 DEF SkipShort
    <3> QED BY <1>4, <3>3, <3>4, <1>g
  <2> QED BY <2>1, <2>2
<1>5. CASE SessionId \/ Compression
  BY <1>5, <1>4 DEF SessionId, Compression
<1>6. CASE CipherSuites
  <2>1. CASE Stop
    BY <1>6, <2>1, <1>s DEF CipherSuites, Stop
  <2>2. CASE ~Stop
    <3>1. PICK n \in Words : offset' = offset + 2 + n
      BY <1>6, <2>2 DEF CipherSuites
    <3>2. n \in Nat /\ ~(offset + 2 > length)
      BY <1>6, <2>2, <3>1, <1>n DEF CipherSuites
    <3>3. offset' \in Nat /\ offset' > offset /\ offset < length
      BY <3>1, <3>2, <1>t
    <3>4. pc = "ciphers" /\ pc' = "compression" /\ Turn
      BY <1>6, <2>2 DEF CipherSuites
    <3> QED BY <3>3, <3>4, <1>g
  <2> QED BY <2>1, <2>2
<1>7. CASE ExtensionBlock
  <2>1. CASE Stop
    BY <1>7, <2>1, <1>s DEF ExtensionBlock, Stop
  <2>2. CASE ~Stop
    <3>1. /\ pc = "block" /\ pc' = "extension" /\ Turn
          /\ offset' = offset + 2 /\ ~(offset + 2 > length)
      BY <1>7, <2>2 DEF ExtensionBlock
    <3>2. offset' \in Nat /\ offset' > offset /\ offset < length
      BY <3>1, <1>t
    <3> QED BY <3>1, <3>2, <1>g
  <2> QED BY <2>1, <2>2
<1>8. CASE Extension
  <2>1. CASE Stop
    BY <1>8, <2>1, <1>s DEF Extension, Stop
  <2>2. CASE ~Stop
    <3>1. PICK n \in Words : offset' = offset + 4 \/ offset' = offset + 4 + n
      BY <1>8, <2>2 DEF Extension
    <3>2. /\ pc = "extension" /\ pc' \in {"extension", "sni"} /\ Turn
          /\ ~(offset + 4 > limit)
      BY <1>8, <2>2 DEF Extension
    <3>3. limit <= length
      BY <3>2 DEF WalkInv, Progress
    <3>4. n \in Nat
      BY <3>1, <1>n
    <3>5. offset' \in Nat /\ offset' > offset /\ offset < length
      BY <3>1, <3>2, <3>3, <3>4, <1>t
    <3> QED BY <3>2, <3>5, <1>g
  <2> QED BY <2>1, <2>2
<1>9. CASE ServerName
  BY <1>9, <1>s DEF ServerName, Stop
<1>10. CASE ScanHost
  <2>1. CASE pc' = "done"
    BY <1>10, <2>1, <1>s DEF ScanHost
  <2>2. CASE pc' # "done"
    <3>1. /\ pc = "scan" /\ pc' = "scan" /\ Turn
          /\ offset' = offset + 1 /\ ~(offset + 6 >= length)
      BY <1>10, <2>2 DEF ScanHost, Stop
    <3>2. offset' \in Nat /\ offset' > offset /\ offset < length
      BY <3>1, <1>t
    <3> QED BY <3>1, <3>2, <1>g
  <2> QED BY <2>1, <2>2
<1>11. CASE Label
  <2>1. CASE Stop
    BY <1>11, <2>1, <1>s DEF Label, Stop
  <2>2. CASE ~Stop
    <3>1. PICK n \in Bytes : offset' = offset + 1 + n
      BY <1>11, <2>2 DEF Label
    <3>2. n \in Nat
      BY <3>1, <1>n
    <3>3. pc = "label" /\ pc' = "label" /\ Turn /\ ~(offset >= length)
      BY <1>11, <2>2 DEF Label
    <3>4. offset' \in Nat /\ offset' > offset /\ offset < length
      BY <3>1, <3>2, <3>3, <1>t
    <3> QED BY <3>3, <3>4, <1>g
  <2> QED BY <2>1, <2>2
<1>12. CASE UNCHANGED vars
  BY <1>12 DEF vars, EndsInv, Moving, Ends
<1> QED BY <1>1, <1>2, <1>3, <1>5, <1>6, <1>7, <1>8, <1>9, <1>10, <1>11, <1>12
        DEF Next

\* No extractor loops for ever on a packet: a walk has at most two blocks more
\* than its payload has bytes.
THEOREM WalksEnd == Spec => []Ends
<1>1. Init => EndsInv
  <2> SUFFICES ASSUME Init PROVE EndsInv
    OBVIOUS
  <2>1. turns = 0 /\ offset = 0 /\ length \in Nat
    BY WalkInit DEF Init, WalkInv, TypeOK
  <2> QED BY <2>1 DEF EndsInv, Moving, Ends
<1>2. EndsInv => Ends
  BY DEF EndsInv
<1> QED BY WalkInit, WalkNext, EndsNext, <1>1, <1>2, PTL DEF Spec
=============================================================================
