----------------------------- MODULE Extractors -----------------------------
(***************************************************************************)
(* SNIExtractor::extract, HTTPHostExtractor::extract and                   *)
(* DNSExtractor::extractQuery: three walks over a payload whose lengths    *)
(* come from the payload itself.  A walk moves forward and reads no length *)
(* twice, so that what it reads is chosen when it is read.  Offsets are    *)
(* those of the code, from the first byte of the payload.                  *)
(***************************************************************************)
EXTENDS Bytes, Sequences

CONSTANTS
  Payloads,  \* the walks to start, and the lengths of their payloads
  Bytes,     \* values of one byte that is a length
  Words      \* values of two bytes that are a length

ASSUME ExtractorAssumption ==
  /\ Payloads \subseteq {"tls", "http", "dns"} \X Nat
  /\ Bytes \subseteq ByteValues /\ Words \subseteq WordValues

VARIABLES
  length,    \* of the payload
  pc,        \* the next block of the walk
  offset,    \* offset, or i of the HTTP loop
  limit,     \* TLS: extensions_end; HTTP: no header begins before it
  ext,       \* TLS: extension_length of the SNI extension
  reads,     \* history: the pieces of the payload read by the last step
  name,      \* the pieces the result is made of: none is std::nullopt
  turns      \* history: blocks done

vars == <<length, pc, offset, limit, ext, reads, name, turns>>

Init ==
  /\ \E p \in Payloads : pc = p[1] /\ length = p[2]
  /\ offset = 0 /\ limit = 0 /\ ext = 0
  /\ reads = {} /\ name = << >> /\ turns = 0

\* One block of a walk.
Turn == turns' = turns + 1 /\ UNCHANGED length

\* The walk ends with what it has.
Stop == pc' = "done" /\ UNCHANGED <<offset, limit, ext, name>>

-----------------------------------------------------------------------------
(* TLS *)

\* isTLSClientHello, then handshake_length, the client version and the random:
\* 5 + 4 + 2 + 32 bytes.  A wrong content type, version or message type ends
\* the walk as a record longer than the payload does.
IsTLSClientHello ==
  /\ pc = "tls" /\ Turn
  /\ IF length < 9 THEN Stop /\ reads' = {} ELSE
     /\ reads' = {Piece(0, 9)}
     /\ \/ Stop
        \/ \E record_length \in Words :
             /\ record_length <= length - 5
             /\ offset' = 43 /\ pc' = "session"
             /\ UNCHANGED <<limit, ext, name>>

\* A length of one byte and what it counts are skipped.
SkipShort(here, next) ==
  /\ pc = here /\ Turn
  /\ IF offset >= length THEN Stop /\ reads' = {} ELSE
     /\ reads' = {Piece(offset, 1)}
     /\ \E n \in Bytes : offset' = offset + 1 + n
     /\ pc' = next /\ UNCHANGED <<limit, ext, name>>

SessionId == SkipShort("session", "ciphers")
Compression == SkipShort("compression", "block")

\* Faulty form of CipherSuites: one byte suffices for a length of two.
CipherSuitesShort ==
  /\ pc = "ciphers" /\ Turn
  /\ IF offset + 1 > length THEN Stop /\ reads' = {} ELSE
     /\ reads' = {Piece(offset, 2)}
     /\ \E n \in Words : offset' = offset + 2 + n
     /\ pc' = "compression" /\ UNCHANGED <<limit, ext, name>>

CipherSuites ==
  /\ pc = "ciphers" /\ Turn
  /\ IF offset + 2 > length THEN Stop /\ reads' = {} ELSE
     /\ reads' = {Piece(offset, 2)}
     /\ \E n \in Words : offset' = offset + 2 + n
     /\ pc' = "compression" /\ UNCHANGED <<limit, ext, name>>

\* The extension block, cut at the end of the payload.
ExtensionBlock ==
  /\ pc = "block" /\ Turn
  /\ IF offset + 2 > length THEN Stop /\ reads' = {} ELSE
     /\ reads' = {Piece(offset, 2)}
     /\ \E n \in Words :
          limit' = IF offset + 2 + n > length THEN length ELSE offset + 2 + n
     /\ offset' = offset + 2
     /\ pc' = "extension" /\ UNCHANGED <<ext, name>>

\* Faulty form of Extension: an extension is as long as its contents.
ExtensionNoHeader ==
  /\ pc = "extension" /\ Turn
  /\ IF offset + 4 > limit THEN Stop /\ reads' = {} ELSE
     /\ reads' = {Piece(offset, 4)}
     /\ \E n \in Words :
          \/ offset + 4 + n > limit /\ Stop
          \/ /\ offset + 4 + n <= limit
             /\ offset' = offset + 4 /\ ext' = n /\ pc' = "sni"
             /\ UNCHANGED <<limit, name>>
          \/ /\ offset + 4 + n <= limit
             /\ offset' = offset + n
             /\ UNCHANGED <<pc, limit, ext, name>>

\* One turn of the loop over the extensions: one that does not fit ends the
\* walk, the SNI extension is looked into, another is skipped.
Extension ==
  /\ pc = "extension" /\ Turn
  /\ IF offset + 4 > limit THEN Stop /\ reads' = {} ELSE
     /\ reads' = {Piece(offset, 4)}
     /\ \E n \in Words :
          \/ offset + 4 + n > limit /\ Stop
          \/ /\ offset + 4 + n <= limit
             /\ offset' = offset + 4 /\ ext' = n /\ pc' = "sni"
             /\ UNCHANGED <<limit, name>>
          \/ /\ offset + 4 + n <= limit
             /\ offset' = offset + 4 + n
             /\ UNCHANGED <<pc, limit, ext, name>>

\* The first entry of the SNI list: a list that is too short, an entry that
\* is no host name and a name that does not fit end the walk.
ServerName ==
  /\ pc = "sni" /\ Turn
  /\ IF ext < 5 THEN Stop /\ reads' = {} ELSE
     \/ Stop /\ reads' = {Piece(offset, 5)}
     \/ \E n \in Words :
          /\ n <= ext - 5
          /\ name' = <<Piece(offset + 5, n)>>
          /\ reads' = {Piece(offset, 5), Piece(offset + 5, n)}
          /\ pc' = "done" /\ UNCHANGED <<offset, limit, ext>>

-----------------------------------------------------------------------------
(* HTTP *)

\* isHTTPRequest: one of seven methods in the first four bytes.
IsHTTPRequest ==
  /\ pc = "http" /\ Turn
  /\ IF length < 4 THEN Stop /\ reads' = {} ELSE
     /\ reads' = {Piece(0, 4)}
     /\ \/ Stop
        \/ pc' = "scan" /\ UNCHANGED <<offset, limit, ext, name>>

\* One turn of the search for "host:".  If it is there, the blanks after it
\* end at start and the line at end, each at the end of the payload at the
\* latest; the host is the line up to its first colon.  An empty line is
\* passed over, and the next header begins behind it.
ScanHost ==
  /\ pc = "scan" /\ Turn
  /\ IF offset + 6 >= length THEN Stop /\ reads' = {} ELSE
     \/ /\ reads' = {Piece(offset, 5)}
        /\ offset' = offset + 1 /\ UNCHANGED <<pc, limit, ext, name>>
     \/ /\ offset >= limit
        /\ \E start \in offset + 5 .. length : \E end \in start .. length :
             /\ reads' = {Piece(offset, 5),
                          Piece(offset + 5, (IF end < length THEN end + 1 ELSE end)
                                              - (offset + 5))}
             /\ \/ /\ end > start
                   /\ \E n \in 0 .. end - start : name' = <<Piece(start, n)>>
                   /\ pc' = "done" /\ UNCHANGED <<offset, limit, ext>>
                \/ /\ end = start
                   /\ offset' = offset + 1 /\ limit' = start + 1
                   /\ UNCHANGED <<pc, ext, name>>

-----------------------------------------------------------------------------
(* DNS *)

\* isDNSQuery: the flags and qdcount in a header of 12 bytes.
IsDNSQuery ==
  /\ pc = "dns" /\ Turn
  /\ IF length < 12 THEN Stop /\ reads' = {} ELSE
     /\ reads' = {Piece(2, 4)}
     /\ \/ Stop
        \/ offset' = 12 /\ pc' = "label" /\ UNCHANGED <<limit, ext, name>>

\* Faulty form of Label: the length byte is not counted.
LabelNoLength ==
  /\ pc = "label" /\ Turn
  /\ IF offset >= length THEN Stop /\ reads' = {} ELSE
     \E n \in Bytes :
       \/ /\ n = 0 \/ n > 63 \/ offset + 1 + n > length
          /\ Stop /\ reads' = {Piece(offset, 1)}
       \/ /\ n # 0 /\ n <= 63 /\ offset + 1 + n <= length
          /\ reads' = {Piece(offset, 1), Piece(offset + 1, n)}
          /\ name' = Append(name, Piece(offset + 1, n))
          /\ offset' = offset + n /\ UNCHANGED <<pc, limit, ext>>

\* One label.  The root, a compressed or cut label end the walk with the
\* labels found so far.
Label ==
  /\ pc = "label" /\ Turn
  /\ IF offset >= length THEN Stop /\ reads' = {} ELSE
     \E n \in Bytes :
       \/ /\ n = 0 \/ n > 63 \/ offset + 1 + n > length
          /\ Stop /\ reads' = {Piece(offset, 1)}
       \/ /\ n # 0 /\ n <= 63 /\ offset + 1 + n <= length
          /\ reads' = {Piece(offset, 1), Piece(offset + 1, n)}
          /\ name' = Append(name, Piece(offset + 1, n))
          /\ offset' = offset + 1 + n /\ UNCHANGED <<pc, limit, ext>>

-----------------------------------------------------------------------------
Next ==
  \/ IsTLSClientHello \/ SessionId \/ CipherSuites \/ Compression
  \/ ExtensionBlock \/ Extension \/ ServerName
  \/ IsHTTPRequest \/ ScanHost
  \/ IsDNSQuery \/ Label

Spec == Init /\ [][Next]_vars

-----------------------------------------------------------------------------
(* Properties *)

PCs == {"tls", "session", "ciphers", "compression", "block", "extension", "sni",
        "http", "scan", "dns", "label", "done"}

\* Offsets and lengths are natural numbers.
TypeOK ==
  /\ length \in Nat /\ pc \in PCs
  /\ turns \in Nat /\ offset \in Nat /\ limit \in Nat /\ ext \in Nat
  /\ reads \subseteq Pieces /\ name \in Seq(Pieces)

\* No walk reads outside its payload, whatever lengths the payload claims:
\* nothing between the checks of extract, extractQuery and the HTTP scan and
\* the reads they guard moves the offset too far.
InBounds == \A r \in reads : r.first + r.count <= length

\* A name is a piece of the payload.  One from a hello lies in the extension
\* it is found in, behind the fixed part of the hello; labels follow one
\* another, each of 1 to 63 bytes behind its length byte, from the end of the
\* DNS header on.
NameInside ==
  /\ \A i \in DOMAIN name : name[i].first + name[i].count <= length
  /\ pc = "done" /\ ext > 0 /\ name # << >> =>
       /\ name[1].first >= 43 + 1 + 2 + 1 + 2 + 4 + 5
       /\ name[1].first + name[1].count <= offset + ext
       /\ offset + ext <= limit
  /\ pc = "label" =>
       /\ \A i \in DOMAIN name : name[i].count \in 1 .. 63
       /\ \A i \in 1 .. Len(name) - 1 :
            name[i + 1].first = name[i].first + name[i].count + 1
       /\ name # << >> => /\ name[1].first = 13
                          /\ offset = name[Len(name)].first + name[Len(name)].count

\* Every walk ends, on any payload: no more blocks than the payload has bytes,
\* and two.  An extension of length zero, an empty header line and a run of
\* labels all move the offset.
Ends == turns <= length + 2
=============================================================================
