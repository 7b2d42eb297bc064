------------------------------- MODULE Bytes --------------------------------
(***************************************************************************)
(* Bytes, the integers the code makes of them, and pieces of a buffer.     *)
(* The host is little-endian, as every build of the repository is.         *)
(***************************************************************************)
EXTENDS Integers

ByteValues == 0 .. 255
WordValues == 0 .. 65535

\* Consecutive bytes of a buffer.
Piece(first, count) == [first |-> first, count |-> count]
Pieces == [first : Nat, count : Nat]

\* Two and four bytes in the order of a file or a packet, as memcpy or a cast
\* makes an integer of them.
Bytes2 == ByteValues \X ByteValues
Bytes4 == ByteValues \X ByteValues \X ByteValues \X ByteValues
Host16(b) == b[1] + 256 * b[2]
Host32(b) == b[1] + 256 * (b[2] + 256 * (b[3] + 256 * b[4]))

\* swapBytes16, netToHost16
SwapBytes16(v) == (v \div 256) + 256 * (v % 256)
NetToHost16(b) == SwapBytes16(Host16(b))

\* The four bytes of an integer, lowest first.
BytesOf(v) ==
  <<v % 256, (v \div 256) % 256, (v \div 65536) % 256, (v \div 16777216) % 256>>

\* maybeSwap32 on the bytes of an integer
SwapBytes32(b) == <<b[4], b[3], b[2], b[1]>>

\* a > b for two integers given by their bytes
Above(a, b) == \E i \in 1 .. 4 : /\ a[i] > b[i]
                                 /\ \A j \in i + 1 .. 4 : a[j] = b[j]
=============================================================================
