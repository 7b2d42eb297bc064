------------------------------ MODULE Routing -------------------------------
(***************************************************************************)
(* FiveTuple and FiveTupleHash.  The hash has 64 bits; its low bits depend *)
(* on the low bits of the constants and of the fields only (exclusive or   *)
(* works bit by bit, multiplication carries upwards), and routing uses no  *)
(* others as long as the number of fast paths divides 2^LowBits.           *)
(***************************************************************************)
EXTENDS Integers, Bitwise

LowBits == 8
Low(v) == v % 2^LowBits

FiveTuple == [src_ip : Nat, dst_ip : Nat, src_port : Nat, dst_port : Nat,
              protocol : Nat]

\* FiveTuple::reverse: the tuple of the packets that go the other way
ReverseOf(t) == [src_ip |-> t.dst_ip, dst_ip |-> t.src_ip,
                 src_port |-> t.dst_port, dst_port |-> t.src_port,
                 protocol |-> t.protocol]

\* The constants of FNV-1a end in 0x25 and 0xb3.
OffsetBasis == 37
Prime == 179

\* combine
Combine(hash, val) == Low((hash ^^ Low(val)) * Prime)

FiveTupleHash(t) ==
  Combine(Combine(Combine(Combine(Combine(OffsetBasis,
    t.src_ip), t.dst_ip), t.src_port), t.dst_port), t.protocol)
=============================================================================
