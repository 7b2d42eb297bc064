----------------------------- MODULE MCPipeline -----------------------------
(* Small instances of Pipeline. *)
EXTENDS Pipeline, Routing, TLC

CONSTANTS t1, t2, t3

\* An address as parseIP makes it of its octets.
Address(a, b, c, d) == a + 256 * (b + 256 * (c + 256 * d))

\* Two connections from one client, and (t3) the packets that come back on the
\* second.  With 2 balancers x 1 path, t1 and t2 take different fast paths.
Client(port) ==
  [src_ip |-> Address(192, 168, 1, 20), dst_ip |-> Address(142, 250, 80, 46),
   src_port |-> port, dst_port |-> 443, protocol |-> 6]
Fields == t1 :> Client(40001) @@ t2 :> Client(40000) @@ t3 :> ReverseOf(Client(40000))

HashOf == t1 :> FiveTupleHash(Fields[t1]) @@ t2 :> FiveTupleHash(Fields[t2])
            @@ t3 :> FiveTupleHash(Fields[t3])
MCHash == [t \in Tuples |-> HashOf[t]]

\* The jobs that reach fast path f.
AtFastPath(f) == Range(fpQ[f]) \cup fhand[f]

\* README.md: "Packet X and Packet Y from the same real-life connection are
\* guaranteed to be routed through the exact same Load Balancer to the exact
\* same Fast Path", in whichever direction they go.
ConnectionTogether ==
  \A f, g \in FPs : \A x \in AtFastPath(f), y \in AtFastPath(g) :
     Fields[x.tuple] \in {Fields[y.tuple], ReverseOf(Fields[y.tuple])} => f = g
=============================================================================
