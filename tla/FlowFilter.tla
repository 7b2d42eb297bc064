----------------------------- MODULE FlowFilter -----------------------------
(***************************************************************************)
(* What a DPI engine promises, with no threads and queues in sight: every  *)
(* packet that comes in is dropped or written, at most once, or is still   *)
(* inside; and within a flow nothing is written before all that came       *)
(* earlier has been written or dropped.                                    *)
(***************************************************************************)
EXTENDS Integers, Sequences, Functions

CONSTANT Flows

VARIABLES seen, written, gone  \* in: a sequence; out: a sequence; dropped: a set

filterVars == <<seen, written, gone>>

Init == seen = << >> /\ written = << >> /\ gone = {}

Settled == Range(written) \cup gone
Inside == Range(seen) \ Settled

\* Packets are numbered as they come in.
Arrive(t) ==
  /\ seen' = Append(seen, [id |-> Len(seen), tuple |-> t])
  /\ UNCHANGED <<written, gone>>

Drop(p) ==
  /\ p \in Inside
  /\ gone' = gone \cup {p}
  /\ UNCHANGED <<seen, written>>

Write(i) ==
  /\ seen[i] \in Inside
  /\ \A j \in 1 .. i - 1 : seen[j].tuple = seen[i].tuple => seen[j] \in Settled
  /\ written' = Append(written, seen[i])
  /\ UNCHANGED <<seen, gone>>

Next ==
  \/ \E t \in Flows : Arrive(t)
  \/ \E p \in Inside : Drop(p)
  \/ \E i \in DOMAIN seen : Write(i)

Spec == Init /\ [][Next]_filterVars
=============================================================================
