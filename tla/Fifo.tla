-------------------------------- MODULE Fifo --------------------------------
(***************************************************************************)
(* What a ThreadSafeQueue promises its callers, with no locks, condition   *)
(* variables or waiting: a bounded FIFO channel that can be closed.  The   *)
(* channel is two histories, the items it accepted and the items it gave   *)
(* out; its content is the difference.                                     *)
(***************************************************************************)
EXTENDS Integers, Sequences

CONSTANTS Items, Capacity

VARIABLES accepted, delivered, closed

fifoVars == <<accepted, delivered, closed>>

InFlight == Len(accepted) - Len(delivered)

Init == accepted = << >> /\ delivered = << >> /\ closed = FALSE

\* A closed channel accepts nothing, a full one neither.
Send(x) ==
  /\ ~closed /\ InFlight < Capacity
  /\ accepted' = Append(accepted, x)
  /\ UNCHANGED <<delivered, closed>>

\* The oldest item not yet delivered; closing does not lose what is inside.
Receive ==
  /\ InFlight > 0
  /\ delivered' = Append(delivered, accepted[Len(delivered) + 1])
  /\ UNCHANGED <<accepted, closed>>

Close == closed' = TRUE /\ UNCHANGED <<accepted, delivered>>

Next == (\E x \in Items : Send(x)) \/ Receive \/ Close

Spec == Init /\ [][Next]_fifoVars
=============================================================================
