------------------------------ MODULE QueueOps ------------------------------
(***************************************************************************)
(* What one critical section of ThreadSafeQueue<T> does, as operators on   *)
(* the queue's two fields: the sequence of items and the shutdown flag.    *)
(* Every method holds mutex_ from the moment its wait predicate is true to *)
(* its return, so a completed push or pop is one atomic step on these two  *)
(* fields.  The module ThreadSafeQueue opens the step up again (condition  *)
(* variables, notifications, timeouts).                                    *)
(***************************************************************************)
EXTENDS Integers, Sequences

CONSTANT MaxSize      \* max_size_: the capacity given to the constructor

\* The code passes 10000 for every queue it creates.
ASSUME MaxSizeAssumption == MaxSize \in Nat \ {0}

-----------------------------------------------------------------------------

\* Faulty forms of PushReady: one item too many, one item too few.
PushReadyOneMore(items, down) == Len(items) <= MaxSize \/ down
PushReadyOneLess(items, down) == Len(items) < MaxSize - 1 \/ down

\* The predicate of not_full_.wait: push goes on when there is room, or when
\* the queue has been shut down.
PushReady(items, down) == Len(items) < MaxSize \/ down

\* Faulty forms of Pushed: the newest item overtakes, an item that would fill
\* the queue is dropped.
PushedAtFront(items, down, item) ==
  IF down THEN items ELSE <<item>> \o items
PushedUnlessLast(items, down, item) ==
  IF down \/ Len(items) + 1 >= MaxSize THEN items ELSE Append(items, item)

\* The rest of push: an item pushed after shutdown is dropped on the floor,
\* even if there is room.
Pushed(items, down, item) == IF down THEN items ELSE Append(items, item)

\* pop and popWithTimeout hand out the oldest item whenever there is one,
\* shutdown or not.
PopHasItem(items) == items # << >>

\* Faulty form of Popped: queue_.pop() is forgotten.
PoppedNothing(items) == items

\* What pop leaves behind.
Popped(items) == Tail(items)

\* popWithTimeout gives up (std::nullopt) only when the queue is empty: after
\* the timeout, or at once when the queue has been shut down.
PopGivesUp(items) == items = << >>

=============================================================================
