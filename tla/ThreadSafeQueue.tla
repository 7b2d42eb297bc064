-------------------------- MODULE ThreadSafeQueue ---------------------------
(***************************************************************************)
(* ThreadSafeQueue<T> at the grain of its mutex: who waits on which        *)
(* condition variable, whom a notify_one wakes, timeouts and spurious      *)
(* wake-ups.  All fields are read and written with mutex_ held, so one     *)
(* step is what a thread does from acquiring the mutex to giving it up, by *)
(* returning or by starting to wait.  A thread is                          *)
(*                                                                         *)
(*   idle     outside the queue's methods                                  *)
(*   lock     about to acquire mutex_ and evaluate its wait predicate      *)
(*   wait     in the wait set of its condition variable                    *)
(*   expired  timed out, about to acquire mutex_ for the last evaluation   *)
(***************************************************************************)
EXTENDS QueueOps, FiniteSets

CONSTANTS
  Producers, Consumers,  \* the threads that push and the threads that pop
  Items,                 \* what they pass on
  MaxPushes              \* bound: items offered while the queue is open

ASSUME ThreadsAssumption ==
  /\ Producers \cap Consumers = {}
  /\ IsFiniteSet(Producers) /\ IsFiniteSet(Consumers)
  /\ MaxPushes \in Nat

Threads == Producers \cup Consumers

VARIABLES
  queue,     \* queue_
  down,      \* shutdown_
  pc,        \* of every thread
  item,      \* what a producer's push was called with
  timed,     \* is a consumer's call popWithTimeout (or pop)?
  put, got   \* history: items accepted, items handed out

vars == <<queue, down, pc, item, timed, put, got>>

Init ==
  /\ queue = << >> /\ down = FALSE
  /\ pc = [t \in Threads |-> "idle"]
  /\ item \in [Producers -> Items]
  /\ timed = [c \in Consumers |-> FALSE]
  /\ put = << >> /\ got = << >>

\* The wait sets of not_full_ and not_empty_.
WaitFull  == {p \in Producers : pc[p] = "wait"}
WaitEmpty == {c \in Consumers : pc[c] = "wait"}

\* Faulty form of Notify: nobody is woken.
NotifyNobody(waiting, t) == pc' = [pc EXCEPT ![t] = "idle"]

\* Thread t returns after a notify_one on the condition variable with this
\* wait set; the implementation chooses whom it wakes.
Notify(waiting, t) ==
  \/ /\ waiting = {}
     /\ pc' = [pc EXCEPT ![t] = "idle"]
  \/ \E w \in waiting : pc' = [pc EXCEPT ![t] = "idle", ![w] = "lock"]

Return(t) == pc' = [pc EXCEPT ![t] = "idle"]

-----------------------------------------------------------------------------
(* push, tryPush *)

\* Bound on the items accepted, counting the pushes under way.
PushAllowed ==
  Len(put) + Cardinality({p \in Producers : pc[p] # "idle"}) < MaxPushes

PushCall(p, x) ==
  /\ pc[p] = "idle" /\ PushAllowed
  /\ item' = [item EXCEPT ![p] = x]
  /\ pc' = [pc EXCEPT ![p] = "lock"]
  /\ UNCHANGED <<queue, down, timed, put, got>>

\* The predicate of not_full_.wait is false.
PushWait(p) ==
  /\ pc[p] = "lock" /\ ~PushReady(queue, down)
  /\ pc' = [pc EXCEPT ![p] = "wait"]
  /\ UNCHANGED <<queue, down, item, timed, put, got>>

\* It is true, and the queue is open.
PushItem(p) ==
  /\ pc[p] = "lock" /\ PushReady(queue, down) /\ ~down
  /\ queue' = Pushed(queue, down, item[p])
  /\ put' = Append(put, item[p])
  /\ Notify(WaitEmpty, p)
  /\ UNCHANGED <<down, item, timed, got>>

\* It is true because the queue was shut down: the item is dropped.
PushRefused(p) ==
  /\ pc[p] = "lock" /\ down
  /\ Return(p)
  /\ UNCHANGED <<queue, down, item, timed, put, got>>

\* tryPush never waits.  A refused tryPush changes nothing and is left out.
TryPush(p, x) ==
  /\ pc[p] = "idle" /\ PushAllowed /\ PushReady(queue, down) /\ ~down
  /\ queue' = Pushed(queue, down, x)
  /\ put' = Append(put, x)
  /\ Notify(WaitEmpty, p)
  /\ UNCHANGED <<down, item, timed, got>>

-----------------------------------------------------------------------------
(* pop, popWithTimeout *)

PopCall(c, withTimeout) ==
  /\ pc[c] = "idle"
  /\ timed' = [timed EXCEPT ![c] = withTimeout]
  /\ pc' = [pc EXCEPT ![c] = "lock"]
  /\ UNCHANGED <<queue, down, item, put, got>>

\* Faulty form of PopWait: the predicate forgets shutdown_.
PopWaitForgetsShutdown(c) ==
  /\ pc[c] = "lock" /\ ~PopHasItem(queue)
  /\ pc' = [pc EXCEPT ![c] = "wait"]
  /\ UNCHANGED <<queue, down, item, timed, put, got>>

PopWait(c) ==
  /\ pc[c] = "lock" /\ ~PopHasItem(queue) /\ ~down
  /\ pc' = [pc EXCEPT ![c] = "wait"]
  /\ UNCHANGED <<queue, down, item, timed, put, got>>

PopItem(c) ==
  /\ pc[c] \in {"lock", "expired"} /\ PopHasItem(queue)
  /\ got' = Append(got, Head(queue))
  /\ queue' = Popped(queue)
  /\ Notify(WaitFull, c)
  /\ UNCHANGED <<down, item, timed, put>>

\* std::nullopt
PopNothing(c) ==
  /\ pc[c] \in {"lock", "expired"} /\ PopGivesUp(queue)
  /\ pc[c] = "expired" \/ down
  /\ Return(c)
  /\ UNCHANGED <<queue, down, item, timed, put, got>>

\* wait_for runs out: the thread leaves the wait set, but evaluates the
\* predicate once more before it gives up.
Timeout(c) ==
  /\ pc[c] = "wait" /\ timed[c]
  /\ pc' = [pc EXCEPT ![c] = "expired"]
  /\ UNCHANGED <<queue, down, item, timed, put, got>>

-----------------------------------------------------------------------------
(* The environment *)

\* A condition variable may wake a thread for no reason.
SpuriousWakeup(t) ==
  /\ pc[t] = "wait"
  /\ pc' = [pc EXCEPT ![t] = "lock"]
  /\ UNCHANGED <<queue, down, item, timed, put, got>>

\* Faulty form of Shutdown: only the consumers are woken.
ShutdownConsumersOnly ==
  /\ down' = TRUE
  /\ pc' = [t \in Threads |-> IF t \in WaitEmpty THEN "lock" ELSE pc[t]]
  /\ UNCHANGED <<queue, item, timed, put, got>>

\* shutdown(): both notify_all.
Shutdown ==
  /\ down' = TRUE
  /\ pc' = [t \in Threads |-> IF pc[t] = "wait" THEN "lock" ELSE pc[t]]
  /\ UNCHANGED <<queue, item, timed, put, got>>

-----------------------------------------------------------------------------
\* What a producer, a consumer does once it is in a call.
PushStep(p) == PushWait(p) \/ PushItem(p) \/ PushRefused(p)
PopStep(c) == PopWait(c) \/ PopItem(c) \/ PopNothing(c) \/ Timeout(c)

Next ==
  \/ \E p \in Producers : \/ \E x \in Items : PushCall(p, x) \/ TryPush(p, x)
                          \/ PushStep(p)
  \/ \E c \in Consumers : \/ \E b \in BOOLEAN : PopCall(c, b)
                          \/ PopStep(c)
  \/ \E t \in Threads : SpuriousWakeup(t)
  \/ Shutdown

Spec == Init /\ [][Next]_vars

\* A thread inside a method is scheduled until it returns, and consumers are
\* loops that call again and again (LoadBalancer::run, FastPathProcessor::run,
\* outputThreadFunc).  Nothing makes a producer push, the engine shut down or
\* a condition variable wake up by itself.
Fairness ==
  /\ \A p \in Producers : WF_vars(PushStep(p))
  /\ \A c \in Consumers : /\ WF_vars(PopStep(c))
                          /\ WF_vars(\E b \in BOOLEAN : PopCall(c, b))
FairSpec == Spec /\ Fairness

-----------------------------------------------------------------------------
(* Properties *)

\* Types; and no queue grows beyond max_size_.
TypeOK ==
  /\ queue \in Seq(Items) /\ Len(queue) <= MaxSize /\ down \in BOOLEAN
  /\ pc \in [Threads -> {"idle", "lock", "wait", "expired"}]
  /\ \A p \in Producers : pc[p] # "expired"
  /\ item \in [Producers -> Items] /\ timed \in [Consumers -> BOOLEAN]
  /\ put \in Seq(Items) /\ got \in Seq(Items)

\* The threads on their way to an evaluation of their predicate.
Pushing == {p \in Producers : pc[p] = "lock"}
Popping == {c \in Consumers : pc[c] \in {"lock", "expired"}}

\* notify_one is enough: as long as a consumer sleeps, there are at least as
\* many consumers awake and on their way as there are items, and as long as a
\* producer sleeps, at least as many producers awake as there are free slots.
\* So no thread sleeps through the event it waits for, whatever timeouts,
\* spurious wake-ups and newly arriving threads do in between.
NoLostWakeup ==
  /\ WaitEmpty # {} => Len(queue) <= Cardinality(Popping)
  /\ WaitFull # {} => MaxSize - Len(queue) <= Cardinality(Pushing)

\* Nobody waits in a queue that has been shut down.
NoWaitAfterShutdown == down => WaitFull \cup WaitEmpty = {}

\* The queue is a FIFO channel: module Fifo.
Channel == INSTANCE Fifo WITH Capacity <- MaxSize, accepted <- put,
                              delivered <- got, closed <- down
IsFifo == Channel!Spec

\* A push that has to wait ends as long as the queue's consumers go on calling:
\* other producers may take the slot it was woken for, but a capture is finite.
PushReturns == \A p \in Producers : pc[p] = "wait" ~> pc[p] = "idle"

\* Everyone inside a method when shutdown() is called returns.
ShutdownReleases ==
  \A t \in Threads : pc[t] # "idle" /\ down ~> pc[t] = "idle"
=============================================================================
