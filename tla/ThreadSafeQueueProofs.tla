----------------------- MODULE ThreadSafeQueueProofs ------------------------
(***************************************************************************)
(* ThreadSafeQueue for any number of producers and consumers, any capacity *)
(* and any items: nobody sleeps through a wake-up, nobody waits in a queue *)
(* that was shut down, and the queue is a bounded FIFO channel.            *)
(***************************************************************************)
EXTENDS ThreadSafeQueue, FiniteSetTheorems, SequenceTheorems, TLAPS

-----------------------------------------------------------------------------
(* Sets of threads *)

\* The threads on their way are finitely many.
LEMMA Finite ==
  /\ IsFiniteSet(Popping) /\ Cardinality(Popping) \in Nat
  /\ IsFiniteSet(Pushing) /\ Cardinality(Pushing) \in Nat
<1>1. Popping \subseteq Consumers /\ Pushing \subseteq Producers
  BY DEF Popping, Pushing
<1>2. IsFiniteSet(Popping) /\ IsFiniteSet(Pushing)
  BY <1>1, ThreadsAssumption, FS_Subset
<1> QED
  BY <1>2, FS_CardinalityType

\* The same one step later.
LEMMA FiniteNext ==
  /\ IsFiniteSet(Popping') /\ Cardinality(Popping') \in Nat
  /\ IsFiniteSet(Pushing') /\ Cardinality(Pushing') \in Nat
<1>1. Popping' \subseteq Consumers /\ Pushing' \subseteq Producers
  BY DEF Popping, Pushing
<1>2. IsFiniteSet(Popping') /\ IsFiniteSet(Pushing')
  BY <1>1, ThreadsAssumption, FS_Subset
<1> QED
  BY <1>2, FS_CardinalityType

\* A set that loses no element keeps its size, one that gains an element is
\* larger by one, and one that loses a single element is smaller by at most one.
LEMMA Sizes ==
  ASSUME NEW S, NEW T, IsFiniteSet(S), IsFiniteSet(T)
  PROVE  /\ Cardinality(S) \in Nat /\ Cardinality(T) \in Nat
         /\ S \subseteq T => Cardinality(S) <= Cardinality(T)
         /\ \A x : x \notin S /\ S \cup {x} \subseteq T
                     => Cardinality(S) + 1 <= Cardinality(T)
         /\ \A x : S \subseteq T \cup {x} => Cardinality(S) - 1 <= Cardinality(T)
<1>1. Cardinality(S) \in Nat /\ Cardinality(T) \in Nat
  BY FS_CardinalityType
<1>2. S \subseteq T => Cardinality(S) <= Cardinality(T)
  BY FS_Subset
<1>3. ASSUME NEW x, x \notin S, S \cup {x} \subseteq T
      PROVE  Cardinality(S) + 1 <= Cardinality(T)
  <2>1. IsFiniteSet(S \cup {x}) /\ Cardinality(S \cup {x}) = Cardinality(S) + 1
    BY <1>3, FS_AddElement
  <2>2. Cardinality(S \cup {x}) <= Cardinality(T)
    BY <1>3, FS_Subset
  <2> QED
    BY <2>1, <2>2
<1>4. ASSUME NEW x, S \subseteq T \cup {x}
      PROVE  Cardinality(S) - 1 <= Cardinality(T)
  <2>1. /\ IsFiniteSet(T \cup {x})
        /\ Cardinality(T \cup {x}) = Cardinality(T) \/ Cardinality(T \cup {x}) = Cardinality(T) + 1
    <3>1. CASE x \in T
      <4>1. T \cup {x} = T
        BY <3>1
      <4> QED
        BY <4>1
    <3>2. CASE x \notin T
      BY <3>2, FS_AddElement
    <3> QED
      BY <3>1, <3>2
  <2>2. Cardinality(S) <= Cardinality(T \cup {x})
    BY <1>4, <2>1, FS_Subset
  <2> QED
    BY <1>1, <2>1, <2>2
<1> QED
  BY <1>1, <1>2, <1>3, <1>4

-----------------------------------------------------------------------------
(* The invariant *)

\* What the queue holds is what it accepted and has not handed out.
Conserved == put = got \o queue

QueueInv == TypeOK /\ NoWaitAfterShutdown /\ NoLostWakeup /\ Conserved

\* It holds of a new queue.
LEMMA InitInv == Init => QueueInv
<1> SUFFICES ASSUME Init PROVE QueueInv
  OBVIOUS
<1>1. TypeOK
  <2>1. queue \in Seq(Items) /\ Len(queue) <= MaxSize
    BY MaxSizeAssumption DEF Init
  <2>2. /\ pc \in [Threads -> {"idle", "lock", "wait", "expired"}]
        /\ \A p \in Producers : pc[p] # "expired"
    BY DEF Init, Threads
  <2>3. down \in BOOLEAN /\ timed \in [Consumers -> BOOLEAN]
    BY Zenon DEF Init
  <2>4. put \in Seq(Items) /\ got \in Seq(Items)
    BY DEF Init
  <2> QED
    BY <2>1, <2>2, <2>3, <2>4 DEF Init, TypeOK
<1>2. WaitFull = {} /\ WaitEmpty = {}
  BY DEF Init, WaitFull, WaitEmpty, Threads
<1>3. NoWaitAfterShutdown /\ NoLostWakeup
  BY <1>2 DEF NoWaitAfterShutdown, NoLostWakeup
<1>4. Conserved
  BY DEF Init, Conserved
<1> QED
  BY <1>1, <1>3, <1>4 DEF QueueInv

\* The states a thread can be in, after a step that changes a few of them.
LEMMA NotifyType ==
  ASSUME TypeOK, NEW t \in Threads, NEW W, W \subseteq Threads,
         Notify(W, t)
  PROVE  /\ pc' \in [Threads -> {"idle", "lock", "wait", "expired"}]
         /\ \A p \in Producers : pc'[p] # "expired"
BY DEF TypeOK, Notify, Threads

\* The types of what is not pc, when an item is accepted.
LEMMA AcceptType ==
  ASSUME TypeOK, NEW x \in Items, PushReady(queue, down), ~down,
         queue' = Pushed(queue, down, x), put' = Append(put, x)
  PROVE  /\ queue' = Append(queue, x)
         /\ queue' \in Seq(Items) /\ put' \in Seq(Items)
         /\ Len(queue) \in Nat /\ Len(queue') = Len(queue) + 1
         /\ Len(queue') <= MaxSize
BY MaxSizeAssumption DEF TypeOK, PushReady, Pushed

\* The same when an item is handed out.
LEMMA HandOutType ==
  ASSUME TypeOK, PopHasItem(queue), queue' = Popped(queue),
         got' = Append(got, Head(queue))
  PROVE  /\ queue' \in Seq(Items) /\ got' \in Seq(Items)
         /\ Head(queue) \in Items
         /\ Len(queue) \in Nat /\ Len(queue') = Len(queue) - 1
         /\ Len(queue') <= MaxSize
BY MaxSizeAssumption DEF TypeOK, PopHasItem, Popped

-----------------------------------------------------------------------------
(* Wake-ups, by what a step does to the sets of threads *)

\* The two halves of NoLostWakeup.
ConsumersWoken == WaitEmpty # {} => Len(queue) <= Cardinality(Popping)
ProducersWoken == WaitFull # {} => MaxSize - Len(queue) <= Cardinality(Pushing)

\* A step that leaves the queue alone keeps the consumers' half if no consumer
\* on its way gives up, or if there is nothing to take.
LEMMA ConsumersKept ==
  ASSUME TypeOK, ConsumersWoken, queue' = queue,
         \/ queue = << >>
         \/ WaitEmpty' = {}
         \/ WaitEmpty' \subseteq WaitEmpty /\ Popping \subseteq Popping'
  PROVE  ConsumersWoken'
<1>1. Len(queue) \in Nat /\ (queue = << >> => Len(queue) = 0)
  BY DEF TypeOK
<1>2. Popping \subseteq Popping' => Cardinality(Popping) <= Cardinality(Popping')
  BY Finite, FiniteNext, Sizes
<1> QED
  BY <1>1, <1>2, Finite, FiniteNext DEF ConsumersWoken

\* The producers' half, with a full queue in the place of an empty one.
LEMMA ProducersKept ==
  ASSUME TypeOK, ProducersWoken, queue' = queue,
         \/ Len(queue) >= MaxSize
         \/ WaitFull' = {}
         \/ WaitFull' \subseteq WaitFull /\ Pushing \subseteq Pushing'
  PROVE  ProducersWoken'
<1>1. Len(queue) \in Nat /\ MaxSize \in Nat
  BY MaxSizeAssumption DEF TypeOK
<1>2. Pushing \subseteq Pushing' => Cardinality(Pushing) <= Cardinality(Pushing')
  BY Finite, FiniteNext, Sizes
<1> QED
  BY <1>1, <1>2, Finite, FiniteNext DEF ProducersWoken

\* An accepted item with its notify_one on not_empty_.
LEMMA AcceptWakes ==
  ASSUME TypeOK, ConsumersWoken, ProducersWoken, NEW p \in Producers,
         Len(queue') = Len(queue) + 1, Notify(WaitEmpty, p)
  PROVE  ConsumersWoken' /\ ProducersWoken'
<1>0. Len(queue) \in Nat /\ MaxSize \in Nat /\ p \in Threads /\ p \notin Consumers
  BY MaxSizeAssumption, ThreadsAssumption DEF TypeOK, Threads
<1>1. ConsumersWoken'
  <2>1. CASE WaitEmpty = {}
    <3>1. pc' = [pc EXCEPT ![p] = "idle"]
      BY <2>1 DEF Notify
    <3>2. WaitEmpty' = {}
      BY <1>0, <2>1, <3>1 DEF WaitEmpty, TypeOK, Threads
    <3> QED
      BY <3>2 DEF ConsumersWoken
  <2>2. CASE WaitEmpty # {}
    <3>1. PICK w \in WaitEmpty : pc' = [pc EXCEPT ![p] = "idle", ![w] = "lock"]
      BY <2>2 DEF Notify
    <3>2. w \notin Popping /\ Popping \cup {w} \subseteq Popping'
      BY <1>0, <3>1 DEF WaitEmpty, Popping, TypeOK, Threads
    <3>3. Cardinality(Popping) + 1 <= Cardinality(Popping')
      BY <3>2, Finite, FiniteNext, Sizes
    <3> QED
      BY <1>0, <2>2, <3>3, Finite, FiniteNext DEF ConsumersWoken
  <2> QED
    BY <2>1, <2>2
<1>2. ProducersWoken'
  <2>1. \A q \in Producers : q # p => pc'[q] = pc[q]
    BY ThreadsAssumption DEF Notify, WaitEmpty, TypeOK, Threads
  <2>2. pc'[p] = "idle"
    BY <1>0 DEF Notify, WaitEmpty, TypeOK, Threads
  <2>3. WaitFull' \subseteq WaitFull /\ Pushing \subseteq Pushing' \cup {p}
    BY <2>1, <2>2 DEF WaitFull, Pushing
  <2>4. Cardinality(Pushing) - 1 <= Cardinality(Pushing')
    BY <2>3, Finite, FiniteNext, Sizes
  <2> QED
    BY <1>0, <2>3, <2>4, Finite, FiniteNext DEF ProducersWoken
<1> QED
  BY <1>1, <1>2

\* An item handed out with its notify_one on not_full_.
LEMMA HandOutWakes ==
  ASSUME TypeOK, ConsumersWoken, ProducersWoken, NEW c \in Consumers,
         queue # << >>, Len(queue') = Len(queue) - 1, Notify(WaitFull, c)
  PROVE  ConsumersWoken' /\ ProducersWoken'
<1>0. Len(queue) \in Nat /\ MaxSize \in Nat /\ c \in Threads /\ c \notin Producers
  BY MaxSizeAssumption, ThreadsAssumption DEF TypeOK, Threads
<1>1. ProducersWoken'
  <2>1. CASE WaitFull = {}
    <3>1. pc' = [pc EXCEPT ![c] = "idle"]
      BY <2>1 DEF Notify
    <3>2. WaitFull' = {}
      BY <1>0, <2>1, <3>1 DEF WaitFull, TypeOK, Threads
    <3> QED
      BY <3>2 DEF ProducersWoken
  <2>2. CASE WaitFull # {}
    <3>1. PICK w \in WaitFull : pc' = [pc EXCEPT ![c] = "idle", ![w] = "lock"]
      BY <2>2 DEF Notify
    <3>2. w \notin Pushing /\ Pushing \cup {w} \subseteq Pushing'
      BY <1>0, <3>1 DEF WaitFull, Pushing, TypeOK, Threads
    <3>3. Cardinality(Pushing) + 1 <= Cardinality(Pushing')
      BY <3>2, Finite, FiniteNext, Sizes
    <3> QED
      BY <1>0, <2>2, <3>3, Finite, FiniteNext DEF ProducersWoken
  <2> QED
    BY <2>1, <2>2
<1>2. ConsumersWoken'
  <2>1. \A d \in Consumers : d # c => pc'[d] = pc[d]
    BY ThreadsAssumption DEF Notify, WaitFull, TypeOK, Threads
  <2>2. pc'[c] = "idle"
    BY <1>0 DEF Notify, WaitFull, TypeOK, Threads
  <2>3. WaitEmpty' \subseteq WaitEmpty /\ Popping \subseteq Popping' \cup {c}
    BY <2>1, <2>2 DEF WaitEmpty, Popping
  <2>4. Cardinality(Popping) - 1 <= Cardinality(Popping')
    BY <2>3, Finite, FiniteNext, Sizes
  <2> QED
    BY <1>0, <2>3, <2>4, Finite, FiniteNext DEF ConsumersWoken
<1> QED
  BY <1>1, <1>2

-----------------------------------------------------------------------------
(* Steps *)

\* A step of one thread that leaves queue and histories alone: the rest of the
\* invariant follows from what it does to that thread.
LEMMA OneThread ==
  ASSUME QueueInv, NEW t \in Threads, NEW v,
         v \in {"idle", "lock", "wait", "expired"},
         pc' = [pc EXCEPT ![t] = v],
         UNCHANGED <<queue, down, put, got>>,
         item' \in [Producers -> Items], timed' \in [Consumers -> BOOLEAN],
         v = "expired" => t \notin Producers,
         v = "wait" => ~down,
         \* a consumer stays on its way unless there is nothing to take
         \/ queue = << >>
         \/ v # "wait" /\ (t \in Popping => v \in {"lock", "expired"})
         \/ t \in Producers,
         \* a producer stays on its way unless there is no room or no use
         \/ Len(queue) >= MaxSize
         \/ down
         \/ v # "wait" /\ (t \in Pushing => v = "lock")
         \/ t \in Consumers
  PROVE  QueueInv'
<1> USE DEF QueueInv
<1>0. Producers \cap Consumers = {} /\ pc \in [Threads -> {"idle", "lock", "wait", "expired"}]
  BY ThreadsAssumption DEF TypeOK
<1>1. \A u \in Threads : pc'[u] = IF u = t THEN v ELSE pc[u]
  BY <1>0
<1>2. TypeOK'
  <2>1. pc' \in [Threads -> {"idle", "lock", "wait", "expired"}]
    BY <1>0
  <2>2. \A p \in Producers : pc'[p] # "expired"
    BY <1>1 DEF TypeOK, Threads
  <2> QED
    BY <2>1, <2>2 DEF TypeOK
<1>3. NoWaitAfterShutdown'
  <2>1. SUFFICES ASSUME down PROVE \A u \in Threads : pc'[u] # "wait"
    BY DEF NoWaitAfterShutdown, WaitFull, WaitEmpty, Threads
  <2>2. \A u \in Threads : pc[u] # "wait"
    BY <2>1 DEF NoWaitAfterShutdown, WaitFull, WaitEmpty, Threads
  <2> QED
    BY <1>1, <2>1, <2>2
<1>4. ConsumersWoken'
  <2>1. ConsumersWoken
    BY DEF NoLostWakeup, ConsumersWoken
  <2>2. CASE queue = << >>
    BY <2>1, <2>2, ConsumersKept
  <2>3. CASE t \in Producers \/ (v # "wait" /\ (t \in Popping => v \in {"lock", "expired"}))
    <3>1. WaitEmpty' \subseteq WaitEmpty /\ Popping \subseteq Popping'
      BY <1>0, <1>1, <2>3 DEF WaitEmpty, Popping, Threads
    <3> QED
      BY <2>1, <3>1, ConsumersKept
  <2> QED
    BY <2>2, <2>3
<1>5. ProducersWoken'
  <2>1. ProducersWoken
    BY DEF NoLostWakeup, ProducersWoken
  <2>2. CASE Len(queue) >= MaxSize
    BY <2>1, <2>2, ProducersKept
  <2>3. CASE t \in Consumers \/ (v # "wait" /\ (t \in Pushing => v = "lock"))
    <3>1. WaitFull' \subseteq WaitFull /\ Pushing \subseteq Pushing'
      BY <1>0, <1>1, <2>3 DEF WaitFull, Pushing, Threads
    <3> QED
      BY <2>1, <3>1, ProducersKept
  <2>4. CASE down
    <3>1. WaitFull' = {}
      BY <1>3, <2>4 DEF NoWaitAfterShutdown
    <3> QED
      BY <2>1, <3>1, ProducersKept
  <2> QED
    BY <2>2, <2>3, <2>4
<1>6. NoLostWakeup'
  BY <1>4, <1>5 DEF NoLostWakeup, ConsumersWoken, ProducersWoken
<1>7. Conserved'
  BY DEF Conserved
<1> QED
  BY <1>2, <1>3, <1>6, <1>7

\* push and tryPush, when they put the item in.
LEMMA AcceptInv ==
  ASSUME QueueInv, NEW p \in Producers, NEW x \in Items,
         PushReady(queue, down), ~down, queue' = Pushed(queue, down, x),
         put' = Append(put, x), Notify(WaitEmpty, p),
         UNCHANGED <<down, item, timed, got>>
  PROVE  QueueInv'
<1> USE DEF QueueInv
<1>1. /\ queue' = Append(queue, x) /\ queue' \in Seq(Items) /\ put' \in Seq(Items)
      /\ Len(queue') = Len(queue) + 1 /\ Len(queue') <= MaxSize
  BY AcceptType
<1>2. p \in Threads /\ WaitEmpty \subseteq Threads
  BY DEF Threads, WaitEmpty
<1>3. TypeOK'
  BY <1>1, <1>2, NotifyType DEF TypeOK
<1>4. NoWaitAfterShutdown'
  BY DEF NoWaitAfterShutdown
<1>5. ConsumersWoken' /\ ProducersWoken'
  <2>1. ConsumersWoken /\ ProducersWoken
    BY DEF NoLostWakeup, ConsumersWoken, ProducersWoken
  <2> QED
    BY <1>1, <2>1, AcceptWakes
<1>6. NoLostWakeup'
  BY <1>5 DEF NoLostWakeup, ConsumersWoken, ProducersWoken
<1>7. Conserved'
  <2>1. got \in Seq(Items) /\ queue \in Seq(Items) /\ put = got \o queue
    BY DEF TypeOK, Conserved
  <2>2. Append(got \o queue, x) = got \o Append(queue, x)
    <3>1. got \o queue \in Seq(Items) /\ <<x>> \in Seq(Items)
      BY <2>1
    <3>2. Append(got \o queue, x) = (got \o queue) \o <<x>>
      BY <3>1, AppendIsConcat
    <3>3. Append(queue, x) = queue \o <<x>>
      BY <2>1, AppendIsConcat
    <3>4. (got \o queue) \o <<x>> = got \o (queue \o <<x>>)
      BY <2>1, <3>1, ConcatAssociative
    <3> QED
      BY <3>2, <3>3, <3>4
  <2> QED
    BY <1>1, <2>1, <2>2 DEF Conserved
<1> QED
  BY <1>3, <1>4, <1>6, <1>7

\* pop and popWithTimeout, when they return an item.
LEMMA HandOutInv ==
  ASSUME QueueInv, NEW c \in Consumers, PopItem(c)
  PROVE  QueueInv'
<1> USE DEF QueueInv
<1>1. /\ queue' \in Seq(Items) /\ got' \in Seq(Items) /\ Head(queue) \in Items
      /\ Len(queue') = Len(queue) - 1 /\ Len(queue') <= MaxSize
  BY HandOutType DEF PopItem
<1>2. c \in Threads /\ WaitFull \subseteq Threads
  BY DEF Threads, WaitFull
<1>3. TypeOK'
  BY <1>1, <1>2, NotifyType DEF TypeOK, PopItem
<1>4. NoWaitAfterShutdown'
  <2>1. SUFFICES ASSUME down PROVE \A u \in Threads : pc'[u] # "wait"
    BY DEF NoWaitAfterShutdown, WaitFull, WaitEmpty, Threads, PopItem
  <2>2. \A u \in Threads : pc[u] # "wait"
    BY <2>1 DEF NoWaitAfterShutdown, WaitFull, WaitEmpty, Threads
  <2>3. pc \in [Threads -> {"idle", "lock", "wait", "expired"}]
    BY DEF TypeOK
  <2> QED
    BY <1>2, <2>2, <2>3 DEF PopItem, Notify
<1>5. ConsumersWoken' /\ ProducersWoken'
  <2>1. ConsumersWoken /\ ProducersWoken
    BY DEF NoLostWakeup, ConsumersWoken, ProducersWoken
  <2> QED
    BY <1>1, <2>1, HandOutWakes DEF PopItem, PopHasItem
<1>6. NoLostWakeup'
  BY <1>5 DEF NoLostWakeup, ConsumersWoken, ProducersWoken
<1>7. Conserved'
  <2>1. got \in Seq(Items) /\ queue \in Seq(Items) /\ queue # << >> /\ put = got \o queue
    BY DEF TypeOK, Conserved, PopItem, PopHasItem
  <2>2. Append(got, Head(queue)) \o Tail(queue) = got \o queue
    BY <2>1
  <2> QED
    BY <2>1, <2>2 DEF Conserved, PopItem, Popped
<1> QED
  BY <1>3, <1>4, <1>6, <1>7

\* shutdown(): everyone who waited is on the way.
LEMMA ShutdownInv == QueueInv /\ Shutdown => QueueInv'
<1> SUFFICES ASSUME QueueInv, Shutdown PROVE QueueInv'
  OBVIOUS
<1> USE DEF QueueInv
<1>1. \A u \in Threads : pc'[u] = IF pc[u] = "wait" THEN "lock" ELSE pc[u]
  BY DEF Shutdown
<1>2. TypeOK'
  <2>1. pc' \in [Threads -> {"idle", "lock", "wait", "expired"}]
    BY DEF TypeOK, Shutdown
  <2>2. \A p \in Producers : pc'[p] # "expired"
    BY <1>1 DEF TypeOK, Threads
  <2>3. down' \in BOOLEAN
    BY Zenon DEF Shutdown
  <2> QED
    BY <2>1, <2>2, <2>3 DEF TypeOK, Shutdown
<1>3. WaitFull' = {} /\ WaitEmpty' = {}
  BY <1>1 DEF WaitFull, WaitEmpty, Threads
<1>4. NoWaitAfterShutdown' /\ NoLostWakeup'
  BY <1>3 DEF NoWaitAfterShutdown, NoLostWakeup
<1>5. Conserved'
  BY DEF Conserved, Shutdown
<1> QED
  BY <1>2, <1>4, <1>5

\* A producer that calls joins those on their way.
LEMMA PushCallInv ==
  ASSUME QueueInv, NEW p \in Producers, NEW x \in Items, PushCall(p, x)
  PROVE  QueueInv'
<1>1. p \in Threads /\ p \notin Popping /\ p \notin Consumers
  BY ThreadsAssumption DEF Threads, Popping
<1>2. item' \in [Producers -> Items] /\ timed' \in [Consumers -> BOOLEAN]
  BY DEF PushCall, QueueInv, TypeOK
<1> QED
  BY <1>1, <1>2, OneThread DEF PushCall

\* A producer goes to sleep only when the queue is full, so no slot is missed.
LEMMA PushWaitInv ==
  ASSUME QueueInv, NEW p \in Producers, PushWait(p)
  PROVE  QueueInv'
<1>1. p \in Threads
  BY DEF Threads
<1>2. item' \in [Producers -> Items] /\ timed' \in [Consumers -> BOOLEAN]
  BY DEF PushWait, QueueInv, TypeOK
<1>3. ~down /\ Len(queue) >= MaxSize
  BY MaxSizeAssumption DEF PushWait, PushReady, QueueInv, TypeOK
<1> QED
  BY <1>1, <1>2, <1>3, OneThread DEF PushWait

\* A producer turned away at a closed queue leaves nobody asleep.
LEMMA PushRefusedInv ==
  ASSUME QueueInv, NEW p \in Producers, PushRefused(p)
  PROVE  QueueInv'
<1>1. p \in Threads
  BY DEF Threads
<1>2. item' \in [Producers -> Items] /\ timed' \in [Consumers -> BOOLEAN]
  BY DEF PushRefused, QueueInv, TypeOK
<1> QED
  BY <1>1, <1>2, OneThread DEF PushRefused, Return

\* A consumer that calls joins those on their way.
LEMMA PopCallInv ==
  ASSUME QueueInv, NEW c \in Consumers, NEW b \in BOOLEAN, PopCall(c, b)
  PROVE  QueueInv'
<1>1. c \in Threads /\ c \notin Producers
  BY ThreadsAssumption DEF Threads
<1>2. item' \in [Producers -> Items] /\ timed' \in [Consumers -> BOOLEAN]
  BY Zenon DEF PopCall, QueueInv, TypeOK
<1> QED
  BY <1>1, <1>2, OneThread DEF PopCall

\* A consumer goes to sleep only when the queue is empty and open.
LEMMA PopWaitInv ==
  ASSUME QueueInv, NEW c \in Consumers, PopWait(c)
  PROVE  QueueInv'
<1>1. c \in Threads /\ c \notin Producers
  BY ThreadsAssumption DEF Threads
<1>2. item' \in [Producers -> Items] /\ timed' \in [Consumers -> BOOLEAN]
  BY DEF PopWait, QueueInv, TypeOK
<1> QED
  BY <1>1, <1>2, OneThread DEF PopWait, PopHasItem

\* A consumer that gives up leaves no item behind for a sleeper.
LEMMA PopNothingInv ==
  ASSUME QueueInv, NEW c \in Consumers, PopNothing(c)
  PROVE  QueueInv'
<1>1. c \in Threads /\ c \notin Producers
  BY ThreadsAssumption DEF Threads
<1>2. item' \in [Producers -> Items] /\ timed' \in [Consumers -> BOOLEAN]
  BY DEF PopNothing, QueueInv, TypeOK
<1> QED
  BY <1>1, <1>2, OneThread DEF PopNothing, PopGivesUp, Return

\* A timeout moves a sleeper to those on their way.
LEMMA TimeoutInv ==
  ASSUME QueueInv, NEW c \in Consumers, Timeout(c)
  PROVE  QueueInv'
<1>1. c \in Threads /\ c \notin Producers
  BY ThreadsAssumption DEF Threads
<1>2. item' \in [Producers -> Items] /\ timed' \in [Consumers -> BOOLEAN]
  BY DEF Timeout, QueueInv, TypeOK
<1> QED
  BY <1>1, <1>2, OneThread DEF Timeout

\* So does a spurious wake-up.
LEMMA SpuriousInv ==
  ASSUME QueueInv, NEW t \in Threads, SpuriousWakeup(t)
  PROVE  QueueInv'
<1>2. item' \in [Producers -> Items] /\ timed' \in [Consumers -> BOOLEAN]
  BY DEF SpuriousWakeup, QueueInv, TypeOK
<1> QED
  BY <1>2, OneThread DEF SpuriousWakeup

\* Every step keeps the invariant.
LEMMA StepInv == QueueInv /\ [Next]_vars => QueueInv'
<1> SUFFICES ASSUME QueueInv, [Next]_vars PROVE QueueInv'
  OBVIOUS
<1>1. ASSUME NEW p \in Producers, NEW x \in Items, PushCall(p, x)
      PROVE  QueueInv'
  BY <1>1, PushCallInv
<1>2. ASSUME NEW p \in Producers, NEW x \in Items, TryPush(p, x)
      PROVE  QueueInv'
  BY <1>2, AcceptInv DEF TryPush
<1>3. ASSUME NEW p \in Producers, PushStep(p)
      PROVE  QueueInv'
  <2>1. CASE PushItem(p)
    <3>1. item[p] \in Items
      BY DEF QueueInv, TypeOK
    <3> QED
      BY <2>1, <3>1, AcceptInv DEF PushItem
  <2> QED
    BY <1>3, <2>1, PushWaitInv, PushRefusedInv DEF PushStep
<1>4. ASSUME NEW c \in Consumers, NEW b \in BOOLEAN, PopCall(c, b)
      PROVE  QueueInv'
  BY <1>4, PopCallInv
<1>5. ASSUME NEW c \in Consumers, PopStep(c)
      PROVE  QueueInv'
  BY <1>5, PopWaitInv, HandOutInv, PopNothingInv, TimeoutInv DEF PopStep
<1>6. ASSUME NEW t \in Threads, SpuriousWakeup(t)
      PROVE  QueueInv'
  BY <1>6, SpuriousInv
<1>7. CASE Shutdown
  BY <1>7, ShutdownInv
<1>8. CASE UNCHANGED vars
  BY <1>8 DEF vars, QueueInv, TypeOK, NoWaitAfterShutdown, NoLostWakeup,
              Conserved, WaitFull, WaitEmpty, Popping, Pushing
<1> QED
  BY <1>1, <1>2, <1>3, <1>4, <1>5, <1>6, <1>7, <1>8 DEF Next

\* The invariant of the whole queue.
LEMMA Invariant == Spec => []QueueInv
  BY InitInv, StepInv, PTL DEF Spec

-----------------------------------------------------------------------------
(* Theorems *)

\* Every field keeps its type, and no push makes the queue outgrow max_size_.
THEOREM TypeCorrect == Spec => []TypeOK
<1>1. QueueInv => TypeOK
  BY DEF QueueInv
<1> QED
  BY <1>1, Invariant, PTL

\* notify_one is enough, for any number of threads and any capacity: whoever
\* still sleeps is outnumbered by threads awake that will deal with the items
\* or the free slots there are.
THEOREM NobodySleepsThrough == Spec => []NoLostWakeup
<1>1. QueueInv => NoLostWakeup
  BY DEF QueueInv
<1> QED
  BY <1>1, Invariant, PTL

\* After shutdown() no thread is left in a wait set, and none enters one.
THEOREM ShutdownWakesAll == Spec => []NoWaitAfterShutdown
<1>1. QueueInv => NoWaitAfterShutdown
  BY DEF QueueInv
<1> QED
  BY <1>1, Invariant, PTL

-----------------------------------------------------------------------------
(* The queue implements the FIFO channel *)

\* A new queue is a new channel.
LEMMA InitMaps == Init => Channel!Init
  BY DEF Init, Channel!Init

\* An item put into queue_ is sent.
LEMMA AcceptMaps ==
  ASSUME QueueInv, NEW x \in Items, PushReady(queue, down), ~down,
         put' = Append(put, x), UNCHANGED <<down, got>>
  PROVE  Channel!Next
<1>1. Len(put) - Len(got) < MaxSize
  <2>1. got \in Seq(Items) /\ queue \in Seq(Items) /\ put = got \o queue
    BY DEF QueueInv, TypeOK, Conserved
  <2>2. Len(put) = Len(got) + Len(queue) /\ Len(queue) < MaxSize
    BY <2>1 DEF PushReady
  <2> QED
    BY <2>1, <2>2, MaxSizeAssumption
<1>2. Channel!Send(x)
  BY <1>1 DEF Channel!Send, Channel!InFlight
<1> QED
  BY <1>2 DEF Channel!Next

\* The item pop takes is the oldest one not yet received.
LEMMA HandOutMaps ==
  ASSUME QueueInv, NEW c \in Consumers, PopItem(c)
  PROVE  Channel!Next
<1>1. got \in Seq(Items) /\ queue \in Seq(Items) /\ put = got \o queue /\ queue # << >>
  BY DEF QueueInv, TypeOK, Conserved, PopItem, PopHasItem
<1>2. Len(put) - Len(got) > 0 /\ put[Len(got) + 1] = Head(queue)
  BY <1>1
<1>3. Channel!Receive
  BY <1>2 DEF Channel!Receive, Channel!InFlight, PopItem
<1> QED
  BY <1>3 DEF Channel!Next

\* Every other step is shutdown(), or nothing the channel's users can see.
LEMMA StepMaps == QueueInv /\ [Next]_vars => [Channel!Next]_(Channel!fifoVars)
<1> SUFFICES ASSUME QueueInv, [Next]_vars
             PROVE  Channel!Next \/ UNCHANGED <<put, got, down>>
  BY DEF Channel!fifoVars
<1>1. ASSUME NEW p \in Producers, NEW x \in Items, PushCall(p, x) \/ TryPush(p, x)
      PROVE  Channel!Next \/ UNCHANGED <<put, got, down>>
  BY <1>1, AcceptMaps DEF PushCall, TryPush
<1>2. ASSUME NEW p \in Producers, PushStep(p)
      PROVE  Channel!Next \/ UNCHANGED <<put, got, down>>
  <2>1. item[p] \in Items
    BY DEF QueueInv, TypeOK
  <2> QED
    BY <1>2, <2>1, AcceptMaps DEF PushStep, PushWait, PushItem, PushRefused
<1>3. ASSUME NEW c \in Consumers, NEW b \in BOOLEAN, PopCall(c, b)
      PROVE  UNCHANGED <<put, got, down>>
  BY <1>3 DEF PopCall
<1>4. ASSUME NEW c \in Consumers, PopStep(c)
      PROVE  Channel!Next \/ UNCHANGED <<put, got, down>>
  BY <1>4, HandOutMaps DEF PopStep, PopWait, PopNothing, Timeout
<1>5. ASSUME NEW t \in Threads, SpuriousWakeup(t)
      PROVE  UNCHANGED <<put, got, down>>
  BY <1>5 DEF SpuriousWakeup
<1>6. CASE Shutdown
  <2>1. Channel!Close
    BY <1>6 DEF Shutdown, Channel!Close
  <2> QED
    BY <2>1 DEF Channel!Next
<1>7. CASE UNCHANGED vars
  BY <1>7 DEF vars
<1> QED
  BY <1>1, <1>2, <1>3, <1>4, <1>5, <1>6, <1>7 DEF Next

\* However many threads push, pop, time out and wake up for no reason, the
\* queue is a bounded first-in first-out channel that loses nothing on closing.
THEOREM ImplementsFifo == Spec => IsFifo
<1>1. Init => Channel!Init
  BY InitMaps
<1>2. QueueInv /\ [Next]_vars => [Channel!Next]_(Channel!fifoVars)
  BY StepMaps
<1> QED
  BY <1>1, <1>2, Invariant, PTL DEF Spec, IsFifo, Channel!Spec
=============================================================================
