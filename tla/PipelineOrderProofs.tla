------------------------ MODULE PipelineOrderProofs -------------------------
(***************************************************************************)
(* No packet is lost, copied or overtaken by a later packet of its flow.   *)
(*                                                                         *)
(* The invariant follows a job on its way from the reader to the file.     *)
(* The places it passes form a line of stages; jobs of one flow that are   *)
(* further along are older.  A step moves one job to the next stage, and   *)
(* the job it moves is the oldest of its flow in the stage it leaves:      *)
(* queues are FIFO, and a flow uses only one queue and one hand per stage. *)
(***************************************************************************)
EXTENDS PipelineProofs

\* Every job in A is older than every job of the same flow in B.
Precedes(A, B) == \A a \in A, b \in B : a.tuple = b.tuple => a.id < b.id

\* The jobs of a flow are in the order of the capture.
Ascending(q) ==
  \A i, j \in 1 .. Len(q) : i < j /\ q[i].tuple = q[j].tuple => q[i].id < q[j].id

\* A thread holds a job only between its pop and its push.
Hands ==
  /\ rpc # "push" => rhand = {}
  /\ \A l \in LBs : lpc[l] # "push" => lhand[l] = {}
  /\ \A f \in FPs : fpc[f] \notin {"work", "push"} => fhand[f] = {}
  /\ opc # "write" => ohand = {}

\* A flow's jobs are only with the balancer and the fast path of its hash.
Placed ==
  /\ \A l \in LBs : \A j \in lhand[l] \cup Range(lbQ[l]) :
       GetLBForPacket(j.tuple) = l
  /\ \A f \in FPs : \A j \in fhand[f] \cup Range(fpQ[f]) : Route(j.tuple) = f

\* Every queue is ascending, and so is the file.
Sorted ==
  /\ \A l \in LBs : Ascending(lbQ[l])
  /\ \A f \in FPs : Ascending(fpQ[f])
  /\ Ascending(outQ)
  /\ FlowOrder

\* Of eight stages, the earlier ones hold the older jobs.
InOrder(w, o, oq, p, pq, b, bq, r) ==
  /\ Precedes(w, o \cup oq \cup p \cup pq \cup b \cup bq \cup r)
  /\ Precedes(o, oq \cup p \cup pq \cup b \cup bq \cup r)
  /\ Precedes(oq, p \cup pq \cup b \cup bq \cup r)
  /\ Precedes(p, pq \cup b \cup bq \cup r)
  /\ Precedes(pq, b \cup bq \cup r)
  /\ Precedes(b, bq \cup r)
  /\ Precedes(bq, r)

\* Together with the dropped ones these are all jobs, and verdicts are final:
\* a dropped job is neither passed on nor pending.
Staged(w, o, oq, p, pq, b, bq, r, d, all) ==
  /\ InOrder(w, o, oq, p, pq, b, bq, r)
  /\ Precedes(d, p \cup pq \cup b \cup bq \cup r)
  /\ d \cap (w \cup o \cup oq) = {}
  /\ all = (w \cup o \cup oq) \cup d \cup (p \cup pq \cup b \cup bq \cup r)

Ordered == Staged(Written, ohand, Range(outQ), InFPs, InFpQueues, InLBs,
                  InLbQueues, rhand, dropped, Range(trace))

\* packet_id counts up.
Numbered == \A j \in Range(trace) : j.id < Len(trace)

\* The header is written before the first job is created, and only then.
Headed ==
  /\ HeaderFirst
  /\ rpc \in {"idle", "open"} => file = << >> /\ trace = << >>
  /\ trace # << >> \/ rpc \in {"read", "push"} => file # << >>

\* The inductive invariant.
FlowInv == Hands /\ Placed /\ Sorted /\ Ordered /\ Numbered /\ Headed

-----------------------------------------------------------------------------
(* Sequences *)

\* What Append and Tail do to the items of a queue.
LEMMA RangeAppend ==
  ASSUME NEW S, NEW q \in Seq(S), NEW x \in S
  PROVE  Range(Append(q, x)) = Range(q) \cup {x}
<1>1. /\ DOMAIN q = 1 .. Len(q) /\ DOMAIN Append(q, x) = 1 .. Len(q) + 1
      /\ Len(q) \in Nat
      /\ \A i \in 1 .. Len(q) : Append(q, x)[i] = q[i]
      /\ Append(q, x)[Len(q) + 1] = x
  OBVIOUS
<1>2. 1 .. Len(q) + 1 = (1 .. Len(q)) \cup {Len(q) + 1}
  BY <1>1
<1> QED BY <1>1, <1>2 DEF Range

\* A pop takes one item away from what the queue holds.
LEMMA RangePop ==
  ASSUME NEW S, NEW q \in Seq(S), q # << >>
  PROVE  /\ Head(q) \in S /\ Tail(q) \in Seq(S)
         /\ Range(q) = {Head(q)} \cup Range(Tail(q))
<1>1. /\ Len(q) \in Nat /\ Len(q) > 0 /\ Head(q) = q[1]
      /\ DOMAIN q = 1 .. Len(q) /\ DOMAIN Tail(q) = 1 .. Len(q) - 1
      /\ \A i \in 1 .. Len(q) - 1 : Tail(q)[i] = q[i + 1]
      /\ Tail(q) \in Seq(S)
  OBVIOUS
<1>2. \A y \in Range(q) : y \in {Head(q)} \cup Range(Tail(q))
  <2> SUFFICES ASSUME NEW i \in 1 .. Len(q), i # 1
               PROVE  q[i] \in Range(Tail(q))
    BY <1>1 DEF Range
  <2>1. i - 1 \in 1 .. Len(q) - 1 /\ q[i] = Tail(q)[i - 1]
    BY <1>1
  <2> QED BY <1>1, <2>1 DEF Range
<1>3. \A y \in {Head(q)} \cup Range(Tail(q)) : y \in Range(q)
  <2>1. 1 \in DOMAIN q /\ \A i \in 1 .. Len(q) - 1 : i + 1 \in DOMAIN q
    BY <1>1
  <2> QED BY <1>1, <2>1 DEF Range
<1> QED BY <1>1, <1>2, <1>3

\* A queue stays ascending when a younger job is appended.
LEMMA AscendingAppend ==
  ASSUME NEW q \in Seq(Job), NEW j \in Job, Ascending(q),
         Precedes(Range(q), {j})
  PROVE  Ascending(Append(q, j))
<1>1. /\ Len(q) \in Nat /\ Len(Append(q, j)) = Len(q) + 1
      /\ \A i \in 1 .. Len(q) : Append(q, j)[i] = q[i] /\ q[i] \in Range(q)
      /\ Append(q, j)[Len(q) + 1] = j
  BY DEF Range
<1> SUFFICES ASSUME NEW i \in 1 .. Len(q) + 1, NEW n \in 1 .. Len(q) + 1, i < n,
                    Append(q, j)[i].tuple = Append(q, j)[n].tuple
             PROVE  Append(q, j)[i].id < Append(q, j)[n].id
  BY <1>1 DEF Ascending
<1>2. i \in 1 .. Len(q)
  BY <1>1
<1>3. CASE n \in 1 .. Len(q)
  BY <1>1, <1>2, <1>3 DEF Ascending
<1>4. CASE n = Len(q) + 1
  BY <1>1, <1>2, <1>4 DEF Precedes
<1> QED BY <1>1, <1>3, <1>4

\* The head of an ascending queue is the oldest job of its flow.
LEMMA AscendingPop ==
  ASSUME NEW q \in Seq(Job), q # << >>, Ascending(q)
  PROVE  Ascending(Tail(q)) /\ Precedes({Head(q)}, Range(Tail(q)))
<1>1. /\ Len(q) \in Nat /\ Len(q) > 0 /\ Head(q) = q[1]
      /\ Len(Tail(q)) = Len(q) - 1 /\ DOMAIN Tail(q) = 1 .. Len(q) - 1
      /\ \A i \in 1 .. Len(q) - 1 : Tail(q)[i] = q[i + 1]
  OBVIOUS
<1>2. \A i \in 1 .. Len(q) - 1 : i + 1 \in 1 .. Len(q) /\ 1 < i + 1
  BY <1>1
<1>3. 1 \in 1 .. Len(q)
  BY <1>1
<1>4. Ascending(Tail(q))
  <2> SUFFICES ASSUME NEW i \in 1 .. Len(q) - 1, NEW n \in 1 .. Len(q) - 1, i < n,
                      Tail(q)[i].tuple = Tail(q)[n].tuple
               PROVE  Tail(q)[i].id < Tail(q)[n].id
    BY <1>1 DEF Ascending
  <2>1. i + 1 < n + 1
    OBVIOUS
  <2> QED BY <1>1, <1>2, <2>1 DEF Ascending
<1>5. Precedes({Head(q)}, Range(Tail(q)))
  BY <1>1, <1>2, <1>3 DEF Ascending, Precedes, Range
<1> QED BY <1>4, <1>5

-----------------------------------------------------------------------------
(* Moves between stages *)

\* The reader creates a job younger than all others.
LEMMA NewJob ==
  ASSUME NEW w, NEW o, NEW oq, NEW p, NEW pq, NEW b, NEW bq, NEW d, NEW all,
         NEW j \in Job, Staged(w, o, oq, p, pq, b, bq, {}, d, all),
         Precedes(all, {j}), j \notin all
  PROVE  Staged(w, o, oq, p, pq, b, bq, {j}, d, all \cup {j})
BY DEF Staged, InOrder, Precedes

\* A job j leaves a stage for the next one; the stage it leaves keeps only
\* younger jobs of its flow.
LEMMA Move ==
  ASSUME NEW w, NEW o, NEW oq, NEW p, NEW pq, NEW b, NEW bq, NEW r, NEW d,
         NEW all, NEW j \in Job, NEW rest, Precedes({j}, rest),
         Staged(w, o, oq, p, pq, b, bq, r, d, all)
  PROVE  /\ r = {j} \cup rest
              => Staged(w, o, oq, p, pq, b, bq \cup {j}, rest, d, all)
         /\ bq = {j} \cup rest
              => Staged(w, o, oq, p, pq, b \cup {j}, rest, r, d, all)
         /\ b = {j} \cup rest
              => Staged(w, o, oq, p, pq \cup {j}, rest, bq, r, d, all)
         /\ pq = {j} \cup rest
              => Staged(w, o, oq, p \cup {j}, rest, b, bq, r, d, all)
         /\ p = {j} \cup rest
              => Staged(w, o, oq \cup {j}, rest, pq, b, bq, r, d, all)
         /\ oq = {j} \cup rest
              => Staged(w, o \cup {j}, rest, p, pq, b, bq, r, d, all)
         /\ o = {j} \cup rest
              => Staged(w \cup {j}, rest, oq, p, pq, b, bq, r, d, all)
<1>0. j.id \in Nat
  BY DEF Job
<1>1. ASSUME r = {j} \cup rest
      PROVE  Staged(w, o, oq, p, pq, b, bq \cup {j}, rest, d, all)
  BY <1>1 DEF Staged, InOrder, Precedes
<1>2. ASSUME bq = {j} \cup rest
      PROVE  Staged(w, o, oq, p, pq, b \cup {j}, rest, r, d, all)
  BY <1>2 DEF Staged, InOrder, Precedes
<1>3. ASSUME b = {j} \cup rest
      PROVE  Staged(w, o, oq, p, pq \cup {j}, rest, bq, r, d, all)
  BY <1>3 DEF Staged, InOrder, Precedes
<1>4. ASSUME pq = {j} \cup rest
      PROVE  Staged(w, o, oq, p \cup {j}, rest, b, bq, r, d, all)
  BY <1>4 DEF Staged, InOrder, Precedes
<1>5. ASSUME p = {j} \cup rest
      PROVE  Staged(w, o, oq \cup {j}, rest, pq, b, bq, r, d, all)
  BY <1>0, <1>5 DEF Staged, InOrder, Precedes
<1>6. ASSUME oq = {j} \cup rest
      PROVE  Staged(w, o \cup {j}, rest, p, pq, b, bq, r, d, all)
  BY <1>6 DEF Staged, InOrder, Precedes
<1>7. ASSUME o = {j} \cup rest
      PROVE  Staged(w \cup {j}, rest, oq, p, pq, b, bq, r, d, all)
  BY <1>7 DEF Staged, InOrder, Precedes
<1> QED BY <1>1, <1>2, <1>3, <1>4, <1>5, <1>6, <1>7

\* A fast path drops the job in its hand.
LEMMA DropJob ==
  ASSUME NEW w, NEW o, NEW oq, NEW p, NEW pq, NEW b, NEW bq, NEW r, NEW d,
         NEW all, NEW j \in Job, NEW rest, Precedes({j}, rest),
         Staged(w, o, oq, p, pq, b, bq, r, d, all), p = {j} \cup rest
  PROVE  Staged(w, o, oq, rest, pq, b, bq, r, d \cup {j}, all)
<1>0. j.id \in Nat
  BY DEF Job
<1> QED BY <1>0 DEF Staged, InOrder, Precedes

-----------------------------------------------------------------------------
(* Stages made of several queues or hands *)

Queued(I, q) == UNION {Range(q[n]) : n \in I}
Held(I, h) == UNION {h[n] : n \in I}

\* The steps of a stage with queues q or hands h, new afterwards: job j is
\* appended to queue i, put into hand i, taken from the head of queue i or out
\* of hand i.  No flow uses two queues or two hands of a stage.
Appended(I, i, j, q, new) ==
  /\ i \in I /\ j \in Job /\ q[i] \in Seq(Job)
  /\ new[i] = Append(q[i], j) /\ \A n \in I : n # i => new[n] = q[n]

Filled(I, i, j, h, new) ==
  /\ i \in I /\ h[i] = {}
  /\ new[i] = {j} /\ \A n \in I : n # i => new[n] = h[n]

Taken(I, i, j, q, new) ==
  /\ i \in I /\ q[i] \in Seq(Job) /\ q[i] # << >> /\ Ascending(q[i])
  /\ j = Head(q[i])
  /\ new[i] = Tail(q[i]) /\ \A n \in I : n # i => new[n] = q[n]
  /\ \A n \in I : n # i =>
       \A x \in Range(q[i]), y \in Range(q[n]) : x.tuple # y.tuple

Emptied(I, i, j, h, new) ==
  /\ i \in I /\ h[i] = {j}
  /\ new[i] = {} /\ \A n \in I : n # i => new[n] = h[n]
  /\ \A n \in I : n # i => \A y \in h[n] : j.tuple # y.tuple

\* A stage that grows at its end.
LEMMA StageAppended ==
  ASSUME NEW I, NEW i, NEW j, NEW q, NEW new, Appended(I, i, j, q, new)
  PROVE  Queued(I, new) = Queued(I, q) \cup {j}
<1>1. /\ \A n \in I : n # i => Range(new[n]) = Range(q[n])
      /\ Range(new[i]) = Range(q[i]) \cup {j} /\ i \in I
  BY RangeAppend DEF Appended
<1>2. ASSUME NEW n \in I PROVE Range(q[n]) \subseteq Range(new[n])
  BY <1>1
<1>3. ASSUME NEW n \in I PROVE Range(new[n]) \subseteq Queued(I, q) \cup {j}
  BY <1>1 DEF Queued
<1>4. Queued(I, new) \subseteq Queued(I, q) \cup {j}
  BY <1>3 DEF Queued
<1>5. Queued(I, q) \subseteq Queued(I, new)
  BY <1>2 DEF Queued
<1>6. j \in Queued(I, new)
  BY <1>1 DEF Queued
<1> QED BY <1>4, <1>5, <1>6

\* A stage that receives a packet the stage before it gave up.
LEMMA StageFilled ==
  ASSUME NEW I, NEW i, NEW j, NEW h, NEW new, Filled(I, i, j, h, new)
  PROVE  Held(I, new) = Held(I, h) \cup {j}
<1>1. ASSUME NEW n \in I PROVE h[n] \subseteq new[n]
  BY DEF Filled
<1>2. ASSUME NEW n \in I PROVE new[n] \subseteq Held(I, h) \cup {j}
  BY DEF Held, Filled
<1>3. Held(I, new) \subseteq Held(I, h) \cup {j}
  BY <1>2 DEF Held
<1>4. Held(I, h) \subseteq Held(I, new)
  BY <1>1 DEF Held
<1>5. j \in Held(I, new)
  BY DEF Held, Filled
<1> QED BY <1>3, <1>4, <1>5

\* What stays in the stage is younger than the job that leaves it, or belongs
\* to another flow.
LEMMA StageTaken ==
  ASSUME NEW I, NEW i, NEW j, NEW q, NEW new, Taken(I, i, j, q, new)
  PROVE  Queued(I, q) = {j} \cup Queued(I, new) /\ Precedes({j}, Queued(I, new))
<1>1. Range(q[i]) = {j} \cup Range(new[i])
  BY RangePop DEF Taken
<1>2. Precedes({j}, Range(new[i]))
  BY AscendingPop DEF Taken
<1>3. Queued(I, q) = {j} \cup Queued(I, new)
  BY <1>1 DEF Queued, Taken
<1>4. ASSUME NEW y \in Queued(I, new) PROVE Precedes({j}, {y})
  <2>1. PICK n \in I : y \in Range(new[n])
    BY <1>4 DEF Queued
  <2>2. CASE n = i
    BY <1>2, <2>1, <2>2 DEF Precedes
  <2>3. CASE n # i
    BY <1>1, <2>1, <2>3 DEF Precedes, Taken
  <2> QED BY <2>2, <2>3
<1> QED BY <1>3, <1>4 DEF Precedes

\* A stage that gives up its oldest packet.
LEMMA StageEmptied ==
  ASSUME NEW I, NEW i, NEW j, NEW h, NEW new, Emptied(I, i, j, h, new)
  PROVE  Held(I, h) = {j} \cup Held(I, new) /\ Precedes({j}, Held(I, new))
<1>1. Held(I, h) = {j} \cup Held(I, new)
  BY DEF Held, Emptied
<1>2. ASSUME NEW y \in Held(I, new) PROVE j.tuple # y.tuple
  <2> PICK n \in I : y \in new[n]
    BY <1>2 DEF Held
  <2> QED BY DEF Emptied
<1> QED BY <1>1, <1>2 DEF Precedes

-----------------------------------------------------------------------------
(* The file *)

\* A job younger than the written ones of its flow keeps the file in order.
LEMMA FileAppend ==
  ASSUME TypeOK, NEW j \in Job, FlowOrder, Precedes(Written, {j}),
         WriteOutputPacket(j)
  PROVE  FlowOrder' /\ Written' = Written \cup {j}
<1>1. /\ file \in Seq(Job \cup {Header}) /\ file' = Append(file, j) /\ j # Header
  BY HeaderAssumption DEF TypeOK, WriteOutputPacket
<1>2. Range(file') = Range(file) \cup {j}
  BY <1>1, RangeAppend
<1>3. Written' = Written \cup {j}
  BY <1>1, <1>2 DEF Written
<1>4. /\ Len(file) \in Nat /\ Len(file') = Len(file) + 1
      /\ \A i \in 1 .. Len(file) : file'[i] = file[i] /\ file[i] \in Range(file)
      /\ file'[Len(file) + 1] = j
  BY <1>1 DEF Range
<1>5. ASSUME NEW i \in 1 .. Len(file'), NEW n \in 1 .. Len(file'), i < n,
             file'[i] # Header, file'[n] # Header,
             file'[i].tuple = file'[n].tuple
      PROVE  file'[i].id < file'[n].id
  <2>1. i \in 1 .. Len(file)
    BY <1>4, <1>5
  <2>2. CASE n \in 1 .. Len(file)
    BY <1>4, <1>5, <2>1, <2>2 DEF FlowOrder
  <2>3. CASE n = Len(file) + 1
    BY <1>4, <1>5, <2>1, <2>3 DEF Precedes, Written
  <2> QED BY <1>4, <2>2, <2>3
<1> QED BY <1>3, <1>5 DEF FlowOrder

-----------------------------------------------------------------------------
(* The invariant *)

\* An empty pipeline is in order.
LEMMA FlowInit == Init => FlowInv
<1> SUFFICES ASSUME Init PROVE FlowInv
  OBVIOUS
<1>1. /\ Range(file) = {} /\ Range(outQ) = {} /\ Range(trace) = {}
      /\ \A l \in LBs : Range(lbQ[l]) = {} /\ lhand[l] = {}
      /\ \A f \in FPs : Range(fpQ[f]) = {} /\ fhand[f] = {}
  BY DEF Init, Range
<1>2. /\ Written = {} /\ InLbQueues = {} /\ InLBs = {} /\ InFpQueues = {}
      /\ InFPs = {} /\ ohand = {} /\ rhand = {} /\ dropped = {}
  BY <1>1 DEF Init, Written, InLbQueues, InLBs, InFpQueues, InFPs
<1>3. Ordered
  BY <1>1, <1>2 DEF Ordered, Staged, InOrder, Precedes
<1>4. Sorted
  BY DEF Init, Sorted, Ascending, FlowOrder
<1>5. Hands /\ Placed /\ Numbered
  BY <1>1 DEF Init, Hands, Placed, Numbered
<1>6. Headed
  BY DEF Init, Headed, HeaderFirst
<1> QED BY <1>3, <1>4, <1>5, <1>6 DEF FlowInv

\* The variables that hold jobs.
places == <<file, ohand, outQ, fhand, fpQ, lhand, lbQ, rhand, dropped, trace>>

\* A step that moves no job.
LEMMA FlowStill ==
  ASSUME FlowInv, UNCHANGED places
  PROVE  Placed' /\ Sorted' /\ Ordered' /\ Numbered' /\ HeaderFirst'
<1>1. Placed'
  BY DEF places, FlowInv, Placed
<1>2. Sorted'
  BY DEF places, FlowInv, Sorted, FlowOrder
<1>3. /\ UNCHANGED <<Written, ohand, Range(outQ), InFPs, InFpQueues, InLBs,
                     InLbQueues, rhand, dropped, Range(trace)>>
  BY DEF places, Written, InFPs, InFpQueues, InLBs, InLbQueues
<1>4. Ordered'
  BY <1>3 DEF FlowInv, Ordered
<1>5. Numbered' /\ HeaderFirst'
  BY DEF places, FlowInv, Numbered, Headed, HeaderFirst
<1> QED BY <1>1, <1>2, <1>4, <1>5

\* The same for the part of the invariant that only the reader and the output
\* thread can disturb.
LEMMA HeadStill ==
  ASSUME FlowInv, UNCHANGED <<file, trace, rpc>>
  PROVE  Headed' /\ Numbered'
BY DEF FlowInv, Headed, HeaderFirst, Numbered

\* The reader keeps packets placed and in order.
LEMMA FlowReader == TypeOK /\ ShutdownInv /\ FlowInv /\ Reader => FlowInv'
<1> SUFFICES ASSUME TypeOK, ShutdownInv, FlowInv, Reader PROVE FlowInv'
  OBVIOUS
<1> USE DEF mainVars, readerVars, lbVars, lbQueues, fpVars, fpQueues, outVars,
            outQueue, fates, counters
<1>1. CASE ReaderOpenFails
  <2>1. UNCHANGED places
    BY <1>1 DEF ReaderOpenFails, places
  <2>2. Hands' /\ Headed'
    BY <1>1 DEF ReaderOpenFails, FlowInv, Hands, Headed, HeaderFirst
  <2> QED BY <2>1, <2>2, FlowStill DEF FlowInv
<1>2. CASE ReaderOpen
  <2>1. file = << >> /\ trace = << >> /\ file' = <<Header>>
    BY <1>2 DEF ReaderOpen, WriteOutputHeader, FlowInv, Headed
  <2>2. Written' = {} /\ Written = {}
    BY <2>1 DEF Written, Range
  <2>3. UNCHANGED <<Written, ohand, Range(outQ), InFPs, InFpQueues, InLBs,
                    InLbQueues, rhand, dropped, Range(trace)>>
    BY <1>2, <2>2 DEF ReaderOpen, InFPs, InFpQueues, InLBs, InLbQueues
  <2>4. Ordered'
    BY <2>3 DEF FlowInv, Ordered
  <2>5. Sorted' /\ Headed'
    BY <1>2, <2>1 DEF ReaderOpen, FlowInv, Sorted, FlowOrder, Headed, HeaderFirst
  <2>6. Hands' /\ Placed' /\ Numbered'
    BY <1>2 DEF ReaderOpen, FlowInv, Hands, Placed, Numbered
  <2> QED BY <2>4, <2>5, <2>6 DEF FlowInv
<1>3. CASE \E t \in Tuples : ReaderRead(t)
  <2> PICK t \in Tuples : ReaderRead(t)
    BY <1>3
  <2> DEFINE j == [id |-> Len(trace), tuple |-> t]
  <2>1. /\ trace' = Append(trace, j) /\ rhand' = {j} /\ rhand = {}
        /\ j \in Job /\ Len(trace) \in Nat /\ j.id = Len(trace)
    BY DEF ReaderRead, FlowInv, Hands, TypeOK, Job
  <2> HIDE DEF j
  <2>2. Range(trace') = Range(trace) \cup {j} /\ Len(trace') = Len(trace) + 1
    BY <2>1, RangeAppend DEF TypeOK
  <2>3. Range(trace) \subseteq Job
    BY DEF TypeOK, Range
  <2>4. Precedes(Range(trace), {j}) /\ j \notin Range(trace)
    BY <2>1 DEF FlowInv, Numbered, Precedes
  <2>5. UNCHANGED <<Written, ohand, Range(outQ), InFPs, InFpQueues, InLBs,
                    InLbQueues, dropped>>
    BY DEF ReaderRead, Written, InFPs, InFpQueues, InLBs, InLbQueues
  <2>6. Ordered'
    BY <2>1, <2>2, <2>4, <2>5, NewJob DEF FlowInv, Ordered
  <2>7. Numbered'
    BY <2>1, <2>2, <2>3 DEF FlowInv, Numbered, Job
  <2>8. Sorted' /\ Placed' /\ Hands' /\ Headed'
    BY DEF ReaderRead, FlowInv, Sorted, FlowOrder, Placed, Hands, Headed, HeaderFirst
  <2> QED BY <2>6, <2>7, <2>8 DEF FlowInv
<1>4. CASE ReaderPush
  <2>1. PICK j \in rhand :
          LET l == GetLBForPacket(j.tuple) IN
            lbQ' = [lbQ EXCEPT ![l] = Pushed(lbQ[l], lbDown[l], j)]
    BY <1>4 DEF ReaderPush
  <2> DEFINE l == GetLBForPacket(j.tuple)
  <2>2. j \in Job /\ l \in LBs /\ ~lbDown[l]
    <3>1. j \in Job /\ j.tuple \in Tuples
      BY DEF TypeOK, Job
    <3> QED BY <1>4, <3>1, BalancerExists
            DEF ReaderPush, ShutdownInv, ReaderGone, Stopping, LBsDone
  <2>3. lbQ' = [lbQ EXCEPT ![l] = Append(lbQ[l], j)]
    BY <2>1, <2>2 DEF Pushed
  <2>4. InLbQueues' = InLbQueues \cup {j}
    <3>1. Appended(LBs, l, j, lbQ, lbQ')
      BY <2>2, <2>3 DEF Appended, TypeOK
    <3> QED BY <3>1, StageAppended DEF InLbQueues, Queued
  <2>5. rhand = {j} /\ rhand' = {}
    <3>1. \A x \in rhand : x = j
      BY DEF TypeOK, IsOption
    <3> QED BY <1>4, <3>1 DEF ReaderPush
  <2>6. UNCHANGED <<Written, ohand, Range(outQ), InFPs, InFpQueues, InLBs,
                    dropped, Range(trace)>>
    BY <1>4 DEF ReaderPush, Written, InFPs, InFpQueues, InLBs
  <2>7. Ordered'
    <3>1. Precedes({j}, {}) /\ {j} = {j} \cup {}
      BY DEF Precedes
    <3> QED BY <2>2, <2>4, <2>5, <2>6, <3>1, Move DEF FlowInv, Ordered
  <2>8. Precedes(Range(lbQ[l]), {j})
    BY <2>2, <2>5 DEF FlowInv, Ordered, Staged, InOrder, Precedes, InLbQueues
  <2>9. Ascending(Append(lbQ[l], j))
    BY <2>2, <2>8, AscendingAppend DEF FlowInv, Sorted, TypeOK
  <2>10. Sorted'
    BY <1>4, <2>2, <2>3, <2>9 DEF ReaderPush, FlowInv, Sorted, FlowOrder, TypeOK
  <2>11. Range(Append(lbQ[l], j)) = Range(lbQ[l]) \cup {j}
    BY <2>2, RangeAppend DEF TypeOK
  <2>12. Placed'
    BY <1>4, <2>2, <2>3, <2>11 DEF ReaderPush, FlowInv, Placed, TypeOK
  <2>13. Hands' /\ Numbered' /\ Headed'
    BY <1>4 DEF ReaderPush, FlowInv, Hands, Numbered, Headed, HeaderFirst
  <2> QED BY <2>7, <2>10, <2>12, <2>13 DEF FlowInv
<1>5. CASE ReaderEnd
  <2>1. UNCHANGED places
    BY <1>5 DEF ReaderEnd, places
  <2>2. Hands' /\ Headed'
    BY <1>5 DEF ReaderEnd, FlowInv, Hands, Headed, HeaderFirst
  <2> QED BY <2>1, <2>2, FlowStill DEF FlowInv
<1> QED BY <1>1, <1>2, <1>3, <1>4, <1>5 DEF Reader

\* The balancers keep packets placed and in order.
LEMMA FlowLB ==
  TypeOK /\ ShutdownInv /\ FlowInv /\ (\E l \in LBs : LBThread(l)) => FlowInv'
<1> SUFFICES ASSUME TypeOK, ShutdownInv, FlowInv, NEW l \in LBs, LBThread(l)
             PROVE  FlowInv'
  OBVIOUS
<1> USE DEF mainVars, readerVars, lbVars, lbQueues, fpVars, fpQueues, outVars,
            outQueue, fates, counters
<1>0. /\ Headed' /\ Numbered'
  <2>1. UNCHANGED <<file, trace, rpc>>
    BY DEF LBThread, LBCheck, LBTake, LBTimeout, LBPush
  <2> QED BY <2>1, HeadStill
<1>1. CASE LBCheck(l) \/ LBTimeout(l)
  <2>1. UNCHANGED places
    BY <1>1 DEF LBCheck, LBTimeout, places
  <2>2. Hands'
    BY <1>1 DEF LBCheck, LBTimeout, FlowInv, Hands, TypeOK
  <2> QED BY <1>0, <2>1, <2>2, FlowStill DEF FlowInv
<1>2. CASE LBTake(l)
  <2> DEFINE j == Head(lbQ[l])
  <2>1. /\ lbQ' = [lbQ EXCEPT ![l] = Tail(lbQ[l])] /\ lbQ[l] # << >>
        /\ lhand' = [lhand EXCEPT ![l] = {j}] /\ lhand[l] = {}
    BY <1>2 DEF LBTake, PopHasItem, Popped, FlowInv, Hands
  <2>2. /\ lbQ \in [LBs -> Seq(Job)] /\ lhand \in [LBs -> SUBSET Job]
        /\ lbQ[l] \in Seq(Job) /\ Ascending(lbQ[l])
    BY DEF TypeOK, FlowInv, Sorted
  <2>3. j \in Job /\ Range(lbQ[l]) = {j} \cup Range(Tail(lbQ[l]))
    BY <2>1, <2>2, RangePop
  <2> HIDE DEF j
  <2>4. /\ InLbQueues = {j} \cup InLbQueues' /\ Precedes({j}, InLbQueues')
    <3>1. \A n \in LBs : n # l =>
            \A x \in Range(lbQ[l]), y \in Range(lbQ[n]) : x.tuple # y.tuple
      BY DEF FlowInv, Placed
    <3>2. Taken(LBs, l, j, lbQ, lbQ')
      BY <2>1, <2>2, <3>1 DEF Taken, j
    <3>3. InLbQueues = Queued(LBs, lbQ) /\ InLbQueues' = Queued(LBs, lbQ')
      BY DEF InLbQueues, Queued
    <3> QED BY <3>2, <3>3, StageTaken
  <2>5. InLBs' = InLBs \cup {j}
    <3>1. Filled(LBs, l, j, lhand, lhand')
      BY <2>1, <2>2 DEF Filled
    <3> QED BY <3>1, StageFilled DEF InLBs, Held
  <2>6. UNCHANGED <<Written, ohand, Range(outQ), InFPs, InFpQueues, rhand,
                    dropped, Range(trace)>>
    BY <1>2 DEF LBTake, Written, InFPs, InFpQueues
  <2>7. Ordered'
    BY <2>3, <2>4, <2>5, <2>6, Move DEF FlowInv, Ordered
  <2>8. Ascending(Tail(lbQ[l]))
    BY <2>1, <2>2, AscendingPop
  <2>9. Sorted'
    BY <1>2, <2>1, <2>2, <2>8 DEF LBTake, FlowInv, Sorted, FlowOrder
  <2>10. Placed'
    BY <1>2, <2>1, <2>2, <2>3 DEF LBTake, FlowInv, Placed
  <2>11. Hands'
    BY <1>2 DEF LBTake, FlowInv, Hands, TypeOK
  <2> QED BY <1>0, <2>7, <2>9, <2>10, <2>11 DEF FlowInv
<1>3. CASE LBPush(l)
  <2>1. PICK j \in lhand[l] :
          LET f == FpOf(l, SelectFP(j.tuple)) IN
            fpQ' = [fpQ EXCEPT ![f] = Pushed(fpQ[f], fpDown[f], j)]
    BY <1>3 DEF LBPush
  <2> DEFINE f == FpOf(l, SelectFP(j.tuple))
  <2>2. /\ fpQ \in [FPs -> Seq(Job)] /\ lhand \in [LBs -> SUBSET Job]
        /\ j \in Job
    BY DEF TypeOK
  <2>3. f \in FPs /\ Route(j.tuple) = f /\ ~fpDown[f]
    <3>1. j.tuple \in Tuples
      BY <2>2 DEF Job
    <3>2. f \in FPs
      BY <3>1, PathsOfBalancer, SelectFPInRange
    <3>3. Route(j.tuple) = f
      BY DEF FlowInv, Placed, Route
    <3>4. \A n \in FPs : ~fpDown[n]
      BY <1>3 DEF LBPush, ShutdownInv, BalancersGone, LBsDone
    <3> QED BY <3>2, <3>3, <3>4
  <2>4. fpQ' = [fpQ EXCEPT ![f] = Append(fpQ[f], j)]
    BY <2>1, <2>3 DEF Pushed
  <2> HIDE DEF f
  <2>5. lhand[l] = {j} /\ lhand' = [lhand EXCEPT ![l] = {}]
    <3>1. \A x \in lhand[l] : x = j
      BY DEF TypeOK, IsOption
    <3> QED BY <1>3, <3>1 DEF LBPush
  <2>6. InFpQueues' = InFpQueues \cup {j}
    <3>1. Appended(FPs, f, j, fpQ, fpQ')
      BY <2>2, <2>3, <2>4 DEF Appended
    <3> QED BY <3>1, StageAppended DEF InFpQueues, Queued
  <2>7. InLBs = {j} \cup InLBs' /\ Precedes({j}, InLBs')
    <3>1. \A n \in LBs : n # l => \A y \in lhand[n] : j.tuple # y.tuple
      BY DEF FlowInv, Placed
    <3>2. Emptied(LBs, l, j, lhand, lhand')
      BY <2>2, <2>5, <3>1 DEF Emptied
    <3>3. InLBs = Held(LBs, lhand) /\ InLBs' = Held(LBs, lhand')
      BY DEF InLBs, Held
    <3> QED BY <3>2, <3>3, StageEmptied
  <2>8. UNCHANGED <<Written, ohand, Range(outQ), InFPs, InLbQueues, rhand,
                    dropped, Range(trace)>>
    BY <1>3 DEF LBPush, Written, InFPs, InLbQueues
  <2>9. Ordered'
    BY <2>2, <2>6, <2>7, <2>8, Move DEF FlowInv, Ordered
  <2>10. Precedes(Range(fpQ[f]), {j})
    <3>1. Range(fpQ[f]) \subseteq InFpQueues /\ j \in InLBs
      BY <2>3 DEF InFpQueues, InLBs
    <3>2. Precedes(InFpQueues, InLBs)
      BY DEF FlowInv, Ordered, Staged, InOrder, Precedes
    <3> QED BY <3>1, <3>2 DEF Precedes
  <2>11. Ascending(Append(fpQ[f], j))
    BY <2>2, <2>3, <2>10, AscendingAppend DEF FlowInv, Sorted
  <2>12. Sorted'
    BY <1>3, <2>2, <2>3, <2>4, <2>11 DEF LBPush, FlowInv, Sorted, FlowOrder
  <2>13. Range(Append(fpQ[f], j)) = Range(fpQ[f]) \cup {j}
    BY <2>2, <2>3, RangeAppend
  <2>14. Placed'
    BY <1>3, <2>2, <2>3, <2>4, <2>5, <2>13 DEF LBPush, FlowInv, Placed
  <2>15. Hands'
    BY <1>3, <2>2, <2>5 DEF LBPush, FlowInv, Hands, TypeOK
  <2> QED BY <1>0, <2>9, <2>12, <2>14, <2>15 DEF FlowInv
<1> QED BY <1>1, <1>2, <1>3 DEF LBThread

\* The fast paths keep packets placed and in order.
LEMMA FlowFP ==
  TypeOK /\ ShutdownInv /\ FlowInv /\ (\E f \in FPs : FPThread(f)) => FlowInv'
<1> SUFFICES ASSUME TypeOK, ShutdownInv, FlowInv, NEW f \in FPs, FPThread(f)
             PROVE  FlowInv'
  OBVIOUS
<1> USE DEF mainVars, readerVars, lbVars, lbQueues, fpVars, fpQueues, outVars,
            outQueue, fates, counters
<1>0. /\ Headed' /\ Numbered'
  <2>1. UNCHANGED <<file, trace, rpc>>
    BY DEF FPThread, FPCheck, FPTake, FPTimeout, FPDrop, FPForward, FPPush
  <2> QED BY <2>1, HeadStill
<1>1. CASE FPCheck(f) \/ FPTimeout(f) \/ FPForward(f)
  <2>1. UNCHANGED places
    BY <1>1 DEF FPCheck, FPTimeout, FPForward, places
  <2>2. Hands'
    BY <1>1 DEF FPCheck, FPTimeout, FPForward, FlowInv, Hands, TypeOK
  <2> QED BY <1>0, <2>1, <2>2, FlowStill DEF FlowInv
<1>2. CASE FPTake(f)
  <2> DEFINE j == Head(fpQ[f])
  <2>1. /\ fpQ' = [fpQ EXCEPT ![f] = Tail(fpQ[f])] /\ fpQ[f] # << >>
        /\ fhand' = [fhand EXCEPT ![f] = {j}] /\ fhand[f] = {}
    BY <1>2 DEF FPTake, PopHasItem, Popped, FlowInv, Hands
  <2>2. /\ fpQ \in [FPs -> Seq(Job)] /\ fhand \in [FPs -> SUBSET Job]
        /\ fpQ[f] \in Seq(Job) /\ Ascending(fpQ[f])
    BY DEF TypeOK, FlowInv, Sorted
  <2>3. j \in Job /\ Range(fpQ[f]) = {j} \cup Range(Tail(fpQ[f]))
    BY <2>1, <2>2, RangePop
  <2> HIDE DEF j
  <2>4. /\ InFpQueues = {j} \cup InFpQueues' /\ Precedes({j}, InFpQueues')
    <3>1. \A n \in FPs : n # f =>
            \A x \in Range(fpQ[f]), y \in Range(fpQ[n]) : x.tuple # y.tuple
      BY DEF FlowInv, Placed
    <3>2. Taken(FPs, f, j, fpQ, fpQ')
      BY <2>1, <2>2, <3>1 DEF Taken, j
    <3>3. InFpQueues = Queued(FPs, fpQ) /\ InFpQueues' = Queued(FPs, fpQ')
      BY DEF InFpQueues, Queued
    <3> QED BY <3>2, <3>3, StageTaken
  <2>5. InFPs' = InFPs \cup {j}
    <3>1. Filled(FPs, f, j, fhand, fhand')
      BY <2>1, <2>2 DEF Filled
    <3> QED BY <3>1, StageFilled DEF InFPs, Held
  <2>6. UNCHANGED <<Written, ohand, Range(outQ), InLBs, InLbQueues, rhand,
                    dropped, Range(trace)>>
    BY <1>2 DEF FPTake, Written, InLBs, InLbQueues
  <2>7. Ordered'
    BY <2>3, <2>4, <2>5, <2>6, Move DEF FlowInv, Ordered
  <2>8. Ascending(Tail(fpQ[f]))
    BY <2>1, <2>2, AscendingPop
  <2>9. Sorted'
    BY <1>2, <2>1, <2>2, <2>8 DEF FPTake, FlowInv, Sorted, FlowOrder
  <2>10. Placed'
    BY <1>2, <2>1, <2>2, <2>3 DEF FPTake, FlowInv, Placed
  <2>11. Hands'
    BY <1>2 DEF FPTake, FlowInv, Hands, TypeOK
  <2> QED BY <1>0, <2>7, <2>9, <2>10, <2>11 DEF FlowInv
<1>3. CASE FPDrop(f) \/ FPPush(f)
  <2>1. fhand' = [fhand EXCEPT ![f] = {}] /\ fhand \in [FPs -> SUBSET Job]
    BY <1>3 DEF FPDrop, FPPush, TypeOK
  <2>2. ASSUME NEW j \in fhand[f]
        PROVE  /\ j \in Job /\ fhand[f] = {j}
               /\ InFPs = {j} \cup InFPs' /\ Precedes({j}, InFPs')
    <3>1. j \in Job /\ fhand[f] = {j}
      <4>1. \A x \in fhand[f] : x = j
        BY <2>2 DEF TypeOK, IsOption
      <4> QED BY <2>1, <2>2, <4>1
    <3>2. \A n \in FPs : n # f => \A y \in fhand[n] : j.tuple # y.tuple
      BY <2>2 DEF FlowInv, Placed
    <3>3. Emptied(FPs, f, j, fhand, fhand')
      BY <2>1, <3>1, <3>2 DEF Emptied
    <3>4. InFPs = Held(FPs, fhand) /\ InFPs' = Held(FPs, fhand')
      BY DEF InFPs, Held
    <3> QED BY <3>1, <3>3, <3>4, StageEmptied
  <2>3. UNCHANGED <<Written, ohand, InFpQueues, InLBs, InLbQueues, rhand,
                    Range(trace)>>
    BY <1>3 DEF FPDrop, FPPush, Written, InFpQueues, InLBs, InLbQueues
  <2>4. Placed' /\ Hands'
    BY <1>3, <2>1 DEF FPDrop, FPPush, FlowInv, Placed, Hands, TypeOK
  <2>5. CASE FPDrop(f)
    <3>1. UNCHANGED <<Range(outQ), file, outQ, fpQ, lbQ>>
          /\ dropped' = dropped \cup fhand[f]
      BY <2>5 DEF FPDrop
    <3>2. Sorted'
      BY <3>1 DEF FlowInv, Sorted, FlowOrder
    <3>3. CASE fhand[f] = {}
      <4>1. fhand' = fhand /\ dropped' = dropped
        BY <2>1, <3>1, <3>3
      <4>2. InFPs' = InFPs
        BY <4>1 DEF InFPs
      <4>3. Ordered'
        BY <2>3, <3>1, <4>1, <4>2 DEF FlowInv, Ordered
      <4> QED BY <1>0, <2>4, <3>2, <4>3 DEF FlowInv
    <3>4. CASE fhand[f] # {}
      <4> PICK j : j \in fhand[f]
        BY <3>4
      <4>1. /\ j \in Job /\ fhand[f] = {j}
            /\ InFPs = {j} \cup InFPs' /\ Precedes({j}, InFPs')
        BY <2>2
      <4>2. dropped' = dropped \cup {j}
        BY <3>1, <4>1
      <4>3. Ordered'
        BY <2>3, <3>1, <4>1, <4>2, DropJob DEF FlowInv, Ordered
      <4> QED BY <1>0, <2>4, <3>2, <4>3 DEF FlowInv
    <3> QED BY <3>3, <3>4
  <2>6. CASE FPPush(f)
    <3>1. ~outDown
      BY <2>6 DEF FPPush, ShutdownInv, PathsGone, FPsDone
    <3>2. PICK j \in fhand[f] : outQ' = Append(outQ, j)
      BY <2>6, <3>1 DEF FPPush, Pushed
    <3>3. /\ j \in Job /\ fhand[f] = {j}
          /\ InFPs = {j} \cup InFPs' /\ Precedes({j}, InFPs')
      BY <2>2
    <3>4. UNCHANGED <<dropped, file, fpQ, lbQ>> /\ outQ \in Seq(Job)
      BY <2>6 DEF FPPush, TypeOK
    <3>5. Range(outQ') = Range(outQ) \cup {j}
      BY <3>2, <3>3, <3>4, RangeAppend
    <3>6. Ordered'
      <4>1. Staged(Written, ohand, Range(outQ) \cup {j}, InFPs', InFpQueues,
                   InLBs, InLbQueues, rhand, dropped, Range(trace))
        BY <3>3, Move DEF FlowInv, Ordered
      <4> QED BY <2>3, <3>4, <3>5, <4>1 DEF Ordered
    <3>7. Precedes(Range(outQ), {j})
      BY <3>3 DEF FlowInv, Ordered, Staged, InOrder, Precedes
    <3>8. Ascending(outQ')
      BY <3>2, <3>3, <3>4, <3>7, AscendingAppend DEF FlowInv, Sorted
    <3>9. Sorted'
      BY <3>4, <3>8 DEF FlowInv, Sorted, FlowOrder
    <3> QED BY <1>0, <2>4, <3>6, <3>9 DEF FlowInv
  <2> QED BY <1>3, <2>5, <2>6
<1> QED BY <1>1, <1>2, <1>3 DEF FPThread

\* The output thread keeps packets placed and in order.
LEMMA FlowOutput == TypeOK /\ FlowInv /\ Output => FlowInv'
<1> SUFFICES ASSUME TypeOK, FlowInv, Output PROVE FlowInv'
  OBVIOUS
<1> USE DEF mainVars, readerVars, lbVars, lbQueues, fpVars, fpQueues, outVars,
            outQueue, fates, counters
<1>1. CASE OutCheck \/ OutTimeout
  <2>1. UNCHANGED places /\ UNCHANGED <<file, trace, rpc>>
    BY <1>1 DEF OutCheck, OutTimeout, places
  <2>2. Hands'
    BY <1>1 DEF OutCheck, OutTimeout, FlowInv, Hands, TypeOK
  <2> QED BY <2>1, <2>2, FlowStill, HeadStill DEF FlowInv
<1>2. CASE OutTake
  <2> DEFINE j == Head(outQ)
  <2>1. /\ outQ' = Tail(outQ) /\ outQ # << >> /\ outQ \in Seq(Job)
        /\ ohand' = {j} /\ ohand = {} /\ Ascending(outQ)
    BY <1>2 DEF OutTake, PopHasItem, Popped, FlowInv, Hands, Sorted, TypeOK
  <2>2. /\ j \in Job /\ Range(outQ) = {j} \cup Range(outQ')
    BY <2>1, RangePop
  <2>3. Ascending(outQ') /\ Precedes({j}, Range(outQ'))
    BY <2>1, AscendingPop
  <2> HIDE DEF j
  <2>4. UNCHANGED <<Written, InFPs, InFpQueues, InLBs, InLbQueues, rhand,
                    dropped, Range(trace)>>
    BY <1>2 DEF OutTake, Written, InFPs, InFpQueues, InLBs, InLbQueues
  <2>5. Ordered'
    <3>1. Staged(Written, ohand \cup {j}, Range(outQ'), InFPs, InFpQueues, InLBs,
                 InLbQueues, rhand, dropped, Range(trace))
      BY <2>2, <2>3, Move DEF FlowInv, Ordered
    <3> QED BY <2>1, <2>4, <3>1 DEF Ordered
  <2>6. Sorted' /\ Placed' /\ Hands'
    BY <1>2, <2>3 DEF OutTake, FlowInv, Sorted, FlowOrder, Placed, Hands
  <2>7. Headed' /\ Numbered'
    BY <1>2, HeadStill DEF OutTake
  <2> QED BY <2>5, <2>6, <2>7 DEF FlowInv
<1>3. CASE OutWrite
  <2>1. PICK j \in ohand : WriteOutputPacket(j)
    BY <1>3 DEF OutWrite
  <2>2. j \in Job /\ j # Header /\ ohand = {j} /\ ohand' = {}
    <3>1. \A x \in ohand : x = j
      BY DEF TypeOK, IsOption
    <3>2. j \in Job
      BY DEF TypeOK
    <3> QED BY <1>3, <3>1, <3>2, HeaderAssumption DEF OutWrite
  <2>3. Precedes(Written, {j}) /\ j \in Range(trace)
    BY <2>2 DEF FlowInv, Ordered, Staged, InOrder, Precedes
  <2>4. FlowOrder' /\ Written' = Written \cup {j}
    BY <2>1, <2>2, <2>3, FileAppend DEF FlowInv, Sorted
  <2>5. UNCHANGED <<Range(outQ), InFPs, InFpQueues, InLBs, InLbQueues, rhand,
                    dropped, Range(trace)>>
    BY <1>3 DEF OutWrite, InFPs, InFpQueues, InLBs, InLbQueues
  <2>6. Ordered'
    <3>1. Precedes({j}, {}) /\ ohand = {j} \cup {}
      BY <2>2 DEF Precedes
    <3>2. Staged(Written \cup {j}, {}, Range(outQ), InFPs, InFpQueues, InLBs,
                 InLbQueues, rhand, dropped, Range(trace))
      BY <2>2, <3>1, Move DEF FlowInv, Ordered
    <3> QED BY <2>2, <2>4, <2>5, <3>2 DEF Ordered
  <2>7. Sorted' /\ Placed' /\ Hands' /\ Numbered'
    BY <1>3, <2>4 DEF OutWrite, FlowInv, Sorted, Placed, Hands, Numbered
  <2>8. Headed'
    <3>1. trace # << >>
      BY <2>3 DEF Range
    <3>2. /\ file # << >> /\ file \in Seq(Job \cup {Header})
          /\ file' = Append(file, j) /\ UNCHANGED <<trace, rpc>>
      BY <1>3, <2>1, <3>1 DEF OutWrite, WriteOutputPacket, FlowInv, Headed, TypeOK
    <3>3. /\ Len(file) \in Nat /\ Len(file) > 0 /\ Len(file') = Len(file) + 1
          /\ \A i \in 1 .. Len(file) : file'[i] = file[i]
          /\ file'[Len(file) + 1] = j /\ file' # << >>
      BY <2>2, <3>2
    <3>4. \A i \in 1 .. Len(file) : file[i] = Header <=> i = 1
      BY <3>2 DEF FlowInv, Headed, HeaderFirst
    <3>5. HeaderFirst'
      <4> SUFFICES ASSUME NEW i \in 1 .. Len(file') PROVE file'[i] = Header <=> i = 1
        BY DEF HeaderFirst
      <4>1. CASE i \in 1 .. Len(file)
        BY <3>3, <3>4, <4>1
      <4>2. CASE i = Len(file) + 1
        BY <2>2, <3>3, <4>2
      <4> QED BY <3>3, <4>1, <4>2
    <3> QED BY <3>1, <3>2, <3>3, <3>5 DEF FlowInv, Headed
  <2> QED BY <2>6, <2>7, <2>8 DEF FlowInv
<1> QED BY <1>1, <1>2, <1>3 DEF Output

\* processFile and stop move no packet.
LEMMA FlowMain == TypeOK /\ ShutdownInv /\ FlowInv /\ Main => FlowInv'
<1> SUFFICES ASSUME TypeOK, ShutdownInv, FlowInv, Main PROVE FlowInv'
  OBVIOUS
<1> USE DEF mainVars, readerVars, lbVars, lbQueues, fpVars, fpQueues, outVars,
            outQueue, fates, counters
<1>1. UNCHANGED places
  BY DEF Main, ProcessFileFails, ProcessFile, JoinReader, BeginStop, StopLB,
         JoinLB, StopFP, JoinFP, StopOut, JoinOut, places
<1>2. CASE ProcessFile
  <2>1. /\ rpc = "idle" /\ opc = "idle" /\ \A l \in LBs : lpc[l] = "idle"
        /\ \A f \in FPs : fpc[f] = "idle"
    BY <1>2 DEF ProcessFile, ShutdownInv, ReaderGone, BalancersGone, PathsGone
  <2>2. Hands'
    BY <1>1, <1>2, <2>1 DEF ProcessFile, Start, StartLBs, StartFPs, places,
                            FlowInv, Hands
  <2>3. Headed'
    BY <1>1, <1>2, <2>1 DEF ProcessFile, places, FlowInv, Headed, HeaderFirst
  <2> QED BY <1>1, <2>2, <2>3, FlowStill DEF FlowInv
<1>3. CASE ~ProcessFile
  <2>1. UNCHANGED <<rpc, lpc, fpc, opc>>
    BY <1>3 DEF Main, ProcessFileFails, JoinReader, BeginStop, StopLB, JoinLB,
                StopFP, JoinFP, StopOut, JoinOut
  <2>2. Hands' /\ Headed'
    BY <1>1, <2>1 DEF places, FlowInv, Hands, Headed, HeaderFirst
  <2> QED BY <1>1, <2>2, FlowStill DEF FlowInv
<1> QED BY <1>2, <1>3

\* Every step keeps packets placed and in order.
LEMMA FlowNext == TypeOK /\ ShutdownInv /\ FlowInv /\ [Next]_vars => FlowInv'
<1> SUFFICES ASSUME FlowInv, UNCHANGED vars PROVE FlowInv'
  BY FlowReader, FlowLB, FlowFP, FlowOutput, FlowMain DEF Next
<1>1. UNCHANGED places /\ UNCHANGED <<rpc, lpc, fpc, opc>>
  BY DEF vars, mainVars, readerVars, lbVars, lbQueues, fpVars, fpQueues, outVars,
         outQueue, fates, counters, places
<1>2. Hands' /\ Headed'
  BY <1>1 DEF places, FlowInv, Hands, Headed, HeaderFirst
<1> QED BY <1>1, <1>2, FlowStill DEF FlowInv

\* The flow invariant holds always.
LEMMA FlowSafe == Spec => [](TypeOK /\ FlowInv)
BY TypeCorrect, ShutdownSafe, FlowInit, FlowNext, PTL DEF Spec

-----------------------------------------------------------------------------
(* What follows *)

\* Every packet read is written, dropped by a verdict, or still on its way.
THEOREM NoPacketLost == Spec => []NothingLost
<1>1. FlowInv => NothingLost
  BY DEF FlowInv, Ordered, Staged, NothingLost, Passed, Undecided
<1> QED BY <1>1, FlowSafe, PTL

\* The output file keeps the order of every flow, for any number of threads.
THEOREM FlowsInOrder == Spec => []FlowOrder
<1>1. FlowInv => FlowOrder
  BY DEF FlowInv, Sorted
<1> QED BY <1>1, FlowSafe, PTL

\* A packet whose verdict was DROP is neither written nor queued for writing.
THEOREM VerdictsHold == Spec => []DroppedNeverWritten
<1>1. FlowInv => DroppedNeverWritten
  BY DEF FlowInv, Ordered, Staged, DroppedNeverWritten, Passed
<1> QED BY <1>1, FlowSafe, PTL

\* The header opens the file and occurs once.
THEOREM HeaderOpensFile == Spec => []HeaderFirst
<1>1. FlowInv => HeaderFirst
  BY DEF FlowInv, Headed
<1> QED BY <1>1, FlowSafe, PTL

\* Stages of which one precedes the other have no job in common.
LEMMA PrecedesDisjoint ==
  ASSUME NEW A, NEW B \in SUBSET Job, Precedes(A, B)
  PROVE  A \cap B = {}
<1>1. \A j \in B : j.id \in Nat
  BY DEF Job
<1> QED BY <1>1 DEF Precedes

\* A sequence of strictly growing numbers repeats nothing.
LEMMA AscendingInjective ==
  ASSUME NEW q \in Seq(Job), Ascending(q)
  PROVE  IsInjective(q)
<1>1. DOMAIN q = 1 .. Len(q) /\ Len(q) \in Nat
  OBVIOUS
<1>2. \A i \in DOMAIN q : q[i].id \in Nat
  <2>1. \A i \in DOMAIN q : q[i] \in Job
    OBVIOUS
  <2> QED BY <2>1 DEF Job
<1> QED BY <1>1, <1>2 DEF Ascending, IsInjective

\* No packet is in two places, or twice in one.
THEOREM NoPacketCopied == Spec => []NoDuplicates
<1>1. ASSUME TypeOK, FlowInv PROVE NoDuplicates
  <2>1. /\ outQ \in Seq(Job) /\ lbQ \in [LBs -> Seq(Job)] /\ fpQ \in [FPs -> Seq(Job)]
        /\ file \in Seq(Job \cup {Header})
    BY <1>1 DEF TypeOK
  <2>2. /\ IsInjective(outQ)
        /\ \A l \in LBs : IsInjective(lbQ[l])
        /\ \A f \in FPs : IsInjective(fpQ[f])
    BY <1>1, <2>1, AscendingInjective DEF FlowInv, Sorted
  <2>3. IsInjective(file)
    <3>1. /\ DOMAIN file = 1 .. Len(file) /\ Len(file) \in Nat
          /\ \A i \in 1 .. Len(file) : file[i] # Header => file[i].id \in Nat
      BY <2>1 DEF Job
    <3>2. \A i, n \in 1 .. Len(file) : file[i] = Header /\ file[n] = Header => i = n
      BY <1>1 DEF FlowInv, Headed, HeaderFirst
    <3>3. \A i, n \in 1 .. Len(file) :
            file[i] = file[n] /\ file[i] # Header => ~(i < n)
      BY <1>1, <3>1 DEF FlowInv, Sorted, FlowOrder
    <3> QED BY <3>1, <3>2, <3>3 DEF IsInjective
  <2>4. /\ Range(outQ) \subseteq Job /\ ohand \subseteq Job /\ rhand \subseteq Job
        /\ InFPs \subseteq Job /\ InFpQueues \subseteq Job
        /\ InLBs \subseteq Job /\ InLbQueues \subseteq Job
    <3>1. /\ \A l \in LBs : Range(lbQ[l]) \subseteq Job /\ lhand[l] \subseteq Job
          /\ \A f \in FPs : Range(fpQ[f]) \subseteq Job /\ fhand[f] \subseteq Job
      BY <1>1 DEF TypeOK, Range
    <3> QED BY <1>1, <3>1 DEF TypeOK, Range, InFPs, InFpQueues, InLBs, InLbQueues
  <2>5. InOrder(Written, ohand, Range(outQ), InFPs, InFpQueues, InLBs,
                InLbQueues, rhand)
    BY <1>1 DEF FlowInv, Ordered, Staged
  <2>6. /\ Written \cap (ohand \cup Range(outQ) \cup Undecided) = {}
        /\ ohand \cap (Range(outQ) \cup Undecided) = {}
        /\ Range(outQ) \cap Undecided = {}
    BY <2>4, <2>5, PrecedesDisjoint DEF InOrder, Undecided, Precedes, Job
  <2>7. /\ InFPs \cap (InFpQueues \cup InLBs \cup InLbQueues \cup rhand) = {}
        /\ InFpQueues \cap (InLBs \cup InLbQueues \cup rhand) = {}
        /\ InLBs \cap (InLbQueues \cup rhand) = {}
        /\ InLbQueues \cap rhand = {}
    BY <2>4, <2>5, PrecedesDisjoint DEF InOrder
  <2> QED BY <2>2, <2>3, <2>6, <2>7 DEF NoDuplicates
<1> QED BY <1>1, FlowSafe, PTL

-----------------------------------------------------------------------------
(* A pipeline that has drained stays empty *)

DrainedInv == main \in Stopping /\ drained => Drained

\* A pipeline that was drained when stop() began stays so.
LEMMA DrainedNext ==
  TypeOK /\ ShutdownInv /\ FlowInv /\ DrainedInv /\ [Next]_vars => DrainedInv'
<1> SUFFICES ASSUME TypeOK, ShutdownInv, FlowInv, DrainedInv, [Next]_vars,
                    main' \in Stopping, drained'
             PROVE  Drained'
  BY DEF DrainedInv
<1> USE DEF mainVars, readerVars, lbVars, lbQueues, fpVars, fpQueues, outVars,
            outQueue, fates, counters
<1> DEFINE inside == <<lbQ, lhand, fpQ, fhand, outQ, ohand>>
<1>0. UNCHANGED inside /\ Drained => Drained'
  BY DEF Drained
<1>1. CASE BeginStop
  BY <1>0, <1>1 DEF BeginStop
<1>2. CASE ~BeginStop
  <2>1. CASE Main
    <3>1. drained /\ UNCHANGED inside
      BY <1>2, <2>1 DEF Main, ProcessFileFails, ProcessFile, JoinReader, StopLB,
                        JoinLB, StopFP, JoinFP, StopOut, JoinOut
    <3>2. main \in Stopping
      BY <1>2, <2>1 DEF Main, ProcessFileFails, ProcessFile, JoinReader, StopLB,
                        JoinLB, StopFP, JoinFP, StopOut, JoinOut, Stopping, LBsDone
    <3> QED BY <1>0, <3>1, <3>2 DEF DrainedInv
  <2>2. CASE ~Main
    <3>1. Drained
      <4>1. UNCHANGED <<main, drained>>
        BY <2>2 DEF Next, Reader, ReaderOpenFails, ReaderOpen, ReaderRead,
             ReaderPush, ReaderEnd, LBThread, LBCheck, LBTake, LBTimeout, LBPush,
             FPThread, FPCheck, FPTake, FPTimeout, FPDrop, FPForward, FPPush,
             Output, OutCheck, OutTake, OutTimeout, OutWrite, vars
      <4> QED BY <4>1 DEF DrainedInv
    <3>2. CASE Reader
      <4>1. main \in Stopping
        BY <3>2 DEF Reader, ReaderOpenFails, ReaderOpen, ReaderRead, ReaderPush,
                    ReaderEnd
      <4> QED BY <3>2, <4>1 DEF Reader, ReaderOpenFails, ReaderOpen, ReaderRead,
                 ReaderPush, ReaderEnd, ShutdownInv, ReaderGone
    <3>3. CASE \E l \in LBs : LBThread(l)
      <4> PICK l \in LBs : LBThread(l)
        BY <3>3
      <4>1. UNCHANGED inside
        BY <3>1 DEF LBThread, LBCheck, LBTake, LBTimeout, LBPush, PopHasItem, Drained
      <4> QED BY <1>0, <3>1, <4>1
    <3>4. CASE \E f \in FPs : FPThread(f)
      <4> PICK f \in FPs : FPThread(f)
        BY <3>4
      <4>1. CASE FPDrop(f)
        <5>1. fhand' = fhand
          BY <3>1, <4>1 DEF FPDrop, Drained, TypeOK
        <5> QED BY <1>0, <3>1, <4>1, <5>1 DEF FPDrop
      <4>2. CASE ~FPDrop(f)
        <5>1. UNCHANGED inside
          BY <3>1, <4>2 DEF FPThread, FPCheck, FPTake, FPTimeout, FPForward, FPPush,
                            PopHasItem, Drained
        <5> QED BY <1>0, <3>1, <5>1
      <4> QED BY <4>1, <4>2
    <3>5. CASE Output
      <4>1. UNCHANGED inside
        BY <3>1, <3>5 DEF Output, OutCheck, OutTake, OutTimeout, OutWrite,
                          PopHasItem, Drained
      <4> QED BY <1>0, <3>1, <4>1
    <3>6. CASE UNCHANGED vars
      BY <1>0, <3>1, <3>6 DEF vars
    <3> QED BY <2>2, <3>2, <3>3, <3>4, <3>5, <3>6 DEF Next
  <2> QED BY <2>1, <2>2
<1> QED BY <1>1, <1>2

\* If the pipeline was empty when the sleeps of processFile ended, the file is
\* complete when it is closed.
THEOREM DrainedIsComplete == Spec => []CompleteIfDrained
<1>1. Init => DrainedInv
  BY DEF Init, DrainedInv, Stopping, LBsDone
<1>2. ShutdownInv /\ FlowInv /\ DrainedInv => CompleteIfDrained
  <2> SUFFICES ASSUME ShutdownInv, FlowInv, DrainedInv, main = "closed", drained
               PROVE  Range(trace) = Written \cup dropped
    BY DEF CompleteIfDrained
  <2>1. Drained /\ rhand = {}
    BY DEF DrainedInv, Stopping, LBsDone, FlowInv, Hands, ShutdownInv, ReaderGone
  <2>2. /\ InLbQueues = {} /\ InLBs = {} /\ InFpQueues = {} /\ InFPs = {}
        /\ Range(outQ) = {} /\ ohand = {}
    BY <2>1 DEF Drained, InLbQueues, InLBs, InFpQueues, InFPs, Range
  <2> QED BY <2>1, <2>2 DEF FlowInv, Ordered, Staged
<1> QED BY <1>1, <1>2, FlowSafe, ShutdownSafe, DrainedNext, PTL DEF Spec

=============================================================================
