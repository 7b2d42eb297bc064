--------------------------- MODULE PipelineProofs ---------------------------
(***************************************************************************)
(* Theorems about module Pipeline, for any number of balancers and fast    *)
(* paths, any capacity, any hash function and any capture.                 *)
(***************************************************************************)
EXTENDS Pipeline, TLAPS

USE DEF IsOption

-----------------------------------------------------------------------------
(* Routing *)

\* getLBForPacket returns the index of an existing balancer.
LEMMA BalancerExists == \A t \in Tuples : GetLBForPacket(t) \in LBs
<1> TAKE t \in Tuples
<1>1. Hash[t] \in Nat /\ FpsPerLB \in Nat \ {0} /\ NumLBs \in Nat \ {0}
  BY PipelineAssumption
<1>2. Hash[t] \div FpsPerLB \in Nat
  BY <1>1
<1> QED BY <1>1, <1>2 DEF GetLBForPacket, LBs

\* The fast paths of balancer l are l*fps_per_lb .. (l+1)*fps_per_lb - 1.
LEMMA PathsOfBalancer ==
  ASSUME NEW l \in LBs, NEW i \in 0 .. FpsPerLB - 1
  PROVE  FpOf(l, i) \in FPs
<1>1. FpsPerLB \in Nat \ {0} /\ NumLBs \in Nat \ {0}
  BY PipelineAssumption
<1>2. l * FpsPerLB <= (NumLBs - 1) * FpsPerLB
  BY <1>1 DEF LBs
<1>3. (NumLBs - 1) * FpsPerLB = NumLBs * FpsPerLB - FpsPerLB
  BY <1>1
<1>4. l * FpsPerLB \in Nat /\ NumLBs * FpsPerLB \in Nat
  BY <1>1 DEF LBs
<1> QED BY <1>1, <1>2, <1>3, <1>4 DEF FpOf, FPs

\* selectFP returns an index into the balancer's own queues.
LEMMA SelectFPInRange == \A t \in Tuples : SelectFP(t) \in 0 .. FpsPerLB - 1
BY PipelineAssumption DEF SelectFP

-----------------------------------------------------------------------------
(* Type correctness *)

\* What the queue operators keep: the items' type and the capacity.
LEMMA PushedType ==
  ASSUME NEW q \in Seq(Job), NEW down \in BOOLEAN, NEW j \in Job,
         Len(q) <= MaxSize, PushReady(q, down)
  PROVE  Pushed(q, down, j) \in Seq(Job) /\ Len(Pushed(q, down, j)) <= MaxSize
BY MaxSizeAssumption DEF Pushed, PushReady

\* A pop hands out an item and leaves a queue within its capacity.
LEMMA PoppedType ==
  ASSUME NEW q \in Seq(Job), Len(q) <= MaxSize, PopHasItem(q)
  PROVE  /\ Head(q) \in Job
         /\ Popped(q) \in Seq(Job) /\ Len(Popped(q)) <= MaxSize
BY MaxSizeAssumption DEF Popped, PopHasItem

\* The state after initialize() is typed.
LEMMA TypeInit == Init => TypeOK
<1> SUFFICES ASSUME Init PROVE TypeOK
  OBVIOUS
<1>1. CountersOK
  BY DEF Init, CountersOK, StatsType, LBStatsType, FPStatsType
<1>2. /\ lbQ \in [LBs -> Seq(Job)] /\ fpQ \in [FPs -> Seq(Job)]
      /\ outQ \in Seq(Job) /\ trace \in Seq(Job) /\ file \in Seq(Job \cup {Header})
  BY DEF Init
<1>3. /\ \A l \in LBs : Len(lbQ[l]) <= MaxSize
      /\ \A f \in FPs : Len(fpQ[f]) <= MaxSize
      /\ Len(outQ) <= MaxSize
  BY MaxSizeAssumption DEF Init
<1>4. /\ lhand \in [LBs -> SUBSET Job] /\ fhand \in [FPs -> SUBSET Job]
      /\ \A l \in LBs : IsOption(lhand[l])
      /\ \A f \in FPs : IsOption(fhand[f])
  BY DEF Init
<1> QED BY <1>1, <1>2, <1>3, <1>4 DEF Init, TypeOK

\* Counting keeps the types of the counters.
LEMMA CountersCount ==
  ASSUME CountersOK
  PROVE  /\ \A l \in LBs :
              /\ [lbStats EXCEPT ![l].received = @ + 1] \in [LBs -> LBStatsType]
              /\ [lbStats EXCEPT ![l].dispatched = @ + 1] \in [LBs -> LBStatsType]
         /\ \A f \in FPs :
              /\ [fpStats EXCEPT ![f].processed = @ + 1] \in [FPs -> FPStatsType]
              /\ [fpStats EXCEPT ![f].forwarded = @ + 1] \in [FPs -> FPStatsType]
              /\ [fpStats EXCEPT ![f].dropped = @ + 1] \in [FPs -> FPStatsType]
         /\ [stats EXCEPT !.total = @ + 1] \in StatsType
         /\ [stats EXCEPT !.forwarded = @ + 1] \in StatsType
         /\ [stats EXCEPT !.dropped = @ + 1] \in StatsType
<1>1. \A l \in LBs :
        /\ [lbStats EXCEPT ![l].received = @ + 1] \in [LBs -> LBStatsType]
        /\ [lbStats EXCEPT ![l].dispatched = @ + 1] \in [LBs -> LBStatsType]
  BY DEF CountersOK, LBStatsType
<1>2. \A f \in FPs :
        /\ [fpStats EXCEPT ![f].processed = @ + 1] \in [FPs -> FPStatsType]
        /\ [fpStats EXCEPT ![f].forwarded = @ + 1] \in [FPs -> FPStatsType]
        /\ [fpStats EXCEPT ![f].dropped = @ + 1] \in [FPs -> FPStatsType]
  BY DEF CountersOK, FPStatsType
<1>3. /\ [stats EXCEPT !.total = @ + 1] \in StatsType
      /\ [stats EXCEPT !.forwarded = @ + 1] \in StatsType
      /\ [stats EXCEPT !.dropped = @ + 1] \in StatsType
  BY DEF CountersOK, StatsType
<1> QED BY <1>1, <1>2, <1>3

\* The reader keeps the types.
LEMMA TypeReader == TypeOK /\ Reader => TypeOK'
<1> SUFFICES ASSUME TypeOK, Reader PROVE TypeOK'
  OBVIOUS
<1> USE DEF mainVars, readerVars, lbVars, lbQueues, fpVars, fpQueues, outVars,
            outQueue, fates, counters
<1>1. CASE ReaderOpenFails
  BY <1>1 DEF ReaderOpenFails, TypeOK, CountersOK
<1>2. CASE ReaderOpen
  BY <1>2 DEF ReaderOpen, WriteOutputHeader, TypeOK, CountersOK
<1>3. CASE \E t \in Tuples : ReaderRead(t)
  <2>1. PICK t \in Tuples : ReaderRead(t)
    BY <1>3
  <2>2. CountersOK'
    BY <2>1, CountersCount DEF ReaderRead, TypeOK, CountersOK
  <2>3. [id |-> Len(trace), tuple |-> t] \in Job
    BY DEF TypeOK, Job
  <2> QED BY <2>1, <2>2, <2>3 DEF ReaderRead, TypeOK
<1>4. CASE ReaderPush
  <2>1. PICK job \in rhand :
          LET l == GetLBForPacket(job.tuple) IN
            /\ PushReady(lbQ[l], lbDown[l])
            /\ lbQ' = [lbQ EXCEPT ![l] = Pushed(lbQ[l], lbDown[l], job)]
            /\ discarded' = discarded \cup (IF lbDown[l] THEN {job} ELSE {})
    BY <1>4 DEF ReaderPush
  <2> DEFINE l == GetLBForPacket(job.tuple)
  <2>2. job \in Job /\ l \in LBs
    BY BalancerExists DEF TypeOK, Job
  <2>3. /\ Pushed(lbQ[l], lbDown[l], job) \in Seq(Job)
        /\ Len(Pushed(lbQ[l], lbDown[l], job)) <= MaxSize
    BY <2>1, <2>2, PushedType DEF TypeOK
  <2> QED BY <1>4, <2>1, <2>2, <2>3 DEF ReaderPush, TypeOK, CountersOK
<1>5. CASE ReaderEnd
  BY <1>5 DEF ReaderEnd, TypeOK, CountersOK
<1> QED BY <1>1, <1>2, <1>3, <1>4, <1>5 DEF Reader

\* The balancers keep the types.
LEMMA TypeLB == TypeOK /\ (\E l \in LBs : LBThread(l)) => TypeOK'
<1> SUFFICES ASSUME TypeOK, NEW l \in LBs, LBThread(l) PROVE TypeOK'
  OBVIOUS
<1> USE DEF mainVars, readerVars, lbVars, lbQueues, fpVars, fpQueues, outVars,
            outQueue, fates, counters
<1>1. CASE LBCheck(l)
  BY <1>1 DEF LBCheck, TypeOK, CountersOK
<1>2. CASE LBTake(l)
  <2>1. /\ Head(lbQ[l]) \in Job
        /\ Popped(lbQ[l]) \in Seq(Job) /\ Len(Popped(lbQ[l])) <= MaxSize
    BY <1>2, PoppedType DEF LBTake, TypeOK
  <2>c. CountersOK'
    BY <1>2, CountersCount DEF LBTake, TypeOK, CountersOK
  <2> QED BY <1>2, <2>1, <2>c DEF LBTake, TypeOK
<1>3. CASE LBTimeout(l)
  BY <1>3 DEF LBTimeout, TypeOK, CountersOK
<1>4. CASE LBPush(l)
  <2>1. PICK job \in lhand[l] :
          LET f == FpOf(l, SelectFP(job.tuple)) IN
            /\ PushReady(fpQ[f], fpDown[f])
            /\ fpQ' = [fpQ EXCEPT ![f] = Pushed(fpQ[f], fpDown[f], job)]
            /\ discarded' = discarded \cup (IF fpDown[f] THEN {job} ELSE {})
    BY <1>4 DEF LBPush
  <2> DEFINE f == FpOf(l, SelectFP(job.tuple))
  <2>2. job \in Job /\ f \in FPs
    <3>1. job \in Job /\ job.tuple \in Tuples
      BY DEF TypeOK, Job
    <3> QED BY <3>1, PathsOfBalancer, SelectFPInRange
  <2>3. /\ Pushed(fpQ[f], fpDown[f], job) \in Seq(Job)
        /\ Len(Pushed(fpQ[f], fpDown[f], job)) <= MaxSize
    BY <2>1, <2>2, PushedType DEF TypeOK
  <2>c. CountersOK'
    BY <1>4, CountersCount DEF LBPush, TypeOK, CountersOK
  <2> QED BY <1>4, <2>1, <2>2, <2>3, <2>c DEF LBPush, TypeOK
<1> QED BY <1>1, <1>2, <1>3, <1>4 DEF LBThread

\* The fast paths keep the types.
LEMMA TypeFP == TypeOK /\ (\E f \in FPs : FPThread(f)) => TypeOK'
<1> SUFFICES ASSUME TypeOK, NEW f \in FPs, FPThread(f) PROVE TypeOK'
  OBVIOUS
<1> USE DEF mainVars, readerVars, lbVars, lbQueues, fpVars, fpQueues, outVars,
            outQueue, fates, counters
<1>1. CASE FPCheck(f)
  BY <1>1 DEF FPCheck, TypeOK, CountersOK
<1>2. CASE FPTake(f)
  <2>1. /\ Head(fpQ[f]) \in Job
        /\ Popped(fpQ[f]) \in Seq(Job) /\ Len(Popped(fpQ[f])) <= MaxSize
    BY <1>2, PoppedType DEF FPTake, TypeOK
  <2>c. CountersOK'
    BY <1>2, CountersCount DEF FPTake, TypeOK, CountersOK
  <2> QED BY <1>2, <2>1, <2>c DEF FPTake, TypeOK
<1>3. CASE FPTimeout(f)
  BY <1>3 DEF FPTimeout, TypeOK, CountersOK
<1>4. CASE FPDrop(f)
  <2>c. CountersOK'
    BY <1>4, CountersCount DEF FPDrop, TypeOK, CountersOK
  <2> QED BY <1>4, <2>c DEF FPDrop, TypeOK
<1>5. CASE FPForward(f)
  <2>c. CountersOK'
    BY <1>5, CountersCount DEF FPForward, TypeOK, CountersOK
  <2> QED BY <1>5, <2>c DEF FPForward, TypeOK
<1>6. CASE FPPush(f)
  <2>1. PICK job \in fhand[f] : outQ' = Pushed(outQ, outDown, job)
    BY <1>6 DEF FPPush
  <2>2. job \in Job
    BY DEF TypeOK
  <2>3. /\ Pushed(outQ, outDown, job) \in Seq(Job)
        /\ Len(Pushed(outQ, outDown, job)) <= MaxSize
    BY <1>6, <2>2, PushedType DEF FPPush, TypeOK
  <2>c. CountersOK'
    BY <1>6, CountersCount DEF FPPush, TypeOK, CountersOK
  <2> QED BY <1>6, <2>1, <2>2, <2>3, <2>c DEF FPPush, TypeOK
<1> QED BY <1>1, <1>2, <1>3, <1>4, <1>5, <1>6 DEF FPThread

\* The output thread keeps the types.
LEMMA TypeOutput == TypeOK /\ Output => TypeOK'
<1> SUFFICES ASSUME TypeOK, Output PROVE TypeOK'
  OBVIOUS
<1> USE DEF mainVars, readerVars, lbVars, lbQueues, fpVars, fpQueues, outVars,
            outQueue, fates, counters
<1>1. CASE OutCheck
  BY <1>1 DEF OutCheck, TypeOK, CountersOK
<1>2. CASE OutTake
  <2>1. /\ Head(outQ) \in Job
        /\ Popped(outQ) \in Seq(Job) /\ Len(Popped(outQ)) <= MaxSize
    BY <1>2, PoppedType DEF OutTake, TypeOK
  <2> QED BY <1>2, <2>1 DEF OutTake, TypeOK, CountersOK
<1>3. CASE OutTimeout
  BY <1>3 DEF OutTimeout, TypeOK, CountersOK
<1>4. CASE OutWrite
  BY <1>4 DEF OutWrite, WriteOutputPacket, TypeOK, CountersOK
<1> QED BY <1>1, <1>2, <1>3, <1>4 DEF Output

\* processFile and stop keep the types.
LEMMA TypeMain == TypeOK /\ Main => TypeOK'
<1> SUFFICES ASSUME TypeOK, Main PROVE TypeOK'
  OBVIOUS
<1> USE DEF mainVars, readerVars, lbVars, lbQueues, fpVars, fpQueues, outVars,
            outQueue, fates, counters
<1>1. CASE ProcessFileFails
  BY <1>1 DEF ProcessFileFails, TypeOK, CountersOK
<1>2. CASE ProcessFile
  BY <1>2 DEF ProcessFile, Start, StartLBs, StartFPs, TypeOK, CountersOK
<1>3. CASE JoinReader
  BY <1>3 DEF JoinReader, TypeOK, CountersOK
<1>4. CASE BeginStop
  <2>1. Drained \in BOOLEAN
    BY DEF Drained
  <2> QED BY <1>4, <2>1 DEF BeginStop, TypeOK, CountersOK
<1>5. CASE StopLB
  BY <1>5 DEF StopLB, TypeOK, CountersOK
<1>6. CASE JoinLB
  BY <1>6 DEF JoinLB, TypeOK, CountersOK
<1>7. CASE StopFP
  BY <1>7 DEF StopFP, TypeOK, CountersOK
<1>8. CASE JoinFP
  BY <1>8 DEF JoinFP, TypeOK, CountersOK
<1>9. CASE StopOut
  BY <1>9 DEF StopOut, TypeOK, CountersOK
<1>10. CASE JoinOut
  BY <1>10 DEF JoinOut, TypeOK, CountersOK
<1> QED BY <1>1, <1>2, <1>3, <1>4, <1>5, <1>6, <1>7, <1>8, <1>9, <1>10 DEF Main

\* Every step keeps the types.
LEMMA TypeNext == TypeOK /\ [Next]_vars => TypeOK'
<1>1. TypeOK /\ UNCHANGED vars => TypeOK'
  BY DEF TypeOK, CountersOK, vars, mainVars, readerVars, lbVars, lbQueues, fpVars,
         fpQueues, outVars, outQueue, fates, counters
<1> QED BY <1>1, TypeReader, TypeLB, TypeFP, TypeOutput, TypeMain DEF Next

\* Every variable keeps the type of the C++ object it stands for, and no queue
\* outgrows the max_size_ its constructor was given.
THEOREM TypeCorrect == Spec => []TypeOK
BY TypeInit, TypeNext, PTL DEF Spec

-----------------------------------------------------------------------------
(* The order of the shutdown *)

\* Where the main thread is once stop() has begun, once it is done with the
\* balancers, with the fast paths.
LBsDone  == {"stop_fp", "join_fp", "stop_out", "join_out", "closed"}
FPsDone  == {"stop_out", "join_out", "closed"}
Stopping == {"stop_lb", "join_lb"} \cup LBsDone

\* The reader is gone before any input queue of a balancer is shut down.
ReaderGone ==
  /\ main \in {"init", "failed"} => rpc = "idle"
  /\ main \in {"sleep"} \cup Stopping => rpc = "done"
  /\ \A l \in LBs : lbDown[l] => main \in Stopping

\* The balancers are gone, one after the other, before any input queue of a
\* fast path is shut down.
BalancersGone ==
  /\ main \in {"init", "failed"} => \A l \in LBs : lpc[l] = "idle"
  /\ main \in {"stop_lb", "join_lb"} => \A l \in LBs : l < k => lpc[l] = "exited"
  /\ main \in LBsDone => \A l \in LBs : lpc[l] = "exited"
  /\ \A f \in FPs : fpDown[f] => main \in LBsDone

\* The fast paths are gone before the output queue is shut down, and the
\* output thread when the file is closed.
PathsGone ==
  /\ main \in {"init", "failed"} => (opc = "idle" /\ \A f \in FPs : fpc[f] = "idle")
  /\ main \in {"stop_fp", "join_fp"} => \A f \in FPs : f < k => fpc[f] = "exited"
  /\ main \in FPsDone => \A f \in FPs : fpc[f] = "exited"
  /\ outDown => main \in {"join_out", "closed"}
  /\ main = "closed" => opc = "exited"

\* The inductive invariant behind NoDiscard and QuietAtClose: with a producer
\* alive, the queue it pushes into is open.
ShutdownInv == ReaderGone /\ BalancersGone /\ PathsGone /\ NoDiscard

\* Nothing is stopped or shut down at the beginning.
LEMMA ShutdownInit == Init => ShutdownInv
BY DEF Init, ShutdownInv, ReaderGone, BalancersGone, PathsGone, NoDiscard,
       LBsDone, FPsDone, Stopping

\* Every step keeps what stop() has reached so far.
LEMMA ShutdownNext == TypeOK /\ ShutdownInv /\ [Next]_vars => ShutdownInv'
<1> SUFFICES ASSUME TypeOK, ShutdownInv, [Next]_vars PROVE ShutdownInv'
  OBVIOUS
<1> USE DEF mainVars, readerVars, lbVars, lbQueues, fpVars, fpQueues, outVars,
            outQueue, fates, counters, ShutdownInv, LBsDone, FPsDone, Stopping
<1>1. CASE Reader
  <2>1. UNCHANGED <<main, k, lbDown, lpc, fpDown, fpc, opc, outDown>>
    BY <1>1 DEF Reader, ReaderOpenFails, ReaderOpen, WriteOutputHeader,
                ReaderRead, ReaderPush, ReaderEnd
  <2>2. BalancersGone' /\ PathsGone'
    BY <2>1 DEF BalancersGone, PathsGone
  <2>3. ReaderGone'
    BY <1>1, <2>1 DEF Reader, ReaderOpenFails, ReaderOpen, ReaderRead,
                      ReaderPush, ReaderEnd, ReaderGone
  <2>4. NoDiscard'
    <3>1. CASE ReaderPush
      <4>1. \A job \in rhand : GetLBForPacket(job.tuple) \in LBs
        BY BalancerExists DEF TypeOK, Job
      <4>2. \A l \in LBs : ~lbDown[l]
        BY <3>1 DEF ReaderPush, ReaderGone
      <4> QED BY <3>1, <4>1, <4>2 DEF ReaderPush, NoDiscard
    <3> QED BY <1>1, <3>1 DEF Reader, ReaderOpenFails, ReaderOpen,
                              ReaderRead, ReaderEnd, NoDiscard
  <2> QED BY <2>2, <2>3, <2>4
<1>2. CASE \E l \in LBs : LBThread(l)
  <2> PICK l \in LBs : LBThread(l)
    BY <1>2
  <2>1. UNCHANGED <<main, k, rpc, lbDown, fpDown, fpc, opc, outDown>>
    BY DEF LBThread, LBCheck, LBTake, LBTimeout, LBPush
  <2>2. ReaderGone' /\ PathsGone'
    BY <2>1 DEF ReaderGone, PathsGone
  <2>3. lpc[l] \notin {"idle", "exited"} /\ \E v : lpc' = [lpc EXCEPT ![l] = v]
    BY DEF LBThread, LBCheck, LBTake, LBTimeout, LBPush
  <2>4. BalancersGone'
    BY <2>1, <2>3 DEF BalancersGone, TypeOK
  <2>5. NoDiscard'
    <3>1. CASE LBPush(l)
      <4>1. \A job \in lhand[l] : FpOf(l, SelectFP(job.tuple)) \in FPs
        <5>1. \A job \in lhand[l] : job.tuple \in Tuples
          BY DEF TypeOK, Job
        <5> QED BY <5>1, PathsOfBalancer, SelectFPInRange
      <4>2. \A f \in FPs : ~fpDown[f]
        BY <2>3 DEF BalancersGone
      <4> QED BY <3>1, <4>1, <4>2 DEF LBPush, NoDiscard
    <3> QED BY <3>1 DEF LBThread, LBCheck, LBTake, LBTimeout, NoDiscard
  <2> QED BY <2>2, <2>4, <2>5
<1>3. CASE \E f \in FPs : FPThread(f)
  <2> PICK f \in FPs : FPThread(f)
    BY <1>3
  <2>1. UNCHANGED <<main, k, rpc, lbDown, lpc, fpDown, opc, outDown>>
    BY DEF FPThread, FPCheck, FPTake, FPTimeout, FPDrop, FPForward, FPPush
  <2>2. ReaderGone' /\ BalancersGone'
    BY <2>1 DEF ReaderGone, BalancersGone
  <2>3. fpc[f] \notin {"idle", "exited"} /\ \E v : fpc' = [fpc EXCEPT ![f] = v]
    BY DEF FPThread, FPCheck, FPTake, FPTimeout, FPDrop, FPForward, FPPush
  <2>4. PathsGone'
    BY <2>1, <2>3 DEF PathsGone, TypeOK
  <2>5. NoDiscard'
    <3>1. CASE FPPush(f)
      <4>1. ~outDown
        BY <2>3 DEF PathsGone
      <4> QED BY <3>1, <4>1 DEF FPPush, NoDiscard
    <3> QED BY <3>1 DEF FPThread, FPCheck, FPTake, FPTimeout, FPDrop,
                        FPForward, NoDiscard
  <2> QED BY <2>2, <2>4, <2>5
<1>4. CASE Output
  <2>1. UNCHANGED <<main, k, rpc, lbDown, lpc, fpDown, fpc, outDown, discarded>>
    BY <1>4 DEF Output, OutCheck, OutTake, OutTimeout, OutWrite
  <2>2. opc \notin {"idle", "exited"}
    BY <1>4 DEF Output, OutCheck, OutTake, OutTimeout, OutWrite
  <2> QED BY <2>1, <2>2 DEF ReaderGone, BalancersGone, PathsGone, NoDiscard
<1>5. CASE Main
  <2>1. CASE ProcessFileFails
    BY <2>1 DEF ProcessFileFails, ReaderGone, BalancersGone, PathsGone, NoDiscard
  <2>2. CASE ProcessFile
    BY <2>2 DEF ProcessFile, Start, StartLBs, StartFPs, ReaderGone,
                BalancersGone, PathsGone, NoDiscard
  <2>3. CASE JoinReader
    BY <2>3 DEF JoinReader, ReaderGone, BalancersGone, PathsGone, NoDiscard
  <2>4. CASE BeginStop
    BY <2>4 DEF BeginStop, ReaderGone, BalancersGone, PathsGone, NoDiscard, LBs
  <2>5. CASE StopLB
    BY <2>5 DEF StopLB, ReaderGone, BalancersGone, PathsGone, NoDiscard
  <2>6. CASE JoinLB
    <3>1. \A l \in LBs : l < k + 1 => lpc[l] = "exited"
      <4>1. lpc[k] = "exited" /\ \A l \in LBs : l < k => lpc[l] = "exited"
        BY <2>6 DEF JoinLB, BalancersGone
      <4>2. k \in Nat /\ LBs \subseteq Int
        BY DEF TypeOK, LBs
      <4>3. \A l \in LBs : l < k + 1 => l < k \/ l = k
        BY <4>2
      <4> QED BY <4>1, <4>3
    <3>2. k + 1 >= NumLBs => \A l \in LBs : lpc[l] = "exited"
      BY <3>1, PipelineAssumption DEF LBs, TypeOK
    <3>3. \A f \in FPs : ~(f < 0)
      BY DEF FPs
    <3> QED BY <2>6, <3>1, <3>2, <3>3, PipelineAssumption
            DEF JoinLB, ReaderGone, BalancersGone, PathsGone, NoDiscard, TypeOK
  <2>7. CASE StopFP
    BY <2>7 DEF StopFP, ReaderGone, BalancersGone, PathsGone, NoDiscard
  <2>8. CASE JoinFP
    <3>1. \A f \in FPs : f < k + 1 => fpc[f] = "exited"
      <4>1. fpc[k] = "exited" /\ \A f \in FPs : f < k => fpc[f] = "exited"
        BY <2>8 DEF JoinFP, PathsGone
      <4>2. k \in Nat /\ FPs \subseteq Int
        BY DEF TypeOK, FPs
      <4>3. \A f \in FPs : f < k + 1 => f < k \/ f = k
        BY <4>2
      <4> QED BY <4>1, <4>3
    <3>2. ~(k + 1 < NumLBs * FpsPerLB) => \A f \in FPs : fpc[f] = "exited"
      <4> SUFFICES ASSUME ~(k + 1 < NumLBs * FpsPerLB), NEW f \in FPs
                   PROVE  f < k + 1
        BY <3>1
      <4>1. NumLBs * FpsPerLB \in Nat /\ k \in Nat
        BY PipelineAssumption DEF TypeOK
      <4> QED BY <4>1 DEF FPs
    <3> QED BY <2>8, <3>1, <3>2
            DEF JoinFP, ReaderGone, BalancersGone, PathsGone, NoDiscard
  <2>9. CASE StopOut
    BY <2>9 DEF StopOut, ReaderGone, BalancersGone, PathsGone, NoDiscard
  <2>10. CASE JoinOut
    BY <2>10 DEF JoinOut, ReaderGone, BalancersGone, PathsGone, NoDiscard
  <2> QED BY <1>5, <2>1, <2>2, <2>3, <2>4, <2>5, <2>6, <2>7, <2>8, <2>9, <2>10
          DEF Main
<1>6. CASE UNCHANGED vars
  BY <1>6 DEF vars, ReaderGone, BalancersGone, PathsGone, NoDiscard
<1> QED BY <1>1, <1>2, <1>3, <1>4, <1>5, <1>6 DEF Next

\* The shutdown invariant holds always.
LEMMA ShutdownSafe == Spec => []ShutdownInv
BY TypeCorrect, ShutdownInit, ShutdownNext, PTL DEF Spec

\* stop() joins every producer of a queue before it shuts the queue down, so
\* no push ever takes the silent return of a queue that is closed.
THEOREM NothingDiscarded == Spec => []NoDiscard
<1>1. ShutdownInv => NoDiscard
  BY DEF ShutdownInv
<1> QED BY <1>1, ShutdownSafe, PTL

\* The report is generated when no other thread is left.
THEOREM ReportIsQuiet == Spec => []QuietAtClose
<1>1. ShutdownInv => QuietAtClose
  BY DEF ShutdownInv, ReaderGone, BalancersGone, PathsGone, QuietAtClose,
         LBsDone, FPsDone, Stopping
<1> QED BY <1>1, ShutdownSafe, PTL

=============================================================================
