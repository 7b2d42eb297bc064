------------------------------ MODULE Pipeline ------------------------------
(***************************************************************************)
(* The thread pipeline of one DPIEngine::processFile call.                 *)
(*                                                                         *)
(*   reader --> load balancers --> fast paths --> output thread --> file   *)
(*                                                                         *)
(* Every arrow is a bounded ThreadSafeQueue.  The main thread starts the   *)
(* others, joins the reader, sleeps 700 ms, and then stops the load        *)
(* balancers, the fast paths and the output thread, in that order.  Each   *)
(* thread is a loop with a program counter; a blocking push or pop is a    *)
(* step that is enabled when the queue lets it complete.  What a fast path *)
(* decides about a packet (module FastPath) is a free choice here.         *)
(*                                                                         *)
(* A std::optional<PacketJob> that a thread holds is a set with at most    *)
(* one element.                                                            *)
(***************************************************************************)
EXTENDS QueueOps, Functions, FiniteSets

CONSTANTS
  NumLBs,      \* config_.num_load_balancers
  FpsPerLB,    \* config_.fps_per_lb
  Tuples,      \* the five-tuples that occur in the capture
  Hash,        \* FiveTupleHash: Hash[t] is the hash of tuple t
  MaxPackets,  \* bound: packets the reader turns into jobs
  Header       \* the PcapGlobalHeader record that opens the output file

\* With either count at zero, getLBForPacket divides by zero.
ASSUME PipelineAssumption ==
  /\ NumLBs \in Nat \ {0}
  /\ FpsPerLB \in Nat \ {0}
  /\ Hash \in [Tuples -> Nat]
  /\ MaxPackets \in Nat

\* PacketJob: the fields the pipeline itself looks at.
Job == [id : Nat, tuple : Tuples]

ASSUME HeaderAssumption == Header \notin Job

LBs == 0 .. NumLBs - 1
FPs == 0 .. NumLBs * FpsPerLB - 1

VARIABLES
  main,        \* where the main thread is in processFile / stop
  k,           \* the load balancer or fast path that stopAll is at
  running,     \* DPIEngine::running_
  rpc, rhand,  \* reader thread: program counter, the job it pushes
  trace,       \* history: the jobs the reader created, in order
  lpc, lhand, lbRunning, lbQ, lbDown,   \* per load balancer; its input_queue_
  fpc, fhand, fpRunning, fpQ, fpDown,   \* per fast path; its input_queue_
  opc, ohand, outQ, outDown,            \* output thread; output_queue_
  file,        \* output_file_
  stats,       \* DPIStats
  lbStats,     \* packets_received_, packets_dispatched_ of every balancer
  fpStats,     \* packets_processed_, _forwarded_, _dropped_ of every path
  dropped,     \* history: jobs whose action was DROP
  discarded,   \* history: jobs that a push threw away after a shutdown
  drained      \* history: was the pipeline empty when stop() began?

mainVars   == <<main, k, running, drained>>
readerVars == <<rpc, rhand, trace>>
lbVars     == <<lpc, lhand, lbRunning>>
lbQueues   == <<lbQ, lbDown>>
fpVars     == <<fpc, fhand, fpRunning>>
fpQueues   == <<fpQ, fpDown>>
outVars    == <<opc, ohand, file>>
outQueue   == <<outQ, outDown>>
fates      == <<dropped, discarded>>
counters   == <<stats, lbStats, fpStats>>
vars == <<mainVars, readerVars, lbVars, lbQueues, fpVars, fpQueues, outVars,
          outQueue, fates, counters>>

-----------------------------------------------------------------------------
(* Routing *)

\* LBManager::getLBForPacket
GetLBForPacket(t) == (Hash[t] \div FpsPerLB) % NumLBs

\* LoadBalancer::selectFP, an index into the balancer's own fp_queues_
SelectFP(t) == Hash[t] % FpsPerLB

\* LBManager gives balancer l the queues l*fps_per_lb .. (l+1)*fps_per_lb - 1.
FpOf(l, i) == l * FpsPerLB + i

\* The fast path that every packet of tuple t reaches.
Route(t) == FpOf(GetLBForPacket(t), SelectFP(t))

-----------------------------------------------------------------------------
Init ==
  /\ main = "init" /\ k = 0 /\ running = FALSE /\ drained = FALSE
  /\ rpc = "idle" /\ rhand = {} /\ trace = << >>
  /\ lpc = [l \in LBs |-> "idle"] /\ lhand = [l \in LBs |-> {}]
  /\ lbRunning = [l \in LBs |-> FALSE]
  /\ lbQ = [l \in LBs |-> << >>] /\ lbDown = [l \in LBs |-> FALSE]
  /\ fpc = [f \in FPs |-> "idle"] /\ fhand = [f \in FPs |-> {}]
  /\ fpRunning = [f \in FPs |-> FALSE]
  /\ fpQ = [f \in FPs |-> << >>] /\ fpDown = [f \in FPs |-> FALSE]
  /\ opc = "idle" /\ ohand = {} /\ outQ = << >> /\ outDown = FALSE
  /\ file = << >>
  /\ dropped = {} /\ discarded = {}
  /\ stats = [total |-> 0, forwarded |-> 0, dropped |-> 0]
  /\ lbStats = [l \in LBs |-> [received |-> 0, dispatched |-> 0]]
  /\ fpStats = [f \in FPs |-> [processed |-> 0, forwarded |-> 0, dropped |-> 0]]

-----------------------------------------------------------------------------
(* The output file *)

\* writeOutputHeader and writeOutputPacket append under output_mutex_.
WriteOutputHeader == file' = Append(file, Header)
WriteOutputPacket(job) == file' = Append(file, job)

-----------------------------------------------------------------------------
(* Reader thread: readerThreadFunc *)

\* The input cannot be opened or has no valid header: the thread returns and
\* the output file stays empty.
ReaderOpenFails ==
  /\ rpc = "open"
  /\ rpc' = "done"
  /\ UNCHANGED <<mainVars, rhand, trace, lbVars, lbQueues, fpVars, fpQueues,
                 outVars, outQueue, fates, counters>>

\* Faulty form of ReaderOpen: the global header is not copied.
ReaderOpenNoHeader ==
  /\ rpc = "open"
  /\ rpc' = "read"
  /\ UNCHANGED <<mainVars, rhand, trace, lbVars, lbQueues, fpVars, fpQueues,
                 outVars, outQueue, fates, counters>>

\* The input opens and its global header is written to the output file.
ReaderOpen ==
  /\ rpc = "open"
  /\ rpc' = "read"
  /\ WriteOutputHeader
  /\ UNCHANGED <<mainVars, rhand, trace, lbVars, lbQueues, fpVars, fpQueues,
                 opc, ohand, outQueue, fates, counters>>

\* The next TCP or UDP packet becomes a job and is counted.  Frames that do
\* not parse, or carry neither, are skipped by the code and change nothing.
ReaderRead(t) ==
  /\ rpc = "read" /\ Len(trace) < MaxPackets
  /\ LET job == [id |-> Len(trace), tuple |-> t]
     IN  /\ trace' = Append(trace, job)
         /\ rhand' = {job}
  /\ stats' = [stats EXCEPT !.total = @ + 1]
  /\ rpc' = "push"
  /\ UNCHANGED <<mainVars, lbVars, lbQueues, fpVars, fpQueues, outVars,
                 outQueue, fates, lbStats, fpStats>>

\* Blocking push into the input queue of the tuple's load balancer.
ReaderPush ==
  /\ rpc = "push"
  /\ \E job \in rhand : LET l == GetLBForPacket(job.tuple) IN
       /\ PushReady(lbQ[l], lbDown[l])
       /\ lbQ' = [lbQ EXCEPT ![l] = Pushed(@, lbDown[l], job)]
       /\ discarded' = discarded \cup (IF lbDown[l] THEN {job} ELSE {})
  /\ rhand' = {}
  /\ rpc' = "read"
  /\ UNCHANGED <<mainVars, trace, lbVars, lbDown, fpVars, fpQueues, outVars,
                 outQueue, dropped, counters>>

\* readNextPacket returns false: end of file, or a record it rejects.
ReaderEnd ==
  /\ rpc = "read"
  /\ rpc' = "done"
  /\ UNCHANGED <<mainVars, rhand, trace, lbVars, lbQueues, fpVars, fpQueues,
                 outVars, outQueue, fates, counters>>

-----------------------------------------------------------------------------
(* Load balancer threads: LoadBalancer::run *)

\* while (running_)
LBCheck(l) ==
  /\ lpc[l] = "check"
  /\ lpc' = [lpc EXCEPT ![l] = IF lbRunning[l] THEN "pop" ELSE "exited"]
  /\ UNCHANGED <<mainVars, readerVars, lhand, lbRunning, lbQueues, fpVars,
                 fpQueues, outVars, outQueue, fates, counters>>

\* popWithTimeout returns a job.
LBTake(l) ==
  /\ lpc[l] = "pop" /\ PopHasItem(lbQ[l])
  /\ lhand' = [lhand EXCEPT ![l] = {Head(lbQ[l])}]
  /\ lbQ' = [lbQ EXCEPT ![l] = Popped(@)]
  /\ lbStats' = [lbStats EXCEPT ![l].received = @ + 1]
  /\ lpc' = [lpc EXCEPT ![l] = "push"]
  /\ UNCHANGED <<mainVars, readerVars, lbRunning, lbDown, fpVars, fpQueues,
                 outVars, outQueue, fates, stats, fpStats>>

\* Faulty form of LBTimeout: the thread leaves its loop.
LBTimeoutExits(l) ==
  /\ lpc[l] = "pop" /\ PopGivesUp(lbQ[l])
  /\ lpc' = [lpc EXCEPT ![l] = "exited"]
  /\ UNCHANGED <<mainVars, readerVars, lhand, lbRunning, lbQueues, fpVars,
                 fpQueues, outVars, outQueue, fates, counters>>

\* popWithTimeout returns nullopt: back to the loop condition.
LBTimeout(l) ==
  /\ lpc[l] = "pop" /\ PopGivesUp(lbQ[l])
  /\ lpc' = [lpc EXCEPT ![l] = "check"]
  /\ UNCHANGED <<mainVars, readerVars, lhand, lbRunning, lbQueues, fpVars,
                 fpQueues, outVars, outQueue, fates, counters>>

\* Blocking push into the queue of the selected fast path.
LBPush(l) ==
  /\ lpc[l] = "push"
  /\ \E job \in lhand[l] : LET f == FpOf(l, SelectFP(job.tuple)) IN
       /\ PushReady(fpQ[f], fpDown[f])
       /\ fpQ' = [fpQ EXCEPT ![f] = Pushed(@, fpDown[f], job)]
       /\ discarded' = discarded \cup (IF fpDown[f] THEN {job} ELSE {})
  /\ lhand' = [lhand EXCEPT ![l] = {}]
  /\ lbStats' = [lbStats EXCEPT ![l].dispatched = @ + 1]
  /\ lpc' = [lpc EXCEPT ![l] = "check"]
  /\ UNCHANGED <<mainVars, readerVars, lbRunning, lbQueues, fpVars, fpDown,
                 outVars, outQueue, dropped, stats, fpStats>>

-----------------------------------------------------------------------------
(* Fast path threads: FastPathProcessor::run and DPIEngine::handleOutput *)

FPCheck(f) ==
  /\ fpc[f] = "check"
  /\ fpc' = [fpc EXCEPT ![f] = IF fpRunning[f] THEN "pop" ELSE "exited"]
  /\ UNCHANGED <<mainVars, readerVars, lbVars, lbQueues, fhand, fpRunning,
                 fpQueues, outVars, outQueue, fates, counters>>

FPTake(f) ==
  /\ fpc[f] = "pop" /\ PopHasItem(fpQ[f])
  /\ fhand' = [fhand EXCEPT ![f] = {Head(fpQ[f])}]
  /\ fpQ' = [fpQ EXCEPT ![f] = Popped(@)]
  /\ fpStats' = [fpStats EXCEPT ![f].processed = @ + 1]
  /\ fpc' = [fpc EXCEPT ![f] = "work"]
  /\ UNCHANGED <<mainVars, readerVars, lbVars, lbQueues, fpRunning, fpDown,
                 outVars, outQueue, fates, stats, lbStats>>

\* popWithTimeout returns nullopt: cleanupStale (module FastPath), then back
\* to the loop condition.
FPTimeout(f) ==
  /\ fpc[f] = "pop" /\ PopGivesUp(fpQ[f])
  /\ fpc' = [fpc EXCEPT ![f] = "check"]
  /\ UNCHANGED <<mainVars, readerVars, lbVars, lbQueues, fhand, fpRunning,
                 fpQueues, outVars, outQueue, fates, counters>>

\* Faulty forms of FPDrop: handleOutput falls through to the push; it forgets
\* to count.
FPDropFallsThrough(f) ==
  /\ fpc[f] = "work"
  /\ dropped' = dropped \cup fhand[f]
  /\ stats' = [stats EXCEPT !.dropped = @ + 1]
  /\ fpc' = [fpc EXCEPT ![f] = "push"]
  /\ UNCHANGED <<mainVars, readerVars, lbVars, lbQueues, fhand, fpRunning,
                 fpQueues, outVars, outQueue, discarded, lbStats, fpStats>>
FPDropUncounted(f) ==
  /\ fpc[f] = "work"
  /\ dropped' = dropped \cup fhand[f]
  /\ fhand' = [fhand EXCEPT ![f] = {}]
  /\ fpStats' = [fpStats EXCEPT ![f].dropped = @ + 1]
  /\ fpc' = [fpc EXCEPT ![f] = "check"]
  /\ UNCHANGED <<mainVars, readerVars, lbVars, lbQueues, fpRunning, fpQueues,
                 outVars, outQueue, discarded, stats, lbStats>>

\* processPacket returns DROP: handleOutput counts the packet and returns.
FPDrop(f) ==
  /\ fpc[f] = "work"
  /\ dropped' = dropped \cup fhand[f]
  /\ fhand' = [fhand EXCEPT ![f] = {}]
  /\ stats' = [stats EXCEPT !.dropped = @ + 1]
  /\ fpStats' = [fpStats EXCEPT ![f].dropped = @ + 1]
  /\ fpc' = [fpc EXCEPT ![f] = "check"]
  /\ UNCHANGED <<mainVars, readerVars, lbVars, lbQueues, fpRunning, fpQueues,
                 outVars, outQueue, discarded, lbStats>>

\* processPacket returns FORWARD: handleOutput counts the packet as
\* forwarded before it tries to push it.
FPForward(f) ==
  /\ fpc[f] = "work"
  /\ stats' = [stats EXCEPT !.forwarded = @ + 1]
  /\ fpc' = [fpc EXCEPT ![f] = "push"]
  /\ UNCHANGED <<mainVars, readerVars, lbVars, lbQueues, fhand, fpRunning,
                 fpQueues, outVars, outQueue, fates, lbStats, fpStats>>

\* Blocking push into output_queue_; then the worker counts it too.
FPPush(f) ==
  /\ fpc[f] = "push"
  /\ PushReady(outQ, outDown)
  /\ \E job \in fhand[f] : outQ' = Pushed(outQ, outDown, job)
  /\ discarded' = discarded \cup (IF outDown THEN fhand[f] ELSE {})
  /\ fhand' = [fhand EXCEPT ![f] = {}]
  /\ fpStats' = [fpStats EXCEPT ![f].forwarded = @ + 1]
  /\ fpc' = [fpc EXCEPT ![f] = "check"]
  /\ UNCHANGED <<mainVars, readerVars, lbVars, lbQueues, fpRunning, fpQueues,
                 outVars, outDown, dropped, stats, lbStats>>

-----------------------------------------------------------------------------
(* Output thread: outputThreadFunc *)

\* while (running_ || !output_queue_.empty())
OutCheck ==
  /\ opc = "check"
  /\ opc' = IF running \/ outQ # << >> THEN "pop" ELSE "exited"
  /\ UNCHANGED <<mainVars, readerVars, lbVars, lbQueues, fpVars, fpQueues,
                 ohand, file, outQueue, fates, counters>>

OutTake ==
  /\ opc = "pop" /\ PopHasItem(outQ)
  /\ ohand' = {Head(outQ)}
  /\ outQ' = Popped(outQ)
  /\ opc' = "write"
  /\ UNCHANGED <<mainVars, readerVars, lbVars, lbQueues, fpVars, fpQueues,
                 file, outDown, fates, counters>>

OutTimeout ==
  /\ opc = "pop" /\ PopGivesUp(outQ)
  /\ opc' = "check"
  /\ UNCHANGED <<mainVars, readerVars, lbVars, lbQueues, fpVars, fpQueues,
                 ohand, file, outQueue, fates, counters>>

OutWrite ==
  /\ opc = "write"
  /\ \E job \in ohand : WriteOutputPacket(job)
  /\ ohand' = {}
  /\ opc' = "check"
  /\ UNCHANGED <<mainVars, readerVars, lbVars, lbQueues, fpVars, fpQueues,
                 outQueue, fates, counters>>

-----------------------------------------------------------------------------
(* Main thread: processFile, start, waitForCompletion, stop *)

\* The output file cannot be opened: processFile returns false.
ProcessFileFails ==
  /\ main = "init"
  /\ main' = "failed"
  /\ UNCHANGED <<k, running, drained, readerVars, lbVars, lbQueues, fpVars,
                 fpQueues, outVars, outQueue, fates, counters>>

\* LoadBalancer::start and FastPathProcessor::start for all of them.
StartLBs == /\ lbRunning' = [l \in LBs |-> TRUE]
            /\ lpc' = [l \in LBs |-> "check"]
StartFPs == /\ fpRunning' = [f \in FPs |-> TRUE]
            /\ fpc' = [f \in FPs |-> "check"]

\* DPIEngine::start.  The threads start one by one, but until the reader runs
\* every queue is empty and a started thread can only time out, so the order
\* is not observable.
Start == running' = TRUE /\ opc' = "check" /\ StartFPs /\ StartLBs

\* processFile: start(), then the reader thread.
ProcessFile ==
  /\ main = "init"
  /\ main' = "join_reader"
  /\ Start
  /\ rpc' = "open"
  /\ UNCHANGED <<k, drained, rhand, trace, lhand, lbQueues, fhand, fpQueues,
                 ohand, file, outQueue, fates, counters>>

\* waitForCompletion joins the reader and starts the two sleeps.
JoinReader ==
  /\ main = "join_reader" /\ rpc = "done"
  /\ main' = "sleep"
  /\ UNCHANGED <<k, running, drained, readerVars, lbVars, lbQueues, fpVars,
                 fpQueues, outVars, outQueue, fates, counters>>

\* No job is in a queue or in a thread's hands.
Drained ==
  /\ \A l \in LBs : lbQ[l] = << >> /\ lhand[l] = {}
  /\ \A f \in FPs : fpQ[f] = << >> /\ fhand[f] = {}
  /\ outQ = << >> /\ ohand = {}

\* Faulty form of BeginStop: running_ stays set.
BeginStopStillRunning ==
  /\ main = "sleep"
  /\ main' = "stop_lb" /\ k' = 0
  /\ drained' = Drained
  /\ UNCHANGED <<running, readerVars, lbVars, lbQueues, fpVars, fpQueues,
                 outVars, outQueue, fates, counters>>

\* The 700 ms are over; stop() clears running_.  Nothing in the code waits
\* for the queues to empty: the sleep may end in any state of the pipeline.
BeginStop ==
  /\ main = "sleep"
  /\ main' = "stop_lb" /\ k' = 0
  /\ running' = FALSE
  /\ drained' = Drained
  /\ UNCHANGED <<readerVars, lbVars, lbQueues, fpVars, fpQueues, outVars,
                 outQueue, fates, counters>>

\* LoadBalancer::stop up to the join: running_ is cleared and the input queue
\* shut down.  The two steps are one here: the reader, the queue's only
\* producer, is gone, and to the consumer a shutdown is an early timeout.
StopLB ==
  /\ main = "stop_lb"
  /\ lbRunning' = [lbRunning EXCEPT ![k] = FALSE]
  /\ lbDown' = [lbDown EXCEPT ![k] = TRUE]
  /\ main' = "join_lb"
  /\ UNCHANGED <<k, running, drained, readerVars, lpc, lhand, lbQ, fpVars,
                 fpQueues, outVars, outQueue, fates, counters>>

\* Faulty form of JoinLB: the thread is not joined.
JoinLBNoWait ==
  /\ main = "join_lb"
  /\ IF k + 1 < NumLBs THEN main' = "stop_lb" /\ k' = k + 1
                       ELSE main' = "stop_fp" /\ k' = 0
  /\ UNCHANGED <<running, drained, readerVars, lbVars, lbQueues, fpVars,
                 fpQueues, outVars, outQueue, fates, counters>>

\* The join; LBManager::stopAll goes on to the next balancer, then stop()
\* to the fast paths.
JoinLB ==
  /\ main = "join_lb" /\ lpc[k] = "exited"
  /\ IF k + 1 < NumLBs THEN main' = "stop_lb" /\ k' = k + 1
                       ELSE main' = "stop_fp" /\ k' = 0
  /\ UNCHANGED <<running, drained, readerVars, lbVars, lbQueues, fpVars,
                 fpQueues, outVars, outQueue, fates, counters>>

\* FastPathProcessor::stop up to the join.  The balancers are gone by now.
StopFP ==
  /\ main = "stop_fp"
  /\ fpRunning' = [fpRunning EXCEPT ![k] = FALSE]
  /\ fpDown' = [fpDown EXCEPT ![k] = TRUE]
  /\ main' = "join_fp"
  /\ UNCHANGED <<k, running, drained, readerVars, lbVars, lbQueues, fpc, fhand,
                 fpQ, outVars, outQueue, fates, counters>>

\* Faulty form of JoinFP: the thread is not joined.
JoinFPNoWait ==
  /\ main = "join_fp"
  /\ IF k + 1 < NumLBs * FpsPerLB THEN main' = "stop_fp" /\ k' = k + 1
                                  ELSE main' = "stop_out" /\ k' = 0
  /\ UNCHANGED <<running, drained, readerVars, lbVars, lbQueues, fpVars,
                 fpQueues, outVars, outQueue, fates, counters>>

JoinFP ==
  /\ main = "join_fp" /\ fpc[k] = "exited"
  /\ IF k + 1 < NumLBs * FpsPerLB THEN main' = "stop_fp" /\ k' = k + 1
                                  ELSE main' = "stop_out" /\ k' = 0
  /\ UNCHANGED <<running, drained, readerVars, lbVars, lbQueues, fpVars,
                 fpQueues, outVars, outQueue, fates, counters>>

\* output_queue_.shutdown()
StopOut ==
  /\ main = "stop_out"
  /\ outDown' = TRUE
  /\ main' = "join_out"
  /\ UNCHANGED <<k, running, drained, readerVars, lbVars, lbQueues, fpVars,
                 fpQueues, outVars, outQ, fates, counters>>

\* The output thread is joined, the file closed, the report printed.
JoinOut ==
  /\ main = "join_out" /\ opc = "exited"
  /\ main' = "closed"
  /\ UNCHANGED <<k, running, drained, readerVars, lbVars, lbQueues, fpVars,
                 fpQueues, outVars, outQueue, fates, counters>>

-----------------------------------------------------------------------------
Reader == ReaderOpenFails \/ ReaderOpen \/ (\E t \in Tuples : ReaderRead(t))
            \/ ReaderPush \/ ReaderEnd
LBThread(l) == LBCheck(l) \/ LBTake(l) \/ LBTimeout(l) \/ LBPush(l)
FPThread(f) == FPCheck(f) \/ FPTake(f) \/ FPTimeout(f) \/ FPDrop(f)
                 \/ FPForward(f) \/ FPPush(f)
Output == OutCheck \/ OutTake \/ OutTimeout \/ OutWrite
Main == ProcessFileFails \/ ProcessFile \/ JoinReader \/ BeginStop \/ StopLB
          \/ JoinLB \/ StopFP \/ JoinFP \/ StopOut \/ JoinOut

Next ==
  \/ Reader
  \/ \E l \in LBs : LBThread(l)
  \/ \E f \in FPs : FPThread(f)
  \/ Output
  \/ Main

\* Every thread is scheduled by the operating system: none that can take a
\* step is put off for ever.
Fairness ==
  /\ WF_vars(Reader) /\ WF_vars(Output) /\ WF_vars(Main)
  /\ \A l \in LBs : WF_vars(LBThread(l))
  /\ \A f \in FPs : WF_vars(FPThread(f))

Spec == Init /\ [][Next]_vars
FairSpec == Spec /\ Fairness
-----------------------------------------------------------------------------
(* Types *)

\* An optional value: a set with at most one element.
IsOption(S) == \A x, y \in S : x = y

\* DPIStats, LBStats, FPStats
StatsType == [total : Nat, forwarded : Nat, dropped : Nat]
LBStatsType == [received : Nat, dispatched : Nat]
FPStatsType == [processed : Nat, forwarded : Nat, dropped : Nat]

CountersOK ==
  /\ stats \in StatsType
  /\ lbStats \in [LBs -> LBStatsType]
  /\ fpStats \in [FPs -> FPStatsType]

\* Every variable has the type of the C++ object it stands for, and no queue
\* is ever longer than the max_size_ it was created with.
TypeOK ==
  /\ main \in {"init", "failed", "join_reader", "sleep", "stop_lb", "join_lb",
               "stop_fp", "join_fp", "stop_out", "join_out", "closed"}
  /\ k \in Nat /\ running \in BOOLEAN /\ drained \in BOOLEAN
  /\ rpc \in {"idle", "open", "read", "push", "done"}
  /\ rhand \in SUBSET Job /\ trace \in Seq(Job)
  /\ lpc \in [LBs -> {"idle", "check", "pop", "push", "exited"}]
  /\ lhand \in [LBs -> SUBSET Job] /\ lbRunning \in [LBs -> BOOLEAN]
  /\ lbQ \in [LBs -> Seq(Job)] /\ lbDown \in [LBs -> BOOLEAN]
  /\ fpc \in [FPs -> {"idle", "check", "pop", "work", "push", "exited"}]
  /\ fhand \in [FPs -> SUBSET Job] /\ fpRunning \in [FPs -> BOOLEAN]
  /\ fpQ \in [FPs -> Seq(Job)] /\ fpDown \in [FPs -> BOOLEAN]
  /\ opc \in {"idle", "check", "pop", "write", "exited"}
  /\ ohand \in SUBSET Job /\ outQ \in Seq(Job) /\ outDown \in BOOLEAN
  /\ file \in Seq(Job \cup {Header})
  /\ dropped \in SUBSET Job /\ discarded \in SUBSET Job
  /\ CountersOK
  /\ \A l \in LBs : IsOption(lhand[l]) /\ Len(lbQ[l]) <= MaxSize
  /\ \A f \in FPs : IsOption(fhand[f]) /\ Len(fpQ[f]) <= MaxSize
  /\ IsOption(rhand) /\ IsOption(ohand) /\ Len(outQ) <= MaxSize

-----------------------------------------------------------------------------
(* Where jobs are *)

Written == Range(file) \ {Header}
InLbQueues == UNION {Range(lbQ[l]) : l \in LBs}
InLBs == UNION {lhand[l] : l \in LBs}
InFpQueues == UNION {Range(fpQ[f]) : f \in FPs}
InFPs == UNION {fhand[f] : f \in FPs}

\* Jobs a fast path has not decided on yet, and jobs it has let through.
Undecided == InFPs \cup InFpQueues \cup InLBs \cup InLbQueues \cup rhand
Passed == Written \cup ohand \cup Range(outQ)

-----------------------------------------------------------------------------
(* Safety *)

\* Every packet the reader turned into a job is accounted for at every moment:
\* it is written, dropped by a verdict, or still in a queue or in a thread's
\* hands.  No push, pop or move between threads loses one.
NothingLost == Range(trace) = Passed \cup dropped \cup Undecided

\* No queue, hand or file holds a job twice, and no job is in two places: no
\* packet is dispatched, inspected or written more than once.
NoDuplicates ==
  /\ IsInjective(file) /\ IsInjective(outQ)
  /\ \A l \in LBs : IsInjective(lbQ[l])
  /\ \A f \in FPs : IsInjective(fpQ[f])
  /\ Written \cap (ohand \cup Range(outQ) \cup Undecided) = {}
  /\ ohand \cap (Range(outQ) \cup Undecided) = {}
  /\ Range(outQ) \cap Undecided = {}
  /\ InFPs \cap (InFpQueues \cup InLBs \cup InLbQueues \cup rhand) = {}
  /\ InFpQueues \cap (InLBs \cup InLbQueues \cup rhand) = {}
  /\ InLBs \cap (InLbQueues \cup rhand) = {}
  /\ InLbQueues \cap rhand = {}

\* The output file keeps the order of the capture within a flow, although its
\* packets pass through four threads and the fast paths race for the output
\* queue: hashing sends a flow through one balancer and one fast path.
FlowOrder ==
  \A i, j \in 1 .. Len(file) :
     /\ i < j /\ file[i] # Header /\ file[j] # Header
     /\ file[i].tuple = file[j].tuple
     => file[i].id < file[j].id

\* A packet whose verdict was DROP is never written, nor queued for writing.
DroppedNeverWritten == dropped \cap Passed = {}

\* No push ever runs into the silent return that follows a shutdown: stop()
\* joins all producers of a queue before it shuts that queue down.
NoDiscard == discarded = {}

\* The file is empty or starts with the global header, which occurs once:
\* the output thread never writes a packet before the reader's header.
HeaderFirst ==
  file # << >> => \A i \in 1 .. Len(file) : file[i] = Header <=> i = 1

\* When the report is printed no other thread is left, so reading the plain
\* counters and the connection tables of the fast paths is no data race.
QuietAtClose ==
  main = "closed" =>
    /\ rpc = "done" /\ opc = "exited"
    /\ \A l \in LBs : lpc[l] = "exited"
    /\ \A f \in FPs : fpc[f] = "exited"

\* If the pipeline had drained by the time the sleeps of processFile ended,
\* the output file is complete: every packet read is written or was dropped.
CompleteIfDrained ==
  main = "closed" /\ drained => Range(trace) = Written \cup dropped

\* The output file without the global header.
PacketsOf(f) == IF f = << >> THEN << >> ELSE Tail(f)

\* Four kinds of threads and their queues are, from outside, a filter that
\* keeps the order of every flow: module FlowFilter.
Filter == INSTANCE FlowFilter WITH Flows <- Tuples, seen <- trace,
                                   written <- PacketsOf(file), gone <- dropped
IsFlowFilter == Filter!Spec

SumOver(S, op(_)) == FoldFunctionOnSet(+, 0, [x \in S |-> op(x)], S)

\* LBManager::getAggregatedStats and FPManager::getAggregatedStats
TotalReceived   == SumOver(LBs, LAMBDA l : lbStats[l].received)
TotalDispatched == SumOver(LBs, LAMBDA l : lbStats[l].dispatched)
TotalProcessed  == SumOver(FPs, LAMBDA f : fpStats[f].processed)
TotalForwarded  == SumOver(FPs, LAMBDA f : fpStats[f].forwarded)
TotalDropped    == SumOver(FPs, LAMBDA f : fpStats[f].dropped)

\* The final report adds up stage by stage: what a stage's counter does not
\* show is still in the queue before it; packets counted as forwarded but
\* missing from the file are exactly those left in the output queue.
ReportAddsUp ==
  main = "closed" =>
    /\ TotalReceived + SumOver(LBs, LAMBDA l : Len(lbQ[l])) = stats.total
    /\ TotalDispatched = TotalReceived
    /\ TotalProcessed + SumOver(FPs, LAMBDA f : Len(fpQ[f])) = TotalDispatched
    /\ stats.forwarded + stats.dropped = TotalProcessed
    /\ stats.forwarded = TotalForwarded /\ stats.dropped = TotalDropped
    /\ stats.forwarded = Cardinality(Written) + Len(outQ)

-----------------------------------------------------------------------------
(* Liveness, under FairSpec *)

\* Back-pressure never wedges the running pipeline: whatever queues fill up,
\* the reader gets to the end of the capture.
ReaderFinishes == main = "join_reader" ~> rpc = "done"

\* If the pipeline had drained, stop() returns and the report is printed.
StopsIfDrained == main = "stop_lb" /\ drained ~> main = "closed"

-----------------------------------------------------------------------------
(* Claims of the documentation that the code does not keep *)

\* include/dpi_engine.h: "Process a full source PCAP dump, writing unblocked
\* flows to sink."
WritesUnblocked == main = "closed" => Range(trace) \ dropped \subseteq Written

\* README.md: "Upon finishing ingestion execution, Aegis dynamically
\* aggregates the threaded statistics": the report follows once stop() runs.
StopReturns == main = "stop_lb" ~> main = "closed"
=============================================================================
