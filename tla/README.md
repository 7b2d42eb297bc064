# Verification of Aegis-DPI

TLA+ models of Aegis-DPI, a multi-threaded deep packet inspection engine that
reads a capture file, decides packet by packet what its rules block, and writes
the rest to a second capture. The models are translated from the C++ code under
`src/`; `PROJECT.json` maps every definition to the lines it stands for. TLC
checks the models on small instances; TLAPS proves the most important results
for every value of the constants.

To reproduce: `tlc -config <X>.cfg <module>` for the runs listed below, and
`tlapm <module>` for the eight `*Proofs` modules.

## 1. The system

```
             lb queues            fp queues             output queue
 reader ─┬─▶ [LB 0] ────┬──▶ [FP 0] ───────┬──▶ output thread ──▶ file
         │              └──▶ [FP 1] ───────┤
         └─▶ [LB 1] ────┬──▶ [FP 2] ───────┤
                        └──▶ [FP 3] ───────┘
 main thread: starts everybody, joins the reader, sleeps 700 ms, then stops
              balancers, fast paths and output thread, prints the report
```

| Component | State | Operations | Talks to |
|---|---|---|---|
| `DPIEngine` (`dpi_engine.cpp`) | `running_`, output queue, output file, `DPIStats` | `processFile`, `start`, `stop`, reader and output thread, `handleOutput` | starts and joins all threads |
| `LBManager`, `LoadBalancer` (`load_balancer.cpp`) | `running_`, input queue, counters | `run`, `start`, `stop`, `getLBForPacket`, `selectFP` | pops its queue, pushes into its fast paths' queues |
| `FPManager`, `FastPathProcessor` (`fast_path.cpp`) | `running_`, input queue, counters, a tracker | `run`, `processPacket`, `inspectPayload`, `checkRules`, `updateTCPState` | pops its queue, calls tracker, rules, extractors and (as a callback) `handleOutput` |
| `ThreadSafeQueue` (`thread_safe_queue.h`) | deque, `shutdown_`, mutex, two condition variables | `push`, `tryPush`, `pop`, `popWithTimeout`, `shutdown` | the only means of communication between the threads of the pipeline |
| `ConnectionTracker` (`connection_tracker.cpp`) | table of connections, counters | get or create, evict, classify, block, clean up | one per fast path, no lock |
| `RuleManager` (`rule_manager.cpp`) | addresses, applications, names and patterns, ports: four parts with a lock each | block, unblock, clear, load, save, `shouldBlock` | shared by all fast paths and the application |
| Extractors (`sni_extractor.cpp`) | none | TLS server name, HTTP host, DNS question | called on payload bytes |
| `FiveTupleHash` (`types.h`) | none | FNV over a five-tuple | routing |
| `sniToAppType` (`types.cpp`) | none | host name to application | called by `processPacket` |
| `PacketParser`, `createPacketJob` | none | headers to offsets | reader |
| `PcapReader` | stream, byte order | open, next packet | reader |
| Reports | none | sums and percentages | main thread, after `stop` |
| `main` | none | command line | builds the configuration and the rules |

What is hard about it: packets of one flow cross four threads and five queues;
all queues are bounded, so that every stage can block the one before it; `stop`
has to join threads and close queues in an order that neither loses packets nor
waits for ever; a "drain" that is really a fixed sleep; condition variables
that wake one waiter at a time; a connection's state machine driven by packets
in any order; a table at its limit; a rule base of four locks that is reloaded
while it is used; lengths in payloads that nobody vouches for. `hazards` in
`PROJECT.json` lists them one by one, at the line where they bite.

What makes each part correct:

- *pipeline*: no packet is lost, copied, reordered within its flow or written
  against its verdict; nobody is blocked for ever; the report agrees with the
  file and is read when nobody writes it;
- *queue*: a bounded FIFO channel; nobody sleeps through the event they wait for;
- *fast path*: the verdict follows the rules in every state of the connection;
  the table is bounded; a blocked connection is not forgotten by accident;
- *rules*: a lookup finds a rule nobody touches, whatever happens to others; a
  file saved and loaded is the same rules;
- *extractors*: no read outside the payload, names from the right place, an end.

## 2. Modules

| Module | Models | Used by |
|---|---|---|
| `QueueOps` | when `push` and `pop` of a queue complete and what they do | `Pipeline`, `ThreadSafeQueue` |
| `Pipeline` | all threads of one `processFile` call | `MCPipeline` |
| `FlowFilter` | abstract: what an engine promises, with no threads | refined by `Pipeline` (`IsFlowFilter`) |
| `Routing` | `FiveTuple::reverse`, `FiveTupleHash` | `MCPipeline` |
| `ThreadSafeQueue` | the queue at the grain of its mutex | |
| `Fifo` | abstract: what a queue promises | refined by `ThreadSafeQueue` (`IsFifo`) |
| `FastPath` | one fast path: `processPacket` and its tracker | `MCFastPath` |
| `AppSignatures` | `sniToAppType` | `FastPath` |
| `RuleManager` | rules, rule files and concurrent lookups | `MCRuleManager` |
| `Bytes` | integers as bytes in a file or packet | `Frames`, `Extractors`, `Capture`, `RuleManager` |
| `Frames` | `PacketParser` and `createPacketJob` | `Capture` |
| `Extractors` | the TLS, HTTP and DNS walks | `Capture` |
| `Capture` | one capture from file to file: reader, parser, job, walks, output | `MCCapture` |
| `MC*` | the instances TLC checks | the runs |
| `PipelineProofs`, `PipelineOrderProofs`, `PipelineFilterProofs` | theorems about `Pipeline` | |
| `ThreadSafeQueueProofs`, `FastPathProofs`, `ExtractorsProofs`, `CaptureProofs`, `RuleManagerProofs` | theorems about the module they are named after | |

Two compositions put the parts together. `Pipeline` is about *threads*: all of
them, with packets that are no more than a number and a flow. `Capture` is about
*bytes*: it joins reader, parser, extractors and output file, and takes one job
at a time, which is sound because no byte of one job is looked at for another.
What is left open in both, the verdict, is the subject of `FastPath`.

Operators whose comment starts with "Faulty form of" are not part of a model.
They are deliberately wrong variants of the definition that follows them, used
to make sure that the properties notice such a mistake (`mutants` in
`PROJECT.json`).

### Pipeline

Every thread is a loop with a program counter (`rpc`, `lpc`, `fpc`, `opc`,
`main`), and at most one packet in its hands (`rhand`, ...). One action is what
a thread does between two points at which another thread can notice: evaluate
the loop condition, pop, decide, push, write. A blocking push is enabled when
the queue has room or is shut down; a `popWithTimeout` may return nothing
whenever its queue is empty, since 100 ms are no time at all.

Two steps of the code are taken together where nobody can tell: the start of
all threads (all queues are empty until the reader runs), and `running_ = false`
with the shutdown of an input queue (its producer is gone; to its consumer a
shutdown is an early timeout). What is *not* merged: `running_` of the engine,
each `running_` of a balancer or path, each join, and the count of a forwarded
packet, which `handleOutput` does before the push.

The 700 ms of sleep in `processFile` may end in any state of the pipeline: the
code does not wait for the queues to empty. `drained` remembers whether they
were. The verdict is a free choice here; `FastPath` decides it. The reader may
end at any time: the capture has any length up to `MaxPackets`, and the input
may fail to open.

`IsFlowFilter` says what all of this amounts to: a filter that takes packets in,
drops some, writes each of the others at most once, and writes a packet only
when all earlier ones of its flow are written or dropped. The refinement maps
`seen` to the jobs read, `written` to the file behind its header and `gone` to
the packets dropped by a verdict.

The assumption that the number of balancers and of paths per balancer is not
zero is the code's: with `--lbs 0` or `--fps 0` it divides by zero.

### Routing

`FiveTupleHash` has 64 bits; the model has the low eight, which do not depend
on the others (exclusive or works bit by bit, a product carries upwards) and
are all that routing looks at when the number of fast paths divides 256, as in
the default of 2 x 2. `MCPipeline` hashes real addresses and ports with it. The
theorems hold for any hash function.

### ThreadSafeQueue

A step is what a thread does from acquiring the mutex until it gives it up, by
returning or by starting to wait. `notify_one` wakes any one thread of the wait
set, or nobody if it is empty; the woken thread has to compete for the mutex
with newcomers. A timed-out consumer looks at the queue once more. Threads may
wake up without a reason.

### FastPath

One packet is one step, as the table of a fast path belongs to its thread. A
packet is its tuple, its TCP flags and what its payload is to the extractors
(`hello`, `http` or `dns` with a host, `other`, `none`). The host of a hello or of
a request may be empty (`Host: :80` has nothing before its colon). `other` includes the
padding of a short Ethernet frame, which the code takes for payload because
`payload_length` is what is left of the frame. `Evictions` chooses among the
entries that were seen least recently, as equal times are found in hash order.
The rules are those installed before `processFile`, and do not change.

A host name is the set of signatures that occur in it, and `SniToAppType` goes
through the table of the code in its order, so that what matters about the
search for substrings, which signature hides which, is there.

### RuleManager

What is done under one of the four locks is one step; `clearAll`, `loadRules`,
`saveRules` and `shouldBlock` are several, and other threads may come between.
Names are sequences of `Letters`, two of which matter, `*` and the blank; so the
text conversions are modelled by what they do: an address is written as four
octets with the lowest byte first, a name is read from its first letter that is no
blank to the next blank, a port is cut to 16 bits. `Line` is what a line of a file
can be to `loadRules`: behind `PORT` is the number `std::stoi` reads or none, and a
value it cannot read or represent makes it throw and ends the load where it is;
behind `IP` are the numbers between the dots (`Octets`), as `parseIP` skips what is
no digit and takes an octet that is not there for zero. Two limits: an address has
no octet above 255 and no more than four of them (`parseIP` checks neither, and
would mix their bits or shift by more than 31), and a name has no line break.
`Only` is the loop of `unblockDomain` over the patterns.
Histories (`held`, `ever`) hold the rules that were in force all through, and at
some time of, a call; `alone` tells whether a load or save had the rules to itself,
for the two properties that compare rules and file.

One guard is not in the code: a save begins only when no other save is under way
(`SaveRules`). There is one file in the model, and two streams open on it at a time
would overwrite each other's text; callers have to keep such saves apart. Saves
beside loads, changes and lookups are all there. `DPIEngine::blockApp` and
`unblockApp` also take the name of an application; looking it up is not modelled,
only the call with the `AppType` that follows (the same search in `loadRules` is).

### Extractors

A walk moves forward and reads no length twice, so that a length is chosen when
it is read, with no payload in the model. `reads` is what the last block read,
`name` the pieces of the payload the result is made of, `turns` the blocks done.

### Frames and Capture

A frame is its length and the header fields the code looks at, where the headers
before them put them; a field beyond the length is not there. `createPacketJob`
works out all offsets a second time, with weaker checks than the parser's, so
both are modelled, with the bytes each of them reads (`touched`). An address is
followed from the wire through `ipToString` and `parseIP` to the key of a flow.

An integer of a file is its four bytes. The reader compares lengths after
`maybeSwap32`; the writer copies the header it holds in memory, in which the
fields are swapped and the magic number is not. `Readable` is what `PcapReader`
would get out of a file, the output included.

## 3. Runs

| Run | Instance | Shows |
|---|---|---|
| `pipeline` | 1 balancer with 2 paths, queues of 2, 3 packets of 2 flows, fair | `NothingLost`, `NoDuplicates`, `FlowOrder`, `DroppedNeverWritten`, `HeaderFirst`, `NoDiscard`, `QuietAtClose`, `CompleteIfDrained`, `ReportAddsUp`, `TypeOK`, `IsFlowFilter`, `ReaderFinishes`, `StopsIfDrained` |
| `pipeline_unwritten` | 2 × 1, queues of 1, 3 packets | violates `WritesUnblocked` (finding 1) |
| `pipeline_hang` | 1 × 2, queues of 1, fair | violates `StopReturns` (finding 2) |
| `pipeline_directions` | 2 × 2, the two directions of a connection | violates `ConnectionTogether` (finding 5) |
| `queue` | 3 producers, 2 consumers, room for 2, fair | `NoLostWakeup`, `NoWaitAfterShutdown`, `TypeOK`, `IsFifo`, `PushReturns`, `ShutdownReleases` |
| `fastpath` | 3 flows in a table of 2, all payloads, 4 flag combinations, 2 rule sets, 2 instants, 3 packets | `BlockedIffRuleMatches`, `VerdictMatchesState`, `SignaturesDecide`, `ClassifiedOnce`, `TableBound`, `CountersCover`, `BlockedSticks`, `TypeOK` |
| `fastpath_unblocked` | 1 flow, 6 flag combinations, 6 rule sets | violates `BlockedDropsAll` (finding 3) |
| `fastpath_hello` | the same | violates `HellosFlagged` (finding 4) |
| `fastpath_signature` | 1 flow, 2 hosts | violates `SignatureFlagged` (finding 6) |
| `rules` | 2 administrators, 1 fast path | `LoadFollowsFile`, `RoundTrip`, `LookupRegular`, `SaveRegular`, `TypeOK` |
| `capture` | files of up to 3 records in 3 kinds of magic number; single frames of every length from 0 to 103 with IP and TCP headers of 16 to 60 bytes; payloads of TLS 0–72 bytes, HTTP 0–21, DNS 0–24 and 75–77 | `InFrame`, `PayloadAgrees`, `KeyAsWritten`, `OutputReadsBack`, `InBounds`, `NameInside`, `Ends` |
| `capture_swapped` | the same files | violates `OutputIsCapture` (finding 7) |

Why the bounds are enough for what the runs ask:

- *Pipeline.* Two flows on two fast paths is what it takes for paths to race for
  the output queue; three packets fill a queue of two and leave one in the hands
  of the thread before it. Several balancers never meet (each has its own queues),
  except that `stopAll` is a loop over them; two are in the runs that look for a
  violation, and the theorems of section 5 hold for any number.
- *Queue.* A lost wake-up needs one sleeper, one woken thread and one newcomer
  that overtakes it. Nothing in the code keeps other
  producers from overtaking a woken one; `PushReturns` holds because a capture is
  finite, which is what `MaxPushes` stands for: four pushes are two for the queue,
  one that waits and one that overtakes it. There is no symmetry set, as liveness
  is checked in the same run.
- *Fast path.* Three packets are enough to classify, close and reclassify a
  connection; with a table of 2, the third flow evicts one of two. With
  `StaleAfter = 0`, two instants tell fresh and stale entries apart. The rule sets
  have a rule of each kind, and one for an application guessed from the port.
- *Rules.* Three calls: block, save, load is a round trip of any single rule; load,
  save, load one of the rules of the hand-written file; save with two changes, or
  load with a change and a save, has calls of the other administrator beside each of
  its steps, of which `loadRules` alone has a dozen. The administrators are symmetric,
  and all properties of the run are invariants or about single steps.
- *Capture.* Lengths are taken one by one around every value the code compares
  them with: 14, 34, 54 and the ends of the longest headers. Header lengths include
  one word less than allowed and the most a nibble can say. Record lengths include
  one byte more than there is, 65536 and 2^32 - 1; snap lengths one below the
  frames and one above 65535. The longest TLS walk of interest is a hello with an
  empty extension, an SNI extension and bytes behind it, the longest DNS name one
  label of 63 bytes; theorems remove the bounds of the walks.

`CHECK_DEADLOCK FALSE` is set where the system may stop: `processFile` returns,
inputs and calls are used up, files end. `ThreadSafeQueue` is checked for deadlock,
which says little as `Shutdown` is always enabled; that nobody is stuck is what
`PushReturns` and `ShutdownReleases` show, under fairness that includes no shutdown.

*Fairness.* `Pipeline!FairSpec` has weak fairness for each thread: the operating
system runs every thread that can run. It is not assumed which branch a thread
takes. `ThreadSafeQueue!FairSpec` has weak fairness for a thread inside a method
and for the next call of a consumer, because all consumers of the code are loops
around `popWithTimeout`; there is none for pushes, shutdown and spurious
wake-ups, so that no property relies on them.

## 4. Findings

1. **Packets missing from the output** (`pipeline_unwritten`). `processFile`
   sleeps 500 and then 200 ms and stops the pipeline; balancers and fast paths
   leave on `running_ = false` with packets in their queues. Packets no rule
   blocks are not written, although `dpi_engine.h:47` promises "writing
   unblocked flows to sink". `CompleteIfDrained`, proved, is what the code does
   guarantee; `ReportAddsUp` tells where the missing packets are.
2. **`stop` can hang** (`pipeline_hang`). `stop` clears `running_` first; the
   output thread leaves as soon as it finds its queue empty, while fast paths
   still hold packets. They fill the output queue (10000 entries in the code, one
   in the run), the next push blocks, and `stop` waits for that fast path for ever.
3. **Blocked connections come back** (`fastpath_unblocked`). `updateTCPState` sets
   CLOSED on RST, or ACK after FIN, before `processPacket` tests for BLOCKED. With
   payload bytes in that packet, the connection is classified anew and forwarded.
   `BlockedSticks` states what is true instead.
4. **Later ClientHellos are ignored** (`fastpath_hello`). Any payload on port 443
   that is no ClientHello, such as the padding of the SYN frame, classifies the
   flow as HTTPS for good.

5. **The two directions of a connection part** (`pipeline_directions`). The hash
   is not symmetric in source and destination, so that requests and answers are
   tracked by different fast paths, where `README.md` guarantees the same one for
   "the same real-life connection". Verdicts on one direction do not reach the other.
6. **Netflix is taken for Twitter** (`fastpath_signature`). `netflix.com` contains
   `x.com`, which stands earlier in the table; a rule for Netflix does not stop a
   ClientHello for it. `SignaturesDecide` states what is true instead.
7. **Output of captures in the other byte order** (`capture_swapped`). The output
   has the magic number of the input and everything else in host order: a reader
   that follows the magic number takes its lengths for others. `OutputReadsBack` is
   what holds, for captures in the byte order of the host.

Besides, no run is needed to see that `--block-domain` is not the "substring
match" of the help text (`main.cpp:14`): `isDomainBlocked` compares the whole
host, or its end behind a leading `*` (`DomainMatchesPattern` in `RuleManager`).

## 5. Theorems

All are about every behaviour of a specification (`Spec => []P`, an action
property, or an abstract specification), for any number of threads, queue
capacity, hash function and capture, any rules, signatures and packets, any
payload and lengths. Rules and rule files are those of `Name` and `Line` in
`RuleManager`, with the two limits named in section 2.

`PipelineProofs`
- `TypeCorrect`: `TypeOK`, by itself inductive. It needs that routing stays
  within the existing queues (`BalancerExists`, `PathsOfBalancer`), which is
  arithmetic on `%` and `div`.
- `NothingDiscarded`, `ReportIsQuiet`: `NoDiscard` and `QuietAtClose`. Neither is
  inductive; `ShutdownInv` says how far `stop` has got and who is gone by then
  (`ReaderGone`, `BalancersGone`, `PathsGone`): as long as a producer lives, the
  queue it pushes into is open.

`PipelineOrderProofs`
- `NoPacketLost`, `NoPacketCopied`, `FlowsInOrder`, `VerdictsHold`,
  `HeaderOpensFile`, from one invariant, `FlowInv`. A flow's packets are only
  with the balancer and path of its hash (`Placed`); each queue is ascending in
  packet numbers, flow by flow (`Sorted`); of the eight stages a packet passes,
  a later one holds the older packets of a flow (`Ordered`). Order in the file
  alone is not inductive: a push must know that what is still behind is younger.
  The steps reduce to two lemmas, `Move` (a packet moves to the next stage) and
  `DropJob`.
- `DrainedIsComplete`: `CompleteIfDrained`, from `DrainedInv`: an empty pipeline
  stays empty while `stop` runs.

`PipelineFilterProofs`
- `ImplementsFilter`: `IsFlowFilter`, the refinement of `FlowFilter`. The packets
  read are numbered by their position (`Counted`), and the packet a fast path
  drops or the output thread writes is the oldest of its flow still inside
  (`OldestHeld`, from `Ordered` of `FlowInv`). With these a step is an `Arrive`, a
  `Drop`, a `Write`, or leaves the abstract state as it is.
- `ReportBalances`: `ReportAddsUp`, from `CountInv`, which states the balance of
  every stage while the threads run: what came in is what went out, what waits in
  the queue and what a thread has taken and not yet counted as done (`Sending`,
  `Busy`, `Passing`). The property alone is about the end of the run only. With the
  threads gone (`ShutdownInv`) the last terms are zero. The totals are folds over
  all threads; no rule of induction can be applied to them here, so that such a sum
  exists, is a number and goes up by one with each of its terms (`SumsExist`,
  `TotalType`, `TotalCount`) is proved with a smallest counterexample (`LeastSet`).

`ThreadSafeQueueProofs`
- `TypeCorrect`, `NobodySleepsThrough`, `ShutdownWakesAll`: `TypeOK`,
  `NoLostWakeup` and `NoWaitAfterShutdown` are inductive together, not one by one:
  a producer turned away at a closed queue takes a thread from those on their way
  and leaves the free slot, which is harmless only because nobody waits any more.
  The argument counts: an item accepted or handed out changes the length of the
  queue by one and, by its `notify_one`, the threads on their way by one
  (`AcceptWakes`, `HandOutWakes`); a thread goes to sleep only when there is nothing
  to count.
- `ImplementsFifo`: `IsFifo`, the refinement of `Fifo`, with the invariant that the
  items accepted are those handed out followed by those in the queue (`Conserved`).

`FastPathProofs`
- `TypeCorrect`, `RulesDecide`, `VerdictIsState`, `BlockedBySignature`: from
  `VerdictInv`, which is `TypeOK`, `BlockedIffRuleMatches` and that a name explains
  the application next to it (`Tells`: it is DNS, or what the signatures say).
  All ways through `processPacket`, the early return for blocked connections
  included, meet in `Settles`: what the packet leaves of its connection and what
  that means for the verdict.
- `TableIsBounded`: `TableBound`, from `Bounded`, which adds that the table is
  finite: an entry is evicted before one is added to a full table.
- `CountersKeepUp`: `CountersCover`. `Counts` says what a packet adds to the
  counters, on every way through `processPacket`: one more seen for a new entry, one
  more blocked for an entry that becomes so, no hit without a classification.
  Evicting and cleaning up only make the table smaller.
- `BlockedStays`, `ClassificationStays`: the action properties `BlockedSticks` and
  `ClassifiedOnce`, entry by entry from `Settles`.

`ExtractorsProofs`
- `ReadsInBounds`, `NamesInside`: from `WalkInv`, which adds to the two
  properties how far each block has got (`Progress`) and that an extension that
  is looked into ends before the block does.
- `WalksEnd`: `Ends`, a bound on the blocks of a walk and therefore termination;
  `Moving` ties the blocks done to the offset.

`CaptureProofs`
- `NothingBeyondFrame`, `PayloadIsParsers`, `KeysAsWritten`, `WalksInCapture`:
  `InFrame`, `PayloadAgrees`, `KeyAsWritten` and `InBounds`, from `CaptureInv`. It
  says which frame is being worked on (`Working`), that its bytes touched so far are
  in it (`Touched`), and takes over `WalkInv` and the bound on blocks from
  `ExtractorsProofs`, now for payloads cut out of frames. That the offsets
  `createPacketJob` computes again are the parser's is `OffsetsAgree`; that
  addresses and ports survive `ntohs`, `ipToString` and `parseIP` rests on lemmas
  about bytes and powers of 256.
- `OutputIsReadable`: `OutputReadsBack`, from `OutputInv`: in a capture in the byte
  order of the host, every record behind the header is a forwarded frame under its
  own length, short enough for `readNextPacket` (`NativeOutput`). A frame in the
  hands of the engine must be known to be so before it is written (`RecordAgain`).

`RuleManagerProofs`
- `TypeCorrect`: `TypeOK`, with the finiteness of the rules (`TypeInv`), without
  which nothing could be said about the lines a save writes.
- `LookupsAreRegular`: `LookupRegular`, four locks taken one after the other are as
  good as one. `Histories` ties the rules held through a call, and those there ever
  were during it, to the rules in force; `Lookup` says that a rule held all through
  that covers the query is of a test still to come (`Pending`), or was found.
- `SavesAreRegular`: the action property `SaveRegular`, from `SaveInv`: what is
  written so far was in force at some time, and no rule held all through is missing
  from the parts that are done (`SoFar`).
- `LoadsFollowTheFile`: `LoadFollowsFile`, from `LoadInv`: an undisturbed load has
  emptied the parts it is done with (`Emptied`) and then has what the lines read so
  far mean. `PlacesInv` says where a call is and that one admin at most is alone.
- `RoundTrips`: `RoundTrip`, from `SnapInv`: the file on disk is, part by part, what
  `saveRules` writes of the rules saved (`Written`), and an undisturbed load is
  somewhere in it. The rest is about text: `BackAgain` takes a whole file back to the
  rules, names cut down to their first word and those without one left out,
  `FirstWordType` says that this makes no pattern of a plain name, `AddressBack` that an
  address comes back, and
  `OnlyConcat` and `MeaningAppend` take a file apart line by line.

The assumptions are those of the modules (`MaxSizeAssumption`,
`ThreadsAssumption`, `PipelineAssumption`, `HeaderAssumption`,
`FastPathAssumption`, `ExtractorAssumption`, `CaptureAssumption`,
`RuleAssumption`); TLC evaluates them in the runs of these modules.
`CaptureAssumption` says that a record has no more bytes than it claims, since what
follows them is the next record; `RuleAssumption` gives addresses, ports, names and
lines their C++ types and makes the names of the applications distinct.

Every invariant and action property of the passing runs is proved, and both
refinements are. Only model-checked: liveness under fairness (`ReaderFinishes`,
`StopsIfDrained`, `PushReturns`, `ShutdownReleases`), which is out of the prover's
reach; `FiveTupleHash` itself, for which the theorems take any function; and the
violations of section 4, which are single counterexamples.

## 6. Not modelled

- A second `processFile` on the same engine, which `main` never makes: nothing
  resets `shutdown_`, so that its threads would find queues that discard every
  packet. No property speaks of it.
- The records of a capture behind one that is cut off or too long: `readNextPacket`
  ends there as at the end of the file. `OutputReadsBack` is about those before it.
- Two saves to one rule file at a time, addresses with more than four octets or
  octets above 255, names with line breaks, and the search for an application by
  name in `DPIEngine::blockApp` and `unblockApp` (see RuleManager in section 2).
- Characters: host names, MAC addresses, the text of a rule file beyond what makes
  its lines different, and the substring search itself.
- Time stamps, sequence numbers, totals of bytes and packets per connection: they
  are copied or summed, and nothing decides by them. Report layout, percentages and
  logging. The sums the report prints are in `Pipeline`.
- `main`: it fills the configuration (constants here) and calls the rule methods
  of `RuleManager`. The generator of test captures is a script without state.
- Code nothing calls: `QUICSNIExtractor`, `extractExtensions` (returns nothing),
  `getConnection`, `closeConnection`, `clear` of the tracker.
- Files that fail while they are read or written: the code does not look.

## 7. Plan

Done: all modules of section 2 and the proofs of section 5. Left:

1. Proofs of what the findings leave true, beyond the properties stated so far,
   such as which packets of a run that was stopped early are in the file.
2. Lemmas that several proof modules have (the least of a set of numbers, elements
   of a sequence) in one place.
