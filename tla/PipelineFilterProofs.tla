------------------------ MODULE PipelineFilterProofs ------------------------
(***************************************************************************)
(* The pipeline implements FlowFilter: seen from outside, by the packets   *)
(* that came in, those in the file and those dropped, its threads and      *)
(* queues are a filter that keeps the order of every flow.                 *)
(*                                                                         *)
(* And the report at the end of a run adds up.  Its totals are sums over   *)
(* all threads; a fold over a set has no induction rule here, so the first *)
(* lemmas about sums argue with a smallest counterexample.                 *)
(***************************************************************************)
EXTENDS PipelineOrderProofs, FiniteSetTheorems

\* Packet ids are positions in the capture.
Counted == \A i \in 1 .. Len(trace) : trace[i].id = i - 1

-----------------------------------------------------------------------------
(* The file and what the filter sees of it *)

\* A job put behind the header is put behind the packets.
LEMMA PacketsAppend ==
  ASSUME NEW S, NEW f \in Seq(S), NEW x \in S, f # << >>
  PROVE  PacketsOf(Append(f, x)) = Append(PacketsOf(f), x)
<1>1. /\ Len(f) \in Nat /\ Len(f) > 0 /\ Append(f, x) \in Seq(S)
      /\ Append(f, x) # << >> /\ Len(Append(f, x)) = Len(f) + 1
  OBVIOUS
<1>2. PacketsOf(Append(f, x)) = Tail(Append(f, x)) /\ PacketsOf(f) = Tail(f)
  BY <1>1 DEF PacketsOf
<1>3. Tail(Append(f, x)) = Append(Tail(f), x)
  BY <1>1
<1> QED BY <1>2, <1>3

\* What is behind the header is what is not the header.
LEMMA PacketsAreWritten ==
  ASSUME TypeOK, HeaderFirst
  PROVE  Range(PacketsOf(file)) = Written
<1>t. file \in Seq(Job \cup {Header})
  BY DEF TypeOK
<1>1. CASE file = << >>
  BY <1>1 DEF PacketsOf, Written, Range
<1>2. CASE file # << >>
  <2>1. /\ Len(file) \in Nat /\ Len(file) > 0 /\ DOMAIN file = 1 .. Len(file)
        /\ Len(Tail(file)) = Len(file) - 1 /\ DOMAIN Tail(file) = 1 .. Len(file) - 1
        /\ \A i \in 1 .. Len(file) - 1 : Tail(file)[i] = file[i + 1]
    BY <1>t, <1>2
  <2>2. \A i \in 1 .. Len(file) : file[i] = Header <=> i = 1
    BY <1>2 DEF HeaderFirst
  <2>3. ASSUME NEW y \in Range(Tail(file)) PROVE y \in Written
    <3>1. PICK i \in 1 .. Len(file) - 1 : y = file[i + 1]
      BY <2>1 DEF Range
    <3>2. i + 1 \in 1 .. Len(file) /\ i + 1 # 1
      BY <2>1
    <3> QED BY <3>1, <3>2, <2>1, <2>2 DEF Written, Range
  <2>4. ASSUME NEW y \in Written PROVE y \in Range(Tail(file))
    <3>1. PICK i \in 1 .. Len(file) : y = file[i] /\ y # Header
      BY <2>1 DEF Range, Written
    <3>2. i - 1 \in 1 .. Len(file) - 1 /\ (i - 1) + 1 = i
      BY <3>1, <2>1, <2>2
    <3> QED BY <3>1, <3>2, <2>1 DEF Range
  <2> QED BY <1>2, <2>3, <2>4 DEF PacketsOf
<1> QED BY <1>1, <1>2

\* What the filter calls settled and inside.
LEMMA SettledInside ==
  ASSUME TypeOK, HeaderFirst
  PROVE  /\ Filter!Settled = Written \cup dropped
         /\ Filter!Inside = Range(trace) \ (Written \cup dropped)
<1>1. Filter!Settled = Range(PacketsOf(file)) \cup dropped
  BY DEF Filter!Settled, Filter!Range, Range
<1>2. Filter!Inside = Range(trace) \ Filter!Settled
  BY DEF Filter!Inside, Filter!Range, Range
<1> QED BY <1>1, <1>2, PacketsAreWritten

-----------------------------------------------------------------------------
(* Packet ids *)

\* Only the reader numbers packets.
LEMMA CountedNext == TypeOK /\ Counted /\ [Next]_vars => Counted'
<1> SUFFICES ASSUME TypeOK, Counted, [Next]_vars PROVE Counted'
  OBVIOUS
<1>1. CASE \E t \in Tuples : ReaderRead(t)
  <2>1. PICK t \in Tuples : trace' = Append(trace, [id |-> Len(trace), tuple |-> t])
    BY <1>1 DEF ReaderRead
  <2>2. trace \in Seq(Job) /\ Len(trace) \in Nat
    BY DEF TypeOK
  <2>3. Len(trace') = Len(trace) + 1
    BY <2>1, <2>2
  <2>4. \A i \in 1 .. Len(trace) : trace'[i] = trace[i]
    BY <2>1, <2>2
  <2>5. trace'[Len(trace) + 1].id = Len(trace)
    BY <2>1, <2>2
  <2> QED BY <2>2, <2>3, <2>4, <2>5 DEF Counted
<1>2. CASE UNCHANGED trace
  BY <1>2 DEF Counted
<1>3. UNCHANGED trace \/ \E t \in Tuples : ReaderRead(t)
  BY DEF Next, Reader, ReaderOpenFails, ReaderOpen, ReaderPush, ReaderEnd,
         LBThread, LBCheck, LBTake, LBTimeout, LBPush,
         FPThread, FPCheck, FPTake, FPTimeout, FPDrop, FPForward, FPPush,
         Output, OutCheck, OutTake, OutTimeout, OutWrite,
         Main, ProcessFileFails, ProcessFile, JoinReader, BeginStop, StopLB,
         JoinLB, StopFP, JoinFP, StopOut, JoinOut, vars, readerVars
<1> QED BY <1>1, <1>2, <1>3

\* Packets are numbered in the order of the capture.
LEMMA CountedSafe == Spec => []Counted
<1>1. Init => Counted
  <2>1. Init => Len(trace) = 0
    BY DEF Init
  <2> QED BY <2>1 DEF Counted
<1> QED BY <1>1, CountedNext, TypeCorrect, PTL DEF Spec

-----------------------------------------------------------------------------
(* Steps *)

\* Of a flow, the packets read before the one the output thread holds are
\* written or dropped.
LEMMA OldestHeld ==
  ASSUME TypeOK, FlowInv, Counted, NEW i \in 1 .. Len(trace), trace[i] \in ohand
  PROVE  /\ trace[i] \notin Written \cup dropped
         /\ \A j \in 1 .. i - 1 : trace[j].tuple = trace[i].tuple
                                   => trace[j] \in Written \cup dropped
<1>t. /\ trace \in Seq(Job) /\ Len(trace) \in Nat /\ ohand \in SUBSET Job
      /\ IsOption(ohand)
  BY DEF TypeOK
<1> DEFINE rest == Range(outQ) \cup InFPs \cup InFpQueues \cup InLBs
                     \cup InLbQueues \cup rhand
<1>1. /\ Precedes(Written, ohand) /\ Precedes(ohand, rest)
      /\ dropped \cap ohand = {}
      /\ Range(trace) = Written \cup ohand \cup dropped \cup rest
  BY DEF FlowInv, Ordered, Staged, InOrder, Precedes
<1> HIDE DEF rest
<1>2. trace[i].id \in Nat
  BY <1>t DEF Job
<1>3. trace[i] \notin Written
  BY <1>1, <1>2 DEF Precedes
<1>4. ASSUME NEW j \in 1 .. i - 1, trace[j].tuple = trace[i].tuple,
             trace[j] \notin Written \cup dropped
      PROVE  FALSE
  <2>1. j \in 1 .. Len(trace) /\ j < i
    BY <1>t
  <2>2. trace[j] \in Range(trace)
    BY <2>1, <1>t DEF Range
  <2>3. trace[j].id = j - 1 /\ trace[i].id = i - 1
    BY <2>1 DEF Counted
  <2>4. CASE trace[j] \in ohand
    <3>1. trace[j] = trace[i]
      BY <2>4, <1>t DEF IsOption
    <3> QED BY <3>1, <2>1, <2>3
  <2>5. CASE trace[j] \in rest
    <3>1. trace[i].id < trace[j].id
      BY <2>5, <1>1, <1>4 DEF Precedes
    <3> QED BY <3>1, <2>1, <2>3
  <2> QED BY <2>2, <2>4, <2>5, <1>1, <1>4
<1> QED BY <1>1, <1>3, <1>4

\* A job the output thread writes is the filter's next packet of its flow.
LEMMA WriteIsWrite ==
  ASSUME TypeOK, FlowInv, Counted, OutWrite
  PROVE  Filter!Next
<1>t. /\ trace \in Seq(Job) /\ ohand \in SUBSET Job
      /\ file \in Seq(Job \cup {Header})
  BY DEF TypeOK
<1>1. PICK job \in ohand : file' = Append(file, job)
  BY DEF OutWrite, WriteOutputPacket
<1>2. ohand \subseteq Range(trace)
  BY DEF FlowInv, Ordered, Staged
<1>3. PICK i \in 1 .. Len(trace) : trace[i] = job
  BY <1>1, <1>2, <1>t DEF Range
<1>4. trace # << >> /\ file # << >> /\ HeaderFirst
  BY <1>3, <1>t DEF FlowInv, Headed
<1>5. PacketsOf(file') = Append(PacketsOf(file), trace[i])
  BY <1>1, <1>3, <1>4, <1>t, PacketsAppend
<1>6. /\ trace[i] \notin Written \cup dropped
      /\ \A j \in 1 .. i - 1 : trace[j].tuple = trace[i].tuple
                                => trace[j] \in Written \cup dropped
  BY <1>1, <1>3, OldestHeld
<1>7. /\ Filter!Settled = Written \cup dropped
      /\ Filter!Inside = Range(trace) \ (Written \cup dropped)
  BY <1>4, SettledInside
<1>8. i \in DOMAIN trace /\ trace[i] \in Range(trace)
  BY <1>3, <1>t DEF Range
<1>9. UNCHANGED <<trace, dropped>>
  BY DEF OutWrite, readerVars, fates
<1>10. Filter!Write(i)
  BY <1>5, <1>6, <1>7, <1>8, <1>9 DEF Filter!Write
<1> QED BY <1>8, <1>10 DEF Filter!Next

\* A verdict DROP takes a packet out that was inside.
LEMMA DropIsDrop ==
  ASSUME TypeOK, FlowInv, NEW f \in FPs, FPDrop(f)
  PROVE  Filter!Next \/ UNCHANGED <<trace, file, dropped>>
<1>t. fhand[f] \in SUBSET Job /\ IsOption(fhand[f])
  BY DEF TypeOK
<1>1. UNCHANGED <<trace, file>> /\ dropped' = dropped \cup fhand[f]
  BY DEF FPDrop, readerVars, outVars
<1>2. CASE fhand[f] = {}
  BY <1>1, <1>2
<1>3. CASE fhand[f] # {}
  <2>1. PICK p \in fhand[f] : TRUE
    BY <1>3
  <2>2. fhand[f] = {p}
    BY <2>1, <1>t DEF IsOption
  <2>3. p \in InFPs /\ p \in Job
    BY <2>1, <1>t DEF InFPs
  <2>4. p \in Range(trace) /\ Precedes(Written, InFPs) /\ Precedes(dropped, InFPs)
    BY <2>3 DEF FlowInv, Ordered, Staged, InOrder, Precedes
  <2>5. p.id \in Nat
    BY <2>3 DEF Job
  <2>6. p \notin Written \cup dropped
    BY <2>3, <2>4, <2>5 DEF Precedes
  <2>7. Filter!Inside = Range(trace) \ (Written \cup dropped)
    BY SettledInside DEF FlowInv, Headed
  <2>8. p \in Filter!Inside
    BY <2>4, <2>6, <2>7
  <2>9. Filter!Drop(p)
    BY <2>2, <2>8, <1>1 DEF Filter!Drop
  <2> QED BY <2>8, <2>9 DEF Filter!Next
<1> QED BY <1>2, <1>3

\* The reader hands the filter a packet.
LEMMA ReadIsArrive ==
  ASSUME NEW t \in Tuples, ReaderRead(t)
  PROVE  Filter!Next
<1>1. Filter!Arrive(t)
  BY DEF ReaderRead, outVars, fates, Filter!Arrive
<1> QED BY <1>1 DEF Filter!Next

\* Every other step is none of the filter's.
LEMMA OtherSteps ==
  ASSUME TypeOK, FlowInv, [Next]_vars,
         ~OutWrite, ~(\E f \in FPs : FPDrop(f)), ~(\E t \in Tuples : ReaderRead(t))
  PROVE  UNCHANGED <<trace, PacketsOf(file), dropped>>
<1>1. CASE ReaderOpen
  <2>1. file = << >> /\ file' = Append(file, Header) /\ UNCHANGED <<trace, dropped>>
    BY <1>1 DEF ReaderOpen, WriteOutputHeader, FlowInv, Headed, fates
  <2>2. file' = <<Header>> /\ file' # << >> /\ Tail(file') = << >>
    BY <2>1
  <2> QED BY <2>1, <2>2 DEF PacketsOf
<1>2. CASE ~ReaderOpen
  <2>1. UNCHANGED <<trace, file, dropped>>
    BY <1>2
       DEF Next, Reader, ReaderOpenFails, ReaderPush, ReaderEnd,
           LBThread, LBCheck, LBTake, LBTimeout, LBPush,
           FPThread, FPCheck, FPTake, FPTimeout, FPForward, FPPush,
           Output, OutCheck, OutTake, OutTimeout,
           Main, ProcessFileFails, ProcessFile, JoinReader, BeginStop, StopLB,
           JoinLB, StopFP, JoinFP, StopOut, JoinOut,
           vars, readerVars, outVars, fates
  <2> QED BY <2>1 DEF PacketsOf
<1> QED BY <1>1, <1>2

\* Four kinds of threads over bounded queues, however many of each, however
\* scheduled and whenever stopped, implement the flow filter.
THEOREM ImplementsFilter == Spec => IsFlowFilter
<1>1. Init => Filter!Init
  BY DEF Init, Filter!Init, PacketsOf
<1>2. TypeOK /\ FlowInv /\ Counted /\ [Next]_vars
        => [Filter!Next]_Filter!filterVars
  <2> SUFFICES ASSUME TypeOK, FlowInv, Counted, [Next]_vars
               PROVE  [Filter!Next]_Filter!filterVars
    OBVIOUS
  <2>1. CASE OutWrite
    BY <2>1, WriteIsWrite
  <2>2. CASE \E f \in FPs : FPDrop(f)
    <3>1. Filter!Next \/ UNCHANGED <<trace, file, dropped>>
      BY <2>2, DropIsDrop
    <3> QED BY <3>1 DEF Filter!filterVars, PacketsOf
  <2>3. CASE \E t \in Tuples : ReaderRead(t)
    BY <2>3, ReadIsArrive
  <2>4. CASE ~OutWrite /\ ~(\E f \in FPs : FPDrop(f))
                /\ ~(\E t \in Tuples : ReaderRead(t))
    BY <2>4, OtherSteps DEF Filter!filterVars
  <2> QED BY <2>1, <2>2, <2>3, <2>4
<1> QED BY <1>1, <1>2, FlowSafe, CountedSafe, PTL DEF Spec, IsFlowFilter, Filter!Spec
-----------------------------------------------------------------------------
(* Sums *)

\* The element a fold takes next.
Chosen(s) == CHOOSE x \in s : TRUE

\* g[s] is the sum of f over s, for the subsets s of a set.
SumsOver(f, Sets, g) ==
  g = [s \in Sets |-> IF s = {} THEN 0 ELSE f[Chosen(s)] + g[s \ {Chosen(s)}]]

\* The sum of f over S.
Total(S, f) == (CHOOSE g : SumsOver(f, SUBSET S, g))[S]

\* The subsets of S with at most n elements.
Small(S, n) == {s \in SUBSET S : Cardinality(s) <= n}

\* The library's fold is that sum.
LEMMA FoldIsTotal ==
  ASSUME NEW S, NEW f
  PROVE  FoldFunctionOnSet(+, 0, f, S) = Total(S, f)
BY DEF FoldFunctionOnSet, MapThenFoldSet, Total, SumsOver, Chosen

\* A set of numbers that is not empty has a least one.
LEMMA LeastNumber ==
  ASSUME NEW M, M \subseteq Nat, M # {}
  PROVE  \E m \in M : \A n \in M : m <= n
<1>1. PICK m \in M : \A n \in M : ~(<<n, m>> \in OpToRel(<, Nat))
  BY WFMin, NatLessThanWellFounded
<1>2. \A n \in M : ~(n < m)
  BY <1>1 DEF OpToRel
<1>3. ASSUME NEW n \in M PROVE m <= n
  <2>1. n \in Nat /\ m \in Nat /\ ~(n < m)
    BY <1>1, <1>2
  <2> QED BY <2>1
<1> QED BY <1>1, <1>3

\* Taking the chosen element out of a finite set makes it smaller.
LEMMA OneLess ==
  ASSUME NEW S, IsFiniteSet(S), NEW s \in SUBSET S, s # {}
  PROVE  /\ Chosen(s) \in s
         /\ s \ {Chosen(s)} \in SUBSET S
         /\ Cardinality(s) \in Nat /\ Cardinality(s \ {Chosen(s)}) \in Nat
         /\ Cardinality(s \ {Chosen(s)}) = Cardinality(s) - 1
<1>1. Chosen(s) \in s
  BY DEF Chosen
<1>2. IsFiniteSet(s)
  BY FS_Subset
<1>3. /\ IsFiniteSet(s \ {Chosen(s)})
      /\ Cardinality(s \ {Chosen(s)}) = Cardinality(s) - 1
  BY <1>1, <1>2, FS_RemoveElement
<1>4. Cardinality(s) \in Nat /\ Cardinality(s \ {Chosen(s)}) \in Nat
  BY <1>2, <1>3, FS_CardinalityType
<1> QED BY <1>1, <1>3, <1>4

\* Of the sets in M, one stops being in M when its chosen element goes.
LEMMA LeastSet ==
  ASSUME NEW S, IsFiniteSet(S), NEW M, M \subseteq SUBSET S, M # {}
  PROVE  \E s \in M : s = {} \/ s \ {Chosen(s)} \notin M
<1> DEFINE Sizes == {Cardinality(s) : s \in M}
<1>1. \A s \in M : Cardinality(s) \in Nat
  BY FS_Subset, FS_CardinalityType
<1>2. Sizes \subseteq Nat /\ Sizes # {}
  BY <1>1
<1>3. PICK n \in Sizes : \A i \in Sizes : n <= i
  <2> HIDE DEF Sizes
  <2> QED BY <1>2, LeastNumber
<1>4. PICK s \in M : Cardinality(s) = n
  BY <1>3
<1>5. ASSUME s # {}, s \ {Chosen(s)} \in M PROVE FALSE
  <2>1. /\ Cardinality(s) \in Nat
        /\ Cardinality(s \ {Chosen(s)}) = Cardinality(s) - 1
    BY <1>4, <1>5, OneLess
  <2>2. Cardinality(s \ {Chosen(s)}) \in Sizes
    BY <1>5
  <2>3. Cardinality(s) <= Cardinality(s \ {Chosen(s)})
    BY <1>3, <1>4, <2>2
  <2> QED BY <2>1, <2>3
<1> QED BY <1>4, <1>5

\* There is such a function g, for the sets of up to n elements.
LEMMA SumsExistSmall ==
  ASSUME NEW S, IsFiniteSet(S), NEW f, NEW n \in Nat
  PROVE  \E g : SumsOver(f, Small(S, n), g)
<1> DEFINE Without == {m \in Nat : ~\E g : SumsOver(f, Small(S, m), g)}
<1> SUFFICES ASSUME Without # {} PROVE FALSE
  OBVIOUS
<1>1. PICK m \in Without : \A i \in Without : m <= i
  <2>1. Without \subseteq Nat
    OBVIOUS
  <2> HIDE DEF Without
  <2> QED BY <2>1, LeastNumber
<1>2. m \in Nat /\ ~\E g : SumsOver(f, Small(S, m), g)
  BY <1>1
<1>3. CASE m = 0
  <2> DEFINE g == [s \in Small(S, 0) |-> 0]
  <2>1. \A s \in Small(S, 0) : s = {}
    <3> SUFFICES ASSUME NEW s \in Small(S, 0), s # {} PROVE FALSE
      OBVIOUS
    <3>1. s \in SUBSET S /\ Cardinality(s) <= 0
      BY DEF Small
    <3>2. Cardinality(s) \in Nat /\ Cardinality(s) - 1 \in Nat
      BY <3>1, OneLess
    <3> QED BY <3>1, <3>2
  <2>2. g = [s \in Small(S, 0) |->
               IF s = {} THEN 0 ELSE f[Chosen(s)] + g[s \ {Chosen(s)}]]
    BY <2>1
  <2>3. SumsOver(f, Small(S, 0), g)
    BY <2>2 DEF SumsOver
  <2> QED BY <1>2, <1>3, <2>3
<1>4. CASE m # 0
  <2>1. m - 1 \in Nat /\ m - 1 \notin Without
    <3>1. m - 1 \in Nat /\ ~(m <= m - 1)
      BY <1>2, <1>4
    <3> QED BY <1>1, <3>1
  <2>2. PICK g : SumsOver(f, Small(S, m - 1), g)
    BY <2>1
  <2> DEFINE h == [s \in Small(S, m) |->
                     IF s = {} THEN 0 ELSE f[Chosen(s)] + g[s \ {Chosen(s)}]]
  <2>3. ASSUME NEW s \in Small(S, m), s # {}
        PROVE  g[s \ {Chosen(s)}] = h[s \ {Chosen(s)}]
    <3> DEFINE t == s \ {Chosen(s)}
    <3>1. s \in SUBSET S /\ Cardinality(s) <= m
      BY DEF Small
    <3>2. /\ t \in SUBSET S /\ Cardinality(s) \in Nat
          /\ Cardinality(t) = Cardinality(s) - 1
      BY <2>3, <3>1, OneLess
    <3>3. Cardinality(t) <= m - 1 /\ Cardinality(t) <= m
      BY <1>2, <3>1, <3>2
    <3>4. t \in Small(S, m - 1) /\ t \in Small(S, m)
      BY <3>2, <3>3 DEF Small
    <3> HIDE DEF t
    <3>5. g[t] = IF t = {} THEN 0 ELSE f[Chosen(t)] + g[t \ {Chosen(t)}]
      BY <2>2, <3>4 DEF SumsOver
    <3>6. h[t] = IF t = {} THEN 0 ELSE f[Chosen(t)] + g[t \ {Chosen(t)}]
      BY <3>4
    <3>7. g[t] = h[t]
      BY <3>5, <3>6
    <3> QED BY <3>7 DEF t
  <2>4. h = [s \in Small(S, m) |->
               IF s = {} THEN 0 ELSE f[Chosen(s)] + h[s \ {Chosen(s)}]]
    <3>1. \A s \in Small(S, m) :
            (IF s = {} THEN 0 ELSE f[Chosen(s)] + g[s \ {Chosen(s)}])
              = (IF s = {} THEN 0 ELSE f[Chosen(s)] + h[s \ {Chosen(s)}])
      <4> HIDE DEF h
      <4> QED BY <2>3
    <3> QED BY <3>1
  <2>5. SumsOver(f, Small(S, m), h)
    <3> HIDE DEF h
    <3> QED BY <2>4 DEF SumsOver
  <2> HIDE DEF h
  <2> QED BY <1>2, <2>5
<1> QED BY <1>3, <1>4

\* g has the sum of f over every subset of S.
Sums(S, f, g) ==
  /\ Total(S, f) = g[S]
  /\ \A s \in SUBSET S :
       g[s] = IF s = {} THEN 0 ELSE f[Chosen(s)] + g[s \ {Chosen(s)}]

\* The sum of a finite set can be taken element by element.
LEMMA SumsExist ==
  ASSUME NEW S, IsFiniteSet(S), NEW f
  PROVE  \E g : Sums(S, f, g)
<1>1. Cardinality(S) \in Nat /\ Small(S, Cardinality(S)) = SUBSET S
  BY FS_CardinalityType, FS_Subset DEF Small
<1>2. \E g : SumsOver(f, SUBSET S, g)
  <2>1. \E g : SumsOver(f, Small(S, Cardinality(S)), g)
    BY <1>1, SumsExistSmall
  <2> QED BY <1>1, <2>1
<1> DEFINE g == CHOOSE g : SumsOver(f, SUBSET S, g)
<1>3. SumsOver(f, SUBSET S, g)
  BY <1>2
<1>4. Total(S, f) = g[S]
  BY DEF Total
<1> HIDE DEF g
<1>5. \A s \in SUBSET S :
        g[s] = IF s = {} THEN 0 ELSE f[Chosen(s)] + g[s \ {Chosen(s)}]
  BY <1>3 DEF SumsOver
<1> QED BY <1>4, <1>5 DEF Sums

\* A sum of natural numbers is one.
LEMMA TotalType ==
  ASSUME NEW S, IsFiniteSet(S), NEW f \in [S -> Nat]
  PROVE  Total(S, f) \in Nat
<1>1. PICK g : Sums(S, f, g)
  BY SumsExist
<1> DEFINE M == {s \in SUBSET S : g[s] \notin Nat}
<1>2. ASSUME M # {} PROVE FALSE
  <2>1. PICK s \in M : s = {} \/ s \ {Chosen(s)} \notin M
    <3>1. M \subseteq SUBSET S
      OBVIOUS
    <3> HIDE DEF M
    <3> QED BY <1>2, <3>1, LeastSet
  <2>2. s \in SUBSET S /\ g[s] \notin Nat
    BY <2>1
  <2>3. s # {}
    <3>1. s = {} => g[s] = 0
      BY <1>1 DEF Sums
    <3> QED BY <2>2, <3>1
  <2>4. Chosen(s) \in S /\ s \ {Chosen(s)} \in SUBSET S
    BY <2>2, <2>3, OneLess
  <2>5. g[s \ {Chosen(s)}] \in Nat
    BY <2>1, <2>3, <2>4
  <2>6. g[s] = f[Chosen(s)] + g[s \ {Chosen(s)}]
    BY <1>1, <2>2, <2>3 DEF Sums
  <2>7. f[Chosen(s)] \in Nat
    BY <2>4
  <2> QED BY <2>2, <2>5, <2>6, <2>7
<1> QED BY <1>1, <1>2 DEF Sums

\* Counting one more somewhere makes the sum one more.
LEMMA TotalCount ==
  ASSUME NEW S, IsFiniteSet(S), NEW f \in [S -> Nat], NEW h \in [S -> Nat],
         NEW a \in S, h[a] = f[a] + 1, \A x \in S : x # a => h[x] = f[x]
  PROVE  Total(S, h) = Total(S, f) + 1
<1>1. PICK g : Sums(S, f, g)
  BY SumsExist
<1>2. PICK e : Sums(S, h, e)
  BY SumsExist
<1> DEFINE Fits(s) == g[s] \in Nat /\ e[s] = g[s] + (IF a \in s THEN 1 ELSE 0)
<1> DEFINE M == {s \in SUBSET S : ~Fits(s)}
<1>3. ASSUME M # {} PROVE FALSE
  <2>1. PICK s \in M : s = {} \/ s \ {Chosen(s)} \notin M
    <3>1. M \subseteq SUBSET S
      OBVIOUS
    <3> HIDE DEF M
    <3> QED BY <1>3, <3>1, LeastSet
  <2>2. s \in SUBSET S /\ ~Fits(s)
    BY <2>1
  <2>3. CASE s = {}
    <3>1. g[s] = 0 /\ e[s] = 0 /\ a \notin s
      BY <1>1, <1>2, <2>2, <2>3 DEF Sums
    <3> QED BY <2>2, <3>1
  <2>4. CASE s # {}
    <3> DEFINE c == Chosen(s)
               t == s \ {c}
    <3>1. c \in s /\ t \in SUBSET S
      BY <2>2, <2>4, OneLess
    <3>2. Fits(t)
      BY <2>1, <2>4, <3>1
    <3>3. g[s] = f[c] + g[t] /\ e[s] = h[c] + e[t]
      BY <1>1, <1>2, <2>2, <2>4 DEF Sums
    <3>4. f[c] \in Nat /\ h[c] \in Nat
      BY <3>1, <2>2
    <3>5. CASE c = a
      <4>1. a \notin t /\ a \in s
        BY <3>1, <3>5
      <4>2. h[c] = f[c] + 1
        BY <3>5
      <4>3. g[t] \in Nat /\ e[t] = g[t]
        BY <3>2, <4>1
      <4> HIDE DEF c, t
      <4>4. g[s] \in Nat /\ e[s] = g[s] + 1
        BY <3>3, <3>4, <4>2, <4>3
      <4> QED BY <2>2, <4>1, <4>4
    <3>6. CASE c # a
      <4>1. a \in t <=> a \in s
        BY <3>6
      <4>2. h[c] = f[c]
        BY <3>1, <3>6, <2>2
      <4>3. g[t] \in Nat /\ e[t] = g[t] + (IF a \in s THEN 1 ELSE 0)
        BY <3>2, <4>1
      <4> HIDE DEF c, t
      <4>4. g[s] \in Nat /\ e[s] = g[s] + (IF a \in s THEN 1 ELSE 0)
        BY <3>3, <3>4, <4>2, <4>3
      <4> QED BY <2>2, <4>4
    <3> QED BY <3>5, <3>6
  <2> QED BY <2>3, <2>4
<1>4. Fits(S)
  BY <1>3
<1> QED BY <1>1, <1>2, <1>4 DEF Sums

\* A sum of zeros is zero.
LEMMA TotalZero ==
  ASSUME NEW S, IsFiniteSet(S), NEW f, \A x \in S : f[x] = 0
  PROVE  Total(S, f) = 0
<1>1. PICK g : Sums(S, f, g)
  BY SumsExist
<1> DEFINE M == {s \in SUBSET S : g[s] # 0}
<1>2. ASSUME M # {} PROVE FALSE
  <2>1. PICK s \in M : s = {} \/ s \ {Chosen(s)} \notin M
    <3>1. M \subseteq SUBSET S
      OBVIOUS
    <3> HIDE DEF M
    <3> QED BY <1>2, <3>1, LeastSet
  <2>2. s \in SUBSET S /\ g[s] # 0
    BY <2>1
  <2>3. s # {}
    BY <1>1, <2>2 DEF Sums
  <2>4. Chosen(s) \in S /\ s \ {Chosen(s)} \in SUBSET S
    BY <2>2, <2>3, OneLess
  <2>5. g[s \ {Chosen(s)}] = 0
    BY <2>1, <2>3, <2>4
  <2>6. g[s] = f[Chosen(s)] + g[s \ {Chosen(s)}]
    BY <1>1, <2>2, <2>3 DEF Sums
  <2> QED BY <2>2, <2>4, <2>5, <2>6
<1> QED BY <1>1, <1>2 DEF Sums

-----------------------------------------------------------------------------
(* The report *)

\* How much waits in each of the queues q.
Lengths(I, q) == [x \in I |-> Len(q[x])]

\* The counters of the threads and the lengths of their queues, and who has
\* taken a packet that he has not counted as done.
Received   == [l \in LBs |-> lbStats[l].received]
Dispatched == [l \in LBs |-> lbStats[l].dispatched]
AtLB       == Lengths(LBs, lbQ)
Sending    == [l \in LBs |-> IF lpc[l] = "push" THEN 1 ELSE 0]
Processed  == [f \in FPs |-> fpStats[f].processed]
Forwarded  == [f \in FPs |-> fpStats[f].forwarded]
Rejected   == [f \in FPs |-> fpStats[f].dropped]
AtFP       == Lengths(FPs, fpQ)
Busy       == [f \in FPs |-> IF fpc[f] \in {"work", "push"} THEN 1 ELSE 0]
Passing    == [f \in FPs |-> IF fpc[f] = "push" THEN 1 ELSE 0]

\* The inductive invariant: stage by stage, what came in is what went out, what
\* waits in a queue and what a thread has in hand.
CountInv ==
  /\ stats.total = Total(LBs, Received) + Total(LBs, AtLB)
                     + (IF rpc = "push" THEN 1 ELSE 0)
  /\ Total(LBs, Received) = Total(LBs, Dispatched) + Total(LBs, Sending)
  /\ Total(LBs, Dispatched) = Total(FPs, Processed) + Total(FPs, AtFP)
  /\ Total(FPs, Processed) = Total(FPs, Forwarded) + Total(FPs, Rejected)
                               + Total(FPs, Busy)
  /\ stats.forwarded = Total(FPs, Forwarded) + Total(FPs, Passing)
  /\ stats.dropped = Total(FPs, Rejected)
  /\ IsFiniteSet(Written)
  /\ Total(FPs, Forwarded) = Cardinality(Written) + Len(outQ)
                               + (IF opc = "write" THEN 1 ELSE 0)

\* One counter of a table goes up.
OneMore(S, f, h, a) ==
  /\ f \in [S -> Nat] /\ h \in [S -> Nat] /\ a \in S
  /\ h[a] = f[a] + 1 /\ \A x \in S : x # a => h[x] = f[x]

\* There are finitely many threads.
LEMMA FiniteThreads == IsFiniteSet(LBs) /\ IsFiniteSet(FPs)
<1>1. NumLBs - 1 \in Int /\ NumLBs * FpsPerLB - 1 \in Int
  BY PipelineAssumption
<1> QED BY <1>1, FS_Interval DEF LBs, FPs

\* Then the sum goes up, for the tables of the balancers and of the paths.
LEMMA SumUp ==
  /\ \A f, h : \A l \in LBs : OneMore(LBs, f, h, l) => Total(LBs, h) = Total(LBs, f) + 1
  /\ \A f, h : \A p \in FPs : OneMore(FPs, f, h, p) => Total(FPs, h) = Total(FPs, f) + 1
BY FiniteThreads, TotalCount DEF OneMore

\* The tables hold natural numbers.
LEMMA TalliesTyped ==
  ASSUME TypeOK
  PROVE  /\ Received \in [LBs -> Nat] /\ Dispatched \in [LBs -> Nat]
         /\ AtLB \in [LBs -> Nat] /\ Sending \in [LBs -> Nat]
         /\ Processed \in [FPs -> Nat] /\ Forwarded \in [FPs -> Nat]
         /\ Rejected \in [FPs -> Nat] /\ AtFP \in [FPs -> Nat]
         /\ Busy \in [FPs -> Nat] /\ Passing \in [FPs -> Nat]
<1>1. Received \in [LBs -> Nat] /\ Dispatched \in [LBs -> Nat]
  BY DEF TypeOK, CountersOK, LBStatsType, Received, Dispatched
<1>2. /\ Processed \in [FPs -> Nat] /\ Forwarded \in [FPs -> Nat]
      /\ Rejected \in [FPs -> Nat]
  BY DEF TypeOK, CountersOK, FPStatsType, Processed, Forwarded, Rejected
<1>3. AtLB \in [LBs -> Nat] /\ AtFP \in [FPs -> Nat]
  BY DEF TypeOK, AtLB, AtFP, Lengths
<1>4. Sending \in [LBs -> Nat] /\ Busy \in [FPs -> Nat] /\ Passing \in [FPs -> Nat]
  BY DEF Sending, Busy, Passing
<1> QED BY <1>1, <1>2, <1>3, <1>4

\* So do the sums.
LEMMA TotalsTyped ==
  ASSUME TypeOK
  PROVE  /\ Total(LBs, Received) \in Nat /\ Total(LBs, Dispatched) \in Nat
         /\ Total(LBs, AtLB) \in Nat /\ Total(LBs, Sending) \in Nat
         /\ Total(FPs, Processed) \in Nat /\ Total(FPs, Forwarded) \in Nat
         /\ Total(FPs, Rejected) \in Nat /\ Total(FPs, AtFP) \in Nat
         /\ Total(FPs, Busy) \in Nat /\ Total(FPs, Passing) \in Nat
BY TalliesTyped, TotalType, FiniteThreads

\* The counter a thread increments, and only that one, goes up.
LEMMA CounterUp ==
  ASSUME TypeOK
  PROVE  /\ \A l \in LBs :
              /\ lbStats' = [lbStats EXCEPT ![l].received = @ + 1]
                   => OneMore(LBs, Received, Received', l) /\ Dispatched' = Dispatched
              /\ lbStats' = [lbStats EXCEPT ![l].dispatched = @ + 1]
                   => OneMore(LBs, Dispatched, Dispatched', l) /\ Received' = Received
         /\ \A f \in FPs :
              /\ fpStats' = [fpStats EXCEPT ![f].processed = @ + 1]
                   => /\ OneMore(FPs, Processed, Processed', f)
                      /\ UNCHANGED <<Forwarded, Rejected>>
              /\ fpStats' = [fpStats EXCEPT ![f].forwarded = @ + 1]
                   => /\ OneMore(FPs, Forwarded, Forwarded', f)
                      /\ UNCHANGED <<Processed, Rejected>>
              /\ fpStats' = [fpStats EXCEPT ![f].dropped = @ + 1]
                   => /\ OneMore(FPs, Rejected, Rejected', f)
                      /\ UNCHANGED <<Processed, Forwarded>>
<1>1. lbStats \in [LBs -> LBStatsType] /\ fpStats \in [FPs -> FPStatsType]
  BY DEF TypeOK, CountersOK
<1>2. ASSUME NEW l \in LBs, lbStats' = [lbStats EXCEPT ![l].received = @ + 1]
      PROVE  OneMore(LBs, Received, Received', l) /\ Dispatched' = Dispatched
  BY <1>1, <1>2 DEF LBStatsType, OneMore, Received, Dispatched
<1>3. ASSUME NEW l \in LBs, lbStats' = [lbStats EXCEPT ![l].dispatched = @ + 1]
      PROVE  OneMore(LBs, Dispatched, Dispatched', l) /\ Received' = Received
  BY <1>1, <1>3 DEF LBStatsType, OneMore, Received, Dispatched
<1>4. ASSUME NEW f \in FPs, fpStats' = [fpStats EXCEPT ![f].processed = @ + 1]
      PROVE  OneMore(FPs, Processed, Processed', f) /\ UNCHANGED <<Forwarded, Rejected>>
  BY <1>1, <1>4 DEF FPStatsType, OneMore, Processed, Forwarded, Rejected
<1>5. ASSUME NEW f \in FPs, fpStats' = [fpStats EXCEPT ![f].forwarded = @ + 1]
      PROVE  OneMore(FPs, Forwarded, Forwarded', f) /\ UNCHANGED <<Processed, Rejected>>
  BY <1>1, <1>5 DEF FPStatsType, OneMore, Processed, Forwarded, Rejected
<1>6. ASSUME NEW f \in FPs, fpStats' = [fpStats EXCEPT ![f].dropped = @ + 1]
      PROVE  OneMore(FPs, Rejected, Rejected', f) /\ UNCHANGED <<Processed, Forwarded>>
  BY <1>1, <1>6 DEF FPStatsType, OneMore, Processed, Forwarded, Rejected
<1> QED BY <1>2, <1>3, <1>4, <1>5, <1>6

\* A queue that takes or hands out a packet changes its length by one.
LEMMA QueueCount ==
  ASSUME NEW I, NEW q \in [I -> Seq(Job)], NEW i \in I, NEW new,
         NEW j \in Job
  PROVE  /\ new = [q EXCEPT ![i] = Append(q[i], j)]
              => OneMore(I, Lengths(I, q), Lengths(I, new), i)
         /\ q[i] # << >> /\ new = [q EXCEPT ![i] = Tail(q[i])]
              => OneMore(I, Lengths(I, new), Lengths(I, q), i)
<1>1. Len(Append(q[i], j)) = Len(q[i]) + 1 /\ Append(q[i], j) \in Seq(Job)
  OBVIOUS
<1>2. q[i] # << >> => Tail(q[i]) \in Seq(Job) /\ Len(q[i]) = Len(Tail(q[i])) + 1
  OBVIOUS
<1>3. ASSUME new = [q EXCEPT ![i] = Append(q[i], j)]
      PROVE  OneMore(I, Lengths(I, q), Lengths(I, new), i)
  <2>1. new[i] = Append(q[i], j) /\ \A x \in I : x # i => new[x] = q[x]
    BY <1>3
  <2>2. \A x \in I : Len(q[x]) \in Nat /\ Len(new[x]) \in Nat
    BY <1>1, <2>1
  <2> QED BY <1>1, <2>1, <2>2 DEF OneMore, Lengths
<1>4. ASSUME q[i] # << >>, new = [q EXCEPT ![i] = Tail(q[i])]
      PROVE  OneMore(I, Lengths(I, new), Lengths(I, q), i)
  <2>1. new[i] = Tail(q[i]) /\ \A x \in I : x # i => new[x] = q[x]
    BY <1>4
  <2>2. \A x \in I : Len(q[x]) \in Nat /\ Len(new[x]) \in Nat
    BY <1>2, <1>4, <2>1
  <2> QED BY <1>2, <1>4, <2>1, <2>2 DEF OneMore, Lengths
<1> QED BY <1>3, <1>4

\* A balancer that takes or gets rid of its packet.
LEMMA SendingStep ==
  ASSUME TypeOK, NEW l \in LBs, NEW v, lpc' = [lpc EXCEPT ![l] = v]
  PROVE  /\ lpc[l] # "push" /\ v = "push" => OneMore(LBs, Sending, Sending', l)
         /\ lpc[l] = "push" /\ v = "check" => OneMore(LBs, Sending', Sending, l)
         /\ lpc[l] # "push" /\ v # "push" => Sending' = Sending
<1>1. lpc'[l] = v /\ \A x \in LBs : x # l => lpc'[x] = lpc[x]
  BY DEF TypeOK
<1> QED BY <1>1 DEF Sending, OneMore

\* A fast path that takes, passes on or gets rid of its packet.
LEMMA BusyStep ==
  ASSUME TypeOK, NEW f \in FPs, NEW v, fpc' = [fpc EXCEPT ![f] = v]
  PROVE  /\ fpc[f] \notin {"work", "push"} /\ v = "work"
              => OneMore(FPs, Busy, Busy', f) /\ Passing' = Passing
         /\ fpc[f] = "work" /\ v = "push"
              => Busy' = Busy /\ OneMore(FPs, Passing, Passing', f)
         /\ fpc[f] = "work" /\ v = "check"
              => OneMore(FPs, Busy', Busy, f) /\ Passing' = Passing
         /\ fpc[f] = "push" /\ v = "check"
              => OneMore(FPs, Busy', Busy, f) /\ OneMore(FPs, Passing', Passing, f)
         /\ fpc[f] \notin {"work", "push"} /\ v \notin {"work", "push"}
              => Busy' = Busy /\ Passing' = Passing
<1>1. fpc'[f] = v /\ \A x \in FPs : x # f => fpc'[x] = fpc[x]
  BY DEF TypeOK
<1> QED BY <1>1 DEF Busy, Passing, OneMore

\* The initial counters add up.
LEMMA CountInit == Init => CountInv
<1> SUFFICES ASSUME Init PROVE CountInv
  OBVIOUS
<1>1. /\ \A l \in LBs : /\ Received[l] = 0 /\ Dispatched[l] = 0
                        /\ AtLB[l] = 0 /\ Sending[l] = 0
      /\ \A f \in FPs : /\ Processed[f] = 0 /\ Forwarded[f] = 0 /\ Rejected[f] = 0
                        /\ AtFP[f] = 0 /\ Busy[f] = 0 /\ Passing[f] = 0
  BY DEF Init, Received, Dispatched, AtLB, Sending, Processed, Forwarded,
         Rejected, AtFP, Busy, Passing, Lengths
<1>2. /\ Total(LBs, Received) = 0 /\ Total(LBs, Dispatched) = 0
      /\ Total(LBs, AtLB) = 0 /\ Total(LBs, Sending) = 0
      /\ Total(FPs, Processed) = 0 /\ Total(FPs, Forwarded) = 0
      /\ Total(FPs, Rejected) = 0 /\ Total(FPs, AtFP) = 0
      /\ Total(FPs, Busy) = 0 /\ Total(FPs, Passing) = 0
  BY <1>1, FiniteThreads, TotalZero
<1>3. Written = {} /\ Len(outQ) = 0
  BY DEF Init, Written, Range
<1>4. IsFiniteSet(Written) /\ Cardinality(Written) = 0
  BY <1>3, FS_EmptySet
<1> QED BY <1>2, <1>3, <1>4 DEF Init, CountInv

\* A step that neither counts nor moves a packet keeps the sums.
LEMMA CountStill ==
  ASSUME CountInv,
         UNCHANGED <<Received, Dispatched, AtLB, Sending, Processed, Forwarded,
                     Rejected, AtFP, Busy, Passing, stats, Written, outQ>>,
         rpc = "push" <=> rpc' = "push", opc = "write" <=> opc' = "write"
  PROVE  CountInv'
BY DEF CountInv

\* The tables of the balancers and of the paths, each with what it depends on.
LEMMA TalliesStill ==
  /\ UNCHANGED <<lbStats, lbQ, lpc>>
       => UNCHANGED <<Received, Dispatched, AtLB, Sending>>
  /\ UNCHANGED <<fpStats, fpQ, fpc>>
       => UNCHANGED <<Processed, Forwarded, Rejected, AtFP, Busy, Passing>>
  /\ UNCHANGED file => UNCHANGED Written
BY DEF Received, Dispatched, AtLB, Sending, Processed, Forwarded, Rejected, AtFP,
       Busy, Passing, Written

\* The reader counts a packet when it has it in hand.
LEMMA CountReader ==
  ASSUME TypeOK, ShutdownInv, CountInv, Reader
  PROVE  CountInv'
<1> USE DEF mainVars, readerVars, lbVars, lbQueues, fpVars, fpQueues, outVars,
            outQueue, fates, counters
<1>1. CASE ReaderOpenFails \/ ReaderEnd
  BY <1>1, TalliesStill, CountStill DEF ReaderOpenFails, ReaderEnd
<1>2. CASE ReaderOpen
  <2>1. file \in Seq(Job \cup {Header})
    BY DEF TypeOK
  <2>2. Range(file') = Range(file) \cup {Header}
    BY <1>2, <2>1, RangeAppend DEF ReaderOpen, WriteOutputHeader
  <2>3. UNCHANGED Written
    BY <2>2 DEF Written
  <2> QED BY <1>2, <2>3, TalliesStill, CountStill DEF ReaderOpen
<1>3. CASE \E t \in Tuples : ReaderRead(t)
  <2>1. /\ UNCHANGED <<lbStats, lbQ, lpc, fpStats, fpQ, fpc, file, outQ, opc>>
        /\ rpc = "read" /\ rpc' = "push"
        /\ stats' = [stats EXCEPT !.total = @ + 1]
    BY <1>3 DEF ReaderRead
  <2>2. stats'.total = stats.total + 1 /\ stats'.forwarded = stats.forwarded
          /\ stats'.dropped = stats.dropped
    BY <2>1 DEF TypeOK, CountersOK, StatsType
  <2>3. UNCHANGED <<Received, Dispatched, AtLB, Sending, Processed, Forwarded,
                    Rejected, AtFP, Busy, Passing, Written>>
    BY <2>1, TalliesStill
  <2> QED BY <2>1, <2>2, <2>3, TotalsTyped DEF CountInv
<1>4. CASE ReaderPush
  <2>1. PICK job \in rhand :
          LET l == GetLBForPacket(job.tuple) IN
            lbQ' = [lbQ EXCEPT ![l] = Pushed(lbQ[l], lbDown[l], job)]
    BY <1>4 DEF ReaderPush
  <2> DEFINE l == GetLBForPacket(job.tuple)
  <2>2. job \in Job /\ l \in LBs
    BY BalancerExists DEF TypeOK, Job
  <2>3. ~lbDown[l]
    BY <1>4, <2>2 DEF ReaderPush, ShutdownInv, ReaderGone, Stopping, LBsDone
  <2>4. lbQ' = [lbQ EXCEPT ![l] = Append(lbQ[l], job)]
    BY <2>1, <2>3 DEF Pushed
  <2>5. lbQ \in [LBs -> Seq(Job)]
    BY DEF TypeOK
  <2> HIDE DEF l
  <2>6. OneMore(LBs, AtLB, AtLB', l)
    BY <2>2, <2>4, <2>5, QueueCount DEF AtLB
  <2>7. Total(LBs, AtLB') = Total(LBs, AtLB) + 1
    BY <2>2, <2>6, SumUp
  <2>8. /\ UNCHANGED <<lbStats, lpc, fpStats, fpQ, fpc, file, outQ, opc, stats>>
        /\ rpc = "push" /\ rpc' = "read"
    BY <1>4 DEF ReaderPush
  <2>9. UNCHANGED <<Received, Dispatched, Sending>>
    BY <2>8 DEF Received, Dispatched, Sending
  <2>10. UNCHANGED <<Processed, Forwarded, Rejected, AtFP, Busy, Passing, Written>>
    BY <2>8, TalliesStill
  <2> QED BY <2>7, <2>8, <2>9, <2>10, TotalsTyped DEF CountInv
<1> QED BY <1>1, <1>2, <1>3, <1>4 DEF Reader

\* A balancer counts a packet when it takes it, and again when it is through.
LEMMA CountLB ==
  ASSUME TypeOK, ShutdownInv, CountInv, NEW l \in LBs, LBThread(l)
  PROVE  CountInv'
<1> USE DEF mainVars, readerVars, lbVars, lbQueues, fpVars, fpQueues, outVars,
            outQueue, fates, counters
<1>1. CASE LBCheck(l) \/ LBTimeout(l)
  <2>1. UNCHANGED <<lbStats, lbQ, fpStats, fpQ, fpc, file, outQ, opc, rpc, stats>>
    BY <1>1 DEF LBCheck, LBTimeout
  <2>2. /\ lpc[l] # "push"
        /\ \E v \in {"pop", "exited", "check"} : lpc' = [lpc EXCEPT ![l] = v]
    BY <1>1 DEF LBCheck, LBTimeout
  <2>3. Sending' = Sending
    BY <2>2, SendingStep
  <2>4. UNCHANGED <<Received, Dispatched, AtLB>>
    BY <2>1 DEF Received, Dispatched, AtLB
  <2> QED BY <2>1, <2>3, <2>4, TalliesStill, CountStill
<1>2. CASE LBTake(l)
  <2>1. /\ UNCHANGED <<fpStats, fpQ, fpc, file, outQ, opc, rpc, stats>>
        /\ lpc[l] = "pop" /\ lpc' = [lpc EXCEPT ![l] = "push"]
        /\ lbStats' = [lbStats EXCEPT ![l].received = @ + 1]
        /\ lbQ[l] # << >> /\ lbQ' = [lbQ EXCEPT ![l] = Tail(lbQ[l])]
    BY <1>2 DEF LBTake, PopHasItem, Popped
  <2>2. OneMore(LBs, Sending, Sending', l)
    BY <2>1, SendingStep
  <2>3. OneMore(LBs, Received, Received', l) /\ Dispatched' = Dispatched
    BY <2>1, CounterUp
  <2>4. OneMore(LBs, AtLB', AtLB, l)
    <3>1. lbQ \in [LBs -> Seq(Job)] /\ Head(lbQ[l]) \in Job
      BY <2>1 DEF TypeOK
    <3> QED BY <2>1, <3>1, QueueCount DEF AtLB
  <2>5. /\ Total(LBs, Sending') = Total(LBs, Sending) + 1
        /\ Total(LBs, Received') = Total(LBs, Received) + 1
        /\ Total(LBs, AtLB) = Total(LBs, AtLB') + 1
    BY <2>2, <2>3, <2>4, SumUp
  <2>6. UNCHANGED <<Processed, Forwarded, Rejected, AtFP, Busy, Passing, Written>>
    BY <2>1, TalliesStill
  <2>7. Total(LBs, AtLB') \in Nat
    <3>1. AtLB' \in [LBs -> Nat]
      BY <2>4 DEF OneMore
    <3> QED BY <3>1, FiniteThreads, TotalType
  <2>8. /\ Total(LBs, Received) \in Nat /\ Total(LBs, Dispatched) \in Nat
         /\ Total(LBs, AtLB) \in Nat /\ Total(LBs, Sending) \in Nat
    BY TotalsTyped
  <2>9. stats.total = Total(LBs, Received') + Total(LBs, AtLB')
                     + (IF rpc = "push" THEN 1 ELSE 0)
    BY <2>5, <2>7, <2>8 DEF CountInv
  <2>10. Total(LBs, Received') = Total(LBs, Dispatched) + Total(LBs, Sending')
    BY <2>5, <2>7, <2>8 DEF CountInv
  <2> QED BY <2>1, <2>3, <2>6, <2>9, <2>10 DEF CountInv
<1>3. CASE LBPush(l)
  <2>1. /\ UNCHANGED <<lbQ, fpStats, fpc, file, outQ, opc, rpc, stats>>
        /\ lpc[l] = "push" /\ lpc' = [lpc EXCEPT ![l] = "check"]
        /\ lbStats' = [lbStats EXCEPT ![l].dispatched = @ + 1]
    BY <1>3 DEF LBPush
  <2>2. PICK job \in lhand[l] :
          LET f == FpOf(l, SelectFP(job.tuple)) IN
            fpQ' = [fpQ EXCEPT ![f] = Pushed(fpQ[f], fpDown[f], job)]
    BY <1>3 DEF LBPush
  <2> DEFINE f == FpOf(l, SelectFP(job.tuple))
  <2>3. job \in Job /\ f \in FPs
    <3>1. job \in Job /\ job.tuple \in Tuples
      BY DEF TypeOK, Job
    <3> QED BY <3>1, PathsOfBalancer, SelectFPInRange
  <2>4. ~fpDown[f]
    BY <2>1, <2>3 DEF ShutdownInv, BalancersGone
  <2>5. fpQ' = [fpQ EXCEPT ![f] = Append(fpQ[f], job)]
    BY <2>2, <2>4 DEF Pushed
  <2> HIDE DEF f
  <2>6. OneMore(FPs, AtFP, AtFP', f)
    <3>1. fpQ \in [FPs -> Seq(Job)]
      BY DEF TypeOK
    <3> QED BY <2>3, <2>5, <3>1, QueueCount DEF AtFP
  <2>7. OneMore(LBs, Sending', Sending, l)
    BY <2>1, SendingStep
  <2>8. OneMore(LBs, Dispatched, Dispatched', l) /\ Received' = Received
    BY <2>1, CounterUp
  <2>9. /\ Total(LBs, Sending) = Total(LBs, Sending') + 1
        /\ Total(LBs, Dispatched') = Total(LBs, Dispatched) + 1
        /\ Total(FPs, AtFP') = Total(FPs, AtFP) + 1
    BY <2>3, <2>6, <2>7, <2>8, SumUp
  <2>10. Total(LBs, Sending') \in Nat
    <3>1. Sending' \in [LBs -> Nat]
      BY <2>7 DEF OneMore
    <3> QED BY <3>1, FiniteThreads, TotalType
  <2>11. UNCHANGED <<AtLB, Processed, Forwarded, Rejected, Busy, Passing, Written>>
    BY <2>1 DEF AtLB, Processed, Forwarded, Rejected, Busy, Passing, Written
  <2>12. /\ Total(LBs, Dispatched) \in Nat /\ Total(LBs, Sending) \in Nat
         /\ Total(FPs, Processed) \in Nat /\ Total(FPs, AtFP) \in Nat
    BY TotalsTyped
  <2>13. /\ Total(LBs, Received) = Total(LBs, Dispatched') + Total(LBs, Sending')
         /\ Total(LBs, Dispatched') = Total(FPs, Processed) + Total(FPs, AtFP')
    BY <2>9, <2>10, <2>12 DEF CountInv
  <2> QED BY <2>1, <2>8, <2>11, <2>13 DEF CountInv
<1> QED BY <1>1, <1>2, <1>3 DEF LBThread

\* A fast path counts a packet when it takes it; handleOutput counts the
\* verdict, and the path once more when the packet is out of its hands.
LEMMA CountFP ==
  ASSUME TypeOK, ShutdownInv, FlowInv, CountInv, NEW f \in FPs, FPThread(f)
  PROVE  CountInv'
<1> USE DEF mainVars, readerVars, lbVars, lbQueues, fpVars, fpQueues, outVars,
            outQueue, fates, counters
<1>s. stats \in StatsType
  BY DEF TypeOK, CountersOK
<1>1. CASE FPCheck(f) \/ FPTimeout(f)
  <2>1. UNCHANGED <<lbStats, lbQ, lpc, fpStats, fpQ, file, outQ, opc, rpc, stats>>
    BY <1>1 DEF FPCheck, FPTimeout
  <2>2. /\ fpc[f] \notin {"work", "push"}
        /\ \E v \in {"pop", "exited", "check"} : fpc' = [fpc EXCEPT ![f] = v]
    BY <1>1 DEF FPCheck, FPTimeout
  <2>3. UNCHANGED <<Busy, Passing>>
    BY <2>2, BusyStep
  <2>4. UNCHANGED <<Processed, Forwarded, Rejected, AtFP>>
    BY <2>1 DEF Processed, Forwarded, Rejected, AtFP
  <2> QED BY <2>1, <2>3, <2>4, TalliesStill, CountStill
<1>2. CASE FPTake(f)
  <2>1. /\ UNCHANGED <<lbStats, lbQ, lpc, file, outQ, opc, rpc, stats>>
        /\ fpc[f] = "pop" /\ fpc' = [fpc EXCEPT ![f] = "work"]
        /\ fpStats' = [fpStats EXCEPT ![f].processed = @ + 1]
        /\ fpQ[f] # << >> /\ fpQ' = [fpQ EXCEPT ![f] = Tail(fpQ[f])]
    BY <1>2 DEF FPTake, PopHasItem, Popped
  <2>2. OneMore(FPs, Busy, Busy', f) /\ Passing' = Passing
    BY <2>1, BusyStep
  <2>3. OneMore(FPs, Processed, Processed', f) /\ UNCHANGED <<Forwarded, Rejected>>
    BY <2>1, CounterUp
  <2>4. OneMore(FPs, AtFP', AtFP, f)
    <3>1. fpQ \in [FPs -> Seq(Job)] /\ Head(fpQ[f]) \in Job
      BY <2>1 DEF TypeOK
    <3> QED BY <2>1, <3>1, QueueCount DEF AtFP
  <2>5. /\ Total(FPs, Busy') = Total(FPs, Busy) + 1
        /\ Total(FPs, Processed') = Total(FPs, Processed) + 1
        /\ Total(FPs, AtFP) = Total(FPs, AtFP') + 1
    BY <2>2, <2>3, <2>4, SumUp
  <2>6. UNCHANGED <<Received, Dispatched, AtLB, Sending, Written>>
    BY <2>1, TalliesStill
  <2>7. Total(FPs, AtFP') \in Nat
    <3>1. AtFP' \in [FPs -> Nat]
      BY <2>4 DEF OneMore
    <3> QED BY <3>1, FiniteThreads, TotalType
  <2>8. /\ Total(FPs, Processed) \in Nat /\ Total(FPs, AtFP) \in Nat
        /\ Total(FPs, Forwarded) \in Nat /\ Total(FPs, Rejected) \in Nat
        /\ Total(FPs, Busy) \in Nat
    BY TotalsTyped
  <2>9. /\ Total(LBs, Dispatched) = Total(FPs, Processed') + Total(FPs, AtFP')
        /\ Total(FPs, Processed') = Total(FPs, Forwarded) + Total(FPs, Rejected)
                                      + Total(FPs, Busy')
    BY <2>5, <2>7, <2>8 DEF CountInv
  <2> QED BY <2>1, <2>2, <2>3, <2>6, <2>9 DEF CountInv
<1>3. CASE FPDrop(f)
  <2>1. /\ UNCHANGED <<lbStats, lbQ, lpc, fpQ, file, outQ, opc, rpc>>
        /\ fpc[f] = "work" /\ fpc' = [fpc EXCEPT ![f] = "check"]
        /\ fpStats' = [fpStats EXCEPT ![f].dropped = @ + 1]
        /\ stats' = [stats EXCEPT !.dropped = @ + 1]
    BY <1>3 DEF FPDrop
  <2>2. OneMore(FPs, Busy', Busy, f) /\ Passing' = Passing
    BY <2>1, BusyStep
  <2>3. OneMore(FPs, Rejected, Rejected', f) /\ UNCHANGED <<Processed, Forwarded>>
    BY <2>1, CounterUp
  <2>4. /\ Total(FPs, Busy) = Total(FPs, Busy') + 1
        /\ Total(FPs, Rejected') = Total(FPs, Rejected) + 1
    BY <2>2, <2>3, SumUp
  <2>5. UNCHANGED <<Received, Dispatched, AtLB, Sending, AtFP, Written>>
    BY <2>1, TalliesStill DEF AtFP
  <2>6. Total(FPs, Busy') \in Nat
    <3>1. Busy' \in [FPs -> Nat]
      BY <2>2 DEF OneMore
    <3> QED BY <3>1, FiniteThreads, TotalType
  <2>7. /\ stats'.total = stats.total /\ stats'.forwarded = stats.forwarded
        /\ stats'.dropped = stats.dropped + 1
    BY <2>1, <1>s DEF StatsType
  <2> QED BY <2>1, <2>2, <2>3, <2>4, <2>5, <2>6, <2>7, TotalsTyped DEF CountInv
<1>4. CASE FPForward(f)
  <2>1. /\ UNCHANGED <<lbStats, lbQ, lpc, fpStats, fpQ, file, outQ, opc, rpc>>
        /\ fpc[f] = "work" /\ fpc' = [fpc EXCEPT ![f] = "push"]
        /\ stats' = [stats EXCEPT !.forwarded = @ + 1]
    BY <1>4 DEF FPForward
  <2>2. Busy' = Busy /\ OneMore(FPs, Passing, Passing', f)
    BY <2>1, BusyStep
  <2>3. Total(FPs, Passing') = Total(FPs, Passing) + 1
    BY <2>2, SumUp
  <2>4. UNCHANGED <<Received, Dispatched, AtLB, Sending, Written>>
    BY <2>1, TalliesStill
  <2>5. UNCHANGED <<Processed, Forwarded, Rejected, AtFP>>
    BY <2>1 DEF Processed, Forwarded, Rejected, AtFP
  <2>6. /\ stats'.total = stats.total /\ stats'.dropped = stats.dropped
        /\ stats'.forwarded = stats.forwarded + 1
    BY <2>1, <1>s DEF StatsType
  <2> QED BY <2>1, <2>2, <2>3, <2>4, <2>5, <2>6, TotalsTyped DEF CountInv
<1>5. CASE FPPush(f)
  <2>1. /\ UNCHANGED <<lbStats, lbQ, lpc, fpQ, file, opc, rpc, stats>>
        /\ fpc[f] = "push" /\ fpc' = [fpc EXCEPT ![f] = "check"]
        /\ fpStats' = [fpStats EXCEPT ![f].forwarded = @ + 1]
    BY <1>5 DEF FPPush
  <2>2. PICK job \in fhand[f] : outQ' = Pushed(outQ, outDown, job)
    BY <1>5 DEF FPPush
  <2>3. ~outDown
    BY <2>1 DEF ShutdownInv, PathsGone, FPsDone
  <2>4. job \in Job /\ outQ \in Seq(Job)
    BY DEF TypeOK
  <2>5. Len(outQ) \in Nat /\ Len(outQ') = Len(outQ) + 1
    BY <2>2, <2>3, <2>4 DEF Pushed
  <2>6. OneMore(FPs, Busy', Busy, f) /\ OneMore(FPs, Passing', Passing, f)
    BY <2>1, BusyStep
  <2>7. OneMore(FPs, Forwarded, Forwarded', f) /\ UNCHANGED <<Processed, Rejected>>
    BY <2>1, CounterUp
  <2>8. /\ Total(FPs, Busy) = Total(FPs, Busy') + 1
        /\ Total(FPs, Passing) = Total(FPs, Passing') + 1
        /\ Total(FPs, Forwarded') = Total(FPs, Forwarded) + 1
    BY <2>6, <2>7, SumUp
  <2>9. UNCHANGED <<Received, Dispatched, AtLB, Sending, AtFP, Written>>
    BY <2>1, TalliesStill DEF AtFP
  <2>10. Total(FPs, Busy') \in Nat /\ Total(FPs, Passing') \in Nat
    <3>1. Busy' \in [FPs -> Nat] /\ Passing' \in [FPs -> Nat]
      BY <2>6 DEF OneMore
    <3> QED BY <3>1, FiniteThreads, TotalType
  <2>11. IsFiniteSet(Written) /\ Cardinality(Written) \in Nat
    BY FS_CardinalityType DEF CountInv
  <2>12. /\ Total(FPs, Forwarded) \in Nat /\ Total(FPs, Rejected) \in Nat
         /\ Total(FPs, Busy) \in Nat /\ Total(FPs, Passing) \in Nat
    BY TotalsTyped
  <2>13. /\ Total(FPs, Processed) = Total(FPs, Forwarded') + Total(FPs, Rejected)
                                      + Total(FPs, Busy')
         /\ stats.forwarded = Total(FPs, Forwarded') + Total(FPs, Passing')
    BY <2>8, <2>10, <2>12 DEF CountInv
  <2>14. Total(FPs, Forwarded') = Cardinality(Written) + Len(outQ')
                                    + (IF opc = "write" THEN 1 ELSE 0)
    BY <2>5, <2>8, <2>11, <2>12 DEF CountInv
  <2> QED BY <2>1, <2>7, <2>9, <2>13, <2>14 DEF CountInv
<1> QED BY <1>1, <1>2, <1>3, <1>4, <1>5 DEF FPThread

\* The output thread moves packets from its queue to the file.
LEMMA CountOutput ==
  ASSUME TypeOK, FlowInv, CountInv, Output
  PROVE  CountInv'
<1> USE DEF mainVars, readerVars, lbVars, lbQueues, fpVars, fpQueues, outVars,
            outQueue, fates, counters
<1>0. UNCHANGED <<Received, Dispatched, AtLB, Sending, Processed, Forwarded,
                  Rejected, AtFP, Busy, Passing, stats, rpc>>
  <2>1. UNCHANGED <<lbStats, lbQ, lpc, fpStats, fpQ, fpc, stats, rpc>>
    BY DEF Output, OutCheck, OutTake, OutTimeout, OutWrite
  <2> QED BY <2>1, TalliesStill
<1>t. /\ outQ \in Seq(Job) /\ Len(outQ) \in Nat /\ file \in Seq(Job \cup {Header})
      /\ ohand \in SUBSET Job
  BY DEF TypeOK
<1>c. IsFiniteSet(Written) /\ Cardinality(Written) \in Nat
  BY FS_CardinalityType DEF CountInv
<1>1. CASE OutCheck \/ OutTimeout
  <2>1. UNCHANGED <<file, outQ>> /\ opc # "write" /\ opc' # "write"
    BY <1>1 DEF OutCheck, OutTimeout
  <2> QED BY <1>0, <2>1, TalliesStill, CountStill
<1>2. CASE OutTake
  <2>1. /\ outQ # << >> /\ outQ' = Tail(outQ) /\ UNCHANGED file
        /\ opc # "write" /\ opc' = "write"
    BY <1>2 DEF OutTake, PopHasItem, Popped
  <2>2. Len(outQ) = Len(outQ') + 1 /\ Len(outQ') \in Nat
    BY <2>1, <1>t
  <2>3. UNCHANGED Written
    BY <2>1, TalliesStill
  <2> QED BY <1>0, <1>c, <2>1, <2>2, <2>3, TotalsTyped DEF CountInv
<1>3. CASE OutWrite
  <2>1. PICK job \in ohand : file' = Append(file, job)
    BY <1>3 DEF OutWrite, WriteOutputPacket
  <2>2. UNCHANGED outQ /\ opc = "write" /\ opc' # "write"
    BY <1>3 DEF OutWrite
  <2>3. job \in Job /\ job # Header /\ job.id \in Nat
    BY <1>t, HeaderAssumption DEF Job
  <2>4. job \notin Written
    <3>1. Precedes(Written, ohand)
      BY DEF FlowInv, Ordered, Staged, InOrder, Precedes
    <3> QED BY <2>3, <3>1 DEF Precedes
  <2>5. Range(file') = Range(file) \cup {job}
    BY <1>t, <2>1, <2>3, RangeAppend
  <2>6. Written' = Written \cup {job}
    BY <2>3, <2>5 DEF Written
  <2>7. IsFiniteSet(Written') /\ Cardinality(Written') = Cardinality(Written) + 1
    BY <1>c, <2>4, <2>6, FS_AddElement
  <2> QED BY <1>0, <1>c, <1>t, <2>2, <2>7, TotalsTyped DEF CountInv
<1> QED BY <1>1, <1>2, <1>3 DEF Output

\* The main thread counts nothing.
LEMMA CountMain ==
  ASSUME TypeOK, ShutdownInv, CountInv, Main
  PROVE  CountInv'
<1> USE DEF mainVars, readerVars, lbVars, lbQueues, fpVars, fpQueues, outVars,
            outQueue, fates, counters
<1>1. CASE ProcessFile
  <2>1. /\ UNCHANGED <<lbStats, lbQ, fpStats, fpQ, file, outQ, stats>>
        /\ main = "init" /\ rpc' = "open" /\ opc' = "check"
        /\ lpc' = [l \in LBs |-> "check"] /\ fpc' = [f \in FPs |-> "check"]
    BY <1>1 DEF ProcessFile, Start, StartLBs, StartFPs
  <2>2. /\ rpc = "idle" /\ opc = "idle" /\ \A l \in LBs : lpc[l] = "idle"
        /\ \A f \in FPs : fpc[f] = "idle"
    BY <2>1 DEF ShutdownInv, ReaderGone, BalancersGone, PathsGone
  <2>3. UNCHANGED <<Sending, Busy, Passing>>
    BY <2>1, <2>2 DEF Sending, Busy, Passing
  <2>4. UNCHANGED <<Received, Dispatched, AtLB, Processed, Forwarded, Rejected,
                    AtFP, Written>>
    BY <2>1 DEF Received, Dispatched, AtLB, Processed, Forwarded, Rejected, AtFP,
                Written
  <2> QED BY <2>1, <2>2, <2>3, <2>4, CountStill
<1>2. CASE ~ProcessFile
  <2>1. UNCHANGED <<lbStats, lbQ, lpc, fpStats, fpQ, fpc, stats, rpc, opc, file, outQ>>
    BY <1>2 DEF Main, ProcessFileFails, JoinReader, BeginStop, StopLB, JoinLB,
                StopFP, JoinFP, StopOut, JoinOut
  <2> QED BY <2>1, TalliesStill, CountStill
<1> QED BY <1>1, <1>2

\* Every step keeps the sums in balance.
LEMMA CountNext ==
  TypeOK /\ ShutdownInv /\ FlowInv /\ CountInv /\ [Next]_vars => CountInv'
<1> SUFFICES ASSUME TypeOK, ShutdownInv, FlowInv, CountInv, [Next]_vars
             PROVE  CountInv'
  OBVIOUS
<1>1. CASE UNCHANGED vars
  <2>1. UNCHANGED <<lbStats, lbQ, lpc, fpStats, fpQ, fpc, stats, rpc, opc, file, outQ>>
    BY <1>1 DEF vars, readerVars, lbVars, lbQueues, fpVars, fpQueues, outVars,
                outQueue, counters
  <2> QED BY <2>1, TalliesStill, CountStill
<1> QED BY <1>1, CountReader, CountLB, CountFP, CountOutput, CountMain DEF Next

\* The report of a finished run adds up: what a stage has not counted is in
\* the queue before it, every processed packet is forwarded or dropped, and the
\* forwarded ones are those in the file and those left in the output queue,
\* for any number of balancers and paths and whenever stop() came.
THEOREM ReportBalances == Spec => []ReportAddsUp
<1>1. TypeOK /\ CountInv /\ ShutdownInv => ReportAddsUp
  <2> SUFFICES ASSUME CountInv, ShutdownInv, TypeOK, main = "closed"
               PROVE  ReportAddsUp
    BY DEF ReportAddsUp
  <2>1. /\ rpc = "done" /\ opc = "exited" /\ \A l \in LBs : lpc[l] = "exited"
        /\ \A f \in FPs : fpc[f] = "exited"
    BY DEF ShutdownInv, ReaderGone, BalancersGone, PathsGone, Stopping, LBsDone,
           FPsDone
  <2>2. /\ \A l \in LBs : Sending[l] = 0
        /\ \A f \in FPs : Busy[f] = 0 /\ Passing[f] = 0
    BY <2>1 DEF Sending, Busy, Passing
  <2>3. Total(LBs, Sending) = 0 /\ Total(FPs, Busy) = 0 /\ Total(FPs, Passing) = 0
    BY <2>2, FiniteThreads, TotalZero
  <2>4. /\ TotalReceived = Total(LBs, Received)
        /\ TotalDispatched = Total(LBs, Dispatched)
        /\ SumOver(LBs, LAMBDA l : Len(lbQ[l])) = Total(LBs, AtLB)
    BY FoldIsTotal DEF TotalReceived, TotalDispatched, SumOver, Received, Dispatched,
                       AtLB, Lengths
  <2>5. /\ TotalProcessed = Total(FPs, Processed)
        /\ TotalForwarded = Total(FPs, Forwarded)
        /\ TotalDropped = Total(FPs, Rejected)
        /\ SumOver(FPs, LAMBDA f : Len(fpQ[f])) = Total(FPs, AtFP)
    BY FoldIsTotal DEF TotalProcessed, TotalForwarded, TotalDropped, SumOver,
                       Processed, Forwarded, Rejected, AtFP, Lengths
  <2>6. /\ Total(LBs, Received) \in Nat /\ Total(LBs, Dispatched) \in Nat
        /\ Total(LBs, AtLB) \in Nat
        /\ Total(FPs, Processed) \in Nat /\ Total(FPs, Forwarded) \in Nat
        /\ Total(FPs, Rejected) \in Nat /\ Total(FPs, AtFP) \in Nat
    BY TotalsTyped
  <2>7. Cardinality(Written) \in Nat /\ Len(outQ) \in Nat
    BY FS_CardinalityType DEF CountInv, TypeOK
  <2>8. /\ stats.total = Total(LBs, Received) + Total(LBs, AtLB)
        /\ Total(LBs, Dispatched) = Total(LBs, Received)
        /\ Total(FPs, Processed) + Total(FPs, AtFP) = Total(LBs, Dispatched)
        /\ stats.forwarded + stats.dropped = Total(FPs, Processed)
        /\ stats.forwarded = Total(FPs, Forwarded)
        /\ stats.dropped = Total(FPs, Rejected)
    BY <2>1, <2>3, <2>6 DEF CountInv
  <2>9. stats.forwarded = Cardinality(Written) + Len(outQ)
    BY <2>1, <2>7, <2>8 DEF CountInv
  <2> QED BY <2>4, <2>5, <2>8, <2>9 DEF ReportAddsUp
<1> QED BY <1>1, CountInit, CountNext, FlowSafe, ShutdownSafe, PTL DEF Spec
=============================================================================
