------------------------- MODULE RuleManagerProofs --------------------------
(***************************************************************************)
(* Proofs about RuleManager, for any number of admins and fast paths and   *)
(* any rules, queries and rule files made of what Name and Line describe:  *)
(* types, lookups, saves and loads.                                        *)
(*                                                                         *)
(* First what the operators compute: the elements of a sequence, what Only *)
(* leaves of one, addresses and names as text, what a test of shouldBlock  *)
(* finds, what a line and a file say.  Then four inductive invariants: the *)
(* types with the finiteness of the rules, the histories of lookups and of *)
(* saves, what an undisturbed load has done so far, and which file is on   *)
(* the disk.                                                               *)
(***************************************************************************)
EXTENDS RuleManager, FiniteSetTheorems, SequenceTheorems, NaturalsInduction,
        WellFoundedInduction, TLAPS

-----------------------------------------------------------------------------
(* The elements of a sequence *)

\* The empty sequence has no elements.
LEMMA ToSetEmpty == ToSet(<< >>) = {}
<1>1. DOMAIN << >> = {}
  OBVIOUS
<1> QED BY <1>1 DEF ToSet

\* The elements of a sequence, by their places.
LEMMA ToSetOf ==
  ASSUME NEW A, NEW s \in Seq(A)
  PROVE  /\ \A x : x \in ToSet(s) <=> \E i \in 1 .. Len(s) : s[i] = x
         /\ ToSet(s) \subseteq A
<1>1. DOMAIN s = 1 .. Len(s) /\ \A i \in 1 .. Len(s) : s[i] \in A
  OBVIOUS
<1> QED BY <1>1 DEF ToSet

\* A sequence over a set is one over a larger set.
LEMMA SeqWider ==
  ASSUME NEW A, NEW B, A \subseteq B, NEW s \in Seq(A)
  PROVE  s \in Seq(B)
OBVIOUS

\* A sequence without elements is empty.
LEMMA ToSetNothing ==
  ASSUME NEW A, NEW s \in Seq(A), ToSet(s) = {}
  PROVE  s = << >>
<1>1. Len(s) \in Nat /\ \A i \in 1 .. Len(s) : FALSE
  BY ToSetOf
<1>2. Len(s) = 0
  BY <1>1
<1> QED BY <1>2

\* The elements of two sequences, one behind the other.
LEMMA ToSetConcat ==
  ASSUME NEW A, NEW s \in Seq(A), NEW t \in Seq(A)
  PROVE  ToSet(s \o t) = ToSet(s) \cup ToSet(t)
<1> DEFINE u == s \o t
<1>1. /\ u \in Seq(A) /\ Len(u) = Len(s) + Len(t) /\ Len(s) \in Nat /\ Len(t) \in Nat
      /\ \A i \in 1 .. Len(s) : u[i] = s[i]
      /\ \A i \in 1 .. Len(t) : u[Len(s) + i] = t[i]
  OBVIOUS
<1> HIDE DEF u
<1>2. ASSUME NEW x \in ToSet(u) PROVE x \in ToSet(s) \cup ToSet(t)
  <2>1. PICK i \in 1 .. Len(u) : u[i] = x
    BY <1>1, ToSetOf
  <2>2. CASE i <= Len(s)
    <3>1. i \in 1 .. Len(s)
      BY <1>1, <2>2
    <3> QED BY <1>1, <2>1, <3>1, ToSetOf
  <2>3. CASE ~(i <= Len(s))
    <3>1. i - Len(s) \in 1 .. Len(t) /\ Len(s) + (i - Len(s)) = i
      BY <1>1, <2>3
    <3>2. t[i - Len(s)] = x
      BY <1>1, <2>1, <3>1
    <3> QED BY <3>1, <3>2, ToSetOf
  <2> QED BY <2>2, <2>3
<1>3. ASSUME NEW x \in ToSet(s) PROVE x \in ToSet(u)
  <2>1. PICK i \in 1 .. Len(s) : s[i] = x
    BY ToSetOf
  <2>2. i \in 1 .. Len(u) /\ u[i] = x
    BY <1>1, <2>1
  <2> QED BY <1>1, <2>2, ToSetOf
<1>4. ASSUME NEW x \in ToSet(t) PROVE x \in ToSet(u)
  <2>1. PICK i \in 1 .. Len(t) : t[i] = x
    BY ToSetOf
  <2>2. Len(s) + i \in 1 .. Len(u) /\ u[Len(s) + i] = x
    BY <1>1, <2>1
  <2> QED BY <1>1, <2>2, ToSetOf
<1> QED BY <1>2, <1>3, <1>4 DEF u

AppendBehind(s, t, e) == Append(s \o t, e) = s \o Append(t, e)

\* An element behind two sequences is one behind the second.
LEMMA AppendConcat ==
  ASSUME NEW A, NEW s \in Seq(A), NEW t \in Seq(A), NEW e \in A
  PROVE  AppendBehind(s, t, e)
<1>1. s \o t \in Seq(A) /\ <<e>> \in Seq(A)
  OBVIOUS
<1>2. Append(s \o t, e) = (s \o t) \o <<e>> /\ Append(t, e) = t \o <<e>>
  BY <1>1, AppendIsConcat
<1>3. (s \o t) \o <<e>> = s \o (t \o <<e>>)
  BY <1>1, ConcatAssociative
<1> QED BY <1>2, <1>3 DEF AppendBehind

\* One element more.
LEMMA ToSetAppend ==
  ASSUME NEW A, NEW s \in Seq(A), NEW e \in A
  PROVE  ToSet(Append(s, e)) = ToSet(s) \cup {e}
<1>1. <<e>> \in Seq(A) /\ Append(s, e) = s \o <<e>>
  BY AppendIsConcat
<1>2. ToSet(<<e>>) = {e}
  <2>1. DOMAIN <<e>> = {1} /\ <<e>>[1] = e
    OBVIOUS
  <2> QED BY <2>1 DEF ToSet
<1>3. ToSet(s \o <<e>>) = ToSet(s) \cup ToSet(<<e>>)
  BY <1>1, ToSetConcat
<1> QED BY <1>1, <1>2, <1>3

-----------------------------------------------------------------------------
(* What Only leaves of a sequence *)

\* The function Only is defined by: what is left of every prefix.
Leaves(s, S, left, m) ==
  left = [n \in 0 .. m |->
            IF n = 0 THEN << >>
            ELSE IF s[n] \in S THEN Append(left[n - 1], s[n]) ELSE left[n - 1]]

\* A set of numbers that is not empty has a least one.
LEMMA LeastOf ==
  ASSUME NEW M, M \subseteq Nat, M # {}
  PROVE  \E m \in M : \A k \in M : m <= k
<1>1. PICK m \in M : \A k \in M : ~(<<k, m>> \in OpToRel(<, Nat))
  BY WFMin, NatLessThanWellFounded
<1>2. \A k \in M : ~(k < m)
  BY <1>1 DEF OpToRel
<1>3. ASSUME NEW k \in M PROVE m <= k
  <2>1. k \in Nat /\ m \in Nat /\ ~(k < m)
    BY <1>1, <1>2
  <2> QED BY <2>1
<1> QED BY <1>1, <1>3

\* There is such a function, for every number of elements.
LEMMA LeavesExist ==
  ASSUME NEW s, NEW S, NEW m \in Nat
  PROVE  \E left : Leaves(s, S, left, m)
<1> DEFINE Without == {k \in Nat : ~\E left : Leaves(s, S, left, k)}
<1> SUFFICES ASSUME Without # {} PROVE FALSE
  OBVIOUS
<1>1. PICK k \in Without : \A j \in Without : k <= j
  BY LeastOf
<1>2. k \in Nat /\ ~\E left : Leaves(s, S, left, k)
  BY <1>1
<1>3. CASE k = 0
  <2>1. Leaves(s, S, [n \in 0 .. 0 |-> << >>], 0)
    BY DEF Leaves
  <2> QED BY <1>2, <1>3, <2>1
<1>4. CASE k # 0
  <2>1. k - 1 \in Nat /\ k - 1 \notin Without
    BY <1>1, <1>2, <1>4
  <2>2. PICK old : Leaves(s, S, old, k - 1)
    BY <2>1
  <2> DEFINE new == [n \in 0 .. k |->
                       IF n = k
                       THEN IF s[k] \in S THEN Append(old[k - 1], s[k]) ELSE old[k - 1]
                       ELSE old[n]]
  <2>3. \A n \in 0 .. k : n # k => n \in 0 .. k - 1
    BY <1>2
  <2>4. \A n \in 0 .. k : n # 0 => /\ n - 1 \in 0 .. k /\ n - 1 # k
                                   /\ new[n - 1] = old[n - 1]
    BY <1>2
  <2>5. \A n \in 0 .. k - 1 :
          old[n] = IF n = 0 THEN << >>
                   ELSE IF s[n] \in S THEN Append(old[n - 1], s[n]) ELSE old[n - 1]
    BY <2>2 DEF Leaves
  <2>6. \A n \in 0 .. k :
          new[n] = IF n = 0 THEN << >>
                   ELSE IF s[n] \in S THEN Append(new[n - 1], s[n]) ELSE new[n - 1]
    <3> SUFFICES ASSUME NEW n \in 0 .. k
                 PROVE  new[n] = IF n = 0 THEN << >>
                                 ELSE IF s[n] \in S THEN Append(new[n - 1], s[n])
                                                    ELSE new[n - 1]
      OBVIOUS
    <3>1. CASE n = k
      BY <1>4, <2>4, <3>1
    <3>2. CASE n # k
      <4>1. new[n] = old[n] /\ n \in 0 .. k - 1
        BY <2>3, <3>2
      <4>2. n # 0 => new[n - 1] = old[n - 1]
        BY <2>4
      <4> HIDE DEF new
      <4> QED BY <2>5, <4>1, <4>2
    <3> QED BY <3>1, <3>2
  <2>7. new = [n \in 0 .. k |-> new[n]]
    OBVIOUS
  <2> HIDE DEF new
  <2>8. Leaves(s, S, new, k)
    BY <2>6, <2>7 DEF Leaves
  <2> QED BY <1>2, <2>8
<1> QED BY <1>3, <1>4

\* Only is the last of them.
LEMMA OnlyLeaves ==
  ASSUME NEW s, NEW S, Len(s) \in Nat
  PROVE  \E left : Leaves(s, S, left, Len(s)) /\ Only(s, S) = left[Len(s)]
<1> DEFINE left == CHOOSE f : Leaves(s, S, f, Len(s))
<1>1. Leaves(s, S, left, Len(s))
  BY LeavesExist
<1>2. Only(s, S) = left[Len(s)]
  BY DEF Only, Leaves
<1> QED BY <1>1, <1>2

\* Its steps.
LEMMA LeavesStep ==
  ASSUME NEW s, NEW S, NEW left, NEW m \in Nat, Leaves(s, S, left, m)
  PROVE  /\ left[0] = << >>
         /\ \A n \in 1 .. m :
              left[n] = IF s[n] \in S THEN Append(left[n - 1], s[n]) ELSE left[n - 1]
<1>1. \A n \in 0 .. m :
        left[n] = IF n = 0 THEN << >>
                  ELSE IF s[n] \in S THEN Append(left[n - 1], s[n]) ELSE left[n - 1]
  BY DEF Leaves
<1>2. 0 \in 0 .. m /\ \A n \in 1 .. m : n \in 0 .. m /\ n # 0
  OBVIOUS
<1> QED BY <1>1, <1>2

\* o is what is left of the first m elements: those that are in S.
LeftOf(A, s, S, m, o) ==
  o \in Seq(A \cap S) /\ ToSet(o) = {s[i] : i \in 1 .. m} \cap S

\* That is what the function has for every prefix.
LEMMA LeavesType ==
  ASSUME NEW A, NEW s \in Seq(A), NEW S, NEW left, NEW m \in 0 .. Len(s),
         Leaves(s, S, left, Len(s))
  PROVE  LeftOf(A, s, S, m, left[m])
<1> USE DEF LeftOf
<1> DEFINE P(n) == LeftOf(A, s, S, n, left[n])
           Bad == {n \in 0 .. Len(s) : ~P(n)}
<1>1. Len(s) \in Nat /\ \A n \in 1 .. Len(s) : s[n] \in A
  OBVIOUS
<1>2. P(0)
  <2>1. left[0] = << >>
    BY <1>1, LeavesStep
  <2>2. << >> \in Seq(A \cap S) /\ \A i \in 1 .. 0 : FALSE
    OBVIOUS
  <2> QED BY <2>1, <2>2, ToSetEmpty
<1>3. ASSUME NEW n \in 1 .. Len(s), P(n - 1) PROVE P(n)
  <2>1. n - 1 \in Nat /\ \A i : i \in 1 .. n <=> i \in 1 .. n - 1 \/ i = n
    BY <1>1
  <2>2. CASE s[n] \in S
    <3>1. left[n] = Append(left[n - 1], s[n])
      BY <1>1, <2>2, LeavesStep
    <3> DEFINE o == left[n - 1]
               e == s[n]
    <3>2. o \in Seq(A \cap S) /\ e \in A \cap S
      BY <1>1, <1>3, <2>2
    <3> HIDE DEF o, e
    <3>3. Append(o, e) \in Seq(A \cap S)
      BY <3>2
    <3>4. ToSet(Append(o, e)) = ToSet(o) \cup {e}
      BY <3>2, ToSetAppend
    <3> QED BY <1>3, <2>1, <2>2, <3>1, <3>3, <3>4 DEF o, e
  <2>3. CASE s[n] \notin S
    <3>1. left[n] = left[n - 1]
      BY <1>1, <2>3, LeavesStep
    <3> QED BY <1>3, <2>1, <2>3, <3>1
  <2> QED BY <2>2, <2>3
<1> SUFFICES ASSUME Bad # {} PROVE FALSE
  OBVIOUS
<1> HIDE DEF P
<1>4. Bad \subseteq Nat
  BY <1>1
<1>5. PICK n \in Bad : \A k \in Bad : n <= k
  <2> HIDE DEF Bad
  <2> QED BY <1>4, LeastOf
<1>6. n \in 1 .. Len(s) /\ n - 1 \in 0 .. Len(s) /\ ~P(n)
  BY <1>1, <1>2, <1>5
<1>7. n - 1 \notin Bad
  BY <1>1, <1>5, <1>6
<1> QED BY <1>3, <1>6, <1>7

\* Only leaves a sequence of the elements that are in S.
LEMMA OnlyType ==
  ASSUME NEW A, NEW s \in Seq(A), NEW S
  PROVE  Only(s, S) \in Seq(A \cap S) /\ ToSet(Only(s, S)) = ToSet(s) \cap S
<1>1. Len(s) \in Nat /\ Len(s) \in 0 .. Len(s) /\ DOMAIN s = 1 .. Len(s)
  OBVIOUS
<1>2. PICK left : Leaves(s, S, left, Len(s)) /\ Only(s, S) = left[Len(s)]
  BY <1>1, OnlyLeaves
<1>3. ASSUME NEW m \in 0 .. Len(s)
      PROVE  LeftOf(A, s, S, m, left[m])
  BY <1>2, LeavesType
<1>4. ToSet(s) = {s[i] : i \in 1 .. Len(s)}
  BY <1>1 DEF ToSet
<1> QED BY <1>1, <1>2, <1>3, <1>4 DEF LeftOf

\* Where nothing is in S nothing is left.
LEMMA OnlyNone ==
  ASSUME NEW A, NEW s \in Seq(A), NEW S, \A i \in DOMAIN s : s[i] \notin S
  PROVE  Only(s, S) = << >>
<1>1. ToSet(s) \cap S = {}
  BY DEF ToSet
<1>2. Only(s, S) \in Seq(A \cap S) /\ ToSet(Only(s, S)) = {}
  BY <1>1, OnlyType
<1> QED BY <1>2, ToSetNothing

\* u is s and then t.
Joined(s, t, u) == /\ Len(u) = Len(s) + Len(t)
                   /\ \A n \in 1 .. Len(s) : u[n] = s[n]
                   /\ \A n \in 1 .. Len(t) : u[Len(s) + n] = t[n]

Concat(x, y, z) == z = x \o y

\* Of two sequences, one behind the other, is left what is left of each.
LEMMA LeavesConcat ==
  ASSUME NEW A, NEW s \in Seq(A), NEW t \in Seq(A), NEW u, NEW S,
         NEW left, NEW right, NEW both,
         Leaves(s, S, left, Len(s)), Leaves(t, S, right, Len(t)),
         Leaves(u, S, both, Len(u)), Joined(s, t, u)
  PROVE  Concat(left[Len(s)], right[Len(t)], both[Len(u)])
<1> DEFINE a == Len(s)
           b == Len(t)
           l == left[a]
           P(n) == both[n] = left[n]
           Q(n) == both[a + n] = l \o right[n]
           BadP == {n \in 0 .. a : ~P(n)}
           BadQ == {n \in 0 .. b : ~Q(n)}
<1>1. /\ a \in Nat /\ b \in Nat /\ Len(u) = a + b
      /\ \A n \in 1 .. a : u[n] = s[n]
      /\ \A n \in 1 .. b : u[a + n] = t[n]
  BY DEF Joined
<1>2. ASSUME NEW n \in 0 .. a PROVE left[n] \in Seq(A)
  <2>1. LeftOf(A, s, S, n, left[n])
    BY LeavesType
  <2> QED BY <2>1 DEF LeftOf
<1>3. ASSUME NEW n \in 0 .. b PROVE right[n] \in Seq(A)
  <2>1. LeftOf(A, t, S, n, right[n])
    BY LeavesType
  <2> QED BY <2>1 DEF LeftOf
<1>4. /\ left[0] = << >> /\ right[0] = << >> /\ both[0] = << >>
      /\ \A n \in 1 .. a :
           left[n] = IF s[n] \in S THEN Append(left[n - 1], s[n]) ELSE left[n - 1]
      /\ \A n \in 1 .. b :
           right[n] = IF t[n] \in S THEN Append(right[n - 1], t[n]) ELSE right[n - 1]
      /\ \A n \in 1 .. a + b :
           both[n] = IF u[n] \in S THEN Append(both[n - 1], u[n])
                                          ELSE both[n - 1]
  <2>1. a + b \in Nat /\ Leaves(u, S, both, a + b)
    BY <1>1
  <2>2. /\ left[0] = << >>
        /\ \A n \in 1 .. a :
             left[n] = IF s[n] \in S THEN Append(left[n - 1], s[n]) ELSE left[n - 1]
    BY <1>1, LeavesStep
  <2>3. /\ right[0] = << >>
        /\ \A n \in 1 .. b :
             right[n] = IF t[n] \in S THEN Append(right[n - 1], t[n]) ELSE right[n - 1]
    BY <1>1, LeavesStep
  <2>4. /\ both[0] = << >>
        /\ \A n \in 1 .. a + b :
             both[n] = IF u[n] \in S THEN Append(both[n - 1], u[n])
                                            ELSE both[n - 1]
    BY <2>1, LeavesStep
  <2> QED BY <2>2, <2>3, <2>4
<1>5. ASSUME NEW n \in 1 .. a, P(n - 1) PROVE P(n)
  <2>1. n \in 1 .. a + b /\ u[n] = s[n]
    BY <1>1
  <2> QED BY <1>4, <1>5, <2>1
<1>6. P(a)
  <2> SUFFICES ASSUME BadP # {} PROVE FALSE
    BY <1>1
  <2>1. P(0)
    BY <1>4
  <2> HIDE DEF P
  <2>2. PICK n \in BadP : \A k \in BadP : n <= k
    <3>1. BadP \subseteq Nat
      BY <1>1
    <3> HIDE DEF BadP
    <3> QED BY <3>1, LeastOf
  <2>3. n \in 1 .. a /\ n - 1 \in 0 .. a /\ ~P(n)
    BY <1>1, <2>1, <2>2
  <2>4. n - 1 \notin BadP
    BY <1>1, <2>2, <2>3
  <2> QED BY <1>5, <2>3, <2>4
<1>7. l \in Seq(A)
  BY <1>1, <1>2
<1>8. Q(0)
  BY <1>1, <1>4, <1>6, <1>7
<1>9. ASSUME NEW n \in 1 .. b, Q(n - 1) PROVE Q(n)
  <2>1. /\ a + n \in 1 .. a + b /\ u[a + n] = t[n] /\ (a + n) - 1 = a + (n - 1)
        /\ n - 1 \in 0 .. b
    BY <1>1
  <2>2. both[a + n] = IF t[n] \in S THEN Append(both[a + (n - 1)], t[n])
                                    ELSE both[a + (n - 1)]
    BY <1>4, <2>1
  <2>3. right[n] = IF t[n] \in S THEN Append(right[n - 1], t[n]) ELSE right[n - 1]
    BY <1>4
  <2> DEFINE r == right[n - 1]
             e == t[n]
  <2>4. r \in Seq(A) /\ e \in A
    BY <1>1, <1>3, <2>1
  <2> HIDE DEF l, r, e
  <2>5. Append(l \o r, e) = l \o Append(r, e)
    <3>1. AppendBehind(l, r, e)
      BY <1>7, <2>4, AppendConcat
    <3> QED BY <3>1 DEF AppendBehind
  <2>6. both[a + (n - 1)] = l \o r
    BY <1>9 DEF r
  <2> QED BY <2>2, <2>3, <2>5, <2>6 DEF r, e
<1> HIDE DEF Q
<1>10. Q(b)
  <2> SUFFICES ASSUME BadQ # {} PROVE FALSE
    BY <1>1
  <2>1. PICK n \in BadQ : \A k \in BadQ : n <= k
    <3>1. BadQ \subseteq Nat
      BY <1>1
    <3> HIDE DEF BadQ
    <3> QED BY <3>1, LeastOf
  <2>2. n \in 1 .. b /\ n - 1 \in 0 .. b /\ ~Q(n)
    BY <1>1, <1>8, <2>1
  <2>3. n - 1 \notin BadQ
    BY <1>1, <2>1, <2>2
  <2> QED BY <1>9, <2>2, <2>3
<1> QED BY <1>1, <1>10 DEF Q, Concat

\* Only distributes over concatenation.
LEMMA OnlyConcat ==
  ASSUME NEW A, NEW s \in Seq(A), NEW t \in Seq(A), NEW S
  PROVE  Only(s \o t, S) = Only(s, S) \o Only(t, S)
<1>1. Len(s) \in Nat /\ Len(t) \in Nat /\ Len(s \o t) \in Nat
  OBVIOUS
<1>2. PICK left : Leaves(s, S, left, Len(s)) /\ Only(s, S) = left[Len(s)]
  BY <1>1, OnlyLeaves
<1>3. PICK right : Leaves(t, S, right, Len(t)) /\ Only(t, S) = right[Len(t)]
  BY <1>1, OnlyLeaves
<1>4. PICK both : Leaves(s \o t, S, both, Len(s \o t)) /\ Only(s \o t, S) = both[Len(s \o t)]
  BY <1>1, OnlyLeaves
<1>5. Concat(left[Len(s)], right[Len(t)], both[Len(s \o t)])
  <2>1. /\ Leaves(s, S, left, Len(s)) /\ Leaves(t, S, right, Len(t))
        /\ Leaves(s \o t, S, both, Len(s \o t))
    BY <1>2, <1>3, <1>4
  <2>2. Joined(s, t, s \o t)
    BY DEF Joined
  <2> QED BY <2>1, <2>2, LeavesConcat
<1> QED BY <1>2, <1>3, <1>4, <1>5 DEF Concat

\* One element.
LEMMA OnlyOne ==
  ASSUME NEW A, NEW x \in A, NEW S
  PROVE  Only(<<x>>, S) = IF x \in S THEN <<x>> ELSE << >>
<1>1. Len(<<x>>) = 1 /\ <<x>> \in Seq(A) /\ <<x>>[1] = x
  OBVIOUS
<1>2. PICK left : Leaves(<<x>>, S, left, 1) /\ Only(<<x>>, S) = left[1]
  BY <1>1, OnlyLeaves
<1>3. left[0] = << >> /\ left[1] = IF x \in S THEN Append(left[0], x) ELSE left[0]
  BY <1>1, <1>2, LeavesStep
<1> QED BY <1>2, <1>3

-----------------------------------------------------------------------------
(* Addresses and names *)

\* Four bytes as an integer.
Quad(x, y, z, u) == x + 256 * (y + 256 * (z + 256 * u))

\* Four bytes make an address.
LEMMA QuadType ==
  ASSUME NEW x \in ByteValues, NEW y \in ByteValues, NEW z \in ByteValues,
         NEW u \in ByteValues
  PROVE  Quad(x, y, z, u) \in Addresses
<1> DEFINE low == x + 256 * y + 65536 * z
           v == Quad(x, y, z, u)
<1>1. /\ x \in Nat /\ x <= 255 /\ y \in Nat /\ y <= 255 /\ z \in Nat /\ z <= 255
      /\ u \in Nat /\ u < 256
  BY SMT DEF ByteValues
<1>2. low \in Nat /\ low <= 255 + 256 * 255 + 65536 * 255
  BY <1>1, SMT
<1>3. v = low + 16777216 * u
  BY <1>1, SMT DEF Quad
<1> HIDE DEF low, v
<1>4. low < 16777216
  BY <1>2, SMT
<1>5. v \in Nat /\ v \div 16777216 = u
  BY <1>1, <1>2, <1>3, <1>4, SMT
<1>6. v \in Addresses
  BY <1>1, <1>5, SMT DEF Addresses
<1> QED BY <1>6 DEF v

\* What parseIP makes of up to four octets is an address.
LEMMA ParseIPType ==
  ASSUME NEW o \in Octets
  PROVE  ParseIP(o) \in Addresses
<1> DEFINE b == [i \in 1 .. 4 |-> IF i <= Len(o) THEN o[i] ELSE 0]
<1>1. ASSUME NEW i \in 1 .. 4 PROVE b[i] \in ByteValues
  <2>1. o \in Seq(ByteValues) /\ 0 \in ByteValues
    BY DEF Octets, ByteValues
  <2>2. i <= Len(o) => o[i] \in ByteValues
    BY <2>1
  <2> QED BY <2>1, <2>2
<1>2. ParseIP(o) = Quad(b[1], b[2], b[3], b[4])
  BY DEF ParseIP, Host32, Quad
<1> HIDE DEF b
<1>3. /\ b[1] \in ByteValues /\ b[2] \in ByteValues
      /\ b[3] \in ByteValues /\ b[4] \in ByteValues
  BY <1>1
<1> QED BY <1>2, <1>3, QuadType

\* A number by its quotient and remainder.
LEMMA Quotients ==
  ASSUME NEW v \in Nat
  PROVE  /\ v \div 256 \in Nat /\ v % 256 \in 0 .. 255
         /\ v = 256 * (v \div 256) + (v % 256)
<1>1. v \div 256 \in Nat
  BY SMT
<1>2. v % 256 \in 0 .. 255
  BY SMT
<1>3. v = 256 * (v \div 256) + (v % 256)
  BY Z3
<1> QED BY <1>1, <1>2, <1>3

\* An address written by ipToString and read by parseIP is the same.
LEMMA AddressBack ==
  ASSUME NEW ip \in Addresses
  PROVE  IpToString(ip) \in Octets /\ ParseIP(IpToString(ip)) = ip
<1> DEFINE q1 == ip \div 256
           q2 == ip \div 65536
           q3 == ip \div 16777216
<1>1. ip \in Nat /\ q3 < 256
  BY SMT DEF Addresses
<1>2. q1 \in Nat /\ ip % 256 \in 0 .. 255 /\ ip = 256 * q1 + (ip % 256)
  BY <1>1, Quotients
<1>3. q2 = q1 \div 256
  BY <1>1, SMT
<1>4. q3 = q2 \div 256
  BY <1>1, SMT
<1>5. BytesOf(ip) = <<ip % 256, q1 % 256, q2 % 256, q3 % 256>>
  BY SMT DEF BytesOf
<1> HIDE DEF q1, q2, q3
<1>6. q2 \in Nat /\ q1 % 256 \in 0 .. 255 /\ q1 = 256 * q2 + (q1 % 256)
  BY <1>2, <1>3, Quotients, SMT
<1>7. q3 \in Nat /\ q2 % 256 \in 0 .. 255 /\ q2 = 256 * q3 + (q2 % 256)
  BY <1>4, <1>6, Quotients, SMT
<1>8. q3 % 256 = q3 /\ q3 \in 0 .. 255
  BY <1>1, <1>7, SMT
<1>9. BytesOf(ip) \in Seq(ByteValues) /\ Len(BytesOf(ip)) = 4
  BY <1>2, <1>5, <1>6, <1>7, <1>8, SMT DEF ByteValues
<1>10. Host32(BytesOf(ip)) = (ip % 256) + 256 * ((q1 % 256) + 256 * ((q2 % 256) + 256 * q3))
  BY <1>5, <1>8, SMT DEF Host32
<1>11. Host32(BytesOf(ip)) = ip
  <2> DEFINE r0 == ip % 256
             r1 == q1 % 256
             r2 == q2 % 256
  <2> HIDE DEF r0, r1, r2
  <2>1. r0 \in Nat /\ r1 \in Nat /\ r2 \in Nat
    BY <1>2, <1>6, <1>7, SMT DEF r0, r1, r2
  <2>2. /\ ip = 256 * q1 + r0 /\ q1 = 256 * q2 + r1 /\ q2 = 256 * q3 + r2
        /\ Host32(BytesOf(ip)) = r0 + 256 * (r1 + 256 * (r2 + 256 * q3))
    BY <1>2, <1>6, <1>7, <1>10 DEF r0, r1, r2
  <2> QED BY <1>7, <2>1, <2>2, SMT
<1>12. ParseIP(BytesOf(ip)) = Host32(BytesOf(ip))
  <2> DEFINE o == BytesOf(ip)
             b == [i \in 1 .. 4 |-> IF i <= Len(o) THEN o[i] ELSE 0]
  <2>1. b[1] = o[1] /\ b[2] = o[2] /\ b[3] = o[3] /\ b[4] = o[4]
    BY <1>9
  <2>2. ParseIP(o) = Host32(b)
    BY DEF ParseIP
  <2> HIDE DEF o, b
  <2>3. Host32(b) = Host32(o)
    BY <2>1 DEF Host32
  <2> QED BY <2>2, <2>3 DEF o
<1> QED BY <1>9, <1>11, <1>12 DEF IpToString, Octets

\* The least of some places of a sequence is one of them.
LEMMA FirstPlace ==
  ASSUME NEW len \in Nat, NEW I, I \subseteq 1 .. len, I # {}
  PROVE  Min(I) \in I /\ Min(I) \in 1 .. len
<1>1. I \subseteq Nat
  OBVIOUS
<1>2. \E m \in I : \A k \in I : m <= k
  BY <1>1, LeastOf
<1>3. Min(I) \in I
  BY <1>2 DEF Min
<1> QED BY <1>3

\* What is left of a name at its first space is the name or a beginning of it.
LEMMA UpToSpacePrefix ==
  ASSUME NEW n \in Seq(Letters)
  PROVE  \E k \in 0 .. Len(n) : UpToSpace(n) = SubSeq(n, 1, k)
<1> DEFINE I == {i \in 1 .. Len(n) : n[i] = Space}
<1>1. Len(n) \in Nat /\ SubSeq(n, 1, Len(n)) = n
  OBVIOUS
<1>2. CASE I = {}
  <2>1. UpToSpace(n) = n
    BY <1>2 DEF UpToSpace, SelectInSeq
  <2>2. UpToSpace(n) = SubSeq(n, 1, Len(n)) /\ Len(n) \in 0 .. Len(n)
    BY <1>1, <2>1
  <2> QED BY <2>2
<1>3. CASE I # {}
  <2>1. UpToSpace(n) = IF Min(I) = 0 THEN n ELSE SubSeq(n, 1, Min(I) - 1)
    BY <1>3 DEF UpToSpace, SelectInSeq
  <2>2. I \subseteq 1 .. Len(n)
    OBVIOUS
  <2> HIDE DEF I
  <2>3. Min(I) \in 1 .. Len(n)
    BY <1>1, <1>3, <2>2, FirstPlace
  <2>4. Min(I) - 1 \in 0 .. Len(n) /\ Min(I) # 0
    BY <1>1, <2>3
  <2>5. UpToSpace(n) = SubSeq(n, 1, Min(I) - 1)
    BY <2>1, <2>4
  <2> QED BY <2>4, <2>5
<1> QED BY <1>2, <1>3

\* The first word of a name is empty, or what is up to the first space of an end
\* of the name.
LEMMA FirstWordOf ==
  ASSUME NEW n \in Seq(Letters)
  PROVE  \/ FirstWord(n) = << >>
         \/ \E i \in 1 .. Len(n) : FirstWord(n) = UpToSpace(SubSeq(n, i, Len(n)))
<1> DEFINE I == {i \in 1 .. Len(n) : n[i] # Space}
<1>1. Len(n) \in Nat
  OBVIOUS
<1>2. CASE I = {}
  BY <1>2 DEF FirstWord, SelectInSeq
<1>3. CASE I # {}
  <2>1. FirstWord(n) = IF Min(I) = 0 THEN << >> ELSE UpToSpace(SubSeq(n, Min(I), Len(n)))
    BY <1>3 DEF FirstWord, SelectInSeq
  <2>2. I \subseteq 1 .. Len(n)
    OBVIOUS
  <2> HIDE DEF I
  <2>3. Min(I) \in 1 .. Len(n)
    BY <1>1, <1>3, <2>2, FirstPlace
  <2> QED BY <2>1, <2>3
<1> QED BY <1>2, <1>3

\* So it is a name too, with a star only where the name has one.
LEMMA FirstWordType ==
  ASSUME NEW n \in Name
  PROVE  /\ FirstWord(n) \in Name
         /\ IsPattern(FirstWord(n)) => IsPattern(n)
<1>1. n \in Seq(Letters) /\ Len(n) \in Nat
  BY DEF Name
<1>2. CASE FirstWord(n) = << >>
  BY <1>2 DEF Name, IsPattern, Contains
<1>3. ASSUME NEW i \in 1 .. Len(n), FirstWord(n) = UpToSpace(SubSeq(n, i, Len(n)))
      PROVE  FirstWord(n) \in Name /\ (IsPattern(FirstWord(n)) => IsPattern(n))
  <2> DEFINE end == SubSeq(n, i, Len(n))
  <2>1. /\ end \in Seq(Letters) /\ Len(end) = Len(n) - i + 1
        /\ \A j \in 1 .. Len(end) : i + j - 1 \in 1 .. Len(n) /\ end[j] = n[i + j - 1]
    BY <1>1
  <2> HIDE DEF end
  <2>2. PICK k \in 0 .. Len(end) : UpToSpace(end) = SubSeq(end, 1, k)
    BY <2>1, UpToSpacePrefix
  <2> DEFINE w == SubSeq(end, 1, k)
  <2>3. /\ w \in Seq(Letters) /\ Len(w) = k /\ k \in Nat
        /\ \A j \in 1 .. k : j \in 1 .. Len(end) /\ w[j] = end[j]
    BY <2>1
  <2> HIDE DEF w
  <2>4. \A j \in 1 .. Len(w) : \E l \in 1 .. Len(n) : w[j] = n[l]
    BY <2>1, <2>3
  <2>5. IsPattern(w) => IsPattern(n)
    BY <1>1, <2>3, <2>4 DEF IsPattern, Contains
  <2>6. FirstWord(n) = w
    BY <1>3, <2>2 DEF end, w
  <2> QED BY <2>3, <2>5, <2>6 DEF Name
<1> QED BY <1>1, <1>2, <1>3, FirstWordOf

\* A sequence reversed, place by place.
LEMMA ReverseOf ==
  ASSUME NEW s \in Seq(Letters)
  PROVE  /\ Reverse(s) \in Seq(Letters) /\ Len(Reverse(s)) = Len(s)
         /\ \A i \in 1 .. Len(s) : Reverse(s)[i] = s[(Len(s) - i) + 1]
<1> DEFINE r == [i \in 1 .. Len(s) |-> s[(Len(s) - i) + 1]]
<1>1. Len(s) \in Nat /\ \A i \in 1 .. Len(s) : (Len(s) - i) + 1 \in 1 .. Len(s)
  OBVIOUS
<1>2. \A i \in 1 .. Len(s) : r[i] = s[(Len(s) - i) + 1] /\ r[i] \in Letters
  BY <1>1
<1>3. r \in Seq(Letters) /\ Len(r) = Len(s)
  BY <1>1, <1>2
<1> QED BY <1>2, <1>3 DEF Reverse

\* IsSuffix says what it is used for.
LEMMA SuffixMeans ==
  ASSUME NEW s \in Seq(Letters), NEW t \in Seq(Letters)
  PROVE  IsSuffix(s, t) <=> \E i \in 0 .. Len(t) : s = SubSeq(t, i + 1, Len(t))
<1> DEFINE k == Len(s)
           m == Len(t)
           S == Reverse(s)
           T == Reverse(t)
<1>1. k \in Nat /\ m \in Nat
  OBVIOUS
<1>2. /\ S \in Seq(Letters) /\ Len(S) = k /\ \A i \in 1 .. k : S[i] = s[(k - i) + 1]
      /\ T \in Seq(Letters) /\ Len(T) = m /\ \A i \in 1 .. m : T[i] = t[(m - i) + 1]
  BY ReverseOf
<1> HIDE DEF S, T
<1>3. IsSuffix(s, t) <=> k <= m /\ SubSeq(S, 1, k) = SubSeq(T, 1, k)
  BY <1>2 DEF IsSuffix, IsPrefix, S, T
<1>4. ASSUME k <= m
      PROVE  SubSeq(S, 1, k) = SubSeq(T, 1, k) <=> s = SubSeq(t, (m - k) + 1, m)
  <2>1. SubSeq(S, 1, k) = S /\ SubSeq(T, 1, k) \in Seq(Letters) /\ Len(SubSeq(T, 1, k)) = k
        /\ \A i \in 1 .. k : SubSeq(T, 1, k)[i] = T[i]
    BY <1>1, <1>2, <1>4
  <2>2. SubSeq(S, 1, k) = SubSeq(T, 1, k) <=> \A i \in 1 .. k : S[i] = T[i]
    BY <1>1, <1>2, <2>1
  <2> DEFINE w == SubSeq(t, (m - k) + 1, m)
  <2>3. w \in Seq(Letters) /\ Len(w) = k /\ \A j \in 1 .. k : w[j] = t[(m - k) + j]
    BY <1>1, <1>4
  <2> HIDE DEF w
  <2>4. s = w <=> \A j \in 1 .. k : s[j] = t[(m - k) + j]
    <3>1. s = w <=> \A j \in 1 .. k : s[j] = w[j]
      BY <2>3, SeqEqual
    <3> QED BY <2>3, <3>1
  <2>5. ASSUME \A i \in 1 .. k : S[i] = T[i], NEW j \in 1 .. k
        PROVE  s[j] = t[(m - k) + j]
    <3>1. /\ (k - j) + 1 \in 1 .. k /\ (k - j) + 1 \in 1 .. m
          /\ (k - ((k - j) + 1)) + 1 = j /\ (m - ((k - j) + 1)) + 1 = (m - k) + j
      BY <1>1, <1>4
    <3>2. S[(k - j) + 1] = s[j] /\ T[(k - j) + 1] = t[(m - k) + j]
      BY <1>2, <3>1
    <3> QED BY <2>5, <3>1, <3>2
  <2>6. ASSUME \A j \in 1 .. k : s[j] = t[(m - k) + j], NEW i \in 1 .. k
        PROVE  S[i] = T[i]
    <3>1. /\ (k - i) + 1 \in 1 .. k /\ i \in 1 .. m
          /\ (m - k) + ((k - i) + 1) = (m - i) + 1
      BY <1>1, <1>4
    <3>2. S[i] = s[(k - i) + 1] /\ T[i] = t[(m - i) + 1]
      BY <1>2, <3>1
    <3> QED BY <2>6, <3>1, <3>2
  <2> QED BY <2>2, <2>4, <2>5, <2>6 DEF w
<1>5. ASSUME NEW i \in 0 .. m, s = SubSeq(t, i + 1, m)
      PROVE  k <= m /\ s = SubSeq(t, (m - k) + 1, m)
  <2>1. Len(SubSeq(t, i + 1, m)) = m - i
    BY <1>1
  <2>2. k = m - i /\ m - k = i
    BY <1>1, <1>5, <2>1
  <2>3. k <= m
    BY <1>1, <2>2
  <2> HIDE DEF k, m
  <2>4. (m - k) + 1 = i + 1
    BY <2>2
  <2> QED BY <1>5, <2>3, <2>4
<1>6. ASSUME k <= m PROVE m - k \in 0 .. m
  BY <1>1, <1>6
<1> QED BY <1>3, <1>4, <1>5, <1>6

\* A name with a star in it and the hosts it blocks: itself and, behind a
\* leading star, those it ends.
NameBlocks(d, host) ==
  \/ d = host
  \/ \E i \in 0 .. Len(host) : d = <<Star>> \o SubSeq(host, i + 1, Len(host))

\* domainMatchesPattern on a pattern agrees with that.
LEMMA MatchMeans ==
  ASSUME NEW host \in Seq(Letters), NEW p \in Pattern
  PROVE  DomainMatchesPattern(host, p) <=> NameBlocks(p, host)
<1> DEFINE t == Tail(p)
           Ends(w) == \E i \in 0 .. Len(host) : w = SubSeq(host, i + 1, Len(host))
<1>1. p \in Seq(Letters) /\ p # << >>
  <2>1. p \in Seq(Letters) /\ \E i \in 1 .. Len(p) : p[i] = Star
    BY DEF Pattern, Name, IsPattern, Contains
  <2> QED BY <2>1
<1>2. t \in Seq(Letters) /\ p = <<Head(p)>> \o t
  BY <1>1
<1>3. \A w \in Seq(Letters) :
        p = <<Star>> \o w <=> Head(p) = Star /\ t = w
  <2> SUFFICES ASSUME NEW w \in Seq(Letters)
               PROVE  p = <<Star>> \o w <=> Head(p) = Star /\ t = w
    OBVIOUS
  <2>1. Head(<<Star>> \o w) = Star /\ Tail(<<Star>> \o w) = w
    BY RuleAssumption
  <2> QED BY <1>2, <2>1
<1>4. \A i \in 0 .. Len(host) : SubSeq(host, i + 1, Len(host)) \in Seq(Letters)
  OBVIOUS
<1>5. (\E i \in 0 .. Len(host) : p = <<Star>> \o SubSeq(host, i + 1, Len(host)))
        <=> Head(p) = Star /\ Ends(t)
  BY <1>3, <1>4
<1>6. IsSuffix(t, host) <=> Ends(t)
  BY <1>2, SuffixMeans
<1>7. ASSUME p = host PROVE Ends(t)
  <2>1. Len(p) \in Nat /\ Len(p) >= 1 /\ t = SubSeq(p, 2, Len(p))
    BY <1>1
  <2>2. 1 \in 0 .. Len(host) /\ t = SubSeq(host, 1 + 1, Len(host))
    BY <1>7, <2>1
  <2> QED BY <2>2
<1> HIDE DEF t, Ends
<1> QED BY <1>1, <1>5, <1>6, <1>7 DEF DomainMatchesPattern, NameBlocks, t

\* What is in force has its value in one of the five containers.
LEMMA InForceMeans ==
  ASSUME NEW rs, NEW type, NEW v
  PROVE  <<type, v>> \in InForce(rs) <=>
           \/ type = "IP" /\ v \in rs.ips
           \/ type = "APP" /\ v \in rs.apps
           \/ type = "PORT" /\ v \in rs.ports
           \/ type = "DOMAIN" /\ v \in rs.domains
           \/ type = "DOMAIN" /\ v \in ToSet(rs.patterns)
BY DEF InForce

\* The test of one lock says yes when, and only when, a rule of that kind
\* covers the query.
LEMMA BlockedMeans ==
  ASSUME NEW rs \in RuleSets, NEW q \in Queries, NEW p \in Tests
  PROVE  Blocked(rs, p, q) <=> \E r \in InForce(rs) : r[1] = p /\ Covers(r, q)
<1>q. q.host \in Seq(Letters)
  BY RuleAssumption
<1>r. /\ rs.domains \subseteq Name \ Pattern /\ rs.patterns \in Seq(Pattern)
      /\ \A r \in InForce(rs) : r = <<r[1], r[2]>>
  BY DEF RuleSets, InForce
<1>0. (\E r \in InForce(rs) : r[1] = p /\ Covers(r, q))
        <=> \E v : <<p, v>> \in InForce(rs) /\ Covers(<<p, v>>, q)
  BY <1>r
<1>1. CASE p = "IP"
  <2>1. \A v : <<p, v>> \in InForce(rs) <=> v \in rs.ips
    BY <1>1, InForceMeans
  <2>2. \A v : Covers(<<p, v>>, q) <=> v = q.ip
    BY <1>1 DEF Covers
  <2>3. Blocked(rs, p, q) <=> q.ip \in rs.ips
    BY <1>1 DEF Blocked
  <2> QED BY <1>0, <2>1, <2>2, <2>3
<1>2. CASE p = "PORT"
  <2>1. \A v : <<p, v>> \in InForce(rs) <=> v \in rs.ports
    BY <1>2, InForceMeans
  <2>2. \A v : Covers(<<p, v>>, q) <=> v = q.port
    BY <1>2 DEF Covers
  <2>3. Blocked(rs, p, q) <=> q.port \in rs.ports
    BY <1>2 DEF Blocked
  <2> QED BY <1>0, <2>1, <2>2, <2>3
<1>3. CASE p = "APP"
  <2>1. \A v : <<p, v>> \in InForce(rs) <=> v \in rs.apps
    BY <1>3, InForceMeans
  <2>2. \A v : Covers(<<p, v>>, q) <=> v = q.app /\ q.app # UNKNOWN
    BY <1>3 DEF Covers
  <2>3. Blocked(rs, p, q) <=> q.app # UNKNOWN /\ q.app \in rs.apps
    BY <1>3 DEF Blocked
  <2> QED BY <1>0, <2>1, <2>2, <2>3
<1>4. CASE p = "DOMAIN"
  <2>1. \A v : <<p, v>> \in InForce(rs) <=> v \in rs.domains \/ v \in ToSet(rs.patterns)
    BY <1>4, InForceMeans
  <2>2. \A v : Covers(<<p, v>>, q) <=> q.host # << >> /\ NameBlocks(v, q.host)
    BY <1>4 DEF Covers, NameBlocks
  <2>3. Blocked(rs, p, q) <=>
          /\ q.host # << >>
          /\ \/ q.host \in rs.domains
             \/ \E v \in ToSet(rs.patterns) : DomainMatchesPattern(q.host, v)
    BY <1>4 DEF Blocked, ToSet
  <2>4. ASSUME NEW v \in ToSet(rs.patterns)
        PROVE  DomainMatchesPattern(q.host, v) <=> NameBlocks(v, q.host)
    <3>1. v \in Pattern
      BY <1>r, ToSetOf
    <3> QED BY <1>q, <3>1, MatchMeans
  <2>5. ASSUME NEW v \in rs.domains
        PROVE  NameBlocks(v, q.host) <=> v = q.host
    <3>1. v \in Seq(Letters) /\ ~IsPattern(v)
      BY <1>r DEF Pattern, Name
    <3>2. ASSUME NEW i \in 0 .. Len(q.host),
                 v = <<Star>> \o SubSeq(q.host, i + 1, Len(q.host))
          PROVE  FALSE
      <4>1. SubSeq(q.host, i + 1, Len(q.host)) \in Seq(Letters)
        BY <1>q
      <4>2. Len(v) \in Nat /\ Len(v) >= 1 /\ v[1] = Star
        BY <3>2, <4>1, RuleAssumption
      <4> QED BY <3>1, <4>2 DEF IsPattern, Contains
    <3> QED BY <3>2 DEF NameBlocks
  <2>6. (\E v : <<p, v>> \in InForce(rs) /\ Covers(<<p, v>>, q)) <=>
          /\ q.host # << >>
          /\ \/ \E v \in rs.domains : NameBlocks(v, q.host)
             \/ \E v \in ToSet(rs.patterns) : NameBlocks(v, q.host)
    BY <2>1, <2>2
  <2> QED BY <1>0, <2>3, <2>4, <2>5, <2>6
<1> QED BY <1>1, <1>2, <1>3, <1>4 DEF Tests

-----------------------------------------------------------------------------
(* Types *)

Rule == ({"IP"} \X Addresses) \cup ({"APP"} \X AppTypes)
          \cup ({"DOMAIN"} \X Name) \cup ({"PORT"} \X WordValues)

\* Rules in five containers.
Made(ips, apps, domains, patterns, ports) ==
  [ips |-> ips, apps |-> apps, domains |-> domains, patterns |-> patterns,
   ports |-> ports]

FiniteRules(rs) == /\ IsFiniteSet(rs.ips) /\ IsFiniteSet(rs.apps)
                   /\ IsFiniteSet(rs.domains) /\ IsFiniteSet(rs.ports)

\* A finite number of rules, each of its type.
Fine(rs) == rs \in RuleSets /\ FiniteRules(rs)

\* Rules are made of their containers, each of its type.
LEMMA MadeOf ==
  ASSUME NEW rs \in RuleSets
  PROVE  /\ rs = Made(rs.ips, rs.apps, rs.domains, rs.patterns, rs.ports)
         /\ rs.ips \in SUBSET Addresses /\ rs.apps \in SUBSET AppTypes
         /\ rs.domains \in SUBSET (Name \ Pattern)
         /\ rs.patterns \in Seq(Pattern) /\ rs.ports \in SUBSET WordValues
BY DEF RuleSets, Made

\* Containers of the right types make well-typed rules.
LEMMA MadeFine ==
  ASSUME NEW ips \in SUBSET Addresses, NEW apps \in SUBSET AppTypes,
         NEW domains \in SUBSET (Name \ Pattern), NEW patterns \in Seq(Pattern),
         NEW ports \in SUBSET WordValues,
         IsFiniteSet(ips), IsFiniteSet(apps), IsFiniteSet(domains), IsFiniteSet(ports)
  PROVE  Fine(Made(ips, apps, domains, patterns, ports))
BY DEF Fine, FiniteRules, RuleSets, Made

\* What clearAll makes of the containers.
LEMMA ClearedIs ==
  ASSUME NEW i, NEW a, NEW d, NEW p, NEW o
  PROVE  /\ Cleared(Made(i, a, d, p, o), "IP") = Made({}, a, d, p, o)
         /\ Cleared(Made(i, a, d, p, o), "APP") = Made(i, {}, d, p, o)
         /\ Cleared(Made(i, a, d, p, o), "DOMAIN") = Made(i, a, {}, << >>, o)
         /\ Cleared(Made(i, a, d, p, o), "PORT") = Made(i, a, d, p, {})
<1>1. Cleared(Made(i, a, d, p, o), "IP") = Made({}, a, d, p, o)
  BY DEF Cleared, Made
<1>2. Cleared(Made(i, a, d, p, o), "APP") = Made(i, {}, d, p, o)
  BY DEF Cleared, Made
<1>3. Cleared(Made(i, a, d, p, o), "DOMAIN") = Made(i, a, {}, << >>, o)
  BY DEF Cleared, Made
<1>4. Cleared(Made(i, a, d, p, o), "PORT") = Made(i, a, d, p, {})
  BY DEF Cleared, Made
<1> QED BY <1>1, <1>2, <1>3, <1>4

\* Well-typed rules, taken apart.
LEMMA FineIs ==
  ASSUME NEW rs, Fine(rs)
  PROVE  \E i \in SUBSET Addresses, a \in SUBSET AppTypes,
            d \in SUBSET (Name \ Pattern), p \in Seq(Pattern), o \in SUBSET WordValues :
           /\ IsFiniteSet(i) /\ IsFiniteSet(a) /\ IsFiniteSet(d) /\ IsFiniteSet(o)
           /\ rs = Made(i, a, d, p, o)
BY MadeOf DEF Fine, FiniteRules

\* blockIP, blockApp, blockDomain and blockPort keep the types.
LEMMA AddedFine ==
  ASSUME NEW rs, Fine(rs), NEW r \in Rule
  PROVE  Fine(Added(rs, r))
<1>1. PICK i \in SUBSET Addresses, a \in SUBSET AppTypes,
           d \in SUBSET (Name \ Pattern), p \in Seq(Pattern), o \in SUBSET WordValues :
        /\ IsFiniteSet(i) /\ IsFiniteSet(a) /\ IsFiniteSet(d) /\ IsFiniteSet(o)
        /\ rs = Made(i, a, d, p, o)
  BY FineIs
<1>2. ASSUME NEW v \in Addresses PROVE Fine(Added(rs, <<"IP", v>>))
  <2>1. i \cup {v} \in SUBSET Addresses /\ IsFiniteSet(i \cup {v})
    BY <1>1, FS_AddElement
  <2>2. Fine(Made(i \cup {v}, a, d, p, o))
    BY <1>1, <2>1, MadeFine
  <2>3. Added(Made(i, a, d, p, o), <<"IP", v>>) = Made(i \cup {v}, a, d, p, o)
    BY DEF Added, Made
  <2> QED BY <1>1, <2>2, <2>3
<1>3. ASSUME NEW v \in AppTypes PROVE Fine(Added(rs, <<"APP", v>>))
  <2>1. a \cup {v} \in SUBSET AppTypes /\ IsFiniteSet(a \cup {v})
    BY <1>1, FS_AddElement
  <2>2. Fine(Made(i, a \cup {v}, d, p, o))
    BY <1>1, <2>1, MadeFine
  <2>3. Added(Made(i, a, d, p, o), <<"APP", v>>) = Made(i, a \cup {v}, d, p, o)
    BY DEF Added, Made
  <2> QED BY <1>1, <2>2, <2>3
<1>4. ASSUME NEW v \in WordValues PROVE Fine(Added(rs, <<"PORT", v>>))
  <2>1. o \cup {v} \in SUBSET WordValues /\ IsFiniteSet(o \cup {v})
    BY <1>1, FS_AddElement
  <2>2. Fine(Made(i, a, d, p, o \cup {v}))
    BY <1>1, <2>1, MadeFine
  <2>3. Added(Made(i, a, d, p, o), <<"PORT", v>>) = Made(i, a, d, p, o \cup {v})
    BY DEF Added, Made
  <2> QED BY <1>1, <2>2, <2>3
<1>5. ASSUME NEW v \in Name PROVE Fine(Added(rs, <<"DOMAIN", v>>))
  <2>1. CASE IsPattern(v)
    <3>1. Append(p, v) \in Seq(Pattern)
      <4>1. v \in Pattern
        BY <2>1 DEF Pattern
      <4> QED BY <4>1
    <3>2. Fine(Made(i, a, d, Append(p, v), o))
      BY <1>1, <3>1, MadeFine
    <3>3. Added(Made(i, a, d, p, o), <<"DOMAIN", v>>) = Made(i, a, d, Append(p, v), o)
      BY <2>1 DEF Added, Made
    <3> QED BY <1>1, <3>2, <3>3
  <2>2. CASE ~IsPattern(v)
    <3>1. d \cup {v} \in SUBSET (Name \ Pattern) /\ IsFiniteSet(d \cup {v})
      BY <1>1, <2>2, FS_AddElement DEF Pattern
    <3>2. Fine(Made(i, a, d \cup {v}, p, o))
      BY <1>1, <3>1, MadeFine
    <3>3. Added(Made(i, a, d, p, o), <<"DOMAIN", v>>) = Made(i, a, d \cup {v}, p, o)
      BY <2>2 DEF Added, Made
    <3> QED BY <1>1, <3>2, <3>3
  <2> QED BY <2>1, <2>2
<1> QED BY <1>2, <1>3, <1>4, <1>5 DEF Rule

\* So do unblockIP, unblockApp, unblockDomain and unblockPort.
LEMMA RemovedFine ==
  ASSUME NEW rs, Fine(rs), NEW r \in Rule
  PROVE  Fine(Removed(rs, r))
<1>1. PICK i \in SUBSET Addresses, a \in SUBSET AppTypes,
           d \in SUBSET (Name \ Pattern), p \in Seq(Pattern), o \in SUBSET WordValues :
        /\ IsFiniteSet(i) /\ IsFiniteSet(a) /\ IsFiniteSet(d) /\ IsFiniteSet(o)
        /\ rs = Made(i, a, d, p, o)
  BY FineIs
<1>2. ASSUME NEW v PROVE Fine(Removed(rs, <<"IP", v>>))
  <2>1. i \ {v} \in SUBSET Addresses /\ IsFiniteSet(i \ {v})
    BY <1>1, FS_RemoveElement
  <2>2. Fine(Made(i \ {v}, a, d, p, o))
    BY <1>1, <2>1, MadeFine
  <2>3. Removed(Made(i, a, d, p, o), <<"IP", v>>) = Made(i \ {v}, a, d, p, o)
    BY DEF Removed, Made
  <2> QED BY <1>1, <2>2, <2>3
<1>3. ASSUME NEW v PROVE Fine(Removed(rs, <<"APP", v>>))
  <2>1. a \ {v} \in SUBSET AppTypes /\ IsFiniteSet(a \ {v})
    BY <1>1, FS_RemoveElement
  <2>2. Fine(Made(i, a \ {v}, d, p, o))
    BY <1>1, <2>1, MadeFine
  <2>3. Removed(Made(i, a, d, p, o), <<"APP", v>>) = Made(i, a \ {v}, d, p, o)
    BY DEF Removed, Made
  <2> QED BY <1>1, <2>2, <2>3
<1>4. ASSUME NEW v PROVE Fine(Removed(rs, <<"PORT", v>>))
  <2>1. o \ {v} \in SUBSET WordValues /\ IsFiniteSet(o \ {v})
    BY <1>1, FS_RemoveElement
  <2>2. Fine(Made(i, a, d, p, o \ {v}))
    BY <1>1, <2>1, MadeFine
  <2>3. Removed(Made(i, a, d, p, o), <<"PORT", v>>) = Made(i, a, d, p, o \ {v})
    BY DEF Removed, Made
  <2> QED BY <1>1, <2>2, <2>3
<1>5. ASSUME NEW v PROVE Fine(Removed(rs, <<"DOMAIN", v>>))
  <2>1. d \ {v} \in SUBSET (Name \ Pattern) /\ IsFiniteSet(d \ {v})
    BY <1>1, FS_RemoveElement
  <2> DEFINE q == Only(p, ToSet(p) \ {v})
  <2>2. q \in Seq(Pattern)
    <3> DEFINE S == ToSet(p) \ {v}
    <3> HIDE DEF S
    <3>1. Only(p, S) \in Seq(Pattern \cap S)
      BY OnlyType
    <3>2. Only(p, S) \in Seq(Pattern)
      BY <3>1
    <3> QED BY <3>2 DEF S
  <2> HIDE DEF q
  <2>3. Fine(Made(i, a, d \ {v}, q, o))
    BY <1>1, <2>1, <2>2, MadeFine
  <2>4. Removed(Made(i, a, d, p, o), <<"DOMAIN", v>>) = Made(i, a, d \ {v}, q, o)
    BY DEF Removed, Made, q
  <2> QED BY <1>1, <2>3, <2>4
<1> QED BY <1>2, <1>3, <1>4, <1>5 DEF Rule

\* So does every part of clearAll.
LEMMA ClearedFine ==
  ASSUME NEW rs, Fine(rs), NEW k \in 1 .. 4
  PROVE  Fine(Cleared(rs, Parts[k]))
<1>1. PICK i \in SUBSET Addresses, a \in SUBSET AppTypes,
           d \in SUBSET (Name \ Pattern), p \in Seq(Pattern), o \in SUBSET WordValues :
        /\ IsFiniteSet(i) /\ IsFiniteSet(a) /\ IsFiniteSet(d) /\ IsFiniteSet(o)
        /\ rs = Made(i, a, d, p, o)
  BY FineIs
<1>2. IsFiniteSet({}) /\ << >> \in Seq(Pattern)
  BY FS_EmptySet
<1>3. Fine(Made({}, a, d, p, o)) /\ Fine(Made(i, {}, d, p, o))
  BY <1>1, <1>2, MadeFine
<1>4. Fine(Made(i, a, {}, << >>, o)) /\ Fine(Made(i, a, d, p, {}))
  BY <1>1, <1>2, MadeFine
<1>5. Parts[k] \in {"IP", "APP", "DOMAIN", "PORT"}
  BY DEF Parts
<1> QED BY <1>1, <1>3, <1>4, <1>5, ClearedIs

-----------------------------------------------------------------------------
(* What saveRules writes and loadRules reads *)

\* SetToSeq lists a finite set.
LEMMA SetToSeqOf ==
  ASSUME NEW S, IsFiniteSet(S)
  PROVE  SetToSeq(S) \in Seq(S) /\ ToSet(SetToSeq(S)) = S
<1> DEFINE n == Cardinality(S)
           f == SetToSeq(S)
<1>1. n \in Nat /\ ExistsBijection(1 .. n, S)
  BY FS_CardinalityType
<1>2. \E g \in [1 .. n -> S] : IsInjective(g)
  BY <1>1 DEF ExistsBijection, Bijection, Injection
<1>3. f \in [1 .. n -> S] /\ IsInjective(f)
  BY <1>2 DEF SetToSeq
<1> HIDE DEF f
<1>4. f \in Injection(1 .. n, S)
  BY <1>3 DEF Injection
<1>5. Cardinality(1 .. n) = n
  <2> HIDE DEF n
  <2> QED BY <1>1, FS_Interval
<1>6. f \in Surjection(1 .. n, S)
  <2>1. Cardinality(1 .. n) = Cardinality(S) <=> f \in Surjection(1 .. n, S)
    BY <1>4, FS_Injection
  <2> QED BY <1>5, <2>1
<1>7. \A t \in S : \E i \in 1 .. n : f[i] = t
  BY <1>6 DEF Surjection
<1> HIDE DEF n
<1>8. f \in Seq(S) /\ DOMAIN f = 1 .. n
  BY <1>1, <1>3
<1>9. ToSet(f) = S
  BY <1>3, <1>7, <1>8 DEF ToSet
<1> QED BY <1>8, <1>9 DEF f

\* l has a line of the type for every element of s.
Typed(A, type, s, l) ==
  /\ l \in Seq({type} \X A) /\ Len(l) = Len(s)
  /\ \A i \in 1 .. Len(s) : l[i] = <<type, s[i]>>
  /\ ToSet(l) = {<<type, v>> : v \in ToSet(s)}

\* Lines writes a line for every element.
LEMMA LinesOf ==
  ASSUME NEW A, NEW type, NEW s \in Seq(A)
  PROVE  Typed(A, type, s, Lines(type, s))
<1> DEFINE l == [i \in 1 .. Len(s) |-> <<type, s[i]>>]
<1>1. Len(s) \in Nat /\ \A i \in 1 .. Len(s) : s[i] \in A
  OBVIOUS
<1>2. \A i \in 1 .. Len(s) : l[i] = <<type, s[i]>> /\ l[i] \in {type} \X A
  BY <1>1
<1>3. l \in Seq({type} \X A) /\ Len(l) = Len(s) /\ DOMAIN l = 1 .. Len(s)
  BY <1>1, <1>2
<1>4. DOMAIN s = 1 .. Len(s)
  OBVIOUS
<1>5. ToSet(l) = {<<type, v>> : v \in ToSet(s)}
  BY <1>2, <1>3, <1>4 DEF ToSet
<1> QED BY <1>2, <1>3, <1>5 DEF Lines, Typed

\* The lines of one part, from the set of its values.
LEMMA SetLines ==
  ASSUME NEW type, NEW S, IsFiniteSet(S)
  PROVE  /\ Lines(type, SetToSeq(S)) \in Seq({type} \X S)
         /\ ToSet(Lines(type, SetToSeq(S))) = {<<type, v>> : v \in S}
<1> DEFINE s == SetToSeq(S)
<1>1. s \in Seq(S) /\ ToSet(s) = S
  BY SetToSeqOf
<1> HIDE DEF s
<1>2. Typed(S, type, s, Lines(type, s))
  BY <1>1, LinesOf
<1> QED BY <1>1, <1>2 DEF Typed, s

\* The values written are as many as the rules, and so finite.
LEMMA TextsFinite ==
  ASSUME NEW rs, Fine(rs)
  PROVE  /\ IsFiniteSet({IpToString(ip) : ip \in rs.ips})
         /\ IsFiniteSet({AppNames[a + 1] : a \in rs.apps})
         /\ IsFiniteSet({<<n>> : n \in rs.ports})
<1>1. IsFiniteSet(rs.ips) /\ IsFiniteSet(rs.apps) /\ IsFiniteSet(rs.ports)
  BY DEF Fine, FiniteRules
<1>2. IsFiniteSet({IpToString(ip) : ip \in rs.ips})
  <2> DEFINE S == rs.ips
             T == {IpToString(ip) : ip \in S}
             f == [ip \in S |-> IpToString(ip)]
  <2>1. f \in Surjection(S, T)
    BY DEF Surjection
  <2> HIDE DEF S, T, f
  <2>2. IsFiniteSet(T)
    BY <1>1, <2>1, FS_Surjection DEF S
  <2> QED BY <2>2 DEF S, T
<1>3. IsFiniteSet({AppNames[a + 1] : a \in rs.apps})
  <2> DEFINE S == rs.apps
             T == {AppNames[a + 1] : a \in S}
             f == [a \in S |-> AppNames[a + 1]]
  <2>1. f \in Surjection(S, T)
    BY DEF Surjection
  <2> HIDE DEF S, T, f
  <2>2. IsFiniteSet(T)
    BY <1>1, <2>1, FS_Surjection DEF S
  <2> QED BY <2>2 DEF S, T
<1>4. IsFiniteSet({<<n>> : n \in rs.ports})
  <2> DEFINE S == rs.ports
             T == {<<n>> : n \in S}
             f == [n \in S |-> <<n>>]
  <2>1. f \in Surjection(S, T)
    BY DEF Surjection
  <2> HIDE DEF S, T, f
  <2>2. IsFiniteSet(T)
    BY <1>1, <2>1, FS_Surjection DEF S
  <2> QED BY <2>2 DEF S, T
<1> QED BY <1>2, <1>3, <1>4

\* The lines of each part, and what they say.
LEMMA SavedIs ==
  ASSUME NEW rs, Fine(rs)
  PROVE  /\ Saved(rs, "IP") \in Seq({"IP"} \X Octets)
         /\ ToSet(Saved(rs, "IP")) = {<<"IP", IpToString(ip)>> : ip \in rs.ips}
         /\ Saved(rs, "APP") \in Seq({"APP"} \X STRING)
         /\ ToSet(Saved(rs, "APP")) = {<<"APP", AppNames[a + 1]>> : a \in rs.apps}
         /\ Saved(rs, "DOMAIN") =
              Lines("DOMAIN", SetToSeq(rs.domains)) \o Lines("DOMAIN", rs.patterns)
         /\ Saved(rs, "DOMAIN") \in Seq({"DOMAIN"} \X Name)
         /\ ToSet(Saved(rs, "DOMAIN")) =
              {<<"DOMAIN", d>> : d \in rs.domains \cup ToSet(rs.patterns)}
         /\ Saved(rs, "PORT") \in Seq({"PORT"} \X {v \in Seq(Int) : Len(v) <= 1})
         /\ ToSet(Saved(rs, "PORT")) = {<<"PORT", <<n>>>> : n \in rs.ports}
<1>1. /\ rs.ips \in SUBSET Addresses /\ rs.apps \in SUBSET AppTypes
      /\ rs.domains \in SUBSET (Name \ Pattern)
      /\ rs.patterns \in Seq(Pattern) /\ rs.ports \in SUBSET WordValues
      /\ IsFiniteSet(rs.domains)
  BY MadeOf DEF Fine, FiniteRules
<1>2. /\ Saved(rs, "IP") \in Seq({"IP"} \X Octets)
      /\ ToSet(Saved(rs, "IP")) = {<<"IP", IpToString(ip)>> : ip \in rs.ips}
  <2> DEFINE S == {IpToString(ip) : ip \in rs.ips}
  <2>1. Saved(rs, "IP") = Lines("IP", SetToSeq(S))
    BY DEF Saved
  <2>2. S \subseteq Octets
    BY <1>1, AddressBack
  <2>3. IsFiniteSet(S)
    BY TextsFinite
  <2>4. {<<"IP", v>> : v \in S} = {<<"IP", IpToString(ip)>> : ip \in rs.ips}
    OBVIOUS
  <2> HIDE DEF S
  <2>5. /\ Lines("IP", SetToSeq(S)) \in Seq({"IP"} \X S)
        /\ ToSet(Lines("IP", SetToSeq(S))) = {<<"IP", v>> : v \in S}
    BY <2>3, SetLines
  <2>6. Lines("IP", SetToSeq(S)) \in Seq({"IP"} \X Octets)
    BY <2>2, <2>5
  <2> QED BY <2>1, <2>4, <2>5, <2>6
<1>3. /\ Saved(rs, "APP") \in Seq({"APP"} \X STRING)
      /\ ToSet(Saved(rs, "APP")) = {<<"APP", AppNames[a + 1]>> : a \in rs.apps}
  <2> DEFINE S == {AppNames[a + 1] : a \in rs.apps}
  <2>1. Saved(rs, "APP") = Lines("APP", SetToSeq(S))
    BY DEF Saved
  <2>2. S \subseteq STRING
    <3>1. AppNames \in Seq(STRING) /\ \A a \in AppTypes : a + 1 \in 1 .. Len(AppNames)
      BY RuleAssumption DEF AppTypes
    <3>2. \A a \in AppTypes : AppNames[a + 1] \in STRING
      BY <3>1
    <3> QED BY <1>1, <3>2
  <2>3. IsFiniteSet(S)
    BY TextsFinite
  <2>4. {<<"APP", v>> : v \in S} = {<<"APP", AppNames[a + 1]>> : a \in rs.apps}
    OBVIOUS
  <2> HIDE DEF S
  <2>5. /\ Lines("APP", SetToSeq(S)) \in Seq({"APP"} \X S)
        /\ ToSet(Lines("APP", SetToSeq(S))) = {<<"APP", v>> : v \in S}
    BY <2>3, SetLines
  <2>6. Lines("APP", SetToSeq(S)) \in Seq({"APP"} \X STRING)
    <3>1. {"APP"} \X S \subseteq {"APP"} \X STRING
      BY <2>2, Zenon
    <3> QED BY <2>5, <3>1, SeqWider
  <2> QED BY <2>1, <2>4, <2>5, <2>6
<1>4. /\ Saved(rs, "PORT") \in Seq({"PORT"} \X {v \in Seq(Int) : Len(v) <= 1})
      /\ ToSet(Saved(rs, "PORT")) = {<<"PORT", <<n>>>> : n \in rs.ports}
  <2> DEFINE S == {<<n>> : n \in rs.ports}
             N == {v \in Seq(Int) : Len(v) <= 1}
  <2>1. Saved(rs, "PORT") = Lines("PORT", SetToSeq(S))
    BY DEF Saved
  <2>2. S \subseteq N
    <3>1. \A n \in WordValues : n \in Int
      BY DEF WordValues
    <3>2. \A n \in Int : <<n>> \in N
      OBVIOUS
    <3> QED BY <1>1, <3>1, <3>2
  <2>3. IsFiniteSet(S)
    BY TextsFinite
  <2>4. {<<"PORT", v>> : v \in S} = {<<"PORT", <<n>>>> : n \in rs.ports}
    OBVIOUS
  <2> HIDE DEF S, N
  <2>5. /\ Lines("PORT", SetToSeq(S)) \in Seq({"PORT"} \X S)
        /\ ToSet(Lines("PORT", SetToSeq(S))) = {<<"PORT", v>> : v \in S}
    BY <2>3, SetLines
  <2>6. Lines("PORT", SetToSeq(S)) \in Seq({"PORT"} \X N)
    BY <2>2, <2>5
  <2> QED BY <2>1, <2>4, <2>5, <2>6 DEF N
<1>5. /\ Saved(rs, "DOMAIN") =
           Lines("DOMAIN", SetToSeq(rs.domains)) \o Lines("DOMAIN", rs.patterns)
      /\ Saved(rs, "DOMAIN") \in Seq({"DOMAIN"} \X Name)
      /\ ToSet(Saved(rs, "DOMAIN")) =
           {<<"DOMAIN", d>> : d \in rs.domains \cup ToSet(rs.patterns)}
  <2> DEFINE s == SetToSeq(rs.domains)
             p == rs.patterns
             l == Lines("DOMAIN", s)
             m == Lines("DOMAIN", p)
  <2>1. Saved(rs, "DOMAIN") = Lines("DOMAIN", s \o p)
    BY DEF Saved
  <2>2. s \in Seq(Name) /\ ToSet(s) = rs.domains /\ p \in Seq(Name)
    <3>1. s \in Seq(rs.domains) /\ ToSet(s) = rs.domains
      BY <1>1, SetToSeqOf
    <3>2. rs.domains \subseteq Name /\ Pattern \subseteq Name
      BY <1>1 DEF Pattern
    <3> HIDE DEF s
    <3> QED BY <1>1, <3>1, <3>2
  <2> HIDE DEF s, p
  <2>3. /\ l \in Seq({"DOMAIN"} \X Name) /\ Len(l) = Len(s)
        /\ \A i \in 1 .. Len(s) : l[i] = <<"DOMAIN", s[i]>>
    <3>1. Typed(Name, "DOMAIN", s, l)
      BY <2>2, LinesOf
    <3> QED BY <3>1 DEF Typed
  <2>4. /\ m \in Seq({"DOMAIN"} \X Name) /\ Len(m) = Len(p)
        /\ \A i \in 1 .. Len(p) : m[i] = <<"DOMAIN", p[i]>>
    <3>1. Typed(Name, "DOMAIN", p, m)
      BY <2>2, LinesOf
    <3> QED BY <3>1 DEF Typed
  <2>5. s \o p \in Seq(Name) /\ ToSet(s \o p) = ToSet(s) \cup ToSet(p)
    BY <2>2, ToSetConcat
  <2>6. /\ Lines("DOMAIN", s \o p) \in Seq({"DOMAIN"} \X Name)
        /\ ToSet(Lines("DOMAIN", s \o p)) = {<<"DOMAIN", d>> : d \in ToSet(s \o p)}
    <3>1. Typed(Name, "DOMAIN", s \o p, Lines("DOMAIN", s \o p))
      BY <2>5, LinesOf
    <3> QED BY <3>1 DEF Typed
  <2>7. Lines("DOMAIN", s \o p) = l \o m
    <3> DEFINE t == s \o p
               u == Lines("DOMAIN", t)
    <3>1. /\ Len(t) = Len(s) + Len(p) /\ Len(s) \in Nat /\ Len(p) \in Nat
          /\ \A i \in 1 .. Len(s) : t[i] = s[i]
          /\ \A i \in 1 .. Len(p) : t[Len(s) + i] = p[i]
      BY <2>2
    <3> HIDE DEF t, l, m
    <3>2. /\ Len(u) = Len(t)
          /\ \A i \in 1 .. Len(t) : u[i] = <<"DOMAIN", t[i]>>
      <4>1. Typed(Name, "DOMAIN", t, u)
        BY <2>5, LinesOf DEF t
      <4> QED BY <4>1 DEF Typed
    <3>3. u \in Seq({"DOMAIN"} \X Name)
      BY <2>6 DEF t
    <3> HIDE DEF u
    <3>4. Len(l \o m) = Len(u) /\ l \o m \in Seq({"DOMAIN"} \X Name)
      <4> DEFINE X == {"DOMAIN"} \X Name
      <4>1. l \in Seq(X) /\ m \in Seq(X)
        BY <2>3, <2>4
      <4> HIDE DEF X
      <4>2. l \o m \in Seq(X) /\ Len(l \o m) = Len(l) + Len(m)
        BY <4>1
      <4> QED BY <2>3, <2>4, <3>1, <3>2, <4>2 DEF X
    <3>5. ASSUME NEW i \in 1 .. Len(u) PROVE u[i] = (l \o m)[i]
      <4>1. CASE i <= Len(s)
        <5>1. i \in 1 .. Len(s) /\ i \in 1 .. Len(l)
          BY <2>3, <3>1, <3>2, <4>1
        <5>2. (l \o m)[i] = l[i]
          BY <2>3, <2>4, <5>1
        <5> QED BY <2>3, <3>1, <3>2, <5>1, <5>2
      <4>2. CASE ~(i <= Len(s))
        <5> DEFINE j == i - Len(s)
        <5>1. j \in 1 .. Len(p) /\ j \in 1 .. Len(m) /\ i = Len(s) + j
          BY <2>4, <3>1, <3>2, <4>2
        <5> HIDE DEF j
        <5>2. (l \o m)[i] = m[j]
          BY <2>3, <2>4, <3>1, <5>1
        <5> QED BY <2>4, <3>1, <3>2, <5>1, <5>2
      <4> QED BY <4>1, <4>2
    <3>6. u = l \o m
      BY <3>3, <3>4, <3>5, SeqEqual
    <3> QED BY <3>6 DEF u, t
  <2> QED BY <2>1, <2>2, <2>5, <2>6, <2>7 DEF s, p
<1> QED BY <1>2, <1>3, <1>4, <1>5

\* The kinds of lines.
LEMMA LineKinds ==
  ASSUME NEW line \in Line
  PROVE  \/ \E b \in Octets : line = <<"IP", b>>
         \/ \E w \in STRING : line = <<"APP", w>>
         \/ \E n \in Name : line = <<"DOMAIN", n>>
         \/ \E v \in Seq(Int) : Len(v) <= 1 /\ line = <<"PORT", v>>
         \/ \E t \in STRING \ {"IP", "APP", "DOMAIN", "PORT"}, n \in Name : line = <<t, n>>
<1>1. CASE line \in {"IP"} \X Octets
  BY <1>1
<1>2. CASE line \in {"APP"} \X STRING
  <2> DEFINE T == STRING
  <2>1. line \in {"APP"} \X T
    BY <1>2
  <2> HIDE DEF T
  <2>2. \E w \in T : line = <<"APP", w>>
    BY <2>1
  <2> QED BY <2>2 DEF T
<1>3. CASE line \in {"DOMAIN"} \X Name
  BY <1>3
<1>4. CASE line \in {"PORT"} \X {v \in Seq(Int) : Len(v) <= 1}
  BY <1>4
<1>5. CASE line \in (STRING \ {"IP", "APP", "DOMAIN", "PORT"}) \X Name
  <2> DEFINE T == STRING \ {"IP", "APP", "DOMAIN", "PORT"}
  <2>1. line \in T \X Name
    BY <1>5
  <2> HIDE DEF T
  <2>2. \E t \in T, n \in Name : line = <<t, n>>
    BY <2>1
  <2> QED BY <2>2 DEF T
<1> QED BY <1>1, <1>2, <1>3, <1>4, <1>5 DEF Line

\* A line is read as rules of the right types.
LEMMA LoadedType ==
  ASSUME NEW line \in Line
  PROVE  Loaded(line) \subseteq Rule
<1>1. ASSUME NEW b \in Octets PROVE Loaded(<<"IP", b>>) \subseteq Rule
  <2>1. Loaded(<<"IP", b>>) = {<<"IP", ParseIP(b)>>}
    BY DEF Loaded
  <2>2. ParseIP(b) \in Addresses
    BY ParseIPType
  <2> QED BY <2>1, <2>2 DEF Rule
<1>2. ASSUME NEW w PROVE Loaded(<<"APP", w>>) \subseteq Rule
  <2>1. Loaded(<<"APP", w>>) = {<<"APP", a>> : a \in {b \in AppTypes : AppNames[b + 1] = w}}
    BY DEF Loaded
  <2> QED BY <2>1 DEF Rule
<1>3. ASSUME NEW n \in Name PROVE Loaded(<<"DOMAIN", n>>) \subseteq Rule
  <2>1. Loaded(<<"DOMAIN", n>>) \subseteq {<<"DOMAIN", FirstWord(n)>>}
    BY DEF Loaded
  <2>2. FirstWord(n) \in Name
    BY FirstWordType
  <2> QED BY <2>1, <2>2 DEF Rule
<1>4. ASSUME NEW v \in Seq(Int) PROVE Loaded(<<"PORT", v>>) \subseteq Rule
  <2>1. Loaded(<<"PORT", v>>) = {<<"PORT", PortOf(n)>> : n \in ToSet(v)}
    BY DEF Loaded
  <2>2. \A n \in Int : PortOf(n) \in WordValues
    BY DEF PortOf, WordValues
  <2>3. ToSet(v) \subseteq Int
    BY ToSetOf
  <2> QED BY <2>1, <2>2, <2>3 DEF Rule
<1>5. ASSUME NEW t \in STRING \ {"IP", "APP", "DOMAIN", "PORT"}, NEW n
      PROVE  Loaded(<<t, n>>) \subseteq Rule
  <2>1. Loaded(<<t, n>>) = {}
    BY DEF Loaded
  <2> QED BY <2>1
<1> QED BY <1>1, <1>2, <1>3, <1>4, <1>5, LineKinds

\* What saveRules writes are lines.
LEMMA SavedType ==
  ASSUME NEW rs, Fine(rs), NEW k \in 1 .. 4
  PROVE  Saved(rs, Parts[k]) \in Seq(Line)
<1>1. /\ {"IP"} \X Octets \subseteq Line /\ {"APP"} \X STRING \subseteq Line
      /\ {"DOMAIN"} \X Name \subseteq Line
      /\ {"PORT"} \X {v \in Seq(Int) : Len(v) <= 1} \subseteq Line
  BY DEF Line
<1>2. Saved(rs, "IP") \in Seq(Line)
  BY <1>1, SavedIs, SeqWider
<1>3. Saved(rs, "APP") \in Seq(Line)
  BY <1>1, SavedIs, SeqWider
<1>4. Saved(rs, "DOMAIN") \in Seq(Line)
  BY <1>1, SavedIs, SeqWider
<1>5. Saved(rs, "PORT") \in Seq(Line)
  BY <1>1, SavedIs, SeqWider
<1>6. Parts[k] \in {"IP", "APP", "DOMAIN", "PORT"}
  BY DEF Parts
<1> QED BY <1>2, <1>3, <1>4, <1>5, <1>6

TypeInv == TypeOK /\ FiniteRules(rules)

\* The types hold at the beginning.
LEMMA TypeInit == Init => TypeInv
<1> SUFFICES ASSUME Init PROVE TypeInv
  OBVIOUS
<1>1. rules \in RuleSets /\ FiniteRules(rules)
  BY FS_EmptySet DEF Init, NoRules, RuleSets, FiniteRules
<1>2. snap \subseteq RuleSets /\ alone \subseteq Admins /\ ops \in 0 .. MaxOps
  BY RuleAssumption DEF Init
<1>3. disk \subseteq Seq(Line)
  BY RuleAssumption DEF Init
<1>4. << >> \in Seq(Line)
  OBVIOUS
<1>5. /\ apc \in [Admins -> {"idle", "clear", "reload", "load", "save"}]
      /\ part \in [Admins -> 1 .. 4]
      /\ todo \in [Admins -> Seq(Line)] /\ read \in [Admins -> Seq(Line)]
      /\ buffer \in [Admins -> Seq(Line)]
  BY <1>4 DEF Init
<1>6. /\ lpc \in [FastPaths -> Tests \cup {"idle", "done"}]
      /\ query \in [FastPaths -> Queries]
      /\ reason \in [FastPaths -> Tests \cup {"none"}]
      /\ DOMAIN held = Admins \cup FastPaths /\ DOMAIN ever = Admins \cup FastPaths
  BY DEF Init
<1> QED BY <1>1, <1>2, <1>3, <1>5, <1>6 DEF TypeInv, TypeOK

\* What a change of the rules leaves behind.
LEMMA ChangeType ==
  ASSUME TypeInv, NEW a, NEW rs, Fine(rs), Change(a, rs)
  PROVE  /\ rules' \in RuleSets /\ FiniteRules(rules)'
         /\ alone' \subseteq Admins
         /\ DOMAIN held' = Admins \cup FastPaths /\ DOMAIN ever' = Admins \cup FastPaths
BY DEF TypeInv, TypeOK, Fine, FiniteRules, Change

\* Block, unblock and the steps of clear and load change the rules to others of
\* their type.
LEMMA ChangesAreFine ==
  ASSUME TypeInv, NEW a \in Admins
  PROVE  /\ \A r \in AnyRule : Fine(Added(rules, r)) /\ Fine(Removed(rules, r))
         /\ Fine(Cleared(rules, Parts[part[a]]))
         /\ todo[a] # << >> => \A r \in Loaded(Head(todo[a])) : Fine(Added(rules, r))
<1>1. Fine(rules)
  BY DEF TypeInv, TypeOK, Fine
<1>2. AnyRule \subseteq Rule
  BY RuleAssumption DEF AnyRule, Rule
<1>3. part[a] \in 1 .. 4 /\ todo[a] \in Seq(Line)
  BY DEF TypeInv, TypeOK
<1>4. ASSUME todo[a] # << >> PROVE Loaded(Head(todo[a])) \subseteq Rule
  <2>1. Head(todo[a]) \in Line
    BY <1>3, <1>4
  <2> QED BY <2>1, LoadedType
<1>5. ASSUME NEW r \in AnyRule PROVE Fine(Added(rules, r)) /\ Fine(Removed(rules, r))
  <2>1. r \in Rule
    BY <1>2
  <2> QED BY <1>1, <2>1, AddedFine, RemovedFine
<1>6. Fine(Cleared(rules, Parts[part[a]]))
  BY <1>1, <1>3, ClearedFine
<1>7. ASSUME todo[a] # << >>, NEW r \in Loaded(Head(todo[a])) PROVE Fine(Added(rules, r))
  <2>1. r \in Rule
    BY <1>4, <1>7
  <2> QED BY <1>1, <2>1, AddedFine
<1> QED BY <1>5, <1>6, <1>7

\* Every step preserves the types.
LEMMA TypeNext == TypeInv /\ [Next]_vars => TypeInv'
<1> SUFFICES ASSUME TypeInv, [Next]_vars PROVE TypeInv'
  OBVIOUS
<1>m. MaxOps \in Nat
  BY RuleAssumption
<1>1. ASSUME NEW a \in Admins, NEW r \in AnyRule, Block(a, r) \/ Unblock(a, r)
      PROVE  TypeInv'
  <2>1. PICK rs : Fine(rs) /\ Change(a, rs)
    BY <1>1, ChangesAreFine DEF Block, Unblock
  <2>2. /\ rules' \in RuleSets /\ FiniteRules(rules)'
        /\ alone' \subseteq Admins
        /\ DOMAIN held' = Admins \cup FastPaths /\ DOMAIN ever' = Admins \cup FastPaths
    BY <2>1, ChangeType
  <2>3. ops' \in 0 .. MaxOps
    BY <1>m, <1>1 DEF TypeInv, TypeOK, Block, Unblock, Call
  <2>4. UNCHANGED <<disk, apc, part, todo, read, buffer, snap, lpc, query, reason>>
    BY <1>1 DEF Block, Unblock, lookupVars
  <2> QED BY <2>2, <2>3, <2>4 DEF TypeInv, TypeOK
<1>2. ASSUME NEW a \in Admins, ClearAll(a)
      PROVE  TypeInv'
  <2>1. ops' \in 0 .. MaxOps
    BY <1>m, <1>2 DEF TypeInv, TypeOK, ClearAll, Call
  <2>2. apc' \in [Admins -> {"idle", "clear", "reload", "load", "save"}]
    BY <1>2 DEF TypeInv, TypeOK, ClearAll
  <2>3. UNCHANGED <<rules, held, ever, disk, part, todo, read, buffer, alone, snap,
                    lpc, query, reason>>
    BY <1>2 DEF ClearAll, Keep, lookupVars
  <2> QED BY <2>1, <2>2, <2>3 DEF TypeInv, TypeOK, FiniteRules
<1>3. ASSUME NEW a \in Admins, LoadRules(a)
      PROVE  TypeInv'
  <2>1. ops' \in 0 .. MaxOps
    BY <1>m, <1>3 DEF TypeInv, TypeOK, LoadRules, Call
  <2>2. apc' \in [Admins -> {"idle", "clear", "reload", "load", "save"}]
    BY <1>3 DEF TypeInv, TypeOK, LoadRules
  <2>3. todo' \in [Admins -> Seq(Line)] /\ alone' \subseteq Admins
    BY <1>3 DEF TypeInv, TypeOK, LoadRules
  <2>4. UNCHANGED <<rules, held, ever, disk, part, read, buffer, snap, lpc, query, reason>>
    BY <1>3 DEF LoadRules, Keep, lookupVars
  <2> QED BY <2>1, <2>2, <2>3, <2>4 DEF TypeInv, TypeOK, FiniteRules
<1>4. ASSUME NEW a \in Admins, ClearPart(a)
      PROVE  TypeInv'
  <2>1. PICK rs : Fine(rs) /\ Change(a, rs)
    BY <1>4, ChangesAreFine DEF ClearPart
  <2>2. /\ rules' \in RuleSets /\ FiniteRules(rules)'
        /\ alone' \subseteq Admins
        /\ DOMAIN held' = Admins \cup FastPaths /\ DOMAIN ever' = Admins \cup FastPaths
    BY <2>1, ChangeType
  <2>3. /\ apc' \in [Admins -> {"idle", "clear", "reload", "load", "save"}]
        /\ part' \in [Admins -> 1 .. 4]
    <3>1. /\ apc \in [Admins -> {"idle", "clear", "reload", "load", "save"}]
          /\ part \in [Admins -> 1 .. 4] /\ part[a] \in 1 .. 4
      BY DEF TypeInv, TypeOK
    <3>2. CASE part[a] < 4
      <4>1. part' = [part EXCEPT ![a] = part[a] + 1] /\ UNCHANGED apc
        BY <1>4, <3>2 DEF ClearPart
      <4>2. part[a] + 1 \in 1 .. 4
        BY <3>1, <3>2
      <4> QED BY <3>1, <4>1, <4>2
    <3>3. CASE ~(part[a] < 4)
      <4>1. /\ part' = [part EXCEPT ![a] = 1]
            /\ apc' = [apc EXCEPT ![a] = IF @ = "clear" THEN "idle" ELSE "load"]
        BY <1>4, <3>3 DEF ClearPart
      <4> QED BY <3>1, <4>1
    <3> QED BY <3>2, <3>3
  <2>4. UNCHANGED <<disk, todo, read, buffer, snap, ops, lpc, query, reason>>
    BY <1>4 DEF ClearPart, lookupVars
  <2> QED BY <2>2, <2>3, <2>4 DEF TypeInv, TypeOK
<1>5. ASSUME NEW a \in Admins, LoadLine(a)
      PROVE  TypeInv'
  <2>1. /\ rules' \in RuleSets /\ FiniteRules(rules)'
        /\ alone' \subseteq Admins
        /\ DOMAIN held' = Admins \cup FastPaths /\ DOMAIN ever' = Admins \cup FastPaths
    <3>1. CASE Loaded(Head(todo[a])) = {}
      BY <1>5, <3>1 DEF TypeInv, TypeOK, FiniteRules, LoadLine, Keep
    <3>2. CASE Loaded(Head(todo[a])) # {}
      <4>1. PICK rs : Fine(rs) /\ Change(a, rs)
        BY <1>5, <3>2, ChangesAreFine DEF LoadLine
      <4> QED BY <4>1, ChangeType
    <3> QED BY <3>1, <3>2
  <2>2. todo[a] \in Seq(Line) /\ todo[a] # << >> /\ read[a] \in Seq(Line)
    BY <1>5 DEF TypeInv, TypeOK, LoadLine
  <2>3. Tail(todo[a]) \in Seq(Line) /\ Append(read[a], Head(todo[a])) \in Seq(Line)
    BY <2>2
  <2>4. todo' \in [Admins -> Seq(Line)] /\ read' \in [Admins -> Seq(Line)]
    BY <1>5, <2>3 DEF TypeInv, TypeOK, LoadLine
  <2>5. UNCHANGED <<disk, apc, part, buffer, snap, ops, lpc, query, reason>>
    BY <1>5 DEF LoadLine, lookupVars
  <2> QED BY <2>1, <2>4, <2>5 DEF TypeInv, TypeOK
<1>6. ASSUME NEW a \in Admins, LoadEnd(a)
      PROVE  TypeInv'
  <2>1. << >> \in Seq(Line)
    OBVIOUS
  <2>2. /\ todo' \in [Admins -> Seq(Line)] /\ read' \in [Admins -> Seq(Line)]
        /\ alone' \subseteq Admins
        /\ apc' \in [Admins -> {"idle", "clear", "reload", "load", "save"}]
    BY <1>6, <2>1 DEF TypeInv, TypeOK, LoadEnd
  <2>3. UNCHANGED <<rules, held, ever, disk, part, buffer, snap, ops, lpc, query, reason>>
    BY <1>6 DEF LoadEnd, Keep, lookupVars
  <2> QED BY <2>2, <2>3 DEF TypeInv, TypeOK, FiniteRules
<1>7. ASSUME NEW a \in Admins, SaveRules(a)
      PROVE  TypeInv'
  <2>1. ops' \in 0 .. MaxOps
    BY <1>m, <1>7 DEF TypeInv, TypeOK, SaveRules, Call
  <2>2. << >> \in Seq(Line)
    OBVIOUS
  <2>3. /\ disk' \subseteq Seq(Line) /\ alone' \subseteq Admins /\ snap' \subseteq RuleSets
        /\ apc' \in [Admins -> {"idle", "clear", "reload", "load", "save"}]
    BY <1>7, <2>2 DEF TypeInv, TypeOK, SaveRules
  <2>4. DOMAIN held' = Admins \cup FastPaths /\ DOMAIN ever' = Admins \cup FastPaths
    BY <1>7 DEF TypeInv, TypeOK, SaveRules, Begin
  <2>5. UNCHANGED <<rules, part, todo, read, buffer, lpc, query, reason>>
    BY <1>7 DEF SaveRules, lookupVars
  <2> QED BY <2>1, <2>3, <2>4, <2>5 DEF TypeInv, TypeOK, FiniteRules
<1>8. ASSUME NEW a \in Admins, SavePart(a)
      PROVE  TypeInv'
  <2> DEFINE lines == buffer[a] \o Saved(rules, Parts[part[a]])
  <2>1. lines \in Seq(Line) /\ << >> \in Seq(Line)
    <3>1. Saved(rules, Parts[part[a]]) \in Seq(Line)
      BY SavedType DEF TypeInv, TypeOK, Fine
    <3>2. buffer[a] \in Seq(Line)
      BY DEF TypeInv, TypeOK
    <3> QED BY <3>1, <3>2
  <2>2. CASE part[a] < 4
    <3>1. /\ part' = [part EXCEPT ![a] = @ + 1]
          /\ buffer' = [buffer EXCEPT ![a] = lines]
          /\ UNCHANGED <<rules, held, ever, apc, disk, alone, snap, todo, read, ops,
                         lpc, query, reason>>
      BY <1>8, <2>2 DEF SavePart, Keep, lookupVars
    <3> HIDE DEF lines
    <3>2. part' \in [Admins -> 1 .. 4] /\ buffer' \in [Admins -> Seq(Line)]
      <4>1. part \in [Admins -> 1 .. 4] /\ part[a] \in 1 .. 4
        BY DEF TypeInv, TypeOK
      <4>2. part[a] + 1 \in 1 .. 4
        BY <2>2, <4>1
      <4>3. part' \in [Admins -> 1 .. 4]
        BY <3>1, <4>1, <4>2
      <4> QED BY <2>1, <3>1, <4>3 DEF TypeInv, TypeOK
    <3> QED BY <3>1, <3>2 DEF TypeInv, TypeOK, FiniteRules
  <2>3. CASE ~(part[a] < 4)
    <3>1. /\ part' = [part EXCEPT ![a] = 1] /\ apc' = [apc EXCEPT ![a] = "idle"]
          /\ buffer' = [buffer EXCEPT ![a] = << >>]
          /\ disk' = {lines} /\ alone' = alone \ {a}
          /\ snap' = (IF a \in alone THEN {rules} ELSE {})
          /\ End(a) /\ UNCHANGED <<rules, todo, read, ops, lpc, query, reason>>
      BY <1>8, <2>3 DEF SavePart, lookupVars
    <3> HIDE DEF lines
    <3>2. /\ part' \in [Admins -> 1 .. 4] /\ buffer' \in [Admins -> Seq(Line)]
          /\ apc' \in [Admins -> {"idle", "clear", "reload", "load", "save"}]
      BY <2>1, <3>1 DEF TypeInv, TypeOK
    <3>3. disk' \subseteq Seq(Line) /\ alone' \subseteq Admins /\ snap' \subseteq RuleSets
      BY <2>1, <3>1 DEF TypeInv, TypeOK
    <3>4. DOMAIN held' = Admins \cup FastPaths /\ DOMAIN ever' = Admins \cup FastPaths
      BY <3>1 DEF TypeInv, TypeOK, End
    <3> QED BY <3>1, <3>2, <3>3, <3>4 DEF TypeInv, TypeOK, FiniteRules
  <2> QED BY <2>2, <2>3
<1>9. ASSUME NEW f \in FastPaths, NEW q \in Queries, ShouldBlock(f, q)
      PROVE  TypeInv'
  <2>1. /\ lpc' \in [FastPaths -> Tests \cup {"idle", "done"}]
        /\ query' \in [FastPaths -> Queries]
        /\ reason' \in [FastPaths -> Tests \cup {"none"}]
    BY <1>9 DEF TypeInv, TypeOK, ShouldBlock, Tests
  <2>2. DOMAIN held' = Admins \cup FastPaths /\ DOMAIN ever' = Admins \cup FastPaths
    BY <1>9 DEF TypeInv, TypeOK, ShouldBlock, Begin
  <2>3. UNCHANGED <<rules, disk, apc, part, todo, read, buffer, alone, snap, ops>>
    BY <1>9 DEF ShouldBlock, adminVars
  <2> QED BY <2>1, <2>2, <2>3 DEF TypeInv, TypeOK, FiniteRules
<1>10. ASSUME NEW f \in FastPaths, Test(f)
      PROVE  TypeInv'
  <2>1. \A p \in Tests : NextTest(p) \in Tests \cup {"idle", "done"}
    BY DEF Tests, NextTest
  <2>2. /\ lpc' \in [FastPaths -> Tests \cup {"idle", "done"}]
        /\ reason' \in [FastPaths -> Tests \cup {"none"}]
    BY <1>10, <2>1 DEF TypeInv, TypeOK, Test
  <2>3. UNCHANGED <<rules, held, ever, disk, apc, part, todo, read, buffer, alone, snap,
                    ops, query>>
    BY <1>10 DEF Test, Keep, adminVars
  <2> QED BY <2>2, <2>3 DEF TypeInv, TypeOK, FiniteRules
<1>11. ASSUME NEW f \in FastPaths, Answered(f)
      PROVE  TypeInv'
  <2>1. lpc' \in [FastPaths -> Tests \cup {"idle", "done"}]
    BY <1>11 DEF TypeInv, TypeOK, Answered
  <2>2. DOMAIN held' = Admins \cup FastPaths /\ DOMAIN ever' = Admins \cup FastPaths
    BY <1>11 DEF TypeInv, TypeOK, Answered, End
  <2>3. UNCHANGED <<rules, disk, apc, part, todo, read, buffer, alone, snap, ops, query,
                    reason>>
    BY <1>11 DEF Answered, adminVars
  <2> QED BY <2>1, <2>2, <2>3 DEF TypeInv, TypeOK, FiniteRules
<1>12. CASE UNCHANGED vars
  BY <1>12 DEF vars, adminVars, lookupVars, TypeInv, TypeOK, FiniteRules
<1> QED BY <1>1, <1>2, <1>3, <1>4, <1>5, <1>6, <1>7, <1>8, <1>9, <1>10, <1>11, <1>12
        DEF Next

\* Types and finiteness hold always.
LEMMA RulesTyped == Spec => []TypeInv
BY TypeInit, TypeNext, PTL DEF Spec

\* Rules keep the types of the C++ containers, whatever is blocked, unblocked,
\* cleared, loaded and saved by however many threads at a time.
THEOREM TypeCorrect == Spec => []TypeOK
BY RulesTyped, PTL DEF TypeInv

-----------------------------------------------------------------------------
(* The histories of a call *)

Threads == Admins \cup FastPaths

\* The rules held all through a call are in force, and those in force are among
\* the ones that ever were during the call.
History(t) == held[t] \subseteq InForce(rules) /\ InForce(rules) \subseteq ever[t]
Histories == \A t \in Threads : Watched(t) => History(t)

\* A step of a call goes on with its histories.
GoesOn(t) == held'[t] \subseteq held[t] /\ ever[t] \subseteq ever'[t]
HistoryStep == /\ Histories'
               /\ \A t \in Threads : Watched(t) /\ Watched(t)' => GoesOn(t)

\* A change of the rules, of which every call under way takes note.
LEMMA ChangeHistory ==
  ASSUME TypeOK, Histories, NEW a, NEW rs, Change(a, rs),
         \A t \in Threads : Watched(t)' => Watched(t)
  PROVE  HistoryStep
<1>1. DOMAIN held = Threads /\ DOMAIN ever = Threads
  BY DEF TypeOK, Threads
<1>2. ASSUME NEW t \in Threads, Watched(t)
      PROVE  /\ held'[t] = held[t] \cap InForce(rs) /\ ever'[t] = ever[t] \cup InForce(rs)
             /\ rules' = rs
  BY <1>1, <1>2 DEF Change
<1>3. ASSUME NEW t \in Threads, Watched(t) PROVE History(t)' /\ GoesOn(t)
  BY <1>2, <1>3 DEF History, GoesOn
<1> QED BY <1>3 DEF HistoryStep, Histories

\* A step that leaves rules and histories alone and begins no call.
LEMMA KeepHistory ==
  ASSUME Histories, UNCHANGED <<rules, held, ever>>,
         \A t \in Threads : Watched(t)' => Watched(t)
  PROVE  HistoryStep
BY DEF HistoryStep, Histories, History, GoesOn

\* The beginning of a call.
LEMMA BeginHistory ==
  ASSUME TypeOK, Histories, NEW u \in Threads, ~Watched(u), Begin(u), UNCHANGED rules,
         \A t \in Threads : t # u => (Watched(t)' => Watched(t))
  PROVE  HistoryStep
<1>1. DOMAIN held = Threads /\ DOMAIN ever = Threads
  BY DEF TypeOK, Threads
<1>2. held'[u] = InForce(rules) /\ ever'[u] = InForce(rules)
  BY <1>1 DEF Begin
<1>3. \A t \in Threads : t # u => held'[t] = held[t] /\ ever'[t] = ever[t]
  BY <1>1 DEF Begin
<1> QED BY <1>2, <1>3 DEF HistoryStep, Histories, History, GoesOn

\* The end of a call.
LEMMA EndHistory ==
  ASSUME TypeOK, Histories, NEW u \in Threads, ~Watched(u)', End(u), UNCHANGED rules,
         \A t \in Threads : t # u => (Watched(t)' => Watched(t))
  PROVE  HistoryStep
<1>1. DOMAIN held = Threads /\ DOMAIN ever = Threads
  BY DEF TypeOK, Threads
<1>2. \A t \in Threads : t # u => held'[t] = held[t] /\ ever'[t] = ever[t]
  BY <1>1 DEF End
<1> QED BY <1>2 DEF HistoryStep, Histories, History, GoesOn

\* Every step keeps the histories right, and changes those of a call that goes
\* on in one direction only.
LEMMA HistoryNext == TypeInv /\ Histories /\ [Next]_vars => HistoryStep
<1> SUFFICES ASSUME TypeInv, Histories, [Next]_vars PROVE HistoryStep
  OBVIOUS
<1>0. TypeOK /\ Admins \cap FastPaths = {}
  BY RuleAssumption DEF TypeInv
<1>1. ASSUME NEW a \in Admins, NEW r \in AnyRule, Block(a, r) \/ Unblock(a, r)
      PROVE  HistoryStep
  <2>1. PICK rs : Change(a, rs)
    BY <1>1 DEF Block, Unblock
  <2>2. UNCHANGED <<apc, lpc>>
    BY <1>1 DEF Block, Unblock, lookupVars
  <2>3. \A t \in Threads : Watched(t)' => Watched(t)
    BY <2>2 DEF Watched
  <2> QED BY <1>0, <2>1, <2>3, ChangeHistory
<1>2. ASSUME NEW a \in Admins, ClearAll(a) \/ LoadRules(a) \/ LoadEnd(a)
      PROVE  HistoryStep
  <2>1. /\ UNCHANGED <<rules, held, ever, lpc>>
        /\ \A t \in Admins : apc'[t] = "save" => apc[t] = "save"
    BY <1>0, <1>2 DEF ClearAll, LoadRules, LoadEnd, Keep, lookupVars, TypeOK
  <2>2. \A t \in Threads : Watched(t)' => Watched(t)
    BY <2>1 DEF Watched
  <2> QED BY <2>1, <2>2, KeepHistory
<1>3. ASSUME NEW a \in Admins, ClearPart(a)
      PROVE  HistoryStep
  <2>1. PICK rs : Change(a, rs)
    BY <1>3 DEF ClearPart
  <2>2. UNCHANGED lpc /\ \A t \in Admins : apc'[t] = "save" => apc[t] = "save"
    BY <1>0, <1>3 DEF ClearPart, lookupVars, TypeOK
  <2>3. \A t \in Threads : Watched(t)' => Watched(t)
    BY <2>2 DEF Watched
  <2> QED BY <1>0, <2>1, <2>3, ChangeHistory
<1>4. ASSUME NEW a \in Admins, LoadLine(a)
      PROVE  HistoryStep
  <2>1. UNCHANGED <<apc, lpc>>
    BY <1>4 DEF LoadLine, lookupVars
  <2>2. \A t \in Threads : Watched(t)' => Watched(t)
    BY <2>1 DEF Watched
  <2>3. UNCHANGED <<rules, held, ever>> \/ \E rs : Change(a, rs)
    BY <1>4 DEF LoadLine, Keep
  <2> QED BY <1>0, <2>2, <2>3, ChangeHistory, KeepHistory
<1>5. ASSUME NEW a \in Admins, SaveRules(a)
      PROVE  HistoryStep
  <2>1. /\ Begin(a) /\ UNCHANGED <<rules, lpc>> /\ apc[a] = "idle"
        /\ \A t \in Admins : t # a => apc'[t] = apc[t]
    BY <1>0, <1>5 DEF SaveRules, Call, lookupVars, TypeOK
  <2>2. ~Watched(a) /\ a \in Threads
    BY <2>1 DEF Watched, Threads
  <2>3. \A t \in Threads : t # a => (Watched(t)' => Watched(t))
    BY <2>1 DEF Watched
  <2> QED BY <1>0, <2>1, <2>2, <2>3, BeginHistory
<1>6. ASSUME NEW a \in Admins, SavePart(a)
      PROVE  HistoryStep
  <2>1. CASE part[a] < 4
    <3>1. UNCHANGED <<rules, held, ever, apc, lpc>>
      BY <1>6, <2>1 DEF SavePart, Keep, lookupVars
    <3>2. \A t \in Threads : Watched(t)' => Watched(t)
      BY <3>1 DEF Watched
    <3> QED BY <3>1, <3>2, KeepHistory
  <2>2. CASE ~(part[a] < 4)
    <3>1. End(a) /\ apc' = [apc EXCEPT ![a] = "idle"] /\ UNCHANGED <<rules, lpc>>
      BY <1>6, <2>2 DEF SavePart, lookupVars
    <3>2. apc'[a] = "idle" /\ \A t \in Admins : t # a => apc'[t] = apc[t]
      BY <1>0, <3>1 DEF TypeOK
    <3>3. ~Watched(a)' /\ a \in Threads
      BY <3>2 DEF Watched, Threads
    <3>4. \A t \in Threads : t # a => (Watched(t)' => Watched(t))
      BY <3>1, <3>2 DEF Watched
    <3> QED BY <1>0, <3>1, <3>3, <3>4, EndHistory
  <2> QED BY <2>1, <2>2
<1>7. ASSUME NEW f \in FastPaths, NEW q \in Queries, ShouldBlock(f, q)
      PROVE  HistoryStep
  <2>1. /\ Begin(f) /\ UNCHANGED <<rules, apc>> /\ lpc[f] = "idle"
        /\ \A t \in FastPaths : t # f => lpc'[t] = lpc[t]
    BY <1>0, <1>7 DEF ShouldBlock, adminVars, TypeOK
  <2>2. ~Watched(f) /\ f \in Threads
    BY <1>0, <2>1 DEF Watched, Threads
  <2>3. \A t \in Threads : t # f => (Watched(t)' => Watched(t))
    BY <2>1 DEF Watched, Threads
  <2> QED BY <1>0, <2>1, <2>2, <2>3, BeginHistory
<1>8. ASSUME NEW f \in FastPaths, Test(f)
      PROVE  HistoryStep
  <2>1. /\ UNCHANGED <<rules, held, ever, apc>> /\ lpc[f] # "idle"
        /\ \A t \in FastPaths : t # f => lpc'[t] = lpc[t]
    BY <1>0, <1>8 DEF Test, Keep, adminVars, TypeOK, Tests
  <2>2. \A t \in Threads : Watched(t)' => Watched(t)
    BY <1>0, <2>1 DEF Watched, Threads
  <2> QED BY <2>1, <2>2, KeepHistory
<1>9. ASSUME NEW f \in FastPaths, Answered(f)
      PROVE  HistoryStep
  <2>1. /\ End(f) /\ UNCHANGED <<rules, apc>> /\ lpc'[f] = "idle"
        /\ \A t \in FastPaths : t # f => lpc'[t] = lpc[t]
    BY <1>0, <1>9 DEF Answered, adminVars, TypeOK
  <2>2. ~Watched(f)' /\ f \in Threads
    BY <1>0, <2>1 DEF Watched, Threads
  <2>3. \A t \in Threads : t # f => (Watched(t)' => Watched(t))
    BY <2>1 DEF Watched, Threads
  <2> QED BY <1>0, <2>1, <2>2, <2>3, EndHistory
<1>10. CASE UNCHANGED vars
  <2>1. UNCHANGED <<rules, held, ever, apc, lpc>>
    BY <1>10 DEF vars, adminVars, lookupVars
  <2>2. \A t \in Threads : Watched(t)' => Watched(t)
    BY <2>1 DEF Watched
  <2> QED BY <2>1, <2>2, KeepHistory
<1> QED BY <1>1, <1>2, <1>3, <1>4, <1>5, <1>6, <1>7, <1>8, <1>9, <1>10 DEF Next

-----------------------------------------------------------------------------
(* Lookups *)

\* The tests still to be made by a lookup that is at p.
Pending(p) == CASE p = "IP" -> Tests [] p = "PORT" -> {"PORT", "APP", "DOMAIN"}
                [] p = "APP" -> {"APP", "DOMAIN"} [] p = "DOMAIN" -> {"DOMAIN"}

\* A rule held all through a lookup that covers the query is one of a test to
\* come, or the lookup has said yes; and it has not said yes without one.
Lookup(f) ==
  /\ lpc[f] \in Tests =>
       /\ reason[f] = "none"
       /\ \A r \in held[f] : Covers(r, query[f]) => r[1] \in Pending(lpc[f])
  /\ lpc[f] = "done" =>
       /\ reason[f] = "none" => \A r \in held[f] : ~Covers(r, query[f])
       /\ reason[f] # "none" =>
            \E r \in ever[f] : r[1] = reason[f] /\ Covers(r, query[f])

LookupInv == Histories /\ \A f \in FastPaths : Lookup(f)

\* A rule that covers a query is of the kind of one of the tests.
LEMMA CoversKind ==
  ASSUME NEW r, NEW q, Covers(r, q)
  PROVE  r[1] \in Tests
BY DEF Covers, Tests

\* A test leaves those behind it.
LEMMA PendingNext ==
  ASSUME NEW p \in Tests
  PROVE  /\ NextTest(p) \in Tests => Pending(p) \ {p} \subseteq Pending(NextTest(p))
         /\ NextTest(p) \notin Tests => NextTest(p) = "done" /\ Pending(p) = {p}
         /\ NextTest(p) # "idle" /\ "done" \notin Tests
BY DEF Tests, Pending, NextTest

\* A lookup that makes no step keeps its promise when others change the rules.
LEMMA LookupWaits ==
  ASSUME NEW f \in FastPaths, lpc[f] # "idle" => GoesOn(f), Lookup(f),
         lpc'[f] = lpc[f], query'[f] = query[f], reason'[f] = reason[f]
  PROVE  Lookup(f)'
<1>1. "idle" \notin Tests
  BY DEF Tests
<1> QED BY <1>1 DEF GoesOn, Lookup

\* Every step preserves the invariant of lookups.
LEMMA LookupNext == TypeInv /\ LookupInv /\ [Next]_vars => LookupInv'
<1> SUFFICES ASSUME TypeInv, LookupInv, [Next]_vars PROVE LookupInv'
  OBVIOUS
<1>0. TypeOK /\ Admins \cap FastPaths = {}
  BY RuleAssumption DEF TypeInv
<1>1. HistoryStep
  BY HistoryNext DEF LookupInv
<1>2. ASSUME NEW f \in FastPaths
      PROVE  /\ f \in Threads /\ (Watched(f) <=> lpc[f] # "idle")
             /\ (Watched(f)' <=> lpc'[f] # "idle")
  BY <1>0 DEF Watched, Threads
<1>3. ASSUME NEW f \in FastPaths,
             lpc'[f] = lpc[f], query'[f] = query[f], reason'[f] = reason[f]
      PROVE  Lookup(f)'
  <2>1. lpc[f] # "idle" => GoesOn(f)
    BY <1>1, <1>2, <1>3 DEF HistoryStep
  <2> QED BY <1>3, <2>1, LookupWaits DEF LookupInv
<1>4. ASSUME NEW f \in FastPaths, NEW q \in Queries, ShouldBlock(f, q)
      PROVE  Lookup(f)'
  <2>1. lpc'[f] = "IP" /\ reason'[f] = "none" /\ "IP" \in Tests /\ "IP" # "done"
    BY <1>0, <1>4 DEF ShouldBlock, TypeOK, Tests
  <2>2. \A r \in held'[f] : Covers(r, query'[f]) => r[1] \in Pending("IP")
    BY CoversKind DEF Pending
  <2> QED BY <2>1, <2>2 DEF Lookup
<1>5. ASSUME NEW f \in FastPaths, Test(f)
      PROVE  Lookup(f)'
  <2> DEFINE p == lpc[f]
             q == query[f]
             yes == Blocked(rules, p, q)
  <2>1. /\ p \in Tests /\ q \in Queries /\ rules \in RuleSets /\ UNCHANGED <<held, ever, query>>
        /\ p # "idle" /\ "none" \notin Tests
    BY <1>0, <1>5 DEF Test, Keep, TypeOK, Tests
  <2>2. /\ reason'[f] = (IF yes THEN p ELSE "none")
        /\ lpc'[f] = IF yes THEN "done" ELSE NextTest(p)
    BY <1>0, <1>5 DEF Test, TypeOK
  <2>3. yes <=> \E r \in InForce(rules) : r[1] = p /\ Covers(r, q)
    BY <2>1, BlockedMeans
  <2>4. History(f)
    BY <1>2, <2>1 DEF LookupInv, Histories
  <2>5. \A r \in held[f] : Covers(r, q) => r[1] \in Pending(p)
    BY <2>1 DEF LookupInv, Lookup
  <2> HIDE DEF yes, p, q
  <2>6. CASE yes
    <3>1. PICK r \in InForce(rules) : r[1] = p /\ Covers(r, q)
      BY <2>3, <2>6
    <3>2. r \in ever[f]
      BY <2>4 DEF History
    <3>3. lpc'[f] = "done" /\ reason'[f] = p /\ p # "none" /\ "done" \notin Tests
      BY <2>1, <2>2, <2>6 DEF Tests
    <3> QED BY <2>1, <3>1, <3>2, <3>3 DEF Lookup, q
  <2>7. CASE ~yes
    <3>1. lpc'[f] = NextTest(p) /\ reason'[f] = "none"
      BY <2>2, <2>7
    <3>2. \A r \in held[f] : Covers(r, q) => r[1] \in Pending(p) \ {p}
      BY <2>3, <2>4, <2>5, <2>7 DEF History
    <3> QED BY <2>1, <3>1, <3>2, PendingNext DEF Lookup, q
  <2> QED BY <2>6, <2>7
<1>6. ASSUME NEW f \in FastPaths, Answered(f)
      PROVE  Lookup(f)'
  <2>1. lpc'[f] = "idle" /\ "idle" \notin Tests /\ "idle" # "done"
    BY <1>0, <1>6 DEF Answered, TypeOK, Tests
  <2> QED BY <2>1 DEF Lookup
<1>7. ASSUME NEW f \in FastPaths, NEW g \in FastPaths, g # f,
             (\E q \in Queries : ShouldBlock(f, q)) \/ Test(f) \/ Answered(f)
      PROVE  lpc'[g] = lpc[g] /\ query'[g] = query[g] /\ reason'[g] = reason[g]
  BY <1>0, <1>7 DEF TypeOK, ShouldBlock, Test, Answered
<1>8. CASE UNCHANGED lookupVars
  BY <1>1, <1>3, <1>8 DEF lookupVars, LookupInv, HistoryStep
<1>9. CASE \E f \in FastPaths :
             (\E q \in Queries : ShouldBlock(f, q)) \/ Test(f) \/ Answered(f)
  <2>1. PICK f \in FastPaths :
          (\E q \in Queries : ShouldBlock(f, q)) \/ Test(f) \/ Answered(f)
    BY <1>9
  <2>2. Lookup(f)'
    BY <1>4, <1>5, <1>6, <2>1
  <2>3. ASSUME NEW g \in FastPaths, g # f PROVE Lookup(g)'
    BY <1>3, <1>7, <2>1, <2>3
  <2> QED BY <1>1, <2>2, <2>3 DEF LookupInv, HistoryStep
<1>10. UNCHANGED lookupVars
       \/ \E f \in FastPaths :
            (\E q \in Queries : ShouldBlock(f, q)) \/ Test(f) \/ Answered(f)
  BY DEF Next, vars, Block, Unblock, ClearAll, LoadRules, SaveRules, ClearPart,
         LoadLine, LoadEnd, SavePart
<1> QED BY <1>8, <1>9, <1>10

\* Nothing is under way at the beginning.
LEMMA LookupInit == Init => LookupInv
<1> SUFFICES ASSUME Init PROVE LookupInv
  OBVIOUS
<1>1. ASSUME NEW t \in Threads PROVE ~Watched(t)
  BY DEF Init, Watched, Threads
<1>2. ASSUME NEW f \in FastPaths PROVE Lookup(f)
  BY DEF Init, Lookup, Tests
<1> QED BY <1>1, <1>2 DEF LookupInv, Histories

\* Types, histories and lookups.
LEMMA LookupsTold == Spec => []LookupInv
BY RulesTyped, LookupInit, LookupNext, PTL DEF Spec

\* A lookup takes the four locks one after the other while admins change the
\* rules; it finds every rule that covers the query and was in force from its
\* beginning to its end, and blocks for no rule that was not in force meanwhile.
THEOREM LookupsAreRegular == Spec => []LookupRegular
<1>1. LookupInv => LookupRegular
  BY DEF LookupInv, Lookup, LookupRegular
<1> QED BY <1>1, LookupsTold, PTL

-----------------------------------------------------------------------------
(* What lines say *)

\* The rules a line records, names as they are.
Says(line) == IF line[1] = "DOMAIN" THEN {line} ELSE Loaded(line)

\* Recorded, by its elements.
LEMMA RecordedMeans ==
  ASSUME NEW lines, NEW r
  PROVE  r \in Recorded(lines) <=> \E line \in ToSet(lines) : r \in Says(line)
BY DEF Recorded, Says

\* Two lists of lines record what each of them does.
LEMMA RecordedConcat ==
  ASSUME NEW s \in Seq(Line), NEW t \in Seq(Line), NEW r
  PROVE  r \in Recorded(s \o t) <=> r \in Recorded(s) \/ r \in Recorded(t)
<1> DEFINE u == s \o t
<1>1. ToSet(u) = ToSet(s) \cup ToSet(t)
  BY ToSetConcat
<1> HIDE DEF u
<1>2. r \in Recorded(u) <=> r \in Recorded(s) \/ r \in Recorded(t)
  BY <1>1, RecordedMeans
<1> QED BY <1>2 DEF u

\* A number that is a uint16_t stays as it is.
LEMMA PortBack ==
  ASSUME NEW n \in WordValues
  PROVE  PortOf(n) = n
<1>1. n \in Nat /\ n < 65536
  BY SMT DEF WordValues
<1> QED BY <1>1, SMT DEF PortOf

\* A line that saveRules writes for a rule is read as that rule.
LEMMA LoadedBack ==
  /\ \A ip \in Addresses : Loaded(<<"IP", IpToString(ip)>>) = {<<"IP", ip>>}
  /\ \A a \in AppTypes : Loaded(<<"APP", AppNames[a + 1]>>) = {<<"APP", a>>}
  /\ \A n \in WordValues : Loaded(<<"PORT", <<n>>>>) = {<<"PORT", n>>}
<1>1. ASSUME NEW ip \in Addresses PROVE Loaded(<<"IP", IpToString(ip)>>) = {<<"IP", ip>>}
  <2>1. Loaded(<<"IP", IpToString(ip)>>) = {<<"IP", ParseIP(IpToString(ip))>>}
    BY DEF Loaded
  <2>2. ParseIP(IpToString(ip)) = ip
    BY AddressBack
  <2> QED BY <2>1, <2>2
<1>2. ASSUME NEW a \in AppTypes PROVE Loaded(<<"APP", AppNames[a + 1]>>) = {<<"APP", a>>}
  <2>1. \A b \in AppTypes : AppNames[b + 1] = AppNames[a + 1] => b = a
    <3>1. /\ AppNames \in Seq(STRING) /\ DOMAIN AppNames = 1 .. Len(AppNames)
          /\ \A i, j \in DOMAIN AppNames : AppNames[i] = AppNames[j] => i = j
      BY RuleAssumption DEF IsInjective
    <3>2. \A b \in AppTypes : b \in Int /\ b + 1 \in DOMAIN AppNames
      BY <3>1 DEF AppTypes
    <3>3. \A b \in AppTypes : b + 1 = a + 1 => b = a
      BY <3>2
    <3> QED BY <3>1, <3>2, <3>3
  <2>2. Loaded(<<"APP", AppNames[a + 1]>>)
          = {<<"APP", c>> : c \in {b \in AppTypes : AppNames[b + 1] = AppNames[a + 1]}}
    BY DEF Loaded
  <2>3. {b \in AppTypes : AppNames[b + 1] = AppNames[a + 1]} = {a}
    BY <2>1
  <2> QED BY <2>2, <2>3
<1>3. ASSUME NEW n \in WordValues PROVE Loaded(<<"PORT", <<n>>>>) = {<<"PORT", n>>}
  <2>1. Loaded(<<"PORT", <<n>>>>) = {<<"PORT", PortOf(m)>> : m \in ToSet(<<n>>)}
    BY DEF Loaded
  <2>2. ToSet(<<n>>) = {n}
    <3>1. DOMAIN <<n>> = {1} /\ <<n>>[1] = n
      OBVIOUS
    <3> QED BY <3>1 DEF ToSet
  <2>3. PortOf(n) = n
    BY PortBack
  <2> QED BY <2>1, <2>2, <2>3
<1> QED BY <1>1, <1>2, <1>3

\* The rules in force of one kind.
LEMMA InForceKind ==
  ASSUME NEW rs, NEW r
  PROVE  /\ r \in InForce(rs) /\ r[1] = "IP" <=> \E v \in rs.ips : r = <<"IP", v>>
         /\ r \in InForce(rs) /\ r[1] = "APP" <=> \E v \in rs.apps : r = <<"APP", v>>
         /\ r \in InForce(rs) /\ r[1] = "PORT" <=> \E v \in rs.ports : r = <<"PORT", v>>
         /\ r \in InForce(rs) /\ r[1] = "DOMAIN" <=>
              \E v \in rs.domains \cup ToSet(rs.patterns) : r = <<"DOMAIN", v>>
<1>1. r \in InForce(rs) =>
        \/ \E v \in rs.ips : r = <<"IP", v>>
        \/ \E v \in rs.apps : r = <<"APP", v>>
        \/ \E v \in rs.ports : r = <<"PORT", v>>
        \/ \E v \in rs.domains \cup ToSet(rs.patterns) : r = <<"DOMAIN", v>>
  BY DEF InForce
<1>2. /\ \A v \in rs.ips : <<"IP", v>> \in InForce(rs)
      /\ \A v \in rs.apps : <<"APP", v>> \in InForce(rs)
      /\ \A v \in rs.ports : <<"PORT", v>> \in InForce(rs)
      /\ \A v \in rs.domains \cup ToSet(rs.patterns) : <<"DOMAIN", v>> \in InForce(rs)
  BY InForceMeans
<1> QED BY <1>1, <1>2

\* The file has, of each kind, exactly the rules in force.
LEMMA RecordedSaved ==
  ASSUME NEW rs, Fine(rs), NEW k \in 1 .. 4, NEW r
  PROVE  r \in Recorded(Saved(rs, Parts[k])) <=> r \in InForce(rs) /\ r[1] = Parts[k]
<1>1. /\ rs.ips \subseteq Addresses /\ rs.apps \subseteq AppTypes
      /\ rs.ports \subseteq WordValues
  BY DEF Fine, RuleSets
<1>0. \A lines : r \in Recorded(lines) <=> \E line \in ToSet(lines) : r \in Says(line)
  BY RecordedMeans
<1>2. CASE Parts[k] = "IP"
  <2>1. ToSet(Saved(rs, "IP")) = {<<"IP", IpToString(v)>> : v \in rs.ips}
    BY SavedIs
  <2>2. \A v \in rs.ips : Says(<<"IP", IpToString(v)>>) = {<<"IP", v>>}
    BY <1>1, LoadedBack DEF Says
  <2>3. (\E line \in {<<"IP", IpToString(v)>> : v \in rs.ips} : r \in Says(line))
          <=> \E v \in rs.ips : r \in Says(<<"IP", IpToString(v)>>)
    OBVIOUS
  <2>4. r \in Recorded(Saved(rs, "IP")) <=> \E v \in rs.ips : r = <<"IP", v>>
    BY <1>0, <2>1, <2>2, <2>3
  <2> QED BY <1>2, <2>4, InForceKind
<1>3. CASE Parts[k] = "APP"
  <2>1. ToSet(Saved(rs, "APP")) = {<<"APP", AppNames[v + 1]>> : v \in rs.apps}
    BY SavedIs
  <2>2. \A v \in rs.apps : Says(<<"APP", AppNames[v + 1]>>) = {<<"APP", v>>}
    BY <1>1, LoadedBack DEF Says
  <2>3. (\E line \in {<<"APP", AppNames[v + 1]>> : v \in rs.apps} : r \in Says(line))
          <=> \E v \in rs.apps : r \in Says(<<"APP", AppNames[v + 1]>>)
    OBVIOUS
  <2>4. r \in Recorded(Saved(rs, "APP")) <=> \E v \in rs.apps : r = <<"APP", v>>
    BY <1>0, <2>1, <2>2, <2>3
  <2> QED BY <1>3, <2>4, InForceKind
<1>4. CASE Parts[k] = "DOMAIN"
  <2>1. ToSet(Saved(rs, "DOMAIN")) =
          {<<"DOMAIN", v>> : v \in rs.domains \cup ToSet(rs.patterns)}
    BY SavedIs
  <2>2. \A v : Says(<<"DOMAIN", v>>) = {<<"DOMAIN", v>>}
    BY DEF Says
  <2>3. r \in Recorded(Saved(rs, "DOMAIN")) <=>
          \E v \in rs.domains \cup ToSet(rs.patterns) : r = <<"DOMAIN", v>>
    BY <1>0, <2>1, <2>2
  <2> QED BY <1>4, <2>3, InForceKind
<1>5. CASE Parts[k] = "PORT"
  <2>1. ToSet(Saved(rs, "PORT")) = {<<"PORT", <<v>>>> : v \in rs.ports}
    BY SavedIs
  <2>2. \A v \in rs.ports : Says(<<"PORT", <<v>>>>) = {<<"PORT", v>>}
    BY <1>1, LoadedBack DEF Says
  <2>3. (\E line \in {<<"PORT", <<v>>>> : v \in rs.ports} : r \in Says(line))
          <=> \E v \in rs.ports : r \in Says(<<"PORT", <<v>>>>)
    OBVIOUS
  <2>4. r \in Recorded(Saved(rs, "PORT")) <=> \E v \in rs.ports : r = <<"PORT", v>>
    BY <1>0, <2>1, <2>2, <2>3
  <2> QED BY <1>5, <2>4, InForceKind
<1>6. Parts[k] \in {"IP", "APP", "DOMAIN", "PORT"}
  BY DEF Parts
<1> QED BY <1>2, <1>3, <1>4, <1>5, <1>6

-----------------------------------------------------------------------------
(* The calls of admins *)

AdminStep(a) == \/ \E r \in AnyRule : Block(a, r) \/ Unblock(a, r)
                \/ ClearAll(a) \/ LoadRules(a) \/ SaveRules(a)
                \/ ClearPart(a) \/ LoadLine(a) \/ LoadEnd(a) \/ SavePart(a)

\* A step is one of an admin, or leaves all that admins have alone.
LEMMA StepsOfAdmins ==
  ASSUME [Next]_vars
  PROVE  (\E a \in Admins : AdminStep(a)) \/ UNCHANGED <<rules, disk, adminVars>>
BY DEF Next, AdminStep, vars, ShouldBlock, Test, Answered, Keep

\* An admin's step leaves what is local to the other admins alone.
LEMMA OthersWait ==
  ASSUME TypeOK, NEW a \in Admins, AdminStep(a), NEW b \in Admins, b # a
  PROVE  /\ apc'[b] = apc[b] /\ part'[b] = part[b] /\ todo'[b] = todo[b]
         /\ read'[b] = read[b] /\ buffer'[b] = buffer[b]
<1>1. /\ UNCHANGED apc \/ \E v : apc' = [apc EXCEPT ![a] = v]
      /\ UNCHANGED part \/ \E v : part' = [part EXCEPT ![a] = v]
      /\ UNCHANGED todo \/ \E v : todo' = [todo EXCEPT ![a] = v]
      /\ UNCHANGED read \/ \E v : read' = [read EXCEPT ![a] = v]
      /\ UNCHANGED buffer \/ \E v : buffer' = [buffer EXCEPT ![a] = v]
  BY DEF AdminStep, Block, Unblock, ClearAll, LoadRules, SaveRules, ClearPart,
         LoadLine, LoadEnd, SavePart
<1>2. /\ b \in DOMAIN apc /\ b \in DOMAIN part /\ b \in DOMAIN todo /\ b \in DOMAIN read
      /\ b \in DOMAIN buffer
  BY DEF TypeOK
<1> QED BY <1>1, <1>2

\* Where a call is, and what it can have with it there.
Placed(a) == /\ apc[a] \in {"idle", "load"} => part[a] = 1
             /\ apc[a] # "save" => buffer[a] = << >>
             /\ apc[a] # "load" => read[a] = << >>
             /\ a \in alone => apc[a] \in {"reload", "load", "save"}

\* One admin at most is alone.
PlacesInv == /\ \A a \in Admins : Placed(a)
             /\ \A a, b \in alone : a = b

\* No call is under way at the beginning.
LEMMA PlacesInit == Init => PlacesInv
BY DEF Init, PlacesInv, Placed

\* An admin's step leaves at most itself alone, or nobody new.
LEMMA AloneStep ==
  ASSUME NEW a \in Admins, AdminStep(a)
  PROVE  alone' \subseteq alone \/ alone' = {a}
<1>1. ASSUME NEW rs, Change(a, rs) PROVE alone' \subseteq alone
  BY <1>1 DEF Change
<1> QED BY <1>1 DEF AdminStep, Block, Unblock, ClearAll, LoadRules, SaveRules, ClearPart,
         LoadLine, LoadEnd, SavePart

\* Every step keeps calls and what they have with them together.
LEMMA PlacesNext == TypeInv /\ PlacesInv /\ [Next]_vars => PlacesInv'
<1> SUFFICES ASSUME TypeInv, PlacesInv, [Next]_vars PROVE PlacesInv'
  OBVIOUS
<1>0. TypeOK
  BY DEF TypeInv
<1>1. CASE UNCHANGED <<rules, disk, adminVars>>
  BY <1>1 DEF PlacesInv, Placed, adminVars
<1>2. ASSUME NEW a \in Admins, AdminStep(a) PROVE PlacesInv'
  <2>1. alone' \subseteq alone \/ alone' = {a}
    BY <1>2, AloneStep
  <2>2. \A b, c \in alone' : b = c
    BY <2>1 DEF PlacesInv
  <2>3. ASSUME NEW b \in Admins, b # a PROVE Placed(b)'
    <3>1. b \in alone' => b \in alone
      BY <2>1, <2>3
    <3>2. Placed(b) /\ apc'[b] = apc[b] /\ part'[b] = part[b]
          /\ read'[b] = read[b] /\ buffer'[b] = buffer[b]
      BY <1>0, <1>2, <2>3, OthersWait DEF PlacesInv
    <3> QED BY <3>1, <3>2 DEF Placed
  <2>4. Placed(a)
    BY DEF PlacesInv
  <2>5. Placed(a)'
    <3>1. CASE \E r \in AnyRule : Block(a, r) \/ Unblock(a, r)
      <4>1. UNCHANGED <<apc, part, read, buffer>> /\ alone' \subseteq alone
        BY <3>1 DEF Block, Unblock, Change
      <4> QED BY <2>4, <4>1 DEF Placed
    <3>2. CASE ClearAll(a)
      <4>1. /\ UNCHANGED <<part, read, buffer, alone>> /\ apc[a] = "idle"
            /\ apc'[a] = "clear"
        BY <1>0, <3>2 DEF ClearAll, Call, TypeOK
      <4> QED BY <2>4, <4>1 DEF Placed
    <3>3. CASE LoadRules(a)
      <4>1. UNCHANGED <<part, read, buffer>> /\ apc[a] = "idle" /\ apc'[a] = "reload"
        BY <1>0, <3>3 DEF LoadRules, Call, TypeOK
      <4> QED BY <2>4, <4>1 DEF Placed
    <3>4. CASE SaveRules(a)
      <4>1. UNCHANGED <<part, read, buffer>> /\ apc[a] = "idle" /\ apc'[a] = "save"
        BY <1>0, <3>4 DEF SaveRules, Call, TypeOK
      <4> QED BY <2>4, <4>1 DEF Placed
    <3>5. CASE ClearPart(a)
      <4>1. UNCHANGED <<read, buffer>> /\ apc[a] \in {"clear", "reload"} /\ alone' \subseteq alone
        BY <3>5 DEF ClearPart, Change
      <4>2. CASE part[a] < 4
        <5>1. UNCHANGED apc
          BY <3>5, <4>2 DEF ClearPart
        <5> QED BY <2>4, <4>1, <5>1 DEF Placed
      <4>3. CASE ~(part[a] < 4)
        <5>1. part'[a] = 1 /\ apc'[a] = IF apc[a] = "clear" THEN "idle" ELSE "load"
          BY <1>0, <3>5, <4>3 DEF ClearPart, TypeOK
        <5> QED BY <2>4, <4>1, <5>1 DEF Placed
      <4> QED BY <4>2, <4>3
    <3>6. CASE LoadLine(a)
      <4>1. UNCHANGED <<apc, part, buffer>> /\ apc[a] = "load" /\ alone' \subseteq alone
        BY <3>6 DEF LoadLine, Change
      <4> QED BY <2>4, <4>1 DEF Placed
    <3>7. CASE LoadEnd(a)
      <4>1. /\ UNCHANGED <<part, buffer>> /\ apc[a] = "load" /\ apc'[a] = "idle"
            /\ read'[a] = << >> /\ a \notin alone'
        BY <1>0, <3>7 DEF LoadEnd, TypeOK
      <4> QED BY <2>4, <4>1 DEF Placed
    <3>8. CASE SavePart(a)
      <4>1. UNCHANGED read /\ apc[a] = "save"
        BY <3>8 DEF SavePart
      <4>2. CASE part[a] < 4
        <5>1. UNCHANGED <<apc, alone>>
          BY <3>8, <4>2 DEF SavePart
        <5> QED BY <2>4, <4>1, <5>1 DEF Placed
      <4>3. CASE ~(part[a] < 4)
        <5>1. part'[a] = 1 /\ apc'[a] = "idle" /\ buffer'[a] = << >> /\ a \notin alone'
          BY <1>0, <3>8, <4>3 DEF SavePart, TypeOK
        <5> QED BY <2>4, <4>1, <5>1 DEF Placed
      <4> QED BY <4>2, <4>3
    <3> QED BY <1>2, <3>1, <3>2, <3>3, <3>4, <3>5, <3>6, <3>7, <3>8 DEF AdminStep
  <2> QED BY <2>2, <2>3, <2>5 DEF PlacesInv
<1> QED BY <1>1, <1>2, StepsOfAdmins

-----------------------------------------------------------------------------
(* Saves *)

\* What a save has written has been in force while it ran, and no rule of a
\* part it is done with that was in force all the time is missing.
SoFar(lines, p, hold, had) ==
  /\ \A r \in Recorded(lines) : r \in had
  /\ \A r \in hold, k \in 1 .. 4 : k < p /\ r[1] = Parts[k] => r \in Recorded(lines)

SaveInv == /\ Histories /\ PlacesInv
           /\ \A a \in Admins :
                apc[a] = "save" => SoFar(buffer[a], part[a], held[a], ever[a])

\* It stays so when others change the rules.
LEMMA SoFarWaits ==
  ASSUME NEW lines, NEW p, NEW hold, NEW had, NEW hold2, NEW had2,
         SoFar(lines, p, hold, had), hold2 \subseteq hold, had \subseteq had2
  PROVE  SoFar(lines, p, hold2, had2)
BY DEF SoFar

\* The part under the next lock is written in full.
LEMMA SoFarPart ==
  ASSUME NEW lines \in Seq(Line), NEW p \in 1 .. 4, NEW hold, NEW had, NEW rs, Fine(rs),
         hold \subseteq InForce(rs), InForce(rs) \subseteq had, SoFar(lines, p, hold, had)
  PROVE  SoFar(lines \o Saved(rs, Parts[p]), p + 1, hold, had)
<1> DEFINE more == Saved(rs, Parts[p])
<1>1. more \in Seq(Line)
  BY SavedType
<1>2. \A r : r \in Recorded(more) <=> r \in InForce(rs) /\ r[1] = Parts[p]
  BY RecordedSaved
<1> HIDE DEF more
<1>3. \A r : r \in Recorded(lines \o more) <=> r \in Recorded(lines) \/ r \in Recorded(more)
  BY <1>1, RecordedConcat
<1>4. \A r \in Recorded(lines \o more) : r \in had
  BY <1>2, <1>3 DEF SoFar
<1>5. ASSUME NEW r \in hold, NEW k \in 1 .. 4, k < p + 1, r[1] = Parts[k]
      PROVE  r \in Recorded(lines \o more)
  <2>1. k < p \/ k = p
    BY <1>5
  <2>2. r \in InForce(rs)
    OBVIOUS
  <2> QED BY <1>2, <1>3, <1>5, <2>1, <2>2 DEF SoFar
<1>6. SoFar(lines \o more, p + 1, hold, had)
  BY <1>4, <1>5 DEF SoFar
<1> QED BY <1>6 DEF more

\* After the last part the file has what SaveRegular asks for.
LEMMA SoFarWhole ==
  ASSUME NEW lines, NEW hold, NEW had, NEW rs, hold \subseteq InForce(rs),
         SoFar(lines, 5, hold, had)
  PROVE  hold \subseteq Recorded(lines) /\ Recorded(lines) \subseteq had
<1>1. ASSUME NEW r \in hold PROVE \E k \in 1 .. 4 : r[1] = Parts[k]
  <2>1. r[1] \in {"IP", "APP", "DOMAIN", "PORT"}
    BY DEF InForce
  <2>2. Parts[1] = "IP" /\ Parts[2] = "APP" /\ Parts[3] = "DOMAIN" /\ Parts[4] = "PORT"
    BY DEF Parts
  <2> QED BY <2>1, <2>2
<1>2. \A k \in 1 .. 4 : k < 5
  OBVIOUS
<1> QED BY <1>1, <1>2 DEF SoFar

\* The state in which a save takes its next part.
LEMMA SavePartState ==
  ASSUME TypeInv, SaveInv, NEW a \in Admins, SavePart(a)
  PROVE  /\ held[a] \subseteq InForce(rules)
         /\ SoFar(buffer[a] \o Saved(rules, Parts[part[a]]), part[a] + 1, held[a], ever[a])
<1>1. apc[a] = "save" /\ Watched(a)
  BY DEF SavePart, Watched
<1>2. History(a)
  BY <1>1 DEF SaveInv, Histories, Threads
<1>3. buffer[a] \in Seq(Line) /\ part[a] \in 1 .. 4 /\ Fine(rules)
  BY DEF TypeInv, TypeOK, Fine
<1>4. SoFar(buffer[a], part[a], held[a], ever[a])
  BY <1>1 DEF SaveInv
<1> QED BY <1>2, <1>3, <1>4, SoFarPart DEF History

\* Every step preserves the invariant of saves.
LEMMA SaveNext == TypeInv /\ SaveInv /\ [Next]_vars => SaveInv'
<1> SUFFICES ASSUME TypeInv, SaveInv, [Next]_vars PROVE SaveInv'
  OBVIOUS
<1>0. TypeOK
  BY DEF TypeInv
<1>1. HistoryStep /\ PlacesInv'
  BY HistoryNext, PlacesNext DEF SaveInv
<1>2. ASSUME NEW a \in Admins, apc[a] = "save", apc'[a] = "save",
             buffer'[a] = buffer[a], part'[a] = part[a]
      PROVE  SoFar(buffer[a], part[a], held[a], ever[a])'
  <2>1. Watched(a) /\ Watched(a)' /\ a \in Threads
    BY <1>2 DEF Watched, Threads
  <2>2. GoesOn(a)
    BY <1>1, <2>1 DEF HistoryStep
  <2>3. SoFar(buffer[a], part[a], held[a], ever[a])
    BY <1>2 DEF SaveInv
  <2>4. SoFar(buffer[a], part[a], held'[a], ever'[a])
    BY <2>2, <2>3, SoFarWaits DEF GoesOn
  <2> QED BY <1>2, <2>4
<1>3. ASSUME NEW a \in Admins, SaveRules(a)
      PROVE  SoFar(buffer[a], part[a], held[a], ever[a])'
  <2>1. apc[a] = "idle" /\ UNCHANGED <<part, buffer>>
    BY <1>3 DEF SaveRules, Call
  <2>2. part'[a] = 1 /\ buffer'[a] = << >>
    BY <2>1 DEF SaveInv, PlacesInv, Placed
  <2>3. \A r : r \notin Recorded(<< >>)
    BY RecordedMeans, ToSetEmpty
  <2>4. \A k \in 1 .. 4 : ~(k < 1)
    OBVIOUS
  <2> QED BY <2>2, <2>3, <2>4 DEF SoFar
<1>4. ASSUME NEW a \in Admins, SavePart(a), apc'[a] = "save"
      PROVE  SoFar(buffer[a], part[a], held[a], ever[a])'
  <2>1. part[a] < 4
    BY <1>0, <1>4 DEF SavePart, TypeOK
  <2>2. /\ buffer'[a] = buffer[a] \o Saved(rules, Parts[part[a]])
        /\ part'[a] = part[a] + 1 /\ UNCHANGED <<held, ever>>
    BY <1>0, <1>4, <2>1 DEF SavePart, Keep, TypeOK
  <2>3. SoFar(buffer[a] \o Saved(rules, Parts[part[a]]), part[a] + 1, held[a], ever[a])
    BY <1>4, SavePartState
  <2> QED BY <2>2, <2>3
<1>5. ASSUME NEW a \in Admins, AdminStep(a), apc'[a] = "save"
      PROVE  SaveRules(a) \/ SavePart(a)
  <2>1. ASSUME apc[a] # "save" PROVE SaveRules(a)
    BY <1>0, <1>5, <2>1 DEF AdminStep, Block, Unblock, ClearAll, LoadRules, SaveRules,
          ClearPart, LoadLine, LoadEnd, SavePart, TypeOK
  <2>2. ASSUME apc[a] = "save" PROVE SavePart(a)
    BY <1>5, <2>2 DEF AdminStep, Block, Unblock, Call, ClearAll, LoadRules, SaveRules,
          ClearPart, LoadLine, LoadEnd
  <2> QED BY <2>1, <2>2
<1>6. ASSUME NEW a \in Admins, AdminStep(a) PROVE SaveInv'
  <2>1. ASSUME NEW b \in Admins, apc'[b] = "save"
        PROVE  SoFar(buffer[b], part[b], held[b], ever[b])'
    <3>1. CASE b = a
      BY <1>3, <1>4, <1>5, <1>6, <2>1, <3>1
    <3>2. CASE b # a
      <4>1. apc'[b] = apc[b] /\ part'[b] = part[b] /\ buffer'[b] = buffer[b]
        BY <1>0, <1>6, <3>2, OthersWait
      <4> QED BY <1>2, <2>1, <4>1
    <3> QED BY <3>1, <3>2
  <2> QED BY <1>1, <2>1 DEF SaveInv, HistoryStep
<1>7. CASE UNCHANGED <<rules, disk, adminVars>>
  <2>1. UNCHANGED <<apc, part, buffer>>
    BY <1>7 DEF adminVars
  <2>2. ASSUME NEW b \in Admins, apc'[b] = "save"
        PROVE  SoFar(buffer[b], part[b], held[b], ever[b])'
    BY <1>2, <2>1, <2>2
  <2> QED BY <1>1, <2>2 DEF SaveInv, HistoryStep
<1> QED BY <1>6, <1>7, StepsOfAdmins

\* No save is under way at the beginning.
LEMMA SaveInit == Init => SaveInv
<1>1. Init => \A a \in Admins : apc[a] # "save"
  BY DEF Init
<1> QED BY <1>1, LookupInit, PlacesInit DEF SaveInv, LookupInv

\* Types, histories and saves.
LEMMA SavesTold == Spec => []SaveInv
BY RulesTyped, SaveInit, SaveNext, PTL DEF Spec

\* A step that ends a save writes a file with every rule that was in force from
\* the beginning of the save to its end, and none that was not in force at some
\* time of it, whatever other admins do between the four locks.
THEOREM SavesAreRegular == Spec => SaveRegular
<1> DEFINE A == \A a \in Admins : apc[a] = "save" /\ apc'[a] = "idle" =>
                  \A lines \in disk' :
                    held[a] \subseteq Recorded(lines) /\ Recorded(lines) \subseteq ever[a]
<1>1. ASSUME TypeInv, SaveInv, [Next]_vars PROVE A
  <2>0. TypeOK
    BY <1>1 DEF TypeInv
  <2>1. ASSUME NEW a \in Admins, apc[a] = "save", apc'[a] = "idle", NEW lines \in disk'
        PROVE  held[a] \subseteq Recorded(lines) /\ Recorded(lines) \subseteq ever[a]
    <3>1. PICK b \in Admins : AdminStep(b)
      BY <1>1, <2>1, StepsOfAdmins DEF adminVars
    <3>2. b = a
      BY <2>0, <2>1, <3>1, OthersWait
    <3>3. SavePart(a)
      BY <2>1, <3>1, <3>2 DEF AdminStep, Block, Unblock, Call, ClearAll, LoadRules,
            SaveRules, ClearPart, LoadLine, LoadEnd
    <3>4. part[a] = 4 /\ disk' = {buffer[a] \o Saved(rules, Parts[part[a]])}
      <4>1. part[a] \in 1 .. 4
        BY <2>0 DEF TypeOK
      <4>2. ~(part[a] < 4)
        BY <2>1, <3>3 DEF SavePart
      <4>3. part[a] = 4
        BY <4>1, <4>2
      <4>4. disk' = {buffer[a] \o Saved(rules, Parts[part[a]])}
        BY <3>3, <4>2 DEF SavePart
      <4> QED BY <4>3, <4>4
    <3>5. /\ held[a] \subseteq InForce(rules)
          /\ SoFar(buffer[a] \o Saved(rules, Parts[part[a]]), part[a] + 1, held[a], ever[a])
      BY <1>1, <3>3, SavePartState
    <3>6. SoFar(lines, 5, held[a], ever[a])
      <4> DEFINE all == buffer[a] \o Saved(rules, Parts[part[a]])
                 next == part[a] + 1
      <4>1. next = 5
        BY <3>4
      <4>2. lines = all
        BY <3>4
      <4> HIDE DEF all, next
      <4>3. SoFar(all, next, held[a], ever[a])
        BY <3>5 DEF all, next
      <4> QED BY <4>1, <4>2, <4>3
    <3> QED BY <3>5, <3>6, SoFarWhole
  <2> QED BY <2>1
<1>2. Spec => [][A]_vars
  BY <1>1, RulesTyped, SavesTold, PTL DEF Spec
<1> QED BY <1>2 DEF SaveRegular

-----------------------------------------------------------------------------
(* What a list of lines stands for *)

\* The values of one type that a line, and a list of lines, stand for.
LineValues(line, type) == {r[2] : r \in {x \in Loaded(line) : x[1] = type}}
Values(lines, type) ==
  {r[2] : r \in {x \in UNION {Loaded(line) : line \in ToSet(lines)} : x[1] = type}}

\* The name on a line.
NameOn(line) == IF line[1] = "DOMAIN" THEN FirstWord(line[2]) ELSE << >>
NamesOn(lines) == [i \in DOMAIN lines |-> NameOn(lines[i])]

Plain(D) == {d \in D : ~IsPattern(d)}

\* Meaning, container by container.
LEMMA MeaningIs ==
  ASSUME NEW lines
  PROVE  Meaning(lines) =
           Made(Values(lines, "IP"), Values(lines, "APP"), Plain(Values(lines, "DOMAIN")),
                Only(NamesOn(lines), Pattern), Values(lines, "PORT"))
<1>1. NamesOn(lines) = [i \in DOMAIN lines |->
        IF lines[i][1] = "DOMAIN" THEN FirstWord(lines[i][2]) ELSE << >>]
  BY DEF NamesOn, NameOn
<1> DEFINE names == NamesOn(lines)
<1> HIDE DEF names
<1>2. Meaning(lines) =
       [ips |-> Values(lines, "IP"), apps |-> Values(lines, "APP"),
        ports |-> Values(lines, "PORT"),
        domains |-> {d \in Values(lines, "DOMAIN") : ~IsPattern(d)},
        patterns |-> Only(NamesOn(lines), Pattern)]
  BY <1>1 DEF Meaning, Values
<1> QED BY <1>2 DEF Made, Plain

\* A value is on one of the lines.
LEMMA ValuesMean ==
  ASSUME NEW lines, NEW type, NEW v
  PROVE  v \in Values(lines, type) <=> \E line \in ToSet(lines) : v \in LineValues(line, type)
BY DEF Values, LineValues

\* No lines, no rules.
LEMMA MeaningNothing == Meaning(<< >>) = NoRules
<1>1. \A type : Values(<< >>, type) = {}
  BY ValuesMean, ToSetEmpty
<1>2. NamesOn(<< >>) = << >>
  BY DEF NamesOn
<1>3. << >> \in Seq(Name) /\ \A i \in DOMAIN << >> : << >>[i] \notin Pattern
  OBVIOUS
<1>4. Only(<< >>, Pattern) = << >>
  BY <1>3, OnlyNone
<1>5. Plain({}) = {}
  BY DEF Plain
<1> QED BY <1>1, <1>2, <1>4, <1>5, MeaningIs DEF Made, NoRules

\* One more line adds its values.
LEMMA ValuesAppend ==
  ASSUME NEW s \in Seq(Line), NEW line \in Line, NEW type
  PROVE  Values(Append(s, line), type) = Values(s, type) \cup LineValues(line, type)
<1> DEFINE u == Append(s, line)
<1>1. ToSet(u) = ToSet(s) \cup {line}
  BY ToSetAppend
<1> HIDE DEF u
<1>2. \A v : v \in Values(u, type) <=> v \in Values(s, type) \/ v \in LineValues(line, type)
  BY <1>1, ValuesMean
<1>3. Values(u, type) = Values(s, type) \cup LineValues(line, type)
  BY <1>2
<1> QED BY <1>3 DEF u

\* The empty name is no pattern.
LEMMA EmptyName == << >> \in Name /\ << >> \notin Pattern
BY DEF Name, Pattern, IsPattern, Contains

\* The name on a line is a name.
LEMMA NameOnType ==
  ASSUME NEW line \in Line
  PROVE  NameOn(line) \in Name
<1>1. ASSUME NEW n \in Name, line = <<"DOMAIN", n>> PROVE NameOn(line) \in Name
  BY <1>1, FirstWordType DEF NameOn
<1>2. ASSUME line[1] # "DOMAIN" PROVE NameOn(line) \in Name
  BY <1>2, EmptyName DEF NameOn
<1>3. line[1] # "DOMAIN" \/ \E n \in Name : line = <<"DOMAIN", n>>
  BY LineKinds
<1> QED BY <1>1, <1>2, <1>3

\* n are the names on the lines.
NamesAre(lines, n) == /\ n \in Seq(Name) /\ Len(n) = Len(lines)
                      /\ \A i \in 1 .. Len(lines) : n[i] = NameOn(lines[i])

\* There is a name, perhaps the empty one, on every line.
LEMMA NamesOnType ==
  ASSUME NEW s \in Seq(Line)
  PROVE  NamesAre(s, NamesOn(s))
<1> DEFINE n == [i \in 1 .. Len(s) |-> NameOn(s[i])]
<1>1. Len(s) \in Nat /\ DOMAIN s = 1 .. Len(s) /\ \A i \in 1 .. Len(s) : s[i] \in Line
  OBVIOUS
<1>2. \A i \in 1 .. Len(s) : n[i] = NameOn(s[i]) /\ n[i] \in Name
  BY <1>1, NameOnType
<1>3. n \in Seq(Name) /\ Len(n) = Len(s)
  BY <1>1, <1>2
<1>4. NamesOn(s) = n
  BY <1>1 DEF NamesOn
<1> HIDE DEF n
<1> QED BY <1>2, <1>3, <1>4 DEF NamesAre

\* The names on two lists of lines.
LEMMA NamesOnConcat ==
  ASSUME NEW s \in Seq(Line), NEW t \in Seq(Line)
  PROVE  Concat(NamesOn(s), NamesOn(t), NamesOn(s \o t))
<1> DEFINE u == s \o t
           n == NamesOn(s)
           m == NamesOn(t)
           o == NamesOn(u)
<1>1. /\ u \in Seq(Line) /\ Len(u) = Len(s) + Len(t) /\ Len(s) \in Nat /\ Len(t) \in Nat
      /\ \A i \in 1 .. Len(s) : u[i] = s[i]
      /\ \A i \in 1 .. Len(t) : u[Len(s) + i] = t[i]
  OBVIOUS
<1> HIDE DEF u
<1>2. NamesAre(s, n) /\ NamesAre(t, m) /\ NamesAre(u, o)
  BY <1>1, NamesOnType
<1> HIDE DEF n, m, o
<1>3. n \in Seq(Name) /\ m \in Seq(Name) /\ o \in Seq(Name)
  BY <1>2 DEF NamesAre
<1>4. n \o m \in Seq(Name) /\ Len(n \o m) = Len(o) /\ Len(o) = Len(s) + Len(t)
  <2>1. n \o m \in Seq(Name) /\ Len(n \o m) = Len(n) + Len(m)
    BY <1>3
  <2>2. Len(n) = Len(s) /\ Len(m) = Len(t) /\ Len(o) = Len(u)
    BY <1>2 DEF NamesAre
  <2> QED BY <1>1, <2>1, <2>2
<1>5. ASSUME NEW i \in 1 .. Len(o) PROVE o[i] = (n \o m)[i]
  <2>1. CASE i <= Len(s)
    <3>1. i \in 1 .. Len(s) /\ i \in 1 .. Len(u) /\ i \in 1 .. Len(n)
      BY <1>1, <1>2, <1>4, <2>1 DEF NamesAre
    <3>2. (n \o m)[i] = n[i]
      BY <1>3, <3>1
    <3>3. o[i] = NameOn(u[i]) /\ n[i] = NameOn(s[i])
      BY <1>2, <3>1 DEF NamesAre
    <3> QED BY <1>1, <3>1, <3>2, <3>3
  <2>2. CASE ~(i <= Len(s))
    <3> DEFINE j == i - Len(s)
    <3>1. j \in 1 .. Len(t) /\ i \in 1 .. Len(u) /\ j \in 1 .. Len(m) /\ i = Len(s) + j
      BY <1>1, <1>2, <1>4, <2>2 DEF NamesAre
    <3> HIDE DEF j
    <3>2. (n \o m)[i] = m[j]
      <4>1. Len(n) = Len(s)
        BY <1>2 DEF NamesAre
      <4> QED BY <1>3, <3>1, <4>1
    <3>3. o[i] = NameOn(u[i]) /\ m[j] = NameOn(t[j])
      BY <1>2, <3>1 DEF NamesAre
    <3> QED BY <1>1, <3>1, <3>2, <3>3
  <2> QED BY <2>1, <2>2
<1>6. o = n \o m
  BY <1>3, <1>4, <1>5, SeqEqual
<1> QED BY <1>6 DEF Concat, n, m, o, u

\* The patterns on a list of lines, in their order.
PatternsOn(lines) == Only(NamesOn(lines), Pattern)

\* The patterns on two lists of lines.
LEMMA PatternsConcat ==
  ASSUME NEW s \in Seq(Line), NEW t \in Seq(Line)
  PROVE  Concat(PatternsOn(s), PatternsOn(t), PatternsOn(s \o t))
<1> DEFINE n == NamesOn(s)
           m == NamesOn(t)
<1>1. NamesOn(s \o t) = n \o m
  BY NamesOnConcat DEF Concat
<1>2. n \in Seq(Name) /\ m \in Seq(Name)
  BY NamesOnType DEF NamesAre
<1> HIDE DEF n, m
<1>3. Only(n \o m, Pattern) = Only(n, Pattern) \o Only(m, Pattern)
  BY <1>2, OnlyConcat
<1> QED BY <1>1, <1>3 DEF PatternsOn, Concat, n, m

\* One more line may add one pattern, behind the others.
LEMMA PatternsAppend ==
  ASSUME NEW s \in Seq(Line), NEW line \in Line
  PROVE  PatternsOn(Append(s, line)) =
           IF NameOn(line) \in Pattern THEN Append(PatternsOn(s), NameOn(line))
                                       ELSE PatternsOn(s)
<1> DEFINE t == <<line>>
           n == NameOn(line)
           p == PatternsOn(s)
<1>1. t \in Seq(Line) /\ Append(s, line) = s \o t /\ Len(t) = 1 /\ t[1] = line
  BY AppendIsConcat
<1>2. NamesOn(t) = <<n>>
  <2>1. DOMAIN t = {1} /\ t[1] = line
    OBVIOUS
  <2>2. NamesOn(t) = [i \in {1} |-> n]
    BY <2>1 DEF NamesOn
  <2>3. <<n>> = [i \in {1} |-> n]
    OBVIOUS
  <2> QED BY <2>2, <2>3
<1>3. n \in Name
  BY NameOnType
<1> HIDE DEF n
<1>4. Only(<<n>>, Pattern) = IF n \in Pattern THEN <<n>> ELSE << >>
  BY <1>3, OnlyOne
<1>5. PatternsOn(t) = IF n \in Pattern THEN <<n>> ELSE << >>
  BY <1>2, <1>4 DEF PatternsOn
<1> HIDE DEF t
<1>6. PatternsOn(s \o t) = p \o PatternsOn(t)
  BY <1>1, PatternsConcat DEF Concat
<1>7. p \in Seq(Name)
  <2> DEFINE m == NamesOn(s)
  <2>1. m \in Seq(Name)
    BY NamesOnType DEF NamesAre
  <2> HIDE DEF m
  <2>2. Only(m, Pattern) \in Seq(Name \cap Pattern)
    BY <2>1, OnlyType
  <2>3. Only(m, Pattern) \in Seq(Name)
    BY <2>2
  <2> QED BY <2>3 DEF PatternsOn, m
<1> HIDE DEF p
<1>8. p \o <<n>> = Append(p, n) /\ p \o << >> = p
  BY <1>3, <1>7
<1> QED BY <1>1, <1>5, <1>6, <1>8 DEF n, p

\* A line adds one rule at most; if it is a name, it is the one on the line.
LEMMA LoadedOne ==
  ASSUME NEW line \in Line, NEW r \in Loaded(line)
  PROVE  /\ Loaded(line) = {r} /\ r \in Rule
         /\ NameOn(line) = IF r[1] = "DOMAIN" THEN r[2] ELSE << >>
<1>0. r \in Rule
  BY LoadedType
<1>1. ASSUME NEW b \in Octets, line = <<"IP", b>>
      PROVE  Loaded(line) = {r} /\ NameOn(line) = IF r[1] = "DOMAIN" THEN r[2] ELSE << >>
  <2>1. Loaded(line) = {<<"IP", ParseIP(b)>>}
    BY <1>1 DEF Loaded
  <2> QED BY <1>1, <2>1 DEF NameOn
<1>2. ASSUME NEW w \in STRING, line = <<"APP", w>>
      PROVE  Loaded(line) = {r} /\ NameOn(line) = IF r[1] = "DOMAIN" THEN r[2] ELSE << >>
  <2>1. Loaded(line) = {<<"APP", a>> : a \in {b \in AppTypes : AppNames[b + 1] = w}}
    BY <1>2 DEF Loaded
  <2>2. PICK a \in AppTypes : AppNames[a + 1] = w /\ r = <<"APP", a>>
    BY <2>1
  <2>3. Loaded(<<"APP", AppNames[a + 1]>>) = {<<"APP", a>>}
    BY LoadedBack
  <2> QED BY <1>2, <2>2, <2>3 DEF NameOn
<1>3. ASSUME NEW n \in Name, line = <<"DOMAIN", n>>
      PROVE  Loaded(line) = {r} /\ NameOn(line) = IF r[1] = "DOMAIN" THEN r[2] ELSE << >>
  <2>1. Loaded(line) = {<<"DOMAIN", FirstWord(n)>>} \/ Loaded(line) = {}
    BY <1>3 DEF Loaded
  <2>2. Loaded(line) = {r} /\ r = <<"DOMAIN", FirstWord(n)>>
    BY <2>1
  <2> QED BY <1>3, <2>2 DEF NameOn
<1>4. ASSUME NEW v \in Seq(Int), Len(v) <= 1, line = <<"PORT", v>>
      PROVE  Loaded(line) = {r} /\ NameOn(line) = IF r[1] = "DOMAIN" THEN r[2] ELSE << >>
  <2>1. Loaded(line) = {<<"PORT", PortOf(n)>> : n \in ToSet(v)}
    BY <1>4 DEF Loaded
  <2>2. \A m, n \in ToSet(v) : m = n
    <3>1. Len(v) \in Nat /\ \A i, j \in 1 .. Len(v) : i = j
      BY <1>4
    <3> QED BY <3>1, ToSetOf
  <2>3. Loaded(line) = {r} /\ \E n \in ToSet(v) : r = <<"PORT", PortOf(n)>>
    BY <2>1, <2>2
  <2> QED BY <1>4, <2>3 DEF NameOn
<1>5. ASSUME NEW t \in STRING \ {"IP", "APP", "DOMAIN", "PORT"}, NEW n \in Name,
             line = <<t, n>>
      PROVE  FALSE
  BY <1>5 DEF Loaded
<1> QED BY <1>0, <1>1, <1>2, <1>3, <1>4, <1>5, LineKinds

\* A line that adds none has no pattern on it.
LEMMA LoadedNone ==
  ASSUME NEW line \in Line, Loaded(line) = {}
  PROVE  NameOn(line) = << >>
<1>1. ASSUME NEW n \in Name, line = <<"DOMAIN", n>> PROVE FirstWord(n) = << >>
  <2>1. FirstWord(n) # << >> => Loaded(line) = {<<"DOMAIN", FirstWord(n)>>}
    BY <1>1 DEF Loaded
  <2> QED BY <2>1
<1>2. line[1] # "DOMAIN" \/ \E n \in Name : line = <<"DOMAIN", n>>
  BY LineKinds
<1> QED BY <1>1, <1>2 DEF NameOn

\* The values of a line that adds one rule.
LEMMA LineValuesOne ==
  ASSUME NEW line, NEW r, NEW type, Loaded(line) = {r}
  PROVE  LineValues(line, type) = IF r[1] = type THEN {r[2]} ELSE {}
BY DEF LineValues

\* The lines read so far and one more, as rules: what the step of the loop does.
OneMore(s, line) ==
  /\ Loaded(line) = {} => Meaning(Append(s, line)) = Meaning(s)
  /\ \A r \in Loaded(line) : Meaning(Append(s, line)) = Added(Meaning(s), r)

\* Loading one more line is what the meaning of the lines adds.
LEMMA MeaningAppend ==
  ASSUME NEW s \in Seq(Line), NEW line \in Line
  PROVE  OneMore(s, line)
<1> DEFINE u == Append(s, line)
           I == Values(s, "IP")
           A == Values(s, "APP")
           D == Values(s, "DOMAIN")
           P == PatternsOn(s)
           O == Values(s, "PORT")
<1>1. Meaning(s) = Made(I, A, Plain(D), P, O)
  BY MeaningIs DEF PatternsOn
<1>2. Meaning(u) = Made(Values(u, "IP"), Values(u, "APP"), Plain(Values(u, "DOMAIN")),
                        PatternsOn(u), Values(u, "PORT"))
  BY MeaningIs DEF PatternsOn
<1>3. \A type : Values(u, type) = Values(s, type) \cup LineValues(line, type)
  BY ValuesAppend
<1>4. PatternsOn(u) = IF NameOn(line) \in Pattern THEN Append(P, NameOn(line)) ELSE P
  BY PatternsAppend
<1>5. << >> \notin Pattern
  BY EmptyName
<1> HIDE DEF u, I, A, D, P, O
<1>6. ASSUME Loaded(line) = {} PROVE Meaning(u) = Meaning(s)
  <2>1. \A type : LineValues(line, type) = {}
    BY <1>6 DEF LineValues
  <2>2. PatternsOn(u) = P
    BY <1>4, <1>5, <1>6, LoadedNone
  <2>3. Values(u, "IP") = I /\ Values(u, "APP") = A /\ Values(u, "DOMAIN") = D
        /\ Values(u, "PORT") = O
    BY <1>3, <2>1 DEF I, A, D, O
  <2> QED BY <1>1, <1>2, <2>2, <2>3
<1>7. ASSUME NEW r \in Loaded(line) PROVE Meaning(u) = Added(Meaning(s), r)
  <2>1. /\ Loaded(line) = {r} /\ r \in Rule
        /\ NameOn(line) = IF r[1] = "DOMAIN" THEN r[2] ELSE << >>
    BY LoadedOne
  <2>2. \A type : LineValues(line, type) = IF r[1] = type THEN {r[2]} ELSE {}
    BY <2>1, LineValuesOne
  <2>3. ASSUME NEW v, r = <<"IP", v>> PROVE Meaning(u) = Added(Meaning(s), r)
    <3>1. /\ Values(u, "IP") = I \cup {v} /\ Values(u, "APP") = A /\ Values(u, "DOMAIN") = D
          /\ Values(u, "PORT") = O
      BY <1>3, <2>2, <2>3 DEF I, A, D, O
    <3>2. PatternsOn(u) = P
      BY <1>4, <1>5, <2>1, <2>3
    <3>3. Added(Made(I, A, Plain(D), P, O), <<"IP", v>>) = Made(I \cup {v}, A, Plain(D), P, O)
      BY DEF Added, Made
    <3> QED BY <1>1, <1>2, <2>3, <3>1, <3>2, <3>3
  <2>4. ASSUME NEW v, r = <<"APP", v>> PROVE Meaning(u) = Added(Meaning(s), r)
    <3>1. /\ Values(u, "IP") = I /\ Values(u, "APP") = A \cup {v} /\ Values(u, "DOMAIN") = D
          /\ Values(u, "PORT") = O
      BY <1>3, <2>2, <2>4 DEF I, A, D, O
    <3>2. PatternsOn(u) = P
      BY <1>4, <1>5, <2>1, <2>4
    <3>3. Added(Made(I, A, Plain(D), P, O), <<"APP", v>>) = Made(I, A \cup {v}, Plain(D), P, O)
      BY DEF Added, Made
    <3> QED BY <1>1, <1>2, <2>4, <3>1, <3>2, <3>3
  <2>5. ASSUME NEW v, r = <<"PORT", v>> PROVE Meaning(u) = Added(Meaning(s), r)
    <3>1. /\ Values(u, "IP") = I /\ Values(u, "APP") = A /\ Values(u, "DOMAIN") = D
          /\ Values(u, "PORT") = O \cup {v}
      BY <1>3, <2>2, <2>5 DEF I, A, D, O
    <3>2. PatternsOn(u) = P
      BY <1>4, <1>5, <2>1, <2>5
    <3>3. Added(Made(I, A, Plain(D), P, O), <<"PORT", v>>) = Made(I, A, Plain(D), P, O \cup {v})
      BY DEF Added, Made
    <3> QED BY <1>1, <1>2, <2>5, <3>1, <3>2, <3>3
  <2>6. ASSUME NEW v \in Name, r = <<"DOMAIN", v>> PROVE Meaning(u) = Added(Meaning(s), r)
    <3>1. /\ Values(u, "IP") = I /\ Values(u, "APP") = A /\ Values(u, "DOMAIN") = D \cup {v}
          /\ Values(u, "PORT") = O
      BY <1>3, <2>2, <2>6 DEF I, A, D, O
    <3>2. NameOn(line) = v /\ (v \in Pattern <=> IsPattern(v))
      BY <2>1, <2>6 DEF Pattern
    <3>3. CASE IsPattern(v)
      <4>1. PatternsOn(u) = Append(P, v) /\ Plain(D \cup {v}) = Plain(D)
        BY <1>4, <3>2, <3>3 DEF Plain
      <4>2. Added(Made(I, A, Plain(D), P, O), <<"DOMAIN", v>>)
              = Made(I, A, Plain(D), Append(P, v), O)
        BY <3>3 DEF Added, Made
      <4> QED BY <1>1, <1>2, <2>6, <3>1, <4>1, <4>2
    <3>4. CASE ~IsPattern(v)
      <4>1. PatternsOn(u) = P /\ Plain(D \cup {v}) = Plain(D) \cup {v}
        BY <1>4, <3>2, <3>4 DEF Plain
      <4>2. Added(Made(I, A, Plain(D), P, O), <<"DOMAIN", v>>)
              = Made(I, A, Plain(D) \cup {v}, P, O)
        BY <3>4 DEF Added, Made
      <4> QED BY <1>1, <1>2, <2>6, <3>1, <4>1, <4>2
    <3> QED BY <3>3, <3>4
  <2> QED BY <2>1, <2>3, <2>4, <2>5, <2>6 DEF Rule
<1> QED BY <1>6, <1>7 DEF OneMore, u

-----------------------------------------------------------------------------
(* Loads *)

\* The parts before the k-th are empty.
Emptied(rs, k) == /\ k > 1 => rs.ips = {}
                  /\ k > 2 => rs.apps = {}
                  /\ k > 3 => rs.domains = {} /\ rs.patterns = << >>

\* A load that nobody has disturbed has emptied the parts it is done with, and
\* then has the rules of the lines it has read.
Loading(a) == /\ apc[a] = "reload" => Emptied(rules, part[a])
              /\ apc[a] = "load" => rules = Meaning(read[a])

LoadInv == PlacesInv /\ \A a \in alone : Loading(a)

\* One part more is emptied; after the fourth nothing is left.
LEMMA EmptiedStep ==
  ASSUME NEW rs, Fine(rs), NEW k \in 1 .. 4, Emptied(rs, k)
  PROVE  /\ k < 4 => Emptied(Cleared(rs, Parts[k]), k + 1)
         /\ k = 4 => Cleared(rs, Parts[k]) = NoRules
<1>1. PICK i \in SUBSET Addresses, a \in SUBSET AppTypes,
           d \in SUBSET (Name \ Pattern), p \in Seq(Pattern), o \in SUBSET WordValues :
        rs = Made(i, a, d, p, o)
  BY FineIs
<1>2. rs.ips = i /\ rs.apps = a /\ rs.domains = d /\ rs.patterns = p
  BY <1>1 DEF Made
<1>3. Parts[1] = "IP" /\ Parts[2] = "APP" /\ Parts[3] = "DOMAIN" /\ Parts[4] = "PORT"
  BY DEF Parts
<1>4. CASE k = 1
  <2>1. Cleared(rs, Parts[k]) = Made({}, a, d, p, o)
    BY <1>1, <1>3, <1>4, ClearedIs
  <2> QED BY <1>4, <2>1 DEF Emptied, Made
<1>5. CASE k = 2
  <2>1. Cleared(rs, Parts[k]) = Made(i, {}, d, p, o) /\ i = {}
    BY <1>1, <1>2, <1>3, <1>5, ClearedIs DEF Emptied
  <2> QED BY <1>5, <2>1 DEF Emptied, Made
<1>6. CASE k = 3
  <2>1. Cleared(rs, Parts[k]) = Made(i, a, {}, << >>, o) /\ i = {} /\ a = {}
    BY <1>1, <1>2, <1>3, <1>6, ClearedIs DEF Emptied
  <2> QED BY <1>6, <2>1 DEF Emptied, Made
<1>7. CASE k = 4
  <2>1. Cleared(rs, Parts[k]) = Made(i, a, d, p, {})
    BY <1>1, <1>3, <1>7, ClearedIs
  <2>2. i = {} /\ a = {} /\ d = {} /\ p = << >>
    BY <1>2, <1>7 DEF Emptied
  <2> QED BY <1>7, <2>1, <2>2 DEF Made, NoRules
<1> QED BY <1>4, <1>5, <1>6, <1>7

\* An admin that stays alone while another makes a step was alone before it, and
\* has the same rules.
LEMMA AloneStays ==
  ASSUME NEW b \in Admins, AdminStep(b), NEW a \in alone', a # b
  PROVE  a \in alone /\ rules' = rules
<1>1. ASSUME NEW rs, Change(b, rs) PROVE FALSE
  BY <1>1 DEF Change
<1> QED BY <1>1 DEF AdminStep, Block, Unblock, ClearAll, LoadRules, SaveRules, ClearPart,
         LoadLine, LoadEnd, SavePart, Keep

\* No load is under way at the beginning.
LEMMA LoadInit == Init => LoadInv
<1>1. Init => alone = {}
  BY DEF Init
<1> QED BY <1>1, PlacesInit DEF LoadInv

\* Every step preserves the invariant of loads.
LEMMA LoadNext == TypeInv /\ LoadInv /\ [Next]_vars => LoadInv'
<1> SUFFICES ASSUME TypeInv, LoadInv, [Next]_vars PROVE LoadInv'
  OBVIOUS
<1>0. TypeOK /\ Fine(rules)
  BY DEF TypeInv, TypeOK, Fine
<1>1. PlacesInv /\ PlacesInv' /\ TypeOK'
  BY PlacesNext, TypeNext DEF LoadInv, TypeInv
<1>2. CASE UNCHANGED <<rules, disk, adminVars>>
  <2>1. UNCHANGED <<rules, apc, part, read, alone>>
    BY <1>2 DEF adminVars
  <2> QED BY <1>1, <2>1 DEF LoadInv, Loading
<1>3. ASSUME NEW b \in Admins, AdminStep(b), NEW a \in alone' PROVE Loading(a)'
  <2>0. a \in Admins
    BY <1>1 DEF TypeOK
  <2>1. CASE a # b
    <3>1. a \in alone /\ rules' = rules
      BY <1>3, <2>1, AloneStays
    <3>2. apc'[a] = apc[a] /\ part'[a] = part[a] /\ read'[a] = read[a]
      BY <1>0, <1>3, <2>0, <2>1, OthersWait
    <3> QED BY <3>1, <3>2 DEF LoadInv, Loading
  <2>2. CASE a = b
    <3>0. Placed(b)
      BY <1>1 DEF PlacesInv
    <3>1. CASE LoadRules(b)
      <4>1. apc'[b] = "reload" /\ part'[b] = 1
        BY <1>0, <3>0, <3>1 DEF LoadRules, Call, TypeOK, Placed
      <4> QED BY <2>2, <4>1 DEF Loading, Emptied
    <3>2. CASE SaveRules(b)
      <4>1. apc'[b] = "save"
        BY <1>0, <3>2 DEF SaveRules, TypeOK
      <4> QED BY <2>2, <4>1 DEF Loading
    <3>3. CASE (\E r \in AnyRule : Block(b, r) \/ Unblock(b, r)) \/ ClearAll(b) \/ LoadEnd(b)
      <4>1. apc[b] = "idle" \/ b \notin alone'
        BY <3>3 DEF Block, Unblock, Call, ClearAll, LoadEnd
      <4>2. alone' \subseteq alone
        BY <3>3 DEF Block, Unblock, Change, ClearAll, LoadEnd
      <4> QED BY <1>3, <2>2, <3>0, <4>1, <4>2 DEF Placed
    <3>4. CASE SavePart(b)
      <4>1. apc[b] = "save" /\ (UNCHANGED apc \/ b \notin alone')
        BY <3>4 DEF SavePart
      <4> QED BY <1>3, <2>2, <4>1 DEF Loading
    <3>5. CASE ClearPart(b)
      <4>1. /\ apc[b] \in {"clear", "reload"} /\ b \in alone
            /\ rules' = Cleared(rules, Parts[part[b]]) /\ UNCHANGED read
        BY <1>3, <2>2, <3>5 DEF ClearPart, Change
      <4>2. apc[b] = "reload" /\ part[b] \in 1 .. 4 /\ Emptied(rules, part[b])
            /\ read[b] = << >>
        BY <1>0, <3>0, <4>1 DEF LoadInv, Loading, Placed, TypeOK
      <4>3. CASE part[b] < 4
        <5>1. part'[b] = part[b] + 1 /\ apc'[b] = "reload"
          BY <1>0, <3>5, <4>2, <4>3 DEF ClearPart, TypeOK
        <5>2. Emptied(rules', part[b] + 1)
          BY <1>0, <4>1, <4>2, <4>3, EmptiedStep
        <5> QED BY <2>2, <5>1, <5>2 DEF Loading
      <4>4. CASE ~(part[b] < 4)
        <5>1. apc'[b] = "load" /\ part[b] = 4
          <6>1. apc'[b] = "load"
            BY <1>0, <3>5, <4>2, <4>4 DEF ClearPart, TypeOK
          <6>2. part[b] = 4
            BY <4>2, <4>4
          <6> QED BY <6>1, <6>2
        <5>2. rules' = NoRules
          BY <1>0, <4>1, <4>2, <5>1, EmptiedStep
        <5> QED BY <2>2, <4>1, <4>2, <5>1, <5>2, MeaningNothing DEF Loading
      <4> QED BY <4>3, <4>4
    <3>6. CASE LoadLine(b)
      <4> DEFINE line == Head(todo[b])
                 s == read[b]
      <4>1. /\ UNCHANGED apc /\ apc[b] = "load" /\ b \in alone
            /\ read'[b] = Append(s, line)
        BY <1>0, <1>3, <2>2, <3>6 DEF LoadLine, Change, TypeOK
      <4>2. s \in Seq(Line) /\ line \in Line
        <5>1. todo[b] \in Seq(Line) /\ read[b] \in Seq(Line) /\ todo[b] # << >>
          BY <1>0, <3>6 DEF LoadLine, TypeOK
        <5> QED BY <5>1
      <4>3. \/ Loaded(line) = {} /\ rules' = rules
            \/ \E r \in Loaded(line) : rules' = Added(rules, r)
        BY <3>6 DEF LoadLine, Keep, Change
      <4>4. rules = Meaning(s)
        BY <4>1 DEF LoadInv, Loading
      <4> HIDE DEF line, s
      <4>5. OneMore(s, line)
        BY <4>2, MeaningAppend
      <4>6. rules' = Meaning(Append(s, line))
        BY <4>3, <4>4, <4>5 DEF OneMore
      <4> QED BY <2>2, <4>1, <4>6 DEF Loading
    <3> QED BY <1>3, <3>1, <3>2, <3>3, <3>4, <3>5, <3>6 DEF AdminStep
  <2> QED BY <2>1, <2>2
<1> QED BY <1>1, <1>2, <1>3, StepsOfAdmins DEF LoadInv

\* Types and loads.
LEMMA LoadsTold == Spec => []LoadInv
BY RulesTyped, LoadInit, LoadNext, PTL DEF Spec

\* A load that no other admin interferes with leaves at every line exactly the
\* rules of the lines read so far, of whatever file.
THEOREM LoadsFollowTheFile == Spec => []LoadFollowsFile
<1>1. LoadInv => LoadFollowsFile
  BY DEF LoadInv, Loading, LoadFollowsFile
<1> QED BY <1>1, LoadsTold, PTL

-----------------------------------------------------------------------------
(* A file saved and loaded *)

\* The values on two lists of lines.
LEMMA ValuesConcat ==
  ASSUME NEW s \in Seq(Line), NEW t \in Seq(Line), NEW type, NEW v
  PROVE  v \in Values(s \o t, type) <=> v \in Values(s, type) \/ v \in Values(t, type)
<1> DEFINE u == s \o t
<1>1. ToSet(u) = ToSet(s) \cup ToSet(t)
  BY ToSetConcat
<1> HIDE DEF u
<1>2. v \in Values(u, type) <=> v \in Values(s, type) \/ v \in Values(t, type)
  BY <1>1, ValuesMean
<1> QED BY <1>2 DEF u

\* A line that adds one rule, and the value on it.
Adds(line, t, w) == Loaded(line) = {<<t, w>>}
HasOnly(line, t, w) == \A type, v : v \in LineValues(line, type) <=> type = t /\ v = w

\* It has that value, of that type, and no other.
LEMMA OneValue ==
  ASSUME NEW line, NEW t, NEW w, Adds(line, t, w)
  PROVE  HasOnly(line, t, w)
<1> DEFINE r == <<t, w>>
<1>1. r[1] = t /\ r[2] = w /\ Loaded(line) = {r}
  BY DEF Adds
<1> HIDE DEF r
<1>2. ASSUME NEW type PROVE LineValues(line, type) = IF r[1] = type THEN {r[2]} ELSE {}
  BY <1>1, LineValuesOne
<1> QED BY <1>1, <1>2 DEF HasOnly

\* The values on what is written for one part are those of the rules; a name is
\* cut down to its first word.
LEMMA SavedValues ==
  ASSUME NEW rs, Fine(rs), NEW type, NEW v
  PROVE  /\ v \in Values(Saved(rs, "IP"), type) <=> type = "IP" /\ v \in rs.ips
         /\ v \in Values(Saved(rs, "APP"), type) <=> type = "APP" /\ v \in rs.apps
         /\ v \in Values(Saved(rs, "PORT"), type) <=> type = "PORT" /\ v \in rs.ports
         /\ v \in Values(Saved(rs, "DOMAIN"), type) <=>
              /\ type = "DOMAIN" /\ v # << >>
              /\ \E d \in rs.domains \cup ToSet(rs.patterns) : v = FirstWord(d)
<1>0. /\ rs.ips \subseteq Addresses /\ rs.apps \subseteq AppTypes
      /\ rs.ports \subseteq WordValues
  BY DEF Fine, RuleSets
<1>1. \A lines : v \in Values(lines, type) <=>
                   \E line \in ToSet(lines) : v \in LineValues(line, type)
  BY ValuesMean
<1>2. v \in Values(Saved(rs, "IP"), type) <=> type = "IP" /\ v \in rs.ips
  <2>1. ToSet(Saved(rs, "IP")) = {<<"IP", IpToString(w)>> : w \in rs.ips}
    BY SavedIs
  <2>2. ASSUME NEW w \in rs.ips
        PROVE  v \in LineValues(<<"IP", IpToString(w)>>, type) <=> type = "IP" /\ v = w
    <3> DEFINE l == <<"IP", IpToString(w)>>
    <3>1. Adds(l, "IP", w)
      BY <1>0, LoadedBack DEF Adds
    <3> HIDE DEF l
    <3>2. HasOnly(l, "IP", w)
      BY <3>1, OneValue
    <3>3. v \in LineValues(l, type) <=> type = "IP" /\ v = w
      BY <3>2 DEF HasOnly
    <3> QED BY <3>3 DEF l
  <2>3. (\E line \in {<<"IP", IpToString(w)>> : w \in rs.ips} : v \in LineValues(line, type))
          <=> \E w \in rs.ips : v \in LineValues(<<"IP", IpToString(w)>>, type)
    OBVIOUS
  <2>4. v \in Values(Saved(rs, "IP"), type) <=>
          \E line \in ToSet(Saved(rs, "IP")) : v \in LineValues(line, type)
    BY <1>1
  <2>5. v \in Values(Saved(rs, "IP"), type) <=> \E w \in rs.ips : type = "IP" /\ v = w
    BY <2>1, <2>2, <2>3, <2>4
  <2> QED BY <2>5
<1>3. v \in Values(Saved(rs, "APP"), type) <=> type = "APP" /\ v \in rs.apps
  <2>1. ToSet(Saved(rs, "APP")) = {<<"APP", AppNames[w + 1]>> : w \in rs.apps}
    BY SavedIs
  <2>2. ASSUME NEW w \in rs.apps
        PROVE  v \in LineValues(<<"APP", AppNames[w + 1]>>, type) <=> type = "APP" /\ v = w
    <3> DEFINE l == <<"APP", AppNames[w + 1]>>
    <3>1. Adds(l, "APP", w)
      BY <1>0, LoadedBack DEF Adds
    <3> HIDE DEF l
    <3>2. HasOnly(l, "APP", w)
      BY <3>1, OneValue
    <3>3. v \in LineValues(l, type) <=> type = "APP" /\ v = w
      BY <3>2 DEF HasOnly
    <3> QED BY <3>3 DEF l
  <2>3. (\E line \in {<<"APP", AppNames[w + 1]>> : w \in rs.apps} : v \in LineValues(line, type))
          <=> \E w \in rs.apps : v \in LineValues(<<"APP", AppNames[w + 1]>>, type)
    OBVIOUS
  <2>4. v \in Values(Saved(rs, "APP"), type) <=>
          \E line \in ToSet(Saved(rs, "APP")) : v \in LineValues(line, type)
    BY <1>1
  <2>5. v \in Values(Saved(rs, "APP"), type) <=> \E w \in rs.apps : type = "APP" /\ v = w
    BY <2>1, <2>2, <2>3, <2>4
  <2> QED BY <2>5
<1>4. v \in Values(Saved(rs, "PORT"), type) <=> type = "PORT" /\ v \in rs.ports
  <2>1. ToSet(Saved(rs, "PORT")) = {<<"PORT", <<w>>>> : w \in rs.ports}
    BY SavedIs
  <2>2. ASSUME NEW w \in rs.ports
        PROVE  v \in LineValues(<<"PORT", <<w>>>>, type) <=> type = "PORT" /\ v = w
    <3> DEFINE l == <<"PORT", <<w>>>>
    <3>1. Adds(l, "PORT", w)
      BY <1>0, LoadedBack DEF Adds
    <3> HIDE DEF l
    <3>2. HasOnly(l, "PORT", w)
      BY <3>1, OneValue
    <3>3. v \in LineValues(l, type) <=> type = "PORT" /\ v = w
      BY <3>2 DEF HasOnly
    <3> QED BY <3>3 DEF l
  <2>3. (\E line \in {<<"PORT", <<w>>>> : w \in rs.ports} : v \in LineValues(line, type))
          <=> \E w \in rs.ports : v \in LineValues(<<"PORT", <<w>>>>, type)
    OBVIOUS
  <2>4. v \in Values(Saved(rs, "PORT"), type) <=>
          \E line \in ToSet(Saved(rs, "PORT")) : v \in LineValues(line, type)
    BY <1>1
  <2>5. v \in Values(Saved(rs, "PORT"), type) <=> \E w \in rs.ports : type = "PORT" /\ v = w
    BY <2>1, <2>2, <2>3, <2>4
  <2> QED BY <2>5
<1>5. v \in Values(Saved(rs, "DOMAIN"), type) <=>
        /\ type = "DOMAIN" /\ v # << >>
        /\ \E d \in rs.domains \cup ToSet(rs.patterns) : v = FirstWord(d)
  <2> DEFINE D == rs.domains \cup ToSet(rs.patterns)
  <2>1. ToSet(Saved(rs, "DOMAIN")) = {<<"DOMAIN", d>> : d \in D}
    BY SavedIs
  <2> HIDE DEF D
  <2>2. ASSUME NEW d \in D
        PROVE  v \in LineValues(<<"DOMAIN", d>>, type) <=>
                 type = "DOMAIN" /\ v # << >> /\ v = FirstWord(d)
    <3>1. Loaded(<<"DOMAIN", d>>) =
            IF FirstWord(d) # << >> THEN {<<"DOMAIN", FirstWord(d)>>} ELSE {}
      BY DEF Loaded
    <3>2. CASE FirstWord(d) # << >>
      <4> DEFINE l == <<"DOMAIN", d>>
                 w == FirstWord(d)
      <4>1. Adds(l, "DOMAIN", w)
        BY <3>1, <3>2 DEF Adds
      <4> HIDE DEF l, w
      <4>2. HasOnly(l, "DOMAIN", w)
        BY <4>1, OneValue
      <4>3. v \in LineValues(l, type) <=> type = "DOMAIN" /\ v = w
        BY <4>2 DEF HasOnly
      <4> QED BY <3>2, <4>3 DEF l, w
    <3>3. CASE FirstWord(d) = << >>
      <4>1. LineValues(<<"DOMAIN", d>>, type) = {}
        BY <3>1, <3>3 DEF LineValues
      <4> QED BY <3>3, <4>1
    <3> QED BY <3>2, <3>3
  <2>3. (\E line \in {<<"DOMAIN", d>> : d \in D} : v \in LineValues(line, type))
          <=> \E d \in D : v \in LineValues(<<"DOMAIN", d>>, type)
    OBVIOUS
  <2>4. v \in Values(Saved(rs, "DOMAIN"), type) <=>
          \E line \in ToSet(Saved(rs, "DOMAIN")) : v \in LineValues(line, type)
    BY <1>1
  <2>5. v \in Values(Saved(rs, "DOMAIN"), type) <=>
          \E d \in D : type = "DOMAIN" /\ v # << >> /\ v = FirstWord(d)
    BY <2>1, <2>2, <2>3, <2>4
  <2> QED BY <2>5 DEF D
<1> QED BY <1>2, <1>3, <1>4, <1>5

\* Lines without a pattern on them.
LEMMA PatternsNone ==
  ASSUME NEW s \in Seq(Line), \A i \in 1 .. Len(s) : NameOn(s[i]) \notin Pattern
  PROVE  PatternsOn(s) = << >>
<1> DEFINE n == NamesOn(s)
<1>1. NamesAre(s, n)
  BY NamesOnType
<1> HIDE DEF n
<1>2. n \in Seq(Name) /\ \A i \in DOMAIN n : n[i] \notin Pattern
  BY <1>1 DEF NamesAre
<1>3. Only(n, Pattern) = << >>
  BY <1>2, OnlyNone
<1> QED BY <1>3 DEF PatternsOn, n

\* Those of addresses, applications and ports.
LEMMA OtherPatterns ==
  ASSUME NEW type, type # "DOMAIN", NEW A, {type} \X A \subseteq Line,
         NEW s \in Seq({type} \X A)
  PROVE  PatternsOn(s) = << >>
<1>1. s \in Seq(Line)
  BY SeqWider
<1>2. \A i \in 1 .. Len(s) : s[i] \in {type} \X A
  OBVIOUS
<1>3. \A x \in {type} \X A : NameOn(x) = << >>
  BY DEF NameOn
<1>4. \A i \in 1 .. Len(s) : NameOn(s[i]) \notin Pattern
  BY <1>2, <1>3, EmptyName
<1> QED BY <1>1, <1>4, PatternsNone

\* The patterns that come back.
WordsOf(patterns) == [i \in DOMAIN patterns |-> FirstWord(patterns[i])]

\* The lines of names: plain ones, and what becomes of the patterns.
LEMMA DomainPatterns ==
  ASSUME NEW rs, Fine(rs)
  PROVE  PatternsOn(Saved(rs, "DOMAIN")) = Only(WordsOf(rs.patterns), Pattern)
<1> DEFINE d == SetToSeq(rs.domains)
           p == rs.patterns
           l == Lines("DOMAIN", d)
           m == Lines("DOMAIN", p)
<1>1. /\ rs.domains \in SUBSET (Name \ Pattern) /\ p \in Seq(Pattern)
      /\ IsFiniteSet(rs.domains)
  BY MadeOf DEF Fine, FiniteRules
<1>2. Saved(rs, "DOMAIN") = l \o m
  BY SavedIs
<1>3. d \in Seq(Name \ Pattern)
  <2>1. d \in Seq(rs.domains)
    BY <1>1, SetToSeqOf
  <2> HIDE DEF d
  <2> QED BY <1>1, <2>1, SeqWider
<1>4. p \in Seq(Name) /\ {"DOMAIN"} \X Name \subseteq Line
      /\ {"DOMAIN"} \X (Name \ Pattern) \subseteq {"DOMAIN"} \X Name
  <2>1. Pattern \subseteq Name
    BY DEF Pattern
  <2>2. p \in Seq(Name)
    BY <1>1, <2>1, SeqWider
  <2>3. {"DOMAIN"} \X Name \subseteq Line
    BY DEF Line
  <2> QED BY <2>2, <2>3
<1> HIDE DEF d, p, l, m
<1>5. Typed(Name \ Pattern, "DOMAIN", d, l) /\ Typed(Name, "DOMAIN", p, m)
  BY <1>3, <1>4, LinesOf DEF l, m
<1>6. l \in Seq(Line) /\ m \in Seq(Line)
  <2>1. l \in Seq({"DOMAIN"} \X (Name \ Pattern)) /\ m \in Seq({"DOMAIN"} \X Name)
    BY <1>5 DEF Typed
  <2>2. {"DOMAIN"} \X (Name \ Pattern) \subseteq Line
    BY <1>4
  <2> QED BY <1>4, <2>1, <2>2, SeqWider
<1>7. PatternsOn(l) = << >>
  <2>1. ASSUME NEW i \in 1 .. Len(l) PROVE NameOn(l[i]) \notin Pattern
    <3>1. i \in 1 .. Len(d) /\ l[i] = <<"DOMAIN", d[i]>>
      BY <1>5 DEF Typed
    <3>2. d[i] \in Name /\ ~IsPattern(d[i])
      BY <1>3, <3>1 DEF Pattern
    <3>3. NameOn(l[i]) = FirstWord(d[i])
      BY <3>1 DEF NameOn
    <3> QED BY <3>2, <3>3, FirstWordType DEF Pattern
  <2> QED BY <1>6, <2>1, PatternsNone
<1>8. NamesOn(m) = WordsOf(p)
  <2>1. DOMAIN m = 1 .. Len(p) /\ DOMAIN p = 1 .. Len(p)
    BY <1>4, <1>5, <1>6 DEF Typed
  <2>2. \A i \in 1 .. Len(p) : NameOn(m[i]) = FirstWord(p[i])
    BY <1>5 DEF Typed, NameOn
  <2> QED BY <2>1, <2>2 DEF NamesOn, WordsOf
<1>9. PatternsOn(l \o m) = PatternsOn(l) \o PatternsOn(m)
  BY <1>6, PatternsConcat DEF Concat
<1>10. PatternsOn(m) \in Seq(Name)
  <2> DEFINE n == NamesOn(m)
  <2>1. n \in Seq(Name)
    BY <1>6, NamesOnType DEF NamesAre
  <2> HIDE DEF n
  <2>2. Only(n, Pattern) \in Seq(Name \cap Pattern)
    BY <2>1, OnlyType
  <2>3. Only(n, Pattern) \in Seq(Name)
    BY <2>2
  <2> QED BY <2>3 DEF PatternsOn, n
<1>11. << >> \o PatternsOn(m) = PatternsOn(m)
  BY <1>10
<1> QED BY <1>2, <1>7, <1>8, <1>9, <1>11 DEF PatternsOn, p

\* What saveRules has written of the rules before the k-th part.
Written(rs, k) ==
  CASE k = 1 -> << >>
    [] k = 2 -> Saved(rs, "IP")
    [] k = 3 -> Saved(rs, "IP") \o Saved(rs, "APP")
    [] k = 4 -> (Saved(rs, "IP") \o Saved(rs, "APP")) \o Saved(rs, "DOMAIN")
    [] k = 5 -> ((Saved(rs, "IP") \o Saved(rs, "APP")) \o Saved(rs, "DOMAIN"))
                  \o Saved(rs, "PORT")

\* One part more.
LEMMA WrittenStep ==
  ASSUME NEW rs, Fine(rs), NEW k \in 1 .. 4
  PROVE  Concat(Written(rs, k), Saved(rs, Parts[k]), Written(rs, k + 1))
<1>1. Parts[1] = "IP" /\ Parts[2] = "APP" /\ Parts[3] = "DOMAIN" /\ Parts[4] = "PORT"
  BY DEF Parts
<1>2. << >> \o Saved(rs, "IP") = Saved(rs, "IP")
  <2> DEFINE s == Saved(rs, "IP")
  <2>1. s \in Seq(Line)
    BY <1>1, SavedType
  <2> HIDE DEF s
  <2>2. << >> \o s = s
    BY <2>1
  <2> QED BY <2>2 DEF s
<1>3. CASE k = 1
  <2>1. Written(rs, 1) = << >> /\ Written(rs, 2) = Saved(rs, "IP") /\ k + 1 = 2
    BY <1>3 DEF Written
  <2> QED BY <1>1, <1>2, <1>3, <2>1 DEF Concat
<1>4. CASE k = 2
  BY <1>1, <1>4 DEF Concat, Written
<1>5. CASE k = 3
  BY <1>1, <1>5 DEF Concat, Written
<1>6. CASE k = 4
  BY <1>1, <1>6 DEF Concat, Written
<1> QED BY <1>3, <1>4, <1>5, <1>6

\* The whole file is a list of lines, with the values and the patterns of the
\* four parts.
LEMMA WrittenIs ==
  ASSUME NEW rs, Fine(rs)
  PROVE  /\ Written(rs, 5) \in Seq(Line)
         /\ \A type, v : v \in Values(Written(rs, 5), type) <=>
              \/ v \in Values(Saved(rs, "IP"), type) \/ v \in Values(Saved(rs, "APP"), type)
              \/ v \in Values(Saved(rs, "DOMAIN"), type)
              \/ v \in Values(Saved(rs, "PORT"), type)
         /\ PatternsOn(Written(rs, 5)) = PatternsOn(Saved(rs, "DOMAIN"))
<1> DEFINE i == Saved(rs, "IP")
           a == Saved(rs, "APP")
           d == Saved(rs, "DOMAIN")
           o == Saved(rs, "PORT")
           ia == i \o a
           iad == ia \o d
           all == iad \o o
<1>1. Written(rs, 5) = all
  BY DEF Written
<1>2. Parts[1] = "IP" /\ Parts[2] = "APP" /\ Parts[3] = "DOMAIN" /\ Parts[4] = "PORT"
  BY DEF Parts
<1>3. i \in Seq(Line) /\ a \in Seq(Line) /\ d \in Seq(Line) /\ o \in Seq(Line)
  BY <1>2, SavedType
<1>4. PatternsOn(i) = << >> /\ PatternsOn(a) = << >> /\ PatternsOn(o) = << >>
  <2>1. /\ {"IP"} \X Octets \subseteq Line /\ {"APP"} \X STRING \subseteq Line
        /\ {"PORT"} \X {v \in Seq(Int) : Len(v) <= 1} \subseteq Line
    BY DEF Line
  <2> DEFINE B == Octets
             T == STRING
             N == {v \in Seq(Int) : Len(v) <= 1}
  <2>2. i \in Seq({"IP"} \X B) /\ a \in Seq({"APP"} \X T) /\ o \in Seq({"PORT"} \X N)
    BY SavedIs
  <2>3. /\ {"IP"} \X B \subseteq Line /\ {"APP"} \X T \subseteq Line
        /\ {"PORT"} \X N \subseteq Line
    BY <2>1
  <2> HIDE DEF B, T, N, i, a, o
  <2>4. PatternsOn(i) = << >>
    BY <2>2, <2>3, OtherPatterns
  <2>5. PatternsOn(a) = << >>
    BY <2>2, <2>3, OtherPatterns
  <2>6. PatternsOn(o) = << >>
    BY <2>2, <2>3, OtherPatterns
  <2> QED BY <2>4, <2>5, <2>6
<1> DEFINE P == PatternsOn(d)
<1>5. P \in Seq(Name)
  <2> DEFINE n == NamesOn(d)
  <2>1. n \in Seq(Name)
    BY <1>3, NamesOnType DEF NamesAre
  <2> HIDE DEF n
  <2>2. Only(n, Pattern) \in Seq(Name \cap Pattern)
    BY <2>1, OnlyType
  <2>3. Only(n, Pattern) \in Seq(Name)
    BY <2>2
  <2> QED BY <2>3 DEF PatternsOn, n
<1> HIDE DEF i, a, d, o, P
<1>6. ia \in Seq(Line)
  BY <1>3
<1>7. \A type, v : v \in Values(ia, type) <=> v \in Values(i, type) \/ v \in Values(a, type)
  BY <1>3, ValuesConcat
<1>8. PatternsOn(ia) = PatternsOn(i) \o PatternsOn(a)
  BY <1>3, PatternsConcat DEF Concat
<1> HIDE DEF ia
<1>9. iad \in Seq(Line)
  BY <1>3, <1>6
<1>10. \A type, v : v \in Values(iad, type) <=> v \in Values(ia, type) \/ v \in Values(d, type)
  BY <1>3, <1>6, ValuesConcat
<1>11. PatternsOn(iad) = PatternsOn(ia) \o P
  BY <1>3, <1>6, PatternsConcat DEF Concat, P
<1> HIDE DEF iad
<1>12. all \in Seq(Line)
  BY <1>3, <1>9
<1>13. \A type, v : v \in Values(all, type) <=> v \in Values(iad, type) \/ v \in Values(o, type)
  BY <1>3, <1>9, ValuesConcat
<1>14. PatternsOn(all) = PatternsOn(iad) \o PatternsOn(o)
  BY <1>3, <1>9, PatternsConcat DEF Concat
<1> HIDE DEF all
<1>15. PatternsOn(all) = P
  <2>1. << >> \o << >> = << >> /\ << >> \o P = P /\ P \o << >> = P
    BY <1>5
  <2> QED BY <1>4, <1>8, <1>11, <1>14, <2>1
<1>16. \A type, v : v \in Values(all, type) <=>
         \/ v \in Values(i, type) \/ v \in Values(a, type) \/ v \in Values(d, type)
         \/ v \in Values(o, type)
  BY <1>7, <1>10, <1>13
<1> QED BY <1>1, <1>12, <1>15, <1>16 DEF i, a, d, o, P

\* The rules rs are what comes back of the rules old.
Back(rs, old) ==
  LET names == {FirstWord(d) : d \in old.domains \cup ToSet(old.patterns)}
  IN  /\ rs.ips = old.ips /\ rs.apps = old.apps /\ rs.ports = old.ports
      /\ rs.domains = {d \in names : ~IsPattern(d) /\ d # << >>}
      /\ rs.patterns =
           Only([i \in DOMAIN old.patterns |-> FirstWord(old.patterns[i])], Pattern)

\* That is what loading the file of a save makes.
LEMMA BackAgain ==
  ASSUME NEW old, Fine(old)
  PROVE  Back(Meaning(Written(old, 5)), old)
<1> DEFINE w == Written(old, 5)
           D == old.domains \cup ToSet(old.patterns)
           V(type) == Values(w, type)
<1>1. \A type, v : v \in V(type) <=>
        \/ type = "IP" /\ v \in old.ips
        \/ type = "APP" /\ v \in old.apps
        \/ type = "PORT" /\ v \in old.ports
        \/ type = "DOMAIN" /\ v # << >> /\ \E d \in D : v = FirstWord(d)
  <2>1. \A type, v : v \in V(type) <=>
          \/ v \in Values(Saved(old, "IP"), type) \/ v \in Values(Saved(old, "APP"), type)
          \/ v \in Values(Saved(old, "DOMAIN"), type)
          \/ v \in Values(Saved(old, "PORT"), type)
    BY WrittenIs
  <2> HIDE DEF V
  <2> QED BY <2>1, SavedValues
<1>2. V("IP") = old.ips /\ V("APP") = old.apps /\ V("PORT") = old.ports
  <2>1. \A v : v \in V("IP") <=> v \in old.ips
    BY <1>1
  <2>2. \A v : v \in V("APP") <=> v \in old.apps
    BY <1>1
  <2>3. \A v : v \in V("PORT") <=> v \in old.ports
    BY <1>1
  <2> HIDE DEF V
  <2> QED BY <2>1, <2>2, <2>3
<1>3. Plain(V("DOMAIN")) = {v \in {FirstWord(d) : d \in D} : ~IsPattern(v) /\ v # << >>}
  <2>1. \A v : v \in V("DOMAIN") <=> v # << >> /\ \E d \in D : v = FirstWord(d)
    BY <1>1
  <2> HIDE DEF V, D
  <2> QED BY <2>1 DEF Plain
<1>4. PatternsOn(w) = Only(WordsOf(old.patterns), Pattern)
  BY WrittenIs, DomainPatterns
<1>5. Meaning(w) = Made(V("IP"), V("APP"), Plain(V("DOMAIN")), PatternsOn(w), V("PORT"))
  BY MeaningIs DEF PatternsOn
<1> HIDE DEF V, w
<1>6. /\ Meaning(w).ips = V("IP") /\ Meaning(w).apps = V("APP")
      /\ Meaning(w).ports = V("PORT") /\ Meaning(w).domains = Plain(V("DOMAIN"))
      /\ Meaning(w).patterns = PatternsOn(w)
  BY <1>5 DEF Made
<1>7. Back(Meaning(w), old)
  BY <1>2, <1>3, <1>4, <1>6 DEF Back, WordsOf
<1> QED BY <1>7 DEF w

\* The file on disk is that of the rules of the last save, if it was not
\* disturbed; a save that is not disturbed has written the parts before the one
\* it is at; and a load that is not reads that file.
SnapInv ==
  /\ LoadInv
  /\ \A old \in snap : Fine(old) /\ disk = {Written(old, 5)}
  /\ \A a \in alone : apc[a] = "save" => buffer[a] = Written(rules, part[a])
  /\ \A a \in alone, old \in snap :
       apc[a] \in {"reload", "load"} => Concat(read[a], todo[a], Written(old, 5))

\* A line goes from the lines to come to the lines read.
LEMMA LineRead ==
  ASSUME NEW s \in Seq(Line), NEW t \in Seq(Line), t # << >>
  PROVE  Append(s, Head(t)) \o Tail(t) = s \o t
<1> DEFINE e == Head(t)
           u == Tail(t)
<1>1. e \in Line /\ u \in Seq(Line) /\ t = <<e>> \o u /\ <<e>> \in Seq(Line)
  OBVIOUS
<1> HIDE DEF e, u
<1>2. Append(s, e) = s \o <<e>>
  BY <1>1, AppendIsConcat
<1>3. (s \o <<e>>) \o u = s \o (<<e>> \o u)
  BY <1>1, ConcatAssociative
<1> QED BY <1>1, <1>2, <1>3 DEF e, u

\* Nothing has been saved at the beginning.
LEMMA SnapInit == Init => SnapInv
<1>1. Init => alone = {} /\ snap = {}
  BY DEF Init
<1> QED BY <1>1, LoadInit DEF SnapInv

\* Every step preserves the invariant of files.
LEMMA SnapNext == TypeInv /\ SnapInv /\ [Next]_vars => SnapInv'
<1> SUFFICES ASSUME TypeInv, SnapInv, [Next]_vars PROVE SnapInv'
  OBVIOUS
<1>0. TypeOK /\ Fine(rules)
  BY DEF TypeInv, TypeOK, Fine
<1>1. LoadInv' /\ TypeOK' /\ PlacesInv
  BY LoadNext, TypeNext DEF SnapInv, TypeInv, LoadInv
<1>2. CASE UNCHANGED <<rules, disk, adminVars>>
  <2>1. UNCHANGED <<rules, disk, apc, part, todo, read, buffer, alone, snap>>
    BY <1>2 DEF adminVars
  <2> QED BY <1>1, <2>1 DEF SnapInv
<1>3. ASSUME NEW b \in Admins, AdminStep(b) PROVE SnapInv'
  <2>b. Placed(b)
    BY <1>1 DEF PlacesInv
  \* What the step does to the file and to the rules remembered with it.
  <2>1. \/ UNCHANGED <<disk, snap>>
        \/ snap' = {}
        \/ /\ SavePart(b) /\ b \in alone /\ snap' = {rules}
           /\ disk' = {Written(rules, 5)}
    <3>1. CASE SavePart(b) /\ ~(part[b] < 4) /\ b \in alone
      <4>1. part[b] = 4
        <5>1. part[b] \in 1 .. 4
          BY <1>0 DEF TypeOK
        <5> QED BY <3>1, <5>1
      <4>2. disk' = {buffer[b] \o Saved(rules, Parts[part[b]])} /\ snap' = {rules}
        BY <3>1 DEF SavePart
      <4>3. buffer[b] = Written(rules, part[b])
        BY <3>1 DEF SnapInv, SavePart
      <4>4. Concat(Written(rules, 4), Saved(rules, Parts[4]), Written(rules, 4 + 1))
        BY <1>0, WrittenStep
      <4>5. Written(rules, 5) = Written(rules, 4) \o Saved(rules, Parts[4])
        BY <4>4 DEF Concat
      <4> QED BY <3>1, <4>1, <4>2, <4>3, <4>5
    <3>2. CASE SavePart(b) /\ ~(part[b] < 4) /\ b \notin alone
      BY <3>2 DEF SavePart
    <3>3. CASE SavePart(b) /\ part[b] < 4
      BY <3>3 DEF SavePart
    <3>4. CASE ~SavePart(b)
      BY <1>3, <3>4 DEF AdminStep, Block, Unblock, ClearAll, LoadRules, SaveRules,
            ClearPart, LoadLine, LoadEnd
    <3> QED BY <3>1, <3>2, <3>3, <3>4
  <2>2. \A old \in snap' : Fine(old) /\ disk' = {Written(old, 5)}
    BY <1>0, <2>1 DEF SnapInv
  \* Saves.
  <2>3. ASSUME NEW a \in alone', apc'[a] = "save"
        PROVE  buffer'[a] = Written(rules', part'[a])
    <3>0. a \in Admins
      BY <1>1 DEF TypeOK
    <3>1. CASE a # b
      <4>1. a \in alone /\ rules' = rules
        BY <1>3, <3>1, AloneStays
      <4>2. apc'[a] = apc[a] /\ part'[a] = part[a] /\ buffer'[a] = buffer[a]
        BY <1>0, <1>3, <3>0, <3>1, OthersWait
      <4> QED BY <2>3, <4>1, <4>2 DEF SnapInv
    <3>2. CASE a = b
      <4>1. CASE SaveRules(b)
        <5>1. part'[b] = 1 /\ buffer'[b] = << >>
          BY <2>b, <4>1 DEF SaveRules, Call, Placed
        <5> QED BY <3>2, <5>1 DEF Written
      <4>2. CASE SavePart(b)
        <5>1. part[b] < 4
          BY <1>0, <2>3, <3>2, <4>2 DEF SavePart, TypeOK
        <5>2. /\ buffer'[b] = buffer[b] \o Saved(rules, Parts[part[b]])
              /\ part'[b] = part[b] + 1 /\ UNCHANGED <<rules, apc, alone>>
          BY <1>0, <4>2, <5>1 DEF SavePart, Keep, TypeOK
        <5>3. buffer[b] = Written(rules, part[b])
          BY <2>3, <3>2, <5>2 DEF SnapInv
        <5>4. Concat(Written(rules, part[b]), Saved(rules, Parts[part[b]]),
                     Written(rules, part[b] + 1))
          BY <1>0, WrittenStep DEF TypeOK
        <5> QED BY <3>2, <5>2, <5>3, <5>4 DEF Concat
      <4>3. CASE ~SaveRules(b) /\ ~SavePart(b)
        <5>1. apc[b] # "save"
          BY <1>3, <4>3 DEF AdminStep, Block, Unblock, Call, ClearAll, LoadRules,
                ClearPart, LoadLine, LoadEnd
        <5>2. apc'[b] # "save"
          BY <1>0, <1>3, <4>3, <5>1 DEF AdminStep, Block, Unblock, ClearAll, LoadRules,
                ClearPart, LoadLine, LoadEnd, TypeOK
        <5> QED BY <2>3, <3>2, <5>2
      <4> QED BY <4>1, <4>2, <4>3
    <3> QED BY <3>1, <3>2
  \* Loads.
  <2>4. ASSUME NEW a \in alone', NEW old \in snap', apc'[a] \in {"reload", "load"}
        PROVE  Concat(read'[a], todo'[a], Written(old, 5))
    <3>0. a \in Admins
      BY <1>1 DEF TypeOK
    <3>1. CASE a # b
      <4>1. a \in alone
        BY <1>3, <3>1, AloneStays
      <4>2. apc'[a] = apc[a] /\ read'[a] = read[a] /\ todo'[a] = todo[a]
        BY <1>0, <1>3, <3>0, <3>1, OthersWait
      <4>3. old \in snap
        BY <1>1, <2>1, <3>1, <4>1 DEF PlacesInv
      <4> QED BY <2>4, <4>1, <4>2, <4>3 DEF SnapInv
    <3>2. CASE a = b
      <4>1. CASE LoadRules(b)
        <5>1. /\ UNCHANGED <<snap, disk, read>> /\ apc[b] = "idle"
              /\ \E lines \in disk : todo'[b] = lines
          BY <1>0, <4>1 DEF LoadRules, Call, TypeOK
        <5>2. read'[b] = << >> /\ Fine(old) /\ disk = {Written(old, 5)}
          BY <2>b, <5>1 DEF Placed, SnapInv
        <5>3. Written(old, 5) \in Seq(Line)
          BY <5>2, WrittenIs
        <5>4. todo'[b] = Written(old, 5)
          BY <5>1, <5>2
        <5>5. << >> \o Written(old, 5) = Written(old, 5)
          <6> DEFINE w == Written(old, 5)
          <6> HIDE DEF w
          <6>1. w \in Seq(Line)
            BY <5>3 DEF w
          <6>2. << >> \o w = w
            BY <6>1
          <6> QED BY <6>2 DEF w
        <5> QED BY <3>2, <5>2, <5>4, <5>5 DEF Concat
      <4>2. CASE ClearPart(b)
        <5>1. UNCHANGED <<snap, read, todo>> /\ b \in alone /\ apc[b] \in {"clear", "reload"}
          BY <2>4, <3>2, <4>2 DEF ClearPart, Change
        <5>2. apc[b] = "reload"
          BY <2>b, <5>1 DEF Placed
        <5> QED BY <2>4, <3>2, <5>1, <5>2 DEF SnapInv
      <4>3. CASE LoadLine(b)
        <5> DEFINE s == read[b]
                   t == todo[b]
        <5>1. /\ UNCHANGED snap /\ b \in alone /\ apc[b] = "load" /\ t # << >>
              /\ read'[b] = Append(s, Head(t)) /\ todo'[b] = Tail(t)
          BY <1>0, <2>4, <3>2, <4>3 DEF LoadLine, Change, TypeOK
        <5>2. Written(old, 5) = s \o t
          BY <2>4, <3>2, <5>1 DEF SnapInv, Concat
        <5>3. s \in Seq(Line) /\ t \in Seq(Line)
          BY <1>0 DEF TypeOK
        <5> HIDE DEF s, t
        <5>4. Append(s, Head(t)) \o Tail(t) = s \o t
          BY <5>1, <5>3, LineRead
        <5> QED BY <3>2, <5>1, <5>2, <5>4 DEF Concat
      <4>4. CASE ~LoadRules(b) /\ ~ClearPart(b) /\ ~LoadLine(b)
        <5>1. apc'[b] \notin {"reload", "load"} \/ (apc[b] = "idle" /\ b \notin alone')
          <6>1. CASE \E r \in AnyRule : Block(b, r) \/ Unblock(b, r)
            BY <6>1 DEF Block, Unblock, Call
          <6>2. CASE ClearAll(b) \/ SaveRules(b) \/ LoadEnd(b) \/ SavePart(b)
            BY <1>0, <6>2 DEF ClearAll, SaveRules, LoadEnd, SavePart, TypeOK
          <6> QED BY <1>3, <4>4, <6>1, <6>2 DEF AdminStep
        <5> QED BY <2>4, <3>2, <5>1
      <4> QED BY <4>1, <4>2, <4>3, <4>4
    <3> QED BY <3>1, <3>2
  <2> QED BY <1>1, <2>2, <2>3, <2>4 DEF SnapInv
<1> QED BY <1>2, <1>3, StepsOfAdmins

\* Types, loads and files.
LEMMA SnapsTold == Spec => []SnapInv
BY RulesTyped, SnapInit, SnapNext, PTL DEF Spec

\* A load at the end of a file that a save wrote, neither of them disturbed by
\* another admin, has the rules of that save again: addresses, applications and
\* ports as they were, names cut down to their first word, patterns in their order.
THEOREM RoundTrips == Spec => []RoundTrip
<1>1. TypeInv /\ SnapInv => RoundTrip
  <2> SUFFICES ASSUME TypeInv, SnapInv, NEW a \in alone, NEW old \in snap,
                      apc[a] = "load", todo[a] = << >>
               PROVE  Back(rules, old)
    BY DEF RoundTrip, Back
  <2>1. a \in Admins /\ read[a] \in Seq(Line)
    BY DEF TypeInv, TypeOK
  <2>2. Written(old, 5) = read[a] \o << >>
    BY DEF SnapInv, Concat
  <2>3. read[a] \o << >> = read[a]
    BY <2>1
  <2>4. rules = Meaning(Written(old, 5))
    BY <2>2, <2>3 DEF SnapInv, LoadInv, Loading
  <2>5. Fine(old)
    BY DEF SnapInv
  <2> QED BY <2>4, <2>5, BackAgain
<1> QED BY <1>1, RulesTyped, SnapsTold, PTL
=============================================================================
