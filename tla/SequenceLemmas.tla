--------------------------- MODULE SequenceLemmas ---------------------------
(***************************************************************************)
(* Facts about sequences of whatever elements, and about their indexes,    *)
(* that the proofs about the components share.                             *)
(***************************************************************************)
EXTENDS Integers, Sequences, Functions, TLAPS, SequenceTheorems, WellFoundedInduction

\* Appending to a sequence.
LEMMA Appended ==
  ASSUME NEW q, q \in Seq(Range(q)), NEW x
  PROVE  /\ Append(q, x) \in Seq(Range(Append(q, x)))
         /\ Len(Append(q, x)) = Len(q) + 1
         /\ DOMAIN Append(q, x) = DOMAIN q \cup {Len(q) + 1}
         /\ \A n \in DOMAIN q : Append(q, x)[n] = q[n]
         /\ Append(q, x)[Len(q) + 1] = x
<1> DEFINE S == Range(q) \cup {x}
<1>1. q \in Seq(S)
  BY SeqMonotonic
<1>2. Append(q, x) \in Seq(S) /\ Len(Append(q, x)) = Len(q) + 1
  BY <1>1
<1>3. \A n \in 1..Len(q) : Append(q, x)[n] = q[n]
  BY <1>1
<1>4. Append(q, x)[Len(q) + 1] = x
  BY <1>1
<1>5. Append(q, x) \in [1..(Len(q) + 1) -> S]
  BY <1>2, LenProperties
<1>6. DOMAIN q = 1..Len(q) /\ Len(q) \in Nat
  BY LenProperties
<1>7. Range(Append(q, x)) = S
  BY <1>3, <1>4, <1>5, <1>6 DEF Range
<1> QED
  BY <1>2, <1>3, <1>4, <1>5, <1>6, <1>7

\* Putting one element in front.
LEMMA Prepended ==
  ASSUME NEW q, q \in Seq(Range(q)), NEW x
  PROVE  /\ <<x>> \o q \in Seq(Range(<<x>> \o q))
         /\ Len(<<x>> \o q) = Len(q) + 1
         /\ DOMAIN (<<x>> \o q) = 1..(Len(q) + 1)
         /\ (<<x>> \o q)[1] = x
         /\ \A n \in DOMAIN q : (<<x>> \o q)[n + 1] = q[n]
<1> DEFINE S == Range(q) \cup {x}
           p == <<x>> \o q
<1>1. q \in Seq(S) /\ <<x>> \in Seq(S) /\ Len(<<x>>) = 1 /\ <<x>>[1] = x
  BY SeqMonotonic
<1>2. DOMAIN q = 1..Len(q) /\ Len(q) \in Nat
  BY LenProperties
<1>3. /\ p \in Seq(S) /\ Len(p) = 1 + Len(q)
      /\ \A n \in 1..(1 + Len(q)) : p[n] = IF n <= 1 THEN <<x>>[n] ELSE q[n - 1]
  BY <1>1, ConcatProperties
<1> HIDE DEF p
<1>4. DOMAIN p = 1..(Len(q) + 1) /\ p \in [1..(Len(q) + 1) -> S]
  BY <1>2, <1>3, LenProperties
<1>5. p[1] = x
  BY <1>1, <1>2, <1>3
<1>6. \A n \in DOMAIN q : p[n + 1] = q[n]
  BY <1>2, <1>3
<1>7. Range(p) = S
  <2>1. \A n \in 1..(Len(q) + 1) : n = 1 \/ (n - 1 \in 1..Len(q) /\ (n - 1) + 1 = n)
    BY <1>2
  <2>2. \A n \in 1..Len(q) : n + 1 \in 1..(Len(q) + 1)
    BY <1>2
  <2>3. Range(p) = {p[n] : n \in 1..(Len(q) + 1)} /\ Range(q) = {q[n] : n \in 1..Len(q)}
    BY <1>2, <1>4 DEF Range
  <2>4. \A n \in 1..(Len(q) + 1) : p[n] \in S
    BY <1>4
  <2>5. \A e \in S : \E n \in 1..(Len(q) + 1) : p[n] = e
    <3>1. x = p[1] /\ 1 \in 1..(Len(q) + 1)
      BY <1>2, <1>5
    <3>2. ASSUME NEW n \in 1..Len(q) PROVE \E l \in 1..(Len(q) + 1) : p[l] = q[n]
      BY <1>2, <1>6, <2>2
    <3> QED
      BY <2>3, <3>1, <3>2
  <2> HIDE DEF S
  <2> QED
    BY <2>3, <2>4, <2>5
<1>8. /\ p \in Seq(Range(p)) /\ Len(p) = Len(q) + 1 /\ DOMAIN p = 1..(Len(q) + 1)
      /\ p[1] = x /\ \A n \in DOMAIN q : p[n + 1] = q[n]
  BY <1>2, <1>3, <1>4, <1>5, <1>6, <1>7
<1> QED
  BY <1>8, Zenon DEF p

\* A sequence is one of its own elements.
LEMMA OfItsRange ==
  ASSUME NEW S, NEW q \in Seq(S)
  PROVE  q \in Seq(Range(q))
<1>1. q \in [1..Len(q) -> S] /\ Len(q) \in Nat
  BY LenProperties
<1>2. q \in [1..Len(q) -> Range(q)]
  BY <1>1 DEF Range
<1> QED
  BY <1>1, <1>2, SeqDef

\* Leaving out the last element.
LEMMA Shortened ==
  ASSUME NEW q, q \in Seq(Range(q)), q # <<>>
  PROVE  LET p == SubSeq(q, 1, Len(q) - 1) IN
         /\ p \in Seq(Range(p)) /\ Len(p) = Len(q) - 1 /\ Len(q) \in Nat \ {0}
         /\ \A n \in 1..(Len(q) - 1) : p[n] = q[n]
<1> DEFINE S == Range(q)
           p == SubSeq(q, 1, Len(q) - 1)
<1>1. q \in Seq(S) /\ Len(q) \in Nat \ {0}
  BY LenProperties, EmptySeq
<1>2. PICK m : m = Len(q) - 1
  OBVIOUS
<1>3. m \in Nat /\ \A i \in 1..m : q[i] \in S
  BY <1>1, <1>2, LenProperties DEF Range
<1>4. p \in Seq(S) /\ Len(p) = Len(q) - 1 /\ \A n \in 1..(Len(q) - 1) : p[n] = q[n]
  <2>1. PICK one : one = 1
    OBVIOUS
  <2>2. one \in Int /\ m \in Int /\ \A i \in one..m : q[i] \in S
    BY <1>3, <2>1
  <2>3. SubSeq(q, one, m) \in Seq(S)
    <3>1. q \in Seq(S)
      BY <1>1
    <3> HIDE DEF S
    <3> QED
      BY <2>2, <3>1, SubSeqProperties
  <2>4. Len(SubSeq(q, one, m)) = IF one <= m THEN m - one + 1 ELSE 0
    <3> HIDE DEF S
    <3> QED
      BY <2>2, SubSeqProperties
  <2>5. \A i \in 1..(m - one + 1) : SubSeq(q, one, m)[i] = q[one + i - 1]
    <3> HIDE DEF S
    <3> QED
      BY <2>2, SubSeqProperties
  <2>6. m - one + 1 = m /\ (one <= m \/ m = 0) /\ \A i \in 1..m : one + i - 1 = i
    BY <1>3, <2>1
  <2>7. p = SubSeq(q, one, m)
    BY <1>2, <2>1
  <2> HIDE DEF S, p
  <2> QED
    BY <1>2, <1>3, <2>3, <2>6, <2>7, <2>4, <2>5
<1> HIDE DEF S
<1> HIDE DEF p
<1>5. p \in Seq(Range(p))
  BY <1>4, OfItsRange
<1> QED
  BY <1>1, <1>4, <1>5 DEF p

\* A set of indexes that is not empty has a least one.
LEMMA LeastIndex ==
  ASSUME NEW S, S \subseteq Nat, S # {}
  PROVE  \E x \in S : \A y \in S : x <= y
<1> DEFINE R == OpToRel(<, Nat)
<1>1. \E x \in S : \A y \in S : ~(<<y, x>> \in R)
  <2>1. IsWellFoundedOn(R, Nat)
    BY NatLessThanWellFounded, Zenon
  <2> HIDE DEF R
  <2> QED
    BY <2>1, WFMin, Zenon
<1>2. PICK x \in S : \A y \in S : ~(<<y, x>> \in R)
  BY <1>1
<1>3. ASSUME NEW y \in S PROVE x <= y
  <2>1. ~(y < x)
    BY <1>2, Zenon DEF OpToRel
  <2> QED
    BY <2>1
<1> QED
  BY <1>3

\* And a greatest one, if it is bounded.
LEMMA GreatestIndex ==
  ASSUME NEW m \in Nat, NEW S, S \subseteq 0..m, S # {}
  PROVE  \E x \in S : \A y \in S : y <= x
<1> DEFINE T == {d \in 0..m : m - d \in S}
<1>1. T \subseteq Nat /\ T # {}
  <2>1. PICK x \in S : x \in 0..m
    OBVIOUS
  <2>2. m - x \in 0..m /\ m - (m - x) = x
    BY <2>1
  <2>3. m - x \in T
    BY <2>1, <2>2
  <2>4. T \subseteq Nat
    OBVIOUS
  <2> QED
    BY <2>3, <2>4
<1>2. PICK d \in T : \A e \in T : d <= e
  <2> HIDE DEF T
  <2> QED
    BY <1>1, LeastIndex
<1>3. m - d \in S
  BY <1>2
<1>4. ASSUME NEW y \in S PROVE y <= m - d
  <2>1. y \in 0..m /\ m - y \in 0..m /\ m - (m - y) = y
    OBVIOUS
  <2>2. m - y \in T
    BY <2>1
  <2>3. d <= m - y /\ d \in 0..m
    BY <1>2, <2>2
  <2> QED
    BY <2>1, <2>3
<1> QED
  BY <1>3, <1>4

----------------------------------------------------------------------------
(* Sequences put together.                                                 *)

IsSeq(q) == q \in Seq(Range(q))

LEMMA Joined ==
  ASSUME NEW p, IsSeq(p), NEW q, IsSeq(q)
  PROVE  /\ IsSeq(p \o q) /\ Len(p \o q) = Len(p) + Len(q)
         /\ Range(p \o q) = Range(p) \cup Range(q)
<1> DEFINE S == Range(p) \cup Range(q)
<1>1. p \in Seq(S) /\ q \in Seq(S)
  BY SeqMonotonic DEF IsSeq
<1>2. /\ p \o q \in Seq(S) /\ Len(p \o q) = Len(p) + Len(q)
      /\ \A i \in 1..(Len(p) + Len(q)) : (p \o q)[i] = IF i <= Len(p) THEN p[i] ELSE q[i - Len(p)]
  <2> HIDE DEF S
  <2> QED
    BY <1>1, ConcatProperties
<1>3. IsSeq(p \o q)
  <2> HIDE DEF S
  <2> QED
    BY <1>2, OfItsRange DEF IsSeq
<1>4. /\ DOMAIN p = 1..Len(p) /\ DOMAIN q = 1..Len(q) /\ Len(p) \in Nat /\ Len(q) \in Nat
      /\ DOMAIN (p \o q) = 1..(Len(p) + Len(q))
  BY <1>1, <1>2, LenProperties
<1>5. Range(p \o q) = S
  <2>1. ASSUME NEW i \in 1..(Len(p) + Len(q)) PROVE (p \o q)[i] \in S
    BY <1>2, <1>4, <2>1, ElementOfSeq
  <2>2. ASSUME NEW i \in 1..Len(p) PROVE p[i] = (p \o q)[i] /\ i \in 1..(Len(p) + Len(q))
    BY <1>2, <1>4
  <2>3. ASSUME NEW i \in 1..Len(q)
        PROVE  q[i] = (p \o q)[Len(p) + i] /\ Len(p) + i \in 1..(Len(p) + Len(q))
    <3>1. Len(p) + i \in 1..(Len(p) + Len(q)) /\ ~(Len(p) + i <= Len(p)) /\ (Len(p) + i) - Len(p) = i
      BY <1>4
    <3> QED
      BY <1>2, <3>1
  <2>4. PICK r : r = p \o q
    OBVIOUS
  <2>5. Range(r) \subseteq S
    BY <1>4, <2>1, <2>4 DEF Range
  <2>6. Range(p) \subseteq Range(r)
    BY <1>4, <2>2, <2>4 DEF Range
  <2>7. Range(q) \subseteq Range(r)
    BY <1>4, <2>3, <2>4 DEF Range
  <2> QED
    BY <2>4, <2>5, <2>6, <2>7
<1> QED
  BY <1>2, <1>3, <1>5

LEMMA JoinedTwice ==
  ASSUME NEW p, IsSeq(p), NEW q, IsSeq(q), NEW r, IsSeq(r)
  PROVE  (p \o q) \o r = p \o (q \o r)
<1> DEFINE S == Range(p) \cup Range(q) \cup Range(r)
<1>1. p \in Seq(S) /\ q \in Seq(S) /\ r \in Seq(S)
  BY SeqMonotonic DEF IsSeq
<1> HIDE DEF S
<1> QED
  BY <1>1, ConcatAssociative

LEMMA OneElement ==
  ASSUME NEW x
  PROVE  IsSeq(<<x>>) /\ Range(<<x>>) = {x} /\ IsSeq(<<>>) /\ Range(<<>>) = {}
<1>1. <<x>> \in Seq({x}) /\ <<>> \in Seq({})
  OBVIOUS
<1> QED
  BY <1>1, OfItsRange DEF IsSeq, Range

\* The same with a name for putting together, which a prover need not look into.
Cat(p, q) == p \o q

LEMMA CatTwice ==
  ASSUME NEW p, IsSeq(p), NEW q, IsSeq(q)
  PROVE  /\ IsSeq(Cat(p, q))
         /\ \A r : IsSeq(r) => Cat(Cat(p, q), r) = Cat(p, Cat(q, r))
<1>1. IsSeq(Cat(p, q))
  BY Joined DEF Cat
<1>2. ASSUME NEW r, IsSeq(r)
      PROVE  Cat(Cat(p, q), r) = Cat(p, Cat(q, r))
  BY <1>2, JoinedTwice DEF Cat
<1> QED
  BY <1>1, <1>2

\* What is read next of a sequence that has x in front.
LEMMA FirstAndRest ==
  ASSUME NEW x, NEW q, IsSeq(q)
  PROVE  /\ <<x>> \o q # <<>> /\ Head(<<x>> \o q) = x /\ Tail(<<x>> \o q) = q
         /\ <<>> \o q = q /\ q \o <<>> = q
<1> DEFINE S == Range(q) \cup {x}
           p == <<x>> \o q
<1>1. q \in Seq(S) /\ <<x>> \in Seq(S)
  BY SeqMonotonic DEF IsSeq
<1>2. /\ Len(p) = Len(q) + 1 /\ p[1] = x /\ \A n \in DOMAIN q : p[n + 1] = q[n]
  BY Prepended DEF IsSeq
<1>3. p \in Seq(S)
  BY <1>1, ConcatProperties
<1>4. Len(q) \in Nat /\ DOMAIN q = 1..Len(q)
  BY <1>1, LenProperties
<1>5. p # <<>>
  <2>1. Len(p) # 0
    <3> HIDE DEF p
    <3> QED
      BY <1>2, <1>4
  <2> HIDE DEF p
  <2> QED
    BY <2>1
<1> HIDE DEF p, S
<1>6. Head(p) = x
  BY <1>2, <1>3
<1>7. Tail(p) = q
  <2>1. /\ Tail(p) \in Seq(S) /\ Len(Tail(p)) = Len(p) - 1
        /\ \A i \in 1..Len(Tail(p)) : Tail(p)[i] = p[i + 1]
    BY <1>3, <1>5, HeadTailProperties
  <2>2. Len(Tail(p)) = Len(q) /\ \A i \in 1..Len(q) : Tail(p)[i] = q[i]
    BY <1>2, <1>4, <2>1
  <2> QED
    BY <1>1, <2>1, <2>2, SeqEqual
<1> QED
  BY <1>1, <1>5, <1>6, <1>7, ConcatEmptySeq DEF p

\* A frame f on top of a pile s.
LEMMA OnTop ==
  ASSUME NEW s, IsSeq(s), NEW f
  PROVE  /\ IsSeq(Append(s, f)) /\ Append(s, f) # <<>>
         /\ Len(Append(s, f)) = Len(s) + 1 /\ Len(s) \in Nat
         /\ Append(s, f)[Len(s) + 1] = f
         /\ \A n \in 1..Len(s) : Append(s, f)[n] = s[n]
         /\ SubSeq(Append(s, f), 1, Len(s)) = s
<1> DEFINE p == Append(s, f)
           S == Range(s)
           T == Range(p)
<1>1. /\ p \in Seq(T) /\ Len(p) = Len(s) + 1 /\ DOMAIN p = DOMAIN s \cup {Len(s) + 1}
      /\ \A n \in DOMAIN s : p[n] = s[n]
      /\ p[Len(s) + 1] = f
  BY Appended DEF IsSeq
<1>2. s \in Seq(S) /\ Len(s) \in Nat /\ DOMAIN s = 1..Len(s)
  BY LenProperties DEF IsSeq
<1> HIDE DEF p, S, T
<1>3. p # <<>>
  BY <1>1, <1>2
<1>4. SubSeq(p, 1, Len(s)) = s
  <2>1. PICK l \in Nat : l = Len(s)
    BY <1>2
  <2>2. \A i \in 1..l : p[i] \in S
    BY <1>1, <1>2, <2>1, ElementOfSeq
  <2>3. /\ SubSeq(p, 1, l) \in Seq(S) /\ Len(SubSeq(p, 1, l)) = IF 1 <= l THEN l - 1 + 1 ELSE 0
        /\ \A i \in 1..(l - 1 + 1) : SubSeq(p, 1, l)[i] = p[1 + i - 1]
    BY <2>2, SubSeqProperties
  <2>4. Len(SubSeq(p, 1, l)) = l /\ \A i \in 1..l : SubSeq(p, 1, l)[i] = p[i]
    BY <2>3
  <2>5. \A i \in 1..l : SubSeq(p, 1, l)[i] = s[i]
    BY <1>1, <1>2, <2>1, <2>4
  <2>6. SubSeq(p, 1, l) = s
    BY <1>2, <2>1, <2>3, <2>4, <2>5, SeqEqual
  <2> QED
    BY <2>1, <2>6
<1> QED
  BY <1>1, <1>2, <1>3, <1>4 DEF IsSeq, p, T
=============================================================================
