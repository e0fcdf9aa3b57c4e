------------------------- MODULE TrustHistoryProofs -------------------------
(***************************************************************************)
(* Proofs about the lookups of eidas-trust and the qualification engine,   *)
(* for every first edition and however often its services change.          *)
(***************************************************************************)
EXTENDS TslReading, SequenceLemmas, FiniteSetTheorems

----------------------------------------------------------------------------
(* The inductive invariant: a service and its log.                         *)

\* The periods of the log that the history should hold: all but the last.
Past(l) == 1..(Len(l) - 1)

\* Of the periods in the log that began together with the n-th, the last.
LastOfItsTime(l, n) == \A m \in Past(l) : l[m].start = l[n].start => m <= n

\* Of the entries of a history that began together with the i-th, the first.
FirstOfItsTime(h, i) == \A j \in DOMAIN h : h[j].start = h[i].start => i <= j

Fields == {"kind", "status", "start", "keys", "history", "qualifiers"}

\* The log runs forward in time and ends with the present period.
Ordered(svc, l) ==
  /\ l \in Seq(Range(l)) /\ l # <<>>
  /\ \A n \in 1..Len(l) : l[n].start \in Int /\ l[n].start <= now
  /\ \A m, n \in 1..Len(l) : m <= n => l[m].start <= l[n].start
  /\ svc.status = l[Len(l)].status /\ svc.start = l[Len(l)].start /\ svc.keys = l[Len(l)].keys

\* Every time a past period began is in the history, and the first entry with
\* that time is the last period that began then.
InHistory(svc, l) ==
  /\ svc.history \in Seq(Range(svc.history))
  /\ \A i \in DOMAIN svc.history :
       /\ svc.history[i].start \in Int
       /\ FirstOfItsTime(svc.history, i) =>
            \E n \in Past(l) : /\ LastOfItsTime(l, n)
                               /\ l[n].start = svc.history[i].start
                               /\ l[n].status = svc.history[i].status
  /\ \A n \in Past(l) : \E i \in DOMAIN svc.history : svc.history[i].start = l[n].start

\* No key is lost and none is added.
SameKeys(svc, l) ==
  \A key : Lists(svc, key) <=> \E n \in 1..Len(l) : key \in l[n].keys

Kept(svc, l) ==
  DOMAIN svc = Fields /\ Ordered(svc, l) /\ InHistory(svc, l) /\ SameKeys(svc, l)

IInv ==
  /\ now \in Int
  /\ DOMAIN services = 1..Len(FirstEdition) /\ DOMAIN log = 1..Len(FirstEdition)
  /\ \A s \in DOMAIN services : Kept(services[s], log[s])

----------------------------------------------------------------------------
(* What a service answers.                                                 *)

\* The first of a set of indexes is one of them.
LEMMA FirstOfIsMember ==
  ASSUME NEW S, S \subseteq Nat, S # {}
  PROVE  FirstOf(S) \in S /\ \A j \in S : FirstOf(S) <= j
BY LeastIndex DEF FirstOf

\* The last period that began by a time.
LEMMA LastBegun ==
  ASSUME NEW svc, NEW l, Kept(svc, l), NEW at \in Int, l[1].start <= at
  PROVE  LET begun == {n \in DOMAIN l : l[n].start <= at}
             last == CHOOSE n \in begun : \A m \in begun : m <= n IN
         /\ last \in 1..Len(l) /\ l[last].start <= at
         /\ \A n \in 1..Len(l) : l[n].start <= at => n <= last
<1> DEFINE begun == {n \in DOMAIN l : l[n].start <= at}
<1>1. DOMAIN l = 1..Len(l) /\ Len(l) \in Nat \ {0}
  BY EmptySeq, LenProperties DEF Kept, Ordered
<1>2. begun \subseteq 0..Len(l) /\ 1 \in begun
  BY <1>1
<1>3. \E n \in begun : \A m \in begun : m <= n
  <2> HIDE DEF begun
  <2> QED
    BY <1>1, <1>2, GreatestIndex
<1>4. /\ (CHOOSE n \in begun : \A m \in begun : m <= n) \in begun
      /\ \A m \in begun : m <= (CHOOSE n \in begun : \A o \in begun : o <= n)
  <2> HIDE DEF begun
  <2> QED
    BY <1>3
<1> QED
  BY <1>1, <1>4

\* status_at gives the status of the last period that began by the time.
LEMMA StatusAt ==
  ASSUME NEW svc, NEW l, Kept(svc, l), NEW at \in Int,
         NEW last \in 1..Len(l), l[last].start <= at,
         \A n \in 1..Len(l) : l[n].start <= at => n <= last
  PROVE  status_at(svc, at) = l[last].status
<1> DEFINE h == svc.history
           begun == {i \in DOMAIN h : h[i].start # NoTime /\ at >= h[i].start}
           latest == {i \in begun : \A j \in begun : h[i].start >= h[j].start}
<1>1. Len(l) \in Nat \ {0} /\ DOMAIN h = 1..Len(h) /\ Len(h) \in Nat
  BY EmptySeq, LenProperties DEF Kept, Ordered, InHistory
<1>2. svc.start = l[Len(l)].start /\ svc.status = l[Len(l)].status /\ svc.start \in Int
  BY <1>1 DEF Kept, Ordered
<1>3. /\ \A i \in DOMAIN h : h[i].start \in Int
      /\ begun = {i \in DOMAIN h : h[i].start <= at}
  BY EditionAssumption DEF Kept, InHistory
<1>4. status_at(svc, at) = IF svc.start <= at \/ begun = {} THEN svc.status
                           ELSE h[FirstOf(latest)].status
  <2>1. (svc.start # NoTime /\ at >= svc.start) <=> svc.start <= at
    BY <1>2, EditionAssumption
  <2> QED
    BY <2>1 DEF status_at
<1> HIDE DEF begun
<1>5. CASE svc.start <= at
  <2>1. last = Len(l)
    BY <1>1, <1>2, <1>5
  <2> QED
    BY <1>2, <1>4, <1>5, <2>1
<1>6. CASE ~(svc.start <= at)
  <2>1. last \in Past(l)
    BY <1>1, <1>2, <1>6 DEF Past
  <2>2. /\ \A n \in 1..Len(l) : l[n].start \in Int
        /\ \A m, n \in 1..Len(l) : m <= n => l[m].start <= l[n].start
    BY DEF Kept, Ordered
  <2>3. Past(l) \subseteq 1..Len(l)
    BY <1>1 DEF Past
  <2>4. PICK i \in DOMAIN h : h[i].start = l[last].start
    BY <2>1 DEF Kept, InHistory
  <2>5. ASSUME NEW j \in DOMAIN h PROVE \E n \in Past(l) : l[n].start = h[j].start
    <3> DEFINE same == {x \in DOMAIN h : h[x].start = h[j].start}
    <3>1. PICK x \in same : \A y \in same : x <= y
      <4>1. same \subseteq Nat /\ same # {}
        BY <1>1
      <4> HIDE DEF same
      <4> QED
        BY <4>1, LeastIndex
    <3>2. FirstOfItsTime(h, x) /\ x \in DOMAIN h /\ h[x].start = h[j].start
      BY <3>1 DEF FirstOfItsTime
    <3> QED
      BY <3>2 DEF Kept, InHistory
  <2>6. ASSUME NEW j \in begun PROVE h[j].start <= l[last].start
    <3>1. j \in DOMAIN h /\ h[j].start <= at
      BY <1>3 DEF begun
    <3>2. PICK n \in Past(l) : l[n].start = h[j].start
      BY <2>5, <3>1
    <3>3. n \in 1..Len(l) /\ n <= last
      BY <2>3, <3>1, <3>2
    <3> QED
      BY <2>2, <3>2, <3>3
  <2>7. latest = {j \in DOMAIN h : h[j].start = l[last].start}
    <3>1. i \in begun
      BY <1>3, <2>4 DEF begun
    <3>2. \A j \in DOMAIN h : h[j].start = l[last].start => j \in begun
      BY <1>3 DEF begun
    <3>3. begun \subseteq DOMAIN h
      BY DEF begun
    <3> QED
      BY <1>3, <2>2, <2>4, <2>6, <3>1, <3>2, <3>3
  <2> HIDE DEF latest
  <2>8. /\ FirstOf(latest) \in DOMAIN h /\ h[FirstOf(latest)].start = l[last].start
        /\ FirstOfItsTime(h, FirstOf(latest))
    <3>1. latest \subseteq Nat /\ latest # {}
      BY <1>1, <2>4, <2>7
    <3> QED
      BY <2>7, <3>1, FirstOfIsMember DEF FirstOfItsTime
  <2>9. PICK n \in Past(l) : /\ LastOfItsTime(l, n) /\ l[n].start = l[last].start
                             /\ l[n].status = h[FirstOf(latest)].status
    BY <2>8 DEF Kept, InHistory
  <2>10. n = last
    <3>1. last <= n
      BY <2>1, <2>9 DEF LastOfItsTime
    <3>2. n \in 1..Len(l) /\ n <= last
      BY <2>3, <2>9
    <3> QED
      BY <3>1, <3>2
  <2>11. begun # {}
    BY <1>3, <2>4 DEF begun
  <2> QED
    BY <1>4, <1>6, <2>9, <2>10, <2>11
<1> QED
  BY <1>5, <1>6

----------------------------------------------------------------------------
(* The invariant holds at first and is kept.                               *)

\* The log of a first edition is its history turned round, then its present.
LEMMA FirstLog ==
  ASSUME NEW svc \in Range(FirstEdition), now = 1
  PROVE  Kept(svc, Append(Reverse(svc.history), Former(svc)))
<1> DEFINE h == svc.history
           r == Reverse(h)
           l == Append(r, Former(svc))
           N == Len(h)
<1>1. /\ DOMAIN svc = Fields /\ svc.start \in Int /\ svc.start <= 1
      /\ h \in Seq(Range(h)) /\ N \in Nat /\ DOMAIN h = 1..N
      /\ \A i \in 1..N : /\ h[i].start \in Int /\ h[i].start <= svc.start
                       /\ \A j \in 1..N : i <= j => h[j].start <= h[i].start
  BY EditionAssumption, LenProperties DEF Fields
<1>2. /\ Former(svc).status = svc.status /\ Former(svc).start = svc.start /\ Former(svc).keys = svc.keys
  BY DEF Former
<1>3. r \in Seq(Range(r)) /\ Len(r) = N /\ \A n \in 1..N : r[n] = h[(N - n) + 1]
  <2>1. r = [n \in 1..N |-> h[(N - n) + 1]]
    BY DEF Reverse
  <2>2. DOMAIN r = 1..N /\ \A n \in 1..N : r[n] = h[(N - n) + 1]
    BY <2>1
  <2>3. r \in [1..N -> Range(r)]
    BY <2>1, <2>2 DEF Range
  <2> QED
    BY <1>1, <2>2, <2>3
<1> HIDE DEF r
<1>4. /\ l \in Seq(Range(l)) /\ Len(l) = N + 1 /\ l[N + 1] = Former(svc)
      /\ \A n \in 1..N : l[n] = h[(N - n) + 1]
  <2>1. DOMAIN r = 1..N
    BY <1>3, LenProperties
  <2> QED
    BY <1>1, <1>3, <2>1, Appended
<1> HIDE DEF l
<1>5. \A n \in 1..N : (N - n) + 1 \in 1..N
  BY <1>1
<1>6. Ordered(svc, l)
  <2>1. l # <<>>
    BY <1>1, <1>4, EmptySeq
  <2>2. \A n \in 1..Len(l) : l[n].start \in Int /\ l[n].start <= svc.start
    <3> SUFFICES ASSUME NEW n \in 1..(N + 1) PROVE l[n].start \in Int /\ l[n].start <= svc.start
      BY <1>4
    <3>1. CASE n = N + 1
      BY <1>1, <1>2, <1>4, <3>1
    <3>2. CASE n # N + 1
      <4>1. n \in 1..N /\ (N - n) + 1 \in 1..N
        BY <1>1, <3>2
      <4> QED
        BY <1>1, <1>4, <4>1
    <3> QED
      BY <3>1, <3>2
  <2>3. ASSUME NEW m \in 1..Len(l), NEW n \in 1..Len(l), m <= n PROVE l[m].start <= l[n].start
    <3>1. CASE n = N + 1
      BY <1>2, <1>4, <2>2, <3>1
    <3>2. CASE n # N + 1
      <4>1. m \in 1..N /\ n \in 1..N /\ (N - n) + 1 <= (N - m) + 1
        BY <1>1, <1>4, <2>3, <3>2
      <4> QED
        BY <1>1, <1>4, <1>5, <4>1
    <3> QED
      BY <3>1, <3>2
  <2> QED
    BY <1>1, <1>2, <1>4, <2>1, <2>2, <2>3 DEF Ordered
<1>7. Past(l) = 1..N
  BY <1>1, <1>4 DEF Past
<1>8. InHistory(svc, l)
  <2>1. ASSUME NEW i \in 1..N, FirstOfItsTime(h, i)
        PROVE  \E n \in Past(l) : /\ LastOfItsTime(l, n)
                                  /\ l[n].start = h[i].start /\ l[n].status = h[i].status
    <3> DEFINE n == (N - i) + 1
    <3>1. n \in 1..N /\ (N - n) + 1 = i
      BY <1>1
    <3>2. l[n] = h[i]
      BY <1>4, <3>1
    <3>3. ASSUME NEW m \in 1..N, l[m].start = l[n].start PROVE m <= n
      <4>1. h[(N - m) + 1].start = h[i].start /\ (N - m) + 1 \in 1..N
        BY <1>4, <1>5, <3>2, <3>3
      <4>2. i <= (N - m) + 1
        BY <1>1, <2>1, <4>1 DEF FirstOfItsTime
      <4> QED
        BY <1>1, <4>2
    <3> HIDE DEF n
    <3> QED
      BY <1>7, <3>1, <3>2, <3>3 DEF LastOfItsTime
  <2>2. ASSUME NEW n \in 1..N PROVE \E i \in 1..N : h[i].start = l[n].start
    BY <1>4, <1>5
  <2> QED
    BY <1>1, <1>7, <2>1, <2>2 DEF InHistory
<1>9. SameKeys(svc, l)
  <2> SUFFICES ASSUME NEW key PROVE Lists(svc, key) <=> \E n \in 1..Len(l) : key \in l[n].keys
    BY DEF SameKeys
  <2>1. (\E i \in 1..N : key \in h[i].keys) <=> \E n \in 1..N : key \in l[n].keys
    <3>1. \A i \in 1..N : (N - i) + 1 \in 1..N /\ (N - ((N - i) + 1)) + 1 = i
      BY <1>1
    <3>2. ASSUME NEW i \in 1..N, key \in h[i].keys PROVE \E n \in 1..N : key \in l[n].keys
      BY <1>4, <3>1, <3>2
    <3>3. ASSUME NEW n \in 1..N, key \in l[n].keys PROVE \E i \in 1..N : key \in h[i].keys
      BY <1>4, <1>5, <3>3
    <3> QED
      BY <3>2, <3>3
  <2>2. 1..Len(l) = 1..N \cup {N + 1}
    BY <1>1, <1>4
  <2> QED
    BY <1>1, <1>2, <1>4, <2>1, <2>2 DEF Lists
<1> QED
  BY <1>1, <1>6, <1>8, <1>9 DEF Kept, l, r

LEMMA InitIInv == Init => IInv
<1> SUFFICES ASSUME Init PROVE IInv
  OBVIOUS
<1>1. FirstEdition \in Seq(Range(FirstEdition)) /\ DOMAIN FirstEdition = 1..Len(FirstEdition)
  BY EditionAssumption, LenProperties
<1>2. now = 1 /\ services = FirstEdition
      /\ DOMAIN log = 1..Len(FirstEdition)
      /\ \A s \in 1..Len(FirstEdition) :
           log[s] = Append(Reverse(FirstEdition[s].history), Former(FirstEdition[s]))
  BY <1>1 DEF Init
<1>3. ASSUME NEW s \in 1..Len(FirstEdition) PROVE Kept(services[s], log[s])
  <2>1. FirstEdition[s] \in Range(FirstEdition)
    BY <1>1, ElementOfSeq
  <2>2. Kept(FirstEdition[s], Append(Reverse(FirstEdition[s].history), Former(FirstEdition[s])))
    BY <1>2, <2>1, FirstLog
  <2> QED
    BY <1>2, <2>2
<1> QED
  BY <1>1, <1>2, <1>3 DEF IInv

\* A service that changes keeps its log: the former period becomes the first
\* entry of the history, or the last of one where no other began with it.
LEMMA ChangeKeeps ==
  ASSUME NEW svc, NEW l, Kept(svc, l), now \in Int,
         NEW status, NEW keys, NEW newestFirst \in BOOLEAN,
         newestFirst \/ \A i \in DOMAIN svc.history : svc.history[i].start # svc.start,
         NEW svc2, DOMAIN svc2 = Fields,
         svc2.status = status, svc2.start = now, svc2.keys = keys,
         svc2.history = IF newestFirst THEN <<Former(svc)>> \o svc.history
                        ELSE Append(svc.history, Former(svc)),
         NEW l2, l2 = Append(l, [status |-> status, start |-> now, keys |-> keys])
  PROVE  Kept(svc2, l2)
<1> DEFINE h == svc.history
           h2 == svc2.history
           N == Len(h)
           L == Len(l)
           old == Former(svc)
           new == [status |-> status, start |-> now, keys |-> keys]
<1>1. /\ h \in Seq(Range(h)) /\ N \in Nat /\ DOMAIN h = 1..N
      /\ l \in Seq(Range(l)) /\ L \in Nat \ {0} /\ DOMAIN l = 1..L
  BY EmptySeq, LenProperties DEF Kept, Ordered, InHistory
<1>2. /\ \A n \in 1..L : l[n].start \in Int /\ l[n].start <= now
      /\ \A m, n \in 1..L : m <= n => l[m].start <= l[n].start
      /\ svc.status = l[L].status /\ svc.start = l[L].start /\ svc.keys = l[L].keys
  BY DEF Kept, Ordered
<1>3. /\ \A i \in 1..N :
           /\ h[i].start \in Int
           /\ FirstOfItsTime(h, i) =>
                \E n \in Past(l) : /\ LastOfItsTime(l, n)
                                   /\ l[n].start = h[i].start /\ l[n].status = h[i].status
      /\ \A n \in Past(l) : \E i \in 1..N : h[i].start = l[n].start
  BY <1>1 DEF Kept, InHistory
<1>4. new.status = status /\ new.start = now /\ new.keys = keys
  OBVIOUS
<1>5. old.status = svc.status /\ old.start = svc.start /\ old.keys = svc.keys
  BY DEF Former
<1>16. /\ h2 = IF newestFirst THEN <<old>> \o h ELSE Append(h, old)
       /\ newestFirst \/ \A i \in 1..N : h[i].start # old.start
       /\ svc.history = h /\ svc2.history = h2 /\ N = Len(h) /\ L = Len(l)
  BY <1>1, <1>5
<1> HIDE DEF new, old, h, h2, N, L
<1>6. /\ l2 \in Seq(Range(l2)) /\ Len(l2) = L + 1 /\ l2[L + 1] = new
      /\ \A n \in 1..L : l2[n] = l[n]
  BY <1>1, <1>16, Appended DEF new
<1>7. Past(l) = 1..(L - 1) /\ Past(l2) = 1..L /\ 1..Len(l2) = 1..L \cup {L + 1} /\ L \in 1..L
  BY <1>1, <1>6, <1>16 DEF Past
<1>8. Ordered(svc2, l2)
  <2>1. l2 # <<>>
    BY <1>1, <1>6, EmptySeq
  <2>2. \A n \in 1..Len(l2) : l2[n].start \in Int /\ l2[n].start <= now
    BY <1>2, <1>4, <1>6, <1>7
  <2>3. ASSUME NEW m \in 1..Len(l2), NEW n \in 1..Len(l2), m <= n PROVE l2[m].start <= l2[n].start
    <3>1. CASE n = L + 1
      BY <1>4, <1>6, <2>2, <3>1
    <3>2. CASE n # L + 1
      <4>1. m \in 1..L /\ n \in 1..L
        BY <1>1, <1>7, <2>3, <3>2
      <4> QED
        BY <1>2, <1>6, <2>3, <4>1
    <3> QED
      BY <3>1, <3>2
  <2> QED
    BY <1>4, <1>6, <2>1, <2>2, <2>3 DEF Ordered
\* A position in the old history has one in the new, in the same order.
<1>9. \E place \in [1..N -> 1..(N + 1)], top \in 1..(N + 1) :
        /\ h2 \in Seq(Range(h2)) /\ DOMAIN h2 = 1..(N + 1)
        /\ h2[top] = old /\ \A i \in 1..N : h2[place[i]] = h[i]
        /\ \A i, j \in 1..N : i <= j <=> place[i] <= place[j]
        /\ \A x \in 1..(N + 1) : x = top \/ \E i \in 1..N : x = place[i]
        /\ (\A i \in 1..N : top <= place[i]) \/ \A i \in 1..N : h[i].start # old.start
  <2>1. CASE newestFirst
    <3> DEFINE place == [i \in 1..N |-> i + 1]
    <3>1. h2 = <<old>> \o h
      BY <1>16, <2>1
    <3>2. /\ h2 \in Seq(Range(h2)) /\ DOMAIN h2 = 1..(N + 1) /\ h2[1] = old
          /\ \A i \in 1..N : h2[i + 1] = h[i]
      <4> DEFINE p == <<old>> \o h
      <4>1. /\ p \in Seq(Range(p)) /\ DOMAIN p = 1..(N + 1) /\ p[1] = old
            /\ \A i \in 1..N : p[i + 1] = h[i]
        BY <1>1, <1>16, Prepended
      <4> QED
        BY <3>1, <4>1, Zenon
    <3>3. place \in [1..N -> 1..(N + 1)] /\ \A i \in 1..N : place[i] = i + 1
      BY <1>1
    <3>4. \A x \in 1..(N + 1) : x = 1 \/ (x - 1 \in 1..N /\ x = (x - 1) + 1)
      BY <1>1
    <3>5. \A x \in 1..(N + 1) : x = 1 \/ \E i \in 1..N : x = place[i]
      BY <3>3, <3>4
    <3> HIDE DEF place
    <3>6. (\A i, j \in 1..N : i <= j <=> place[i] <= place[j]) /\ \A i \in 1..N : 1 <= place[i]
      BY <1>1, <3>3
    <3>7. 1 \in 1..(N + 1) /\ \A i \in 1..N : h2[place[i]] = h[i]
      BY <1>1, <3>2, <3>3
    <3> QED
      BY <3>2, <3>3, <3>5, <3>6, <3>7
  <2>2. CASE ~newestFirst
    <3> DEFINE place == [i \in 1..N |-> i]
    <3>1. h2 = Append(h, old)
      BY <1>16, <2>2
    <3>2. /\ h2 \in Seq(Range(h2)) /\ DOMAIN h2 = 1..(N + 1) /\ h2[N + 1] = old
          /\ \A i \in 1..N : h2[i] = h[i]
      <4> DEFINE p == Append(h, old)
      <4>1. 1..(N + 1) = 1..N \cup {N + 1}
        BY <1>1
      <4>2. /\ p \in Seq(Range(p)) /\ DOMAIN p = 1..(N + 1) /\ p[N + 1] = old
            /\ \A i \in 1..N : p[i] = h[i]
        <5>1. /\ p \in Seq(Range(p)) /\ DOMAIN p = DOMAIN h \cup {Len(h) + 1} /\ p[Len(h) + 1] = old
              /\ \A i \in DOMAIN h : p[i] = h[i]
          <6>1. h \in Seq(Range(h))
            BY <1>1
          <6> QED
            BY <6>1, Appended
        <5> HIDE DEF p
        <5> QED
          BY <1>1, <1>16, <4>1, <5>1
      <4> QED
        BY <3>1, <4>2, Zenon
    <3>3. place \in [1..N -> 1..(N + 1)] /\ \A i \in 1..N : place[i] = i
      BY <1>1
    <3>4. \A i \in 1..N : h[i].start # old.start
      BY <1>16, <2>2
    <3> HIDE DEF place
    <3>5. /\ \A i, j \in 1..N : i <= j <=> place[i] <= place[j]
          /\ \A x \in 1..(N + 1) : x = N + 1 \/ \E i \in 1..N : x = place[i]
          /\ \A i \in 1..N : h2[place[i]] = h[i]
          /\ N + 1 \in 1..(N + 1)
      BY <1>1, <3>2, <3>3
    <3> QED
      BY <3>2, <3>3, <3>4, <3>5
  <2> QED
    BY <2>1, <2>2
<1>10. PICK place \in [1..N -> 1..(N + 1)], top \in 1..(N + 1) :
        /\ h2 \in Seq(Range(h2)) /\ DOMAIN h2 = 1..(N + 1)
        /\ h2[top] = old /\ \A i \in 1..N : h2[place[i]] = h[i]
        /\ \A i, j \in 1..N : i <= j <=> place[i] <= place[j]
        /\ \A x \in 1..(N + 1) : x = top \/ \E i \in 1..N : x = place[i]
        /\ (\A i \in 1..N : top <= place[i]) \/ \A i \in 1..N : h[i].start # old.start
  BY <1>9
<1>11. InHistory(svc2, l2)
  <2>1. ASSUME NEW x \in 1..(N + 1)
        PROVE  /\ h2[x].start \in Int
               /\ FirstOfItsTime(h2, x) =>
                    \E n \in Past(l2) : /\ LastOfItsTime(l2, n)
                                        /\ l2[n].start = h2[x].start /\ l2[n].status = h2[x].status
    <3>1. CASE h2[x].start = old.start
      <4>1. ASSUME FirstOfItsTime(h2, x) PROVE x = top
        <5>1. x <= top
          BY <1>10, <3>1, <4>1 DEF FirstOfItsTime
        <5>2. ASSUME NEW i \in 1..N, x = place[i] PROVE x = top
          BY <1>1, <1>10, <3>1, <5>1, <5>2
        <5> QED
          BY <1>10, <5>2
      <4>2. LastOfItsTime(l2, L)
        BY <1>1, <1>7 DEF LastOfItsTime
      <4>3. l2[L].start = old.start /\ l2[L].status = old.status
        BY <1>2, <1>5, <1>6, <1>7
      <4>4. h2[x].start \in Int
        BY <1>2, <1>5, <1>7, <3>1
      <4> QED
        BY <1>7, <1>10, <4>1, <4>2, <4>3, <4>4
    <3>2. CASE h2[x].start # old.start
      <4>1. PICK i \in 1..N : x = place[i]
        BY <1>10, <3>2
      <4>2. h2[x] = h[i] /\ h[i].start \in Int
        BY <1>3, <1>10, <4>1
      <4>3. ASSUME FirstOfItsTime(h2, x)
            PROVE  \E n \in Past(l2) : /\ LastOfItsTime(l2, n)
                                       /\ l2[n].start = h2[x].start /\ l2[n].status = h2[x].status
        <5>1. FirstOfItsTime(h, i)
          <6> SUFFICES ASSUME NEW j \in 1..N, h[j].start = h[i].start PROVE i <= j
            BY <1>1 DEF FirstOfItsTime
          <6>1. h2[place[j]].start = h2[x].start /\ place[j] \in 1..(N + 1)
            BY <1>10, <4>2
          <6>2. place[i] <= place[j]
            BY <1>10, <4>1, <4>3, <6>1 DEF FirstOfItsTime
          <6> QED
            BY <1>10, <6>2
        <5>2. PICK n \in Past(l) : /\ LastOfItsTime(l, n)
                                   /\ l[n].start = h[i].start /\ l[n].status = h[i].status
          BY <1>3, <5>1
        <5>3. n \in 1..L /\ l2[n] = l[n]
          BY <1>1, <1>6, <1>7, <5>2
        <5>4. LastOfItsTime(l2, n)
          <6> SUFFICES ASSUME NEW m \in 1..L, l[m].start = l[n].start PROVE m <= n
            BY <1>6, <1>7, <5>3 DEF LastOfItsTime
          <6>1. m # L
            BY <1>2, <1>5, <3>2, <4>2, <5>2
          <6>2. m \in Past(l)
            BY <1>1, <1>7, <6>1
          <6> QED
            BY <5>2, <6>2 DEF LastOfItsTime
        <5> QED
          BY <1>7, <4>2, <5>2, <5>3, <5>4
      <4> QED
        BY <4>2, <4>3
    <3> QED
      BY <3>1, <3>2
  <2>2. ASSUME NEW n \in 1..L PROVE \E x \in 1..(N + 1) : h2[x].start = l2[n].start
    <3>1. CASE n = L
      BY <1>2, <1>5, <1>6, <1>10, <3>1
    <3>2. CASE n # L
      <4>1. n \in Past(l)
        BY <1>1, <1>7, <3>2
      <4>2. PICK i \in 1..N : h[i].start = l[n].start
        BY <1>3, <4>1
      <4>3. h2[place[i]] = h[i] /\ place[i] \in 1..(N + 1) /\ l2[n] = l[n]
        BY <1>6, <1>10
      <4> QED
        BY <4>2, <4>3
    <3> QED
      BY <3>1, <3>2
  <2>3. /\ h2 \in Seq(Range(h2))
        /\ \A x \in DOMAIN h2 :
             /\ h2[x].start \in Int
             /\ FirstOfItsTime(h2, x) =>
                  \E n \in Past(l2) : /\ LastOfItsTime(l2, n)
                                      /\ l2[n].start = h2[x].start /\ l2[n].status = h2[x].status
        /\ \A n \in Past(l2) : \E x \in DOMAIN h2 : h2[x].start = l2[n].start
    <3>1. h2 \in Seq(Range(h2)) /\ DOMAIN h2 = 1..(N + 1) /\ Past(l2) = 1..L
      BY <1>7, <1>10
    <3>2. ASSUME NEW x \in DOMAIN h2
          PROVE  /\ h2[x].start \in Int
                 /\ FirstOfItsTime(h2, x) =>
                      \E n \in Past(l2) : /\ LastOfItsTime(l2, n)
                                          /\ l2[n].start = h2[x].start /\ l2[n].status = h2[x].status
      <4>1. x \in 1..(N + 1)
        BY <3>1
      <4> QED
        BY <2>1, <4>1, Zenon
    <3>3. ASSUME NEW n \in Past(l2) PROVE \E x \in DOMAIN h2 : h2[x].start = l2[n].start
      BY <2>2, <3>1, <3>3
    <3> QED
      BY <3>1, <3>2, <3>3, Zenon
  <2>4. svc2.history = h2
    BY <1>16
  <2> HIDE DEF h2
  <2> DEFINE Matches(history) ==
        /\ history \in Seq(Range(history))
        /\ \A i \in DOMAIN history :
             /\ history[i].start \in Int
             /\ FirstOfItsTime(history, i) =>
                  \E n \in Past(l2) : /\ LastOfItsTime(l2, n)
                                      /\ l2[n].start = history[i].start
                                      /\ l2[n].status = history[i].status
        /\ \A n \in Past(l2) : \E i \in DOMAIN history : history[i].start = l2[n].start
  <2>5. Matches(h2)
    BY <2>3, Zenon
  <2>6. Matches(svc2.history) <=> InHistory(svc2, l2)
    BY Zenon DEF InHistory
  <2> HIDE DEF Matches
  <2> QED
    BY <2>4, <2>5, <2>6
<1>12. SameKeys(svc2, l2)
  <2> SUFFICES ASSUME NEW key
               PROVE  Lists(svc2, key) <=> \E n \in 1..Len(l2) : key \in l2[n].keys
    BY DEF SameKeys
  <2>1. Lists(svc, key) <=> \E n \in 1..L : key \in l[n].keys
    BY <1>16 DEF Kept, SameKeys
  <2>2. (\E x \in 1..(N + 1) : key \in h2[x].keys) <=> key \in old.keys \/ \E i \in 1..N : key \in h[i].keys
    <3>1. ASSUME NEW x \in 1..(N + 1), key \in h2[x].keys
          PROVE  key \in old.keys \/ \E i \in 1..N : key \in h[i].keys
      <4>1. CASE x = top
        BY <1>10, <3>1, <4>1
      <4>2. ASSUME NEW i \in 1..N, x = place[i] PROVE key \in h[i].keys
        BY <1>10, <3>1, <4>2
      <4> QED
        BY <1>10, <4>1, <4>2
    <3>2. ASSUME NEW i \in 1..N, key \in h[i].keys PROVE \E x \in 1..(N + 1) : key \in h2[x].keys
      BY <1>10, <3>2
    <3> QED
      BY <1>10, <3>1, <3>2
  <2>3. Lists(svc2, key) <=> key \in keys \/ key \in old.keys \/ \E i \in 1..N : key \in h[i].keys
    BY <1>10, <1>16, <2>2 DEF Lists
  <2>4. (\E n \in 1..Len(l2) : key \in l2[n].keys) <=> key \in keys \/ \E n \in 1..L : key \in l[n].keys
    BY <1>4, <1>6, <1>7
  <2> QED
    BY <1>1, <1>5, <1>16, <2>1, <2>3, <2>4 DEF Lists
<1> QED
  BY <1>8, <1>11, <1>12 DEF Kept

\* A publication keeps every service, and the past of every log.
LEMMA PublishKeeps ==
  ASSUME IInv, NEW s \in DOMAIN services, NEW status, NEW keys, NEW terms, NEW newestFirst \in BOOLEAN,
         Publish(s, status, keys, terms, newestFirst)
  PROVE  /\ now' = now /\ DOMAIN services' = DOMAIN services /\ DOMAIN log' = DOMAIN log
         /\ \A x \in DOMAIN services :
              /\ Kept(services'[x], log'[x])
              /\ Len(log[x]) <= Len(log'[x])
              /\ \A n \in 1..Len(log[x]) : log'[x][n] = log[x][n]
              /\ \A n \in 1..Len(log'[x]) : n \notin 1..Len(log[x]) => log'[x][n].start = now
<1> DEFINE svc == services[s]
           l == log[s]
           new == [status |-> status, start |-> now, keys |-> keys]
           history2 == IF newestFirst THEN <<Former(svc)>> \o svc.history
                       ELSE Append(svc.history, Former(svc))
           svc2 == [svc EXCEPT !.kind = terms.kind, !.qualifiers = terms.qualifiers,
                               !.status = status, !.start = now, !.keys = keys, !.history = history2]
<1>1. /\ now \in Int /\ DOMAIN services = DOMAIN log
      /\ \A x \in DOMAIN services : Kept(services[x], log[x])
  BY DEF IInv
<1>2. /\ newestFirst \/ \A i \in DOMAIN svc.history : svc.history[i].start # svc.start
      /\ services' = [services EXCEPT ![s] = svc2]
      /\ log' = [log EXCEPT ![s] = Append(l, new)]
      /\ now' = now
  BY DEF Publish
<1>3. DOMAIN svc = {"kind", "status", "start", "keys", "history", "qualifiers"}
  BY <1>1 DEF Kept, Fields
<1> HIDE DEF history2, svc
<1>4. /\ DOMAIN svc2 = Fields
      /\ svc2.status = status /\ svc2.start = now /\ svc2.keys = keys /\ svc2.history = history2
  BY <1>3 DEF Fields
<1> HIDE DEF svc2
<1>5. Kept(svc2, Append(l, new))
  <2>1. Kept(svc, l)
    BY <1>1 DEF svc
  <2>2. history2 = IF newestFirst THEN <<Former(svc)>> \o svc.history
                   ELSE Append(svc.history, Former(svc))
    BY DEF history2
  <2> QED
    BY <1>1, <1>2, <1>4, <2>1, <2>2, ChangeKeeps
<1>6. /\ l \in Seq(Range(l)) /\ Len(l) \in Nat /\ DOMAIN l = 1..Len(l)
  BY <1>1, LenProperties DEF Kept, Ordered
<1>7. /\ Len(Append(l, new)) = Len(l) + 1 /\ Append(l, new)[Len(l) + 1] = new
      /\ \A n \in 1..Len(l) : Append(l, new)[n] = l[n]
  BY <1>6, Appended
<1>8. new.start = now
  OBVIOUS
<1>9. /\ services'[s] = svc2 /\ log'[s] = Append(l, new)
      /\ \A x \in DOMAIN services \ {s} : services'[x] = services[x] /\ log'[x] = log[x]
      /\ DOMAIN services' = DOMAIN services /\ DOMAIN log' = DOMAIN log
  BY <1>1, <1>2
<1> HIDE DEF new, l
<1>10. ASSUME NEW x \in DOMAIN services
       PROVE  /\ Kept(services'[x], log'[x])
              /\ Len(log[x]) <= Len(log'[x])
              /\ \A n \in 1..Len(log[x]) : log'[x][n] = log[x][n]
              /\ \A n \in 1..Len(log'[x]) : n \notin 1..Len(log[x]) => log'[x][n].start = now
  <2>1. CASE x = s
    <3>1. services[x] = svc /\ log[x] = l /\ services'[x] = svc2 /\ log'[x] = Append(l, new)
      BY <1>9, <2>1 DEF svc, l
    <3>2. \A n \in 1..(Len(l) + 1) : n \notin 1..Len(l) => n = Len(l) + 1
      BY <1>6
    <3> QED
      BY <1>4, <1>5, <1>6, <1>7, <1>8, <3>1, <3>2
  <2>2. CASE x # s
    <3>1. services'[x] = services[x] /\ log'[x] = log[x] /\ Kept(services[x], log[x])
      BY <1>1, <1>9, <2>2
    <3>2. Len(log[x]) \in Nat
      BY <3>1, LenProperties DEF Kept, Ordered
    <3> QED
      BY <3>1, <3>2
  <2> QED
    BY <2>1, <2>2
<1> QED
  BY <1>2, <1>9, <1>10

LEMMA StepIInv == IInv /\ [Next]_vars => IInv'
<1> SUFFICES ASSUME IInv, [Next]_vars PROVE IInv'
  OBVIOUS
<1>1. ASSUME NEW s \in DOMAIN services, NEW status, NEW keys, NEW terms, NEW newestFirst \in BOOLEAN,
             Publish(s, status, keys, terms, newestFirst)
      PROVE  IInv'
  <2>1. /\ now' = now /\ DOMAIN services' = DOMAIN services /\ DOMAIN log' = DOMAIN log
        /\ \A x \in DOMAIN services : Kept(services'[x], log'[x])
    BY <1>1, PublishKeeps
  <2>2. ASSUME NEW x \in DOMAIN services PROVE Kept(services[x], log[x])'
    <3>1. Kept(services'[x], log'[x])
      BY <2>1
    <3> QED
      BY <2>1, <3>1, Zenon DEF Kept, Ordered, InHistory, SameKeys
  <2> QED
    BY <2>1, <2>2 DEF IInv
<1>2. CASE Tick
  <2>1. now' = now + 1 /\ services' = services /\ log' = log
    BY <1>2 DEF Tick
  <2>2. ASSUME NEW s \in DOMAIN services PROVE Kept(services[s], log[s])'
    <3>1. Kept(services[s], log[s])
      BY DEF IInv
    <3>2. Ordered(services[s], log[s])'
      BY <2>1, <3>1 DEF IInv, Kept, Ordered
    <3> QED
      BY <2>1, <3>1, <3>2 DEF Kept, InHistory, SameKeys
  <2> QED
    BY <2>1, <2>2 DEF IInv
<1>3. CASE UNCHANGED vars
  BY <1>3 DEF vars, IInv, Kept, Ordered, InHistory, SameKeys
<1> QED
  BY <1>1, <1>2, <1>3 DEF Next

\* However services change, each stays in step with the log of what was in
\* force: the invariant that the lookups rest on.
THEOREM Invariance == Spec => []IInv
<1>1. Init => IInv
  BY InitIInv
<1>2. IInv /\ [Next]_vars => IInv'
  BY StepIInv
<1> QED
  BY <1>1, <1>2, PTL DEF Spec

----------------------------------------------------------------------------
(* What follows for every history.                                         *)

\* The present list says what was in force.
LEMMA StatusInForce ==
  ASSUME IInv, NEW s \in DOMAIN services, NEW at \in Int, Began(s, at)
  PROVE  status_at(services[s], at) = InForce(s, at)
<1>1. Kept(services[s], log[s])
  BY DEF IInv
<1> DEFINE begun == {n \in DOMAIN log[s] : log[s][n].start <= at}
           last == CHOOSE n \in begun : \A m \in begun : m <= n
<1>2. /\ last \in 1..Len(log[s]) /\ log[s][last].start <= at
      /\ \A n \in 1..Len(log[s]) : log[s][n].start <= at => n <= last
  BY <1>1, LastBegun DEF Began
<1>3. InForce(s, at) = log[s][last].status
  BY DEF InForce
<1> HIDE DEF last
<1> QED
  BY <1>1, <1>2, <1>3, StatusAt

\* model.rs:87-110.  However often a service changed, status_at gives the
\* status that was in force at every time since the service began.
THEOREM StatusHistory == Spec => []StatusFollowsLog
<1>1. IInv => StatusFollowsLog
  <2> SUFFICES ASSUME IInv, NEW s \in DOMAIN services, NEW at \in 0..MaxTime, Began(s, at)
               PROVE  status_at(services[s], at) = InForce(s, at)
    BY DEF StatusFollowsLog
  <2>1. at \in Int
    BY BoundAssumption
  <2> QED
    BY <2>1, StatusInForce
<1> QED
  BY <1>1, Invariance, PTL

\* A service lists a key exactly if it ever held it.
LEMMA ListsHolders ==
  ASSUME IInv, NEW s \in DOMAIN services, NEW key
  PROVE  Lists(services[s], key) <=> s \in Holders(key)
<1>1. Kept(services[s], log[s]) /\ s \in DOMAIN log
  BY DEF IInv
<1>2. DOMAIN log[s] = 1..Len(log[s])
  BY <1>1, LenProperties DEF Kept, Ordered
<1> QED
  BY <1>1, <1>2 DEF Kept, SameKeys, Holders

\* The service found for a chain.
LEMMA FirstHolder ==
  ASSUME NEW edition, DOMAIN edition \subseteq Nat, NEW chain, chain \in Seq(Range(chain)),
         Listed(edition, chain) # {}
  PROVE  LET holders == {s \in DOMAIN edition :
                           Lists(edition[s], chain[FirstOf(Listed(edition, chain))].spki)} IN
         /\ FirstOf(Listed(edition, chain)) \in DOMAIN chain
         /\ FirstOf(holders) \in holders
         /\ qualification_for(edition, chain) = edition[FirstOf(holders)]
<1> DEFINE listed == Listed(edition, chain)
           holders == {s \in DOMAIN edition : Lists(edition[s], chain[FirstOf(listed)].spki)}
<1>1. DOMAIN chain \subseteq Nat
  BY LenProperties
<1>2. FirstOf(listed) \in listed
  <2>1. listed \subseteq Nat
    BY <1>1 DEF Listed
  <2> HIDE DEF listed
  <2>2. listed # {}
    BY DEF listed
  <2> QED
    BY <2>1, <2>2, FirstOfIsMember
<1>3. FirstOf(listed) \in DOMAIN chain /\ holders # {} /\ holders \subseteq Nat
  BY <1>2 DEF Listed
<1>4. FirstOf(holders) \in holders
  <2> HIDE DEF holders
  <2> QED
    BY <1>3, FirstOfIsMember
<1> QED
  BY <1>3, <1>4 DEF qualification_for

\* The place of the service found for a chain.
Answering(edition, chain) ==
  FirstOf({s \in DOMAIN edition : Lists(edition[s], chain[FirstOf(Listed(edition, chain))].spki)})

LEMMA ServiceFound ==
  ASSUME IInv, NEW chain, chain \in Seq(Range(chain))
  PROVE  /\ Listed(services, chain) = Held(chain)
         /\ Held(chain) # {} =>
              /\ FirstService(chain) \in DOMAIN services
              /\ FirstService(chain) = Answering(services, chain)
              /\ qualification_for(services, chain) = services[FirstService(chain)]
<1>1. DOMAIN services = DOMAIN log /\ DOMAIN services = 1..Len(FirstEdition) /\ Len(FirstEdition) \in Nat
  BY EditionAssumption, LenProperties DEF IInv
<1>2. \A key : Holders(key) = {s \in DOMAIN services : Lists(services[s], key)}
  <2>1. \A key : Holders(key) \subseteq DOMAIN services
    BY <1>1 DEF Holders
  <2> QED
    BY <2>1, ListsHolders
<1>3. Listed(services, chain) = Held(chain)
  BY <1>2 DEF Listed, Held
<1>4. ASSUME Held(chain) # {}
      PROVE  /\ FirstService(chain) \in DOMAIN services
             /\ FirstService(chain) = Answering(services, chain)
             /\ qualification_for(services, chain) = services[FirstService(chain)]
  <2> DEFINE key == chain[FirstOf(Listed(services, chain))].spki
             holders == {s \in DOMAIN services : Lists(services[s], key)}
  <2>1. DOMAIN services \subseteq Nat
    BY <1>1
  <2>2. /\ FirstOf(holders) \in holders
        /\ qualification_for(services, chain) = services[FirstOf(holders)]
    BY <1>3, <1>4, <2>1, FirstHolder
  <2>3. FirstService(chain) = FirstOf(holders)
    BY <1>2, <1>3 DEF FirstService
  <2> QED
    BY <2>2, <2>3 DEF Answering
<1> QED
  BY <1>3, <1>4

\* engine.rs:46-105.  A signer is qualified only by a service that held a key
\* of its chain, issues qualified certificates and was active then; it is
\* refused exactly if the first service that held a key was not active.
THEOREM QualifiedActive == Spec => []QualifiedByAnActiveService
<1>1. IInv => QualifiedByAnActiveService
  <2> SUFFICES ASSUME IInv, NEW chain \in Chains, NEW at \in 0..MaxTime
               PROVE  LET q == Qualification(services, chain, at)
                          first == FirstService(chain) IN
                      IF Held(chain) = {} THEN q = "AdES"
                      ELSE /\ Began(first, at) => (q = "NotAdES" <=> InForce(first, at) \notin ActiveStatuses)
                           /\ q \in {"AdESqc", "QES"} => services[first].kind = "CA/QC"
    BY DEF QualifiedByAnActiveService, Held, FirstService
  <2> DEFINE q == Qualification(services, chain, at)
             first == FirstService(chain)
  <2>1. /\ Listed(services, chain) = Held(chain)
        /\ Held(chain) # {} =>
             /\ first \in DOMAIN services
             /\ qualification_for(services, chain) = services[first]
    BY ServiceFound, EditionAssumption
  <2>2. CASE Held(chain) = {}
    BY <2>1, <2>2 DEF Qualification, qualify_signer
  <2>3. CASE Held(chain) # {}
    <3> DEFINE svc == services[first]
    <3> HIDE DEF first
    <3>1. q = IF status_at(svc, at) \notin ActiveStatuses THEN "NotAdES"
              ELSE IF svc.kind # "CA/QC" THEN "AdES"
              ELSE IF "NoQSCD" \notin svc.qualifiers /\ "WithQSCD" \in svc.qualifiers THEN "QES"
              ELSE "AdESqc"
      BY <2>1, <2>3, Zenon DEF Qualification, qualify_signer
    <3>2. Began(first, at) => status_at(svc, at) = InForce(first, at)
      <4>1. at \in Int
        BY BoundAssumption
      <4> QED
        BY <2>1, <2>3, <4>1, StatusInForce
    <3> HIDE DEF q, svc
    <3>3. /\ q = "NotAdES" <=> status_at(svc, at) \notin ActiveStatuses
          /\ q \in {"AdESqc", "QES"} => svc.kind = "CA/QC"
      BY <3>1
    <3> QED
      BY <2>3, <3>2, <3>3 DEF q, svc, first
  <2> QED
    BY <2>2, <2>3
<1> QED
  BY <1>1, Invariance, PTL

\* Editions whose services list the keys of a chain alike and have the same
\* status at a time refuse its signer alike, and give the same verdict if the
\* service that answers is under the same terms.
LEMMA SameVerdict ==
  ASSUME NEW a, NEW b, DOMAIN a = DOMAIN b, DOMAIN a \subseteq Nat,
         NEW chain, chain \in Seq(Range(chain)), NEW at,
         \A i \in DOMAIN chain : \A x \in DOMAIN a :
           Lists(a[x], chain[i].spki) <=> Lists(b[x], chain[i].spki),
         \A x \in DOMAIN a : status_at(a[x], at) = status_at(b[x], at)
  PROVE  /\ Qualification(a, chain, at) = "NotAdES" <=> Qualification(b, chain, at) = "NotAdES"
         /\ (Listed(a, chain) # {} => TermsOf(a[Answering(a, chain)]) = TermsOf(b[Answering(a, chain)])) =>
              Qualification(a, chain, at) = Qualification(b, chain, at)
<1>1. Listed(a, chain) = Listed(b, chain)
  BY DEF Listed
<1>2. CASE Listed(a, chain) = {}
  BY <1>1, <1>2 DEF Qualification, qualify_signer
<1>3. CASE Listed(a, chain) # {}
  <2> DEFINE key == chain[FirstOf(Listed(a, chain))].spki
             holders == {s \in DOMAIN a : Lists(a[s], key)}
             x == FirstOf(holders)
  <2>1. /\ FirstOf(Listed(a, chain)) \in DOMAIN chain
        /\ x \in holders /\ qualification_for(a, chain) = a[x] /\ x = Answering(a, chain)
    BY <1>3, FirstHolder DEF Answering
  <2>2. holders = {s \in DOMAIN b : Lists(b[s], key)}
    BY <2>1
  <2>3. qualification_for(b, chain) = b[x]
    BY <1>1, <1>3, <2>2, FirstHolder
  <2>4. x \in DOMAIN a
    BY <2>1
  <2>5. PICK t, u : t = a[x] /\ u = b[x]
    OBVIOUS
  <2>6. status_at(t, at) = status_at(u, at)
    BY <2>4, <2>5
  <2>7. TermsOf(t) = TermsOf(u) => t.kind = u.kind /\ t.qualifiers = u.qualifiers
    BY DEF TermsOf
  <2>8. /\ Qualification(a, chain, at) =
              IF status_at(t, at) \notin ActiveStatuses THEN "NotAdES"
              ELSE IF t.kind # "CA/QC" THEN "AdES"
              ELSE IF "NoQSCD" \notin t.qualifiers /\ "WithQSCD" \in t.qualifiers THEN "QES" ELSE "AdESqc"
        /\ Qualification(b, chain, at) =
              IF status_at(u, at) \notin ActiveStatuses THEN "NotAdES"
              ELSE IF u.kind # "CA/QC" THEN "AdES"
              ELSE IF "NoQSCD" \notin u.qualifiers /\ "WithQSCD" \in u.qualifiers THEN "QES" ELSE "AdESqc"
    BY <1>1, <1>3, <2>1, <2>3, <2>5, Zenon DEF Qualification, qualify_signer
  <2> QED
    BY <1>3, <2>1, <2>5, <2>6, <2>7, <2>8
<1> QED
  BY <1>2, <1>3

\* qualify.rs:56-61, engine.rs:46-120.  Unless a service takes over a key of the
\* chain, a later edition refuses a signer for the past exactly if it was refused
\* then; and the verdict is the same if the service that answers keeps its terms.
THEOREM StablePast == Spec => PastIsStable
<1>1. ASSUME IInv, NEW s \in DOMAIN services, NEW status, NEW keys, NEW terms, NEW newestFirst \in BOOLEAN,
             Publish(s, status, keys, terms, newestFirst), NEW chain \in Chains, NEW at \in 0..MaxTime,
             PastOf(chain, at)
      PROVE  /\ Qualification(services', chain, at) = "NotAdES" <=> Qualification(services, chain, at) = "NotAdES"
             /\ SameTerms(chain) => Qualification(services', chain, at) = Qualification(services, chain, at)
  <2>0. /\ at < now
        /\ \A i \in DOMAIN chain : Holders(chain[i].spki)' = Holders(chain[i].spki)
        /\ \A x \in DOMAIN services : Began(x, at)
    BY <1>1 DEF PastOf
  <2>1. /\ DOMAIN services' = DOMAIN services /\ DOMAIN log' = DOMAIN log
        /\ \A x \in DOMAIN services :
              /\ Kept(services'[x], log'[x])
              /\ Len(log[x]) <= Len(log'[x])
              /\ \A n \in 1..Len(log[x]) : log'[x][n] = log[x][n]
              /\ \A n \in 1..Len(log'[x]) : n \notin 1..Len(log[x]) => log'[x][n].start = now
    BY <1>1, PublishKeeps
  <2>2. /\ chain \in Seq(Range(chain)) /\ at \in Int /\ now \in Int
        /\ DOMAIN services = DOMAIN log /\ DOMAIN services \subseteq Nat
    BY <1>1, EditionAssumption, BoundAssumption, LenProperties DEF IInv
  <2>3. ASSUME NEW i \in DOMAIN chain, NEW x \in DOMAIN services
        PROVE  Lists(services'[x], chain[i].spki) <=> Lists(services[x], chain[i].spki)
    <3> DEFINE key == chain[i].spki
    <3>1. Kept(services'[x], log'[x]) /\ DOMAIN log'[x] = 1..Len(log'[x])
      BY <2>1, LenProperties DEF Kept, Ordered
    <3>2. Lists(services'[x], key) <=> \E n \in DOMAIN log'[x] : key \in log'[x][n].keys
      BY <3>1 DEF Kept, SameKeys
    <3>3. (\E n \in DOMAIN log'[x] : key \in log'[x][n].keys) <=> x \in Holders(key)'
      BY <2>1, <2>2 DEF Holders
    <3>4. Lists(services[x], key) <=> x \in Holders(key)
      BY <1>1, ListsHolders
    <3>5. Holders(key)' = Holders(key)
      BY <2>0
    <3> HIDE DEF key
    <3>6. Lists(services'[x], key) <=> Lists(services[x], key)
      BY <3>2, <3>3, <3>4, <3>5
    <3> QED
      BY <3>6 DEF key
  <2>4. ASSUME NEW x \in DOMAIN services PROVE status_at(services'[x], at) = status_at(services[x], at)
    <3> DEFINE begun == {n \in DOMAIN log[x] : log[x][n].start <= at}
               last == CHOOSE n \in begun : \A m \in begun : m <= n
               l2 == log'[x]
    <3>1. Kept(services[x], log[x]) /\ log[x][1].start <= at
      BY <1>1, <2>0 DEF IInv, Began
    <3>2. /\ last \in 1..Len(log[x]) /\ log[x][last].start <= at
          /\ \A n \in 1..Len(log[x]) : log[x][n].start <= at => n <= last
      BY <2>2, <3>1, LastBegun
    <3> HIDE DEF last
    <3>3. status_at(services[x], at) = log[x][last].status
      BY <2>2, <3>1, <3>2, StatusAt
    <3>4. Len(log[x]) \in Nat /\ Len(l2) \in Nat
      BY <2>1, <3>1, LenProperties DEF Kept, Ordered
    <3>5. /\ Kept(services'[x], l2) /\ Len(log[x]) <= Len(l2)
          /\ \A n \in 1..Len(log[x]) : l2[n] = log[x][n]
          /\ \A n \in 1..Len(l2) : n \notin 1..Len(log[x]) => l2[n].start = now
      BY <2>1
    <3> HIDE DEF l2
    <3>6. last \in 1..Len(l2) /\ l2[last] = log[x][last]
      BY <3>2, <3>4, <3>5
    <3>7. \A n \in 1..Len(l2) : l2[n].start <= at => n <= last
      BY <2>0, <2>2, <3>2, <3>5
    <3>8. status_at(services'[x], at) = l2[last].status
      BY <2>2, <3>2, <3>5, <3>6, <3>7, StatusAt
    <3> QED
      BY <3>3, <3>6, <3>8
  <2> DEFINE later == services'
  <2>5. /\ DOMAIN services = DOMAIN later /\ DOMAIN services \subseteq Nat
        /\ \A i \in DOMAIN chain : \A x \in DOMAIN services :
             Lists(services[x], chain[i].spki) <=> Lists(later[x], chain[i].spki)
        /\ \A x \in DOMAIN services : status_at(services[x], at) = status_at(later[x], at)
    BY <2>1, <2>2, <2>3, <2>4
  <2>6. /\ Listed(services, chain) = Held(chain)
        /\ Held(chain) # {} => /\ FirstService(chain) \in DOMAIN services
                               /\ FirstService(chain) = Answering(services, chain)
    BY <1>1, <2>2, ServiceFound
  <2>7. ASSUME SameTerms(chain), Listed(services, chain) # {}
        PROVE  TermsOf(services[Answering(services, chain)]) = TermsOf(later[Answering(services, chain)])
    <3>1. PICK x \in DOMAIN services : x = FirstService(chain)
      BY <2>6, <2>7
    <3>2. TermsOf(services[x])' = TermsOf(services[x])
      BY <2>6, <2>7, <3>1 DEF SameTerms
    <3>3. TermsOf(services[x])' = TermsOf(later[x])
      BY DEF TermsOf
    <3> QED
      BY <2>6, <2>7, <3>1, <3>2, <3>3
  <2> HIDE DEF later
  <2>8. /\ Qualification(services, chain, at) = "NotAdES" <=> Qualification(later, chain, at) = "NotAdES"
        /\ SameTerms(chain) => Qualification(services, chain, at) = Qualification(later, chain, at)
    BY <2>2, <2>5, <2>7, SameVerdict
  <2> QED
    BY <2>8 DEF later
<1>2. IInv /\ [Next]_vars => [services' # services => KeepsThePast]_vars
  <2> SUFFICES ASSUME IInv, Next PROVE KeepsThePast
    OBVIOUS
  <2>1. CASE Tick
    BY <2>1 DEF Tick, KeepsThePast
  <2>2. ASSUME NEW s \in DOMAIN services, NEW status \in Statuses, NEW keys \in SUBSET Keys \ {{}},
               NEW terms \in Terms, NEW newestFirst \in BOOLEAN,
               Publish(s, status, keys, terms, newestFirst)
        PROVE  KeepsThePast
    BY <1>1, <2>2 DEF KeepsThePast
  <2> QED
    BY <2>1, <2>2 DEF Next
<1> QED
  BY <1>2, Invariance, PTL DEF Spec, PastIsStable

\* Loading and parsing lists, whole or cut short, disturbs none of this: what
\* is proved of the lists over time holds while they are read.
THEOREM ReadingImplements == ReadingSpec => Spec
<1>1. ReadingInit => Init
  BY DEF ReadingInit
<1>2. [ReadingNext]_<<vars, reading>> => [Next]_vars
  BY DEF ReadingNext, Operate, Load, Read, Cut, vars
<1> QED
  BY <1>1, <1>2, PTL DEF ReadingSpec, Spec

----------------------------------------------------------------------------
(* The parser, whatever it is given to read.                               *)

parsing == <<input, stack, data, result>>

\* Any input, which may change while it is read.
AnyInput ==
  /\ P!Idle
  /\ [][\/ \E events : P!parse_trusted_list(events)
        \/ P!Parse
        \/ UNCHANGED <<stack, data, result>>]_parsing

\* A function is only called by one of a lower level.
Level ==
  [list |-> 0, scheme |-> 1, providers |-> 1, provider |-> 2, tspInformation |-> 3, services |-> 3,
   service |-> 4, information |-> 5, history |-> 5, instance |-> 6, identity |-> 7, firstName |-> 7,
   country |-> 7, qualifiers |-> 7, text |-> 8, inside |-> 8, skip |-> 8]

LEMMA CallsGoDown ==
  ASSUME NEW fn \in DOMAIN Level, NEW name, NEW d, P!Callee(d, fn, name) # "none"
  PROVE  P!Callee(d, fn, name) \in DOMAIN Level /\ Level[fn] < Level[P!Callee(d, fn, name)]
<1>1. CASE P!Known(fn, name)
  <2>1. P!Callee(d, fn, name) = P!Calls[fn][name] /\ fn \in DOMAIN P!Calls /\ name \in DOMAIN P!Calls[fn]
    BY <1>1 DEF P!Callee, P!Known
  <2>2. P!Calls[fn][name] \in DOMAIN Level /\ Level[fn] < Level[P!Calls[fn][name]]
    BY <2>1 DEF P!Calls, Level
  <2> QED
    BY <2>1, <2>2
<1>2. CASE ~P!Known(fn, name)
  BY <1>2 DEF P!Callee, P!Skipping, Level
<1> QED
  BY <1>1, <1>2

\* The functions in the pile, deepest last.
PileInv ==
  /\ stack \in Seq(Range(stack))
  /\ \A i \in DOMAIN stack :
       /\ DOMAIN stack[i] = {"fn", "closing", "depth"} /\ stack[i].depth \in Int
       /\ stack[i].fn \in DOMAIN Level /\ Level[stack[i].fn] >= i - 1
  /\ \A i, j \in DOMAIN stack : i < j => Level[stack[i].fn] < Level[stack[j].fn]

\* What a step may do to the pile.
Opened(name) ==
  \E fn \in DOMAIN Level :
    /\ Level[stack[Len(stack)].fn] < Level[fn]
    /\ stack' = Append(stack, [fn |-> fn, closing |-> name, depth |-> 1])
Counted(by) == stack' = [stack EXCEPT ![Len(stack)].depth = @ + by]
Closed == stack' = <<>> \/ stack' = SubSeq(stack, 1, Len(stack) - 1)

LEMMA TopIsKnown ==
  ASSUME PileInv, stack # <<>>
  PROVE  /\ Len(stack) \in Nat \ {0} /\ Len(stack) \in DOMAIN stack /\ DOMAIN stack = 1..Len(stack)
         /\ stack[Len(stack)].fn \in DOMAIN Level
BY LenProperties, EmptySeq DEF PileInv

LEMMA StartsOpen ==
  ASSUME PileInv, P!ReadStart
  PROVE  /\ stack # <<>>
         /\ \/ Opened(Head(input).name)
            \/ stack[Len(stack)].fn \in P!Counting /\ Counted(1)
            \/ stack[Len(stack)].fn \notin P!Counting /\ stack' = stack
<1> DEFINE fn == stack[Len(stack)].fn
           name == Head(input).name
<1>1. stack # <<>> /\ fn \in DOMAIN Level
  BY TopIsKnown DEF P!ReadStart, P!Next1, P!Running
<1>2. CASE fn \in P!Counting
  BY <1>1, <1>2 DEF P!ReadStart, P!Top, P!Last, P!Deeper, Counted
<1>3. CASE fn \notin P!Counting /\ P!Callee(data, fn, name) # "none"
  <2>1. stack' = Append(stack, [fn |-> P!Callee(data, fn, name), closing |-> name, depth |-> 1])
    BY <1>3 DEF P!ReadStart, P!Top, P!Last
  <2>2. P!Callee(data, fn, name) \in DOMAIN Level /\ Level[fn] < Level[P!Callee(data, fn, name)]
    <3> HIDE DEF fn, name
    <3> QED
      BY <1>1, <1>3, CallsGoDown
  <2> QED
    BY <1>1, <2>1, <2>2 DEF Opened
<1>4. CASE fn \notin P!Counting /\ P!Callee(data, fn, name) = "none"
  BY <1>1, <1>4 DEF P!ReadStart, P!Top, P!Last
<1> QED
  BY <1>2, <1>3, <1>4

LEMMA ReturnsClose ==
  ASSUME P!Return
  PROVE  Closed
BY DEF P!Return, P!Error, P!Front, Closed

\* An end tag closes, or takes one off the count.
LEMMA EndsClose ==
  ASSUME PileInv, P!ReadEnd
  PROVE  /\ stack # <<>>
         /\ \/ Closed
            \/ stack[Len(stack)].fn \in P!Counting /\ Counted(-1)
            \/ stack' = stack
<1>1. stack # <<>>
  BY DEF P!ReadEnd, P!Next1, P!Running
<1> QED
  BY <1>1, ReturnsClose DEF P!ReadEnd, P!Top, P!Last, P!Deeper, Counted

\* Whatever is read, the pile grows, shrinks or counts at its end.
LEMMA PileChanges ==
  ASSUME PileInv, P!Parse
  PROVE  /\ stack # <<>>
         /\ (\E name : Opened(name)) \/ Counted(1) \/ Counted(-1) \/ Closed \/ stack' = stack
<1>1. stack # <<>>
  BY DEF P!Parse, P!ReadStart, P!ReadEmpty, P!ReadEnd, P!ReadText, P!ReadOther, P!ReadBroken,
         P!ReadEof, P!Next1, P!Running
<1>2. CASE P!ReadStart
  BY <1>1, <1>2, StartsOpen
<1>3. CASE P!ReadEnd
  BY <1>1, <1>3, EndsClose
<1>4. CASE P!ReadEmpty \/ P!ReadText \/ P!ReadOther
  BY <1>1, <1>4 DEF P!ReadEmpty, P!ReadText, P!ReadOther
<1>5. CASE P!ReadBroken
  BY <1>1, <1>5 DEF P!ReadBroken, P!Error, P!Front, Closed
<1>6. CASE P!ReadEof
  BY <1>1, <1>6, ReturnsClose DEF P!ReadEof
<1> QED
  BY <1>1, <1>2, <1>3, <1>4, <1>5, <1>6 DEF P!Parse

LEMMA PileKept ==
  ASSUME PileInv, stack # <<>>,
         (\E name : Opened(name)) \/ Counted(1) \/ Counted(-1) \/ Closed \/ stack' = stack
  PROVE  PileInv'
<1> DEFINE n == Len(stack)
<1>1. n \in Nat \ {0} /\ DOMAIN stack = 1..n /\ n \in DOMAIN stack /\ stack \in Seq(Range(stack))
  BY TopIsKnown DEF PileInv
<1>2. CASE \E name : Opened(name)
  <2>1. PICK name, fn : /\ fn \in DOMAIN Level /\ Level[stack[n].fn] < Level[fn]
                        /\ stack' = Append(stack, [fn |-> fn, closing |-> name, depth |-> 1])
    BY <1>2 DEF Opened
  <2>2. PICK f : f = [fn |-> fn, closing |-> name, depth |-> 1]
    OBVIOUS
  <2>3. /\ stack' \in Seq(Range(stack')) /\ DOMAIN stack' = 1..n \cup {n + 1}
        /\ \A i \in 1..n : stack'[i] = stack[i]
        /\ stack'[n + 1] = f
    <3>1. PICK q : q = stack
      OBVIOUS
    <3>2. /\ Append(q, f) \in Seq(Range(Append(q, f)))
          /\ DOMAIN Append(q, f) = DOMAIN q \cup {Len(q) + 1}
          /\ \A i \in DOMAIN q : Append(q, f)[i] = q[i]
          /\ Append(q, f)[Len(q) + 1] = f
      <4>1. q \in Seq(Range(q))
        BY <1>1, <3>1
      <4> QED
        BY <4>1, Appended
    <3>3. stack' = Append(q, f)
      BY <2>1, <2>2, <3>1
    <3> QED
      BY <1>1, <3>1, <3>2, <3>3, Zenon
  <2>4. /\ DOMAIN f = {"fn", "closing", "depth"} /\ f.depth \in Int /\ f.fn = fn
        /\ Level[fn] \in Nat /\ Level[stack[n].fn] \in Nat
    <3>1. \A fun \in DOMAIN Level : Level[fun] \in Nat
      BY DEF Level
    <3>2. stack[n].fn \in DOMAIN Level
      BY <1>1 DEF PileInv
    <3> QED
      BY <2>1, <2>2, <3>1, <3>2
  <2>5. Level[fn] >= (n + 1) - 1 /\ \A i \in 1..n : Level[stack[i].fn] < Level[fn]
    <3>1. Level[stack[n].fn] >= n - 1
      BY <1>1 DEF PileInv
    <3>2. \A i \in 1..n : Level[stack[i].fn] \in Nat /\ (i = n \/ Level[stack[i].fn] < Level[stack[n].fn])
      <4>1. ASSUME NEW i \in 1..n PROVE i = n \/ i < n
        <5> HIDE DEF n
        <5> QED
          BY <1>1
      <4>2. \A fun \in DOMAIN Level : Level[fun] \in Nat
        BY DEF Level
      <4> QED
        BY <1>1, <4>1, <4>2, Zenon DEF PileInv
    <3> HIDE DEF n
    <3> QED
      BY <1>1, <2>1, <2>4, <3>1, <3>2
  <2> HIDE DEF n
  <2>6. \A i, j \in 1..n \cup {n + 1} : i < j => (i \in 1..n /\ (j \in 1..n \/ j = n + 1))
    BY <1>1
  <2> QED
    BY <1>1, <2>1, <2>3, <2>4, <2>5, <2>6 DEF PileInv
<1>3. ASSUME NEW by \in Int, Counted(by)
      PROVE  PileInv'
  <2>1. PICK f : f = [stack[n] EXCEPT !.depth = @ + by]
    OBVIOUS
  <2>2. stack' = [stack EXCEPT ![n] = f]
    BY <1>3, <2>1 DEF Counted
  <2>3. /\ DOMAIN f = {"fn", "closing", "depth"} /\ f.depth \in Int /\ f.fn = stack[n].fn
    BY <1>1, <2>1 DEF PileInv
  <2>4. /\ DOMAIN stack' = 1..n /\ stack'[n] = f
        /\ \A i \in 1..n : i # n => stack'[i] = stack[i]
    BY <1>1, <2>2, Zenon
  <2>5. stack' \in Seq(Range(stack'))
    <3>1. stack' = [i \in 1..n |-> stack'[i]]
      BY <1>1, <2>2
    <3>2. stack' \in [1..n -> Range(stack')]
      BY <2>4, <3>1 DEF Range
    <3> QED
      BY <1>1, <3>2, SeqDef
  <2>6. \A i \in 1..n : stack'[i].fn = stack[i].fn
    BY <2>3, <2>4
  <2> HIDE DEF n
  <2> QED
    BY <1>1, <2>3, <2>4, <2>5, <2>6 DEF PileInv
<1>4. CASE Closed
  <2>1. CASE stack' = <<>>
    <3>1. <<>> \in Seq(Range(<<>>)) /\ DOMAIN <<>> = {}
      OBVIOUS
    <3> QED
      BY <2>1, <3>1 DEF PileInv
  <2>2. CASE stack' = SubSeq(stack, 1, n - 1)
    <3>1. /\ stack' \in Seq(Range(stack')) /\ Len(stack') = n - 1
          /\ \A i \in 1..(n - 1) : stack'[i] = stack[i]
      BY <1>1, <2>2, Shortened, Zenon DEF PileInv
    <3> HIDE DEF n
    <3>2. DOMAIN stack' = 1..(n - 1) /\ \A i \in 1..(n - 1) : i \in 1..n
      BY <1>1, <3>1, LenProperties
    <3> QED
      BY <1>1, <3>1, <3>2 DEF PileInv
  <2> QED
    BY <1>4, <2>1, <2>2 DEF Closed
<1>5. CASE stack' = stack
  BY <1>5 DEF PileInv
<1> QED
  BY <1>2, <1>3, <1>4, <1>5

\* However the input goes on, the pile is in order.
LEMMA PileStep ==
  ASSUME PileInv, (\E events : P!parse_trusted_list(events)) \/ P!Parse \/ stack' = stack
  PROVE  PileInv'
<1>1. CASE \E events : P!parse_trusted_list(events)
  <2>1. PICK f : f = [fn |-> "list", closing |-> "", depth |-> 1]
    OBVIOUS
  <2>2. stack' = <<f>>
    BY <1>1, <2>1 DEF P!parse_trusted_list
  <2>3. DOMAIN f = {"fn", "closing", "depth"} /\ f.depth \in Int /\ f.fn = "list"
    <3>1. f.depth = 1 /\ f.fn = "list"
      BY <2>1
    <3>2. DOMAIN f = {"fn", "closing", "depth"}
      BY <2>1
    <3> QED
      BY <3>1, <3>2
  <2>4. "list" \in DOMAIN Level /\ Level["list"] = 0
    BY DEF Level
  <2>5. stack' \in Seq(Range(stack')) /\ DOMAIN stack' = 1..1 /\ stack'[1] = f
    BY <2>2 DEF Range
  <2>6. \A i, j \in 1..1 : ~(i < j) /\ i = 1
    OBVIOUS
  <2> QED
    BY <2>3, <2>4, <2>5, <2>6 DEF PileInv
<1>2. CASE P!Parse
  BY <1>2, PileChanges, PileKept
<1>3. CASE stack' = stack
  BY <1>3 DEF PileInv
<1> QED
  BY <1>1, <1>2, <1>3

LEMMA PileStarts ==
  ASSUME P!Idle
  PROVE  PileInv
<1>1. stack = <<>> /\ <<>> \in Seq(Range(<<>>)) /\ DOMAIN <<>> = {}
  BY DEF P!Idle
<1> QED
  BY <1>1 DEF PileInv

LEMMA PileAlways == AnyInput => []PileInv
<1>1. P!Idle => PileInv
  BY PileStarts
<1>2. PileInv /\ [\/ \E events : P!parse_trusted_list(events)
                  \/ P!Parse
                  \/ UNCHANGED <<stack, data, result>>]_parsing => PileInv'
  BY PileStep DEF parsing
<1> QED
  BY <1>1, <1>2, PTL DEF AnyInput

LEMMA PileIsBounded ==
  ASSUME PileInv
  PROVE  P!RecursionIsBounded
<1> DEFINE n == Len(stack)
<1>1. \A fn \in DOMAIN Level : Level[fn] \in Nat /\ Level[fn] <= 8
  BY DEF Level
<1>2. n \in Nat /\ DOMAIN stack = 1..n
  BY LenProperties DEF PileInv
<1> HIDE DEF n
<1>3. n <= 9
  <2>1. CASE n = 0
    BY <2>1
  <2>2. CASE n # 0
    <3>1. n \in 1..n
      BY <1>2, <2>2
    <3>2. Level[stack[n].fn] >= n - 1 /\ Level[stack[n].fn] \in Nat /\ Level[stack[n].fn] <= 8
      BY <1>1, <1>2, <3>1 DEF PileInv
    <3> QED
      BY <1>2, <3>2
  <2> QED
    BY <2>1, <2>2
<1>4. ASSUME NEW i \in 1..n, NEW j \in 1..n, i # j
      PROVE  stack[i].fn # stack[j].fn
  <2>1. i < j \/ j < i
    BY <1>2, <1>4
  <2>2. Level[stack[i].fn] \in Nat /\ Level[stack[j].fn] \in Nat
    BY <1>1, <1>2 DEF PileInv
  <2>3. Level[stack[i].fn] # Level[stack[j].fn]
    BY <1>2, <2>1, <2>2 DEF PileInv
  <2> QED
    BY <2>3
<1> QED
  BY <1>2, <1>3, <1>4 DEF P!RecursionIsBounded, n

\* The recursion of parse_trusted_list is bounded by its code, not by the
\* nesting of the elements it is given: at most nine calls deep, no function
\* inside itself.
THEOREM ParserDoesNotRecurse == AnyInput => []P!RecursionIsBounded
<1>1. PileInv => P!RecursionIsBounded
  BY PileIsBounded
<1> QED
  BY <1>1, PileAlways, PTL

LEMMA Advanced ==
  ASSUME PileInv, P!Parse
  PROVE  \/ input # <<>> /\ input' = Tail(input)
         \/ input' = input /\ Len(stack') < Len(stack)
<1>1. CASE P!ReadEof
  <2>1. stack # <<>> /\ input' = input /\ Closed
    BY <1>1, ReturnsClose DEF P!ReadEof, P!Running
  <2>2. Len(stack) \in Nat \ {0}
    BY <2>1, TopIsKnown
  <2>3. Len(SubSeq(stack, 1, Len(stack) - 1)) = Len(stack) - 1
    <3>1. PICK q : q = stack
      OBVIOUS
    <3>2. q \in Seq(Range(q)) /\ q # <<>>
      BY <2>1, <3>1 DEF PileInv
    <3>3. Len(SubSeq(q, 1, Len(q) - 1)) = Len(q) - 1
      BY <3>2, Shortened
    <3> QED
      BY <3>1, <3>3
  <2>4. Len(stack') = 0 \/ Len(stack') = Len(stack) - 1
    BY <2>1, <2>3 DEF Closed
  <2> QED
    BY <2>1, <2>2, <2>4
<1>2. CASE ~P!ReadEof
  BY <1>2 DEF P!Parse, P!ReadStart, P!ReadEmpty, P!ReadEnd, P!ReadText, P!ReadOther, P!ReadBroken,
         P!Next1
<1> QED
  BY <1>1, <1>2

\* Each turn of any of the parser's loops takes an event or, the input being
\* at its end, leaves a function.
THEOREM ParserAdvances == AnyInput => P!ParseAdvances
<1>1. PileInv => (P!Parse => \/ input # <<>> /\ input' = Tail(input)
                             \/ input' = input /\ Len(stack') < Len(stack))
  BY Advanced
<1> QED
  BY <1>1, PileAlways, PTL DEF P!ParseAdvances

\* And so for the lists a relying party loads.
THEOREM ReadingIsBounded == ReadingSpec => []P!RecursionIsBounded /\ P!ParseAdvances
<1>1. ReadingInit => P!Idle
  BY DEF ReadingInit
<1>2. [ReadingNext]_<<vars, reading>> =>
        [\/ \E events : P!parse_trusted_list(events)
         \/ P!Parse
         \/ UNCHANGED <<stack, data, result>>]_parsing
  BY DEF ReadingNext, Operate, Load, Read, Cut, reading, parsing
<1>3. ReadingSpec => AnyInput
  BY <1>1, <1>2, PTL DEF ReadingSpec, AnyInput
<1> QED
  BY <1>3, ParserDoesNotRecurse, ParserAdvances, PTL

----------------------------------------------------------------------------
(* The counts of skip_element and read_text_inside are unsigned, and what  *)
(* keeps them from wrapping round is not in the parser: the XML reader     *)
(* refuses an end tag that is not that of the element last opened.  The    *)
(* reader is external (quick-xml, whose check of end names parse.rs leaves *)
(* on): its names of open elements, and what it does with them.            *)

VARIABLE open

\* A start tag is remembered, an end tag is the last one's or is refused; of
\* what it refuses the reader may forget an element.
ReaderChecks ==
  LET e == Head(input) IN
  CASE input # <<>> /\ e.kind = "start" -> open' = Append(open, e.name)
    [] input # <<>> /\ e.kind = "end" ->
         /\ open # <<>> /\ open[Len(open)] = e.name
         /\ open' = SubSeq(open, 1, Len(open) - 1)
    [] input # <<>> /\ e.kind = "broken" ->
         open' = open \/ (open # <<>> /\ open' = SubSeq(open, 1, Len(open) - 1))
    [] OTHER -> open' = open

\* Any input the reader lets through.
CheckedInput ==
  /\ P!Idle /\ open = <<>>
  /\ [][\/ (\E events : P!parse_trusted_list(events)) /\ open' = <<>>
        \/ P!Parse /\ ReaderChecks
        \/ UNCHANGED <<stack, data, result, open>>]_<<parsing, open>>

\* The element of read_text_inside is open as many elements deep as it counts.
Deepest ==
  stack # <<>> =>
    (stack[Len(stack)].fn = "inside" =>
       /\ stack[Len(stack)].depth <= Len(open)
       /\ open[Len(open) - stack[Len(stack)].depth + 1] = stack[Len(stack)].closing)

CountInv ==
  /\ PileInv
  /\ open \in Seq(Range(open))
  /\ P!CountsStayPositive
  /\ Deepest

\* The functions that count call no other: they are the deepest.
LEMMA OnlyTheDeepestCounts ==
  ASSUME PileInv, NEW i \in DOMAIN stack, stack[i].fn \in P!Counting
  PROVE  i = Len(stack)
<1>1. /\ \A fn \in DOMAIN Level : Level[fn] \in Nat /\ Level[fn] <= 8
      /\ \A fn \in P!Counting : Level[fn] = 8
  BY DEF Level, P!Counting
<1>2. stack # <<>>
  OBVIOUS
<1>3. Len(stack) \in Nat \ {0} /\ Len(stack) \in DOMAIN stack /\ DOMAIN stack = 1..Len(stack)
  BY <1>2, TopIsKnown
<1>4. CASE i < Len(stack)
  BY <1>1, <1>3, <1>4 DEF PileInv
<1> QED
  BY <1>3, <1>4

LEMMA NamesKept ==
  ASSUME open \in Seq(Range(open)), ReaderChecks
  PROVE  open' \in Seq(Range(open'))
<1>1. PICK q : q = open
  OBVIOUS
<1>2. q \in Seq(Range(q))
  BY <1>1
<1>3. ASSUME NEW name PROVE Append(q, name) \in Seq(Range(Append(q, name)))
  BY <1>2, Appended
<1>4. ASSUME q # <<>>
      PROVE  SubSeq(q, 1, Len(q) - 1) \in Seq(Range(SubSeq(q, 1, Len(q) - 1)))
  BY <1>2, <1>4, Shortened
<1>5. \/ open' = q
      \/ \E name : open' = Append(q, name)
      \/ q # <<>> /\ open' = SubSeq(q, 1, Len(q) - 1)
  BY <1>1 DEF ReaderChecks
<1>6. CASE open' = q
  BY <1>2, <1>6
<1>7. CASE \E name : open' = Append(q, name)
  BY <1>3, <1>7
<1>8. CASE q # <<>> /\ open' = SubSeq(q, 1, Len(q) - 1)
  BY <1>4, <1>8
<1> QED
  BY <1>5, <1>6, <1>7, <1>8

\* As a function returns, the counts of the others stay as they are, and its
\* caller does not count.
LEMMA ClosedCounts ==
  ASSUME PileInv, stack # <<>>, P!CountsStayPositive, Closed
  PROVE  P!CountsStayPositive' /\ Deepest'
<1> DEFINE n == Len(stack)
<1>1. n \in Nat \ {0} /\ DOMAIN stack = 1..n
  BY TopIsKnown
<1>2. CASE stack' = <<>>
  BY <1>2 DEF P!CountsStayPositive, Deepest
<1>3. CASE stack' = SubSeq(stack, 1, n - 1)
  <2>1. stack' \in Seq(Range(stack')) /\ Len(stack') = n - 1 /\ \A i \in 1..(n - 1) : stack'[i] = stack[i]
    <3>1. PICK q : q = stack
      OBVIOUS
    <3>2. q \in Seq(Range(q)) /\ q # <<>>
      BY <3>1 DEF PileInv
    <3>3. LET p == SubSeq(q, 1, Len(q) - 1) IN
            p \in Seq(Range(p)) /\ Len(p) = Len(q) - 1 /\ \A i \in 1..(Len(q) - 1) : p[i] = q[i]
      BY <3>2, Shortened
    <3> QED
      BY <1>3, <3>1, <3>3
  <2> HIDE DEF n
  <2>2. DOMAIN stack' = 1..(n - 1) /\ \A i \in 1..(n - 1) : i \in 1..n /\ i # n
    BY <1>1, <2>1, LenProperties
  <2>3. P!CountsStayPositive'
    BY <1>1, <2>1, <2>2 DEF P!CountsStayPositive
  <2>4. \A i \in 1..(n - 1) : stack[i].fn \notin P!Counting
    BY <1>1, <2>2, OnlyTheDeepestCounts, Zenon DEF n
  <2>5. ASSUME stack' # <<>> PROVE stack'[Len(stack')].fn # "inside"
    <3>1. Len(stack') \in 1..(n - 1)
      BY <1>1, <2>1, <2>5, EmptySeq, LenProperties
    <3> QED
      BY <2>1, <2>4, <3>1 DEF P!Counting
  <2> QED
    BY <2>3, <2>5 DEF Deepest
<1> QED
  BY <1>2, <1>3 DEF Closed

LEMMA UncountedCounts ==
  ASSUME P!CountsStayPositive, stack' = stack, stack # <<>>, stack[Len(stack)].fn \notin P!Counting
  PROVE  P!CountsStayPositive' /\ Deepest'
BY DEF P!CountsStayPositive, Deepest, P!Counting

\* What counting does to the pile.
LEMMA CountedPile ==
  ASSUME PileInv, stack # <<>>, NEW by \in {1, -1}, Counted(by)
  PROVE  /\ Len(stack') = Len(stack) /\ DOMAIN stack' = DOMAIN stack
         /\ stack[Len(stack)].depth \in Int /\ stack'[Len(stack)].depth = stack[Len(stack)].depth + by
         /\ stack'[Len(stack)].fn = stack[Len(stack)].fn
         /\ stack'[Len(stack)].closing = stack[Len(stack)].closing
         /\ \A i \in DOMAIN stack : i # Len(stack) => stack'[i] = stack[i]
<1> DEFINE n == Len(stack)
<1>1. n \in DOMAIN stack /\ DOMAIN stack = 1..n /\ n \in Nat
  BY TopIsKnown
<1>2. DOMAIN stack[n] = {"fn", "closing", "depth"} /\ stack[n].depth \in Int
  BY <1>1 DEF PileInv
<1>3. PICK f : f = [stack[n] EXCEPT !.depth = @ + by]
  OBVIOUS
<1>4. f.depth = stack[n].depth + by /\ f.fn = stack[n].fn /\ f.closing = stack[n].closing
  BY <1>2, <1>3
<1>5. stack' = [stack EXCEPT ![n] = f]
  BY <1>3 DEF Counted
<1>6. stack'[n] = f /\ DOMAIN stack' = DOMAIN stack /\ \A i \in DOMAIN stack : i # n => stack'[i] = stack[i]
  BY <1>1, <1>5
<1>7. Len(stack') = n
  <2>1. PileInv'
    <3>1. Counted(1) \/ Counted(-1)
      OBVIOUS
    <3> QED
      BY <3>1, PileKept, Zenon
  <2> QED
    BY <1>1, <1>6, <2>1, LenProperties DEF PileInv
<1> QED
  BY <1>2, <1>4, <1>6, <1>7

LEMMA StartsCount ==
  ASSUME CountInv, P!ReadStart, ReaderChecks
  PROVE  P!CountsStayPositive' /\ Deepest'
<1> DEFINE n == Len(stack)
           name == Head(input).name
<1>1. stack # <<>> /\ input # <<>> /\ Head(input).kind = "start"
  BY DEF P!ReadStart, P!Next1, P!Running
<1>2. n \in Nat \ {0} /\ DOMAIN stack = 1..n /\ n \in DOMAIN stack
  BY <1>1, TopIsKnown DEF CountInv
<1>3. /\ Len(open') = Len(open) + 1 /\ Len(open) \in Nat
      /\ open'[Len(open) + 1] = name
      /\ \A m \in 1..Len(open) : open'[m] = open[m]
  <2>1. open' = Append(open, name)
    BY <1>1 DEF ReaderChecks
  <2>2. PICK q : q = open
    OBVIOUS
  <2>3. q \in Seq(Range(q)) /\ Len(q) \in Nat /\ DOMAIN q = 1..Len(q)
    BY <2>2, LenProperties DEF CountInv
  <2>4. /\ Len(Append(q, name)) = Len(q) + 1 /\ Append(q, name)[Len(q) + 1] = name
        /\ \A m \in DOMAIN q : Append(q, name)[m] = q[m]
    <3> HIDE DEF name
    <3> QED
      BY <2>3, Appended
  <2> QED
    BY <2>1, <2>2, <2>3, <2>4
<1>4. CASE Opened(name)
  <2>1. PICK f : f.fn \in DOMAIN Level /\ f.depth = 1 /\ f.closing = name /\ stack' = Append(stack, f)
    BY <1>4 DEF Opened
  <2>2. /\ DOMAIN stack' = 1..n \cup {n + 1} /\ Len(stack') = n + 1
        /\ stack'[n + 1] = f /\ \A i \in 1..n : stack'[i] = stack[i]
    <3>1. PICK q : q = stack
      OBVIOUS
    <3>2. q \in Seq(Range(q)) /\ DOMAIN q = 1..n /\ Len(q) = n
      BY <1>2, <3>1 DEF CountInv, PileInv
    <3>3. /\ DOMAIN Append(q, f) = DOMAIN q \cup {Len(q) + 1} /\ Len(Append(q, f)) = Len(q) + 1
          /\ Append(q, f)[Len(q) + 1] = f /\ \A i \in DOMAIN q : Append(q, f)[i] = q[i]
      BY <3>2, Appended
    <3> QED
      BY <2>1, <3>1, <3>2, <3>3
  <2> HIDE DEF n, name
  <2>3. P!CountsStayPositive'
    BY <1>2, <2>1, <2>2 DEF CountInv, P!CountsStayPositive
  <2> QED
    BY <1>3, <2>1, <2>2, <2>3 DEF Deepest
<1>5. CASE stack[n].fn \in P!Counting /\ Counted(1)
  <2>1. /\ Len(stack') = n /\ DOMAIN stack' = 1..n
        /\ stack[n].depth \in Int /\ stack'[n].depth = stack[n].depth + 1
        /\ stack'[n].fn = stack[n].fn /\ stack'[n].closing = stack[n].closing
        /\ \A i \in 1..n : i # n => stack'[i] = stack[i]
    BY <1>1, <1>2, <1>5, CountedPile, Zenon DEF CountInv
  <2> HIDE DEF n, name
  <2>2. stack[n].depth >= 1
    BY <1>2 DEF CountInv, P!CountsStayPositive
  <2>3. P!CountsStayPositive'
    BY <1>2, <2>1, <2>2 DEF CountInv, P!CountsStayPositive
  <2>4. ASSUME stack[n].fn = "inside"
        PROVE  /\ stack'[n].depth <= Len(open')
               /\ open'[Len(open') - stack'[n].depth + 1] = stack'[n].closing
    <3>1. stack[n].depth <= Len(open) /\ open[Len(open) - stack[n].depth + 1] = stack[n].closing
      BY <1>1, <2>4 DEF CountInv, Deepest, n
    <3>2. Len(open') - stack'[n].depth + 1 = Len(open) - stack[n].depth + 1
      <4>1. PICK l, d : l = Len(open) /\ d = stack[n].depth
        OBVIOUS
      <4>2. l \in Int /\ d \in Int
        BY <1>3, <2>1, <4>1
      <4>3. (l + 1) - (d + 1) + 1 = l - d + 1
        BY <4>2
      <4>4. Len(open') = l + 1 /\ stack'[n].depth = d + 1
        BY <1>3, <2>1, <4>1
      <4> QED
        BY <4>1, <4>3, <4>4
    <3>3. Len(open) - stack[n].depth + 1 \in 1..Len(open)
      BY <1>3, <2>1, <2>2, <3>1
    <3> QED
      BY <1>3, <2>1, <3>1, <3>2, <3>3
  <2> QED
    BY <2>1, <2>3, <2>4 DEF Deepest
<1>6. CASE stack[n].fn \notin P!Counting /\ stack' = stack
  BY <1>1, <1>6, UncountedCounts DEF CountInv
<1> QED
  BY <1>4, <1>5, <1>6, StartsOpen DEF CountInv

\* An end tag at the depth of one is that of the element read.
LEMMA EndsCount ==
  ASSUME CountInv, P!ReadEnd, ReaderChecks
  PROVE  P!CountsStayPositive' /\ Deepest'
<1> DEFINE n == Len(stack)
           name == Head(input).name
           top == stack[n]
<1>1. stack # <<>> /\ input # <<>> /\ Head(input).kind = "end"
  BY DEF P!ReadEnd, P!Next1, P!Running
<1>2. n \in Nat \ {0} /\ DOMAIN stack = 1..n /\ n \in DOMAIN stack
  BY <1>1, TopIsKnown DEF CountInv
<1>3. /\ Len(open') = Len(open) - 1 /\ Len(open) \in Nat \ {0} /\ open[Len(open)] = name
      /\ \A m \in 1..(Len(open) - 1) : open'[m] = open[m]
  <2>1. open # <<>> /\ open[Len(open)] = name /\ open' = SubSeq(open, 1, Len(open) - 1)
    BY <1>1 DEF ReaderChecks
  <2>2. PICK q : q = open
    OBVIOUS
  <2>3. q \in Seq(Range(q)) /\ q # <<>>
    BY <2>1, <2>2 DEF CountInv
  <2>4. LET p == SubSeq(q, 1, Len(q) - 1) IN
          Len(p) = Len(q) - 1 /\ Len(q) \in Nat \ {0} /\ \A m \in 1..(Len(q) - 1) : p[m] = q[m]
    BY <2>3, Shortened
  <2> QED
    BY <2>1, <2>2, <2>4
<1>4. \/ P!Return
      \/ /\ top.fn \in P!Counting /\ Counted(-1)
         /\ top.depth = 1 => top.fn = "inside" /\ name # top.closing
      \/ top.fn \notin P!Counting /\ stack' = stack
  BY DEF P!ReadEnd, P!Top, P!Last, P!Deeper, Counted
<1>5. CASE P!Return
  BY <1>1, <1>5, ReturnsClose, ClosedCounts DEF CountInv
<1>6. CASE /\ top.fn \in P!Counting /\ Counted(-1)
           /\ top.depth = 1 => top.fn = "inside" /\ name # top.closing
  <2>1. /\ Len(stack') = n /\ DOMAIN stack' = 1..n
        /\ top.depth \in Int /\ stack'[n].depth = top.depth + -1
        /\ stack'[n].fn = top.fn /\ stack'[n].closing = top.closing
        /\ \A i \in 1..n : i # n => stack'[i] = stack[i]
    BY <1>1, <1>2, <1>6, CountedPile, Zenon DEF CountInv
  <2>2. top.depth >= 1
    BY <1>2 DEF CountInv, P!CountsStayPositive
  <2>3. top.fn = "inside" => /\ top.depth <= Len(open)
                             /\ open[Len(open) - top.depth + 1] = top.closing
    BY <1>1 DEF CountInv, Deepest
  <2> HIDE DEF top, name, n
  <2>4. top.depth # 1
    <3>1. ASSUME top.depth = 1 PROVE Len(open) - top.depth + 1 = Len(open)
      BY <1>3, <3>1
    <3> QED
      BY <1>3, <1>6, <2>3, <3>1
  <2>5. P!CountsStayPositive'
    BY <1>2, <2>1, <2>2, <2>4 DEF CountInv, P!CountsStayPositive
  <2>6. ASSUME top.fn = "inside"
        PROVE  /\ stack'[n].depth <= Len(open')
               /\ open'[Len(open') - stack'[n].depth + 1] = stack'[n].closing
    <3>1. Len(open') - stack'[n].depth + 1 = Len(open) - top.depth + 1
      <4>1. PICK l, d : l = Len(open) /\ d = top.depth
        OBVIOUS
      <4>2. l \in Int /\ d \in Int
        BY <1>3, <2>1, <4>1
      <4>3. (l - 1) - (d + -1) + 1 = l - d + 1
        BY <4>2
      <4>4. Len(open') = l - 1 /\ stack'[n].depth = d + -1
        BY <1>3, <2>1, <4>1
      <4> QED
        BY <4>1, <4>3, <4>4
    <3>2. Len(open) - top.depth + 1 \in 1..(Len(open) - 1)
      BY <1>3, <2>1, <2>2, <2>3, <2>4, <2>6
    <3>3. open'[Len(open') - stack'[n].depth + 1] = top.closing
      <4>1. open'[Len(open) - top.depth + 1] = open[Len(open) - top.depth + 1]
        BY <1>3, <3>2
      <4> QED
        BY <2>3, <2>6, <3>1, <4>1
    <3>4. stack'[n].depth <= Len(open')
      BY <1>3, <2>1, <2>3, <2>6
    <3> QED
      BY <2>1, <3>3, <3>4
  <2> QED
    BY <2>1, <2>5, <2>6 DEF Deepest
<1>7. CASE top.fn \notin P!Counting /\ stack' = stack
  BY <1>1, <1>7, UncountedCounts DEF CountInv
<1> QED
  BY <1>4, <1>5, <1>6, <1>7

LEMMA CountStep ==
  ASSUME CountInv,
         \/ (\E events : P!parse_trusted_list(events)) /\ open' = <<>>
         \/ P!Parse /\ ReaderChecks
         \/ UNCHANGED <<stack, open>>
  PROVE  CountInv'
<1>1. PileInv'
  BY PileStep DEF CountInv
<1>2. CASE (\E events : P!parse_trusted_list(events)) /\ open' = <<>>
  <2>1. PICK f : f.fn = "list" /\ f.depth = 1 /\ stack' = <<f>>
    BY <1>2 DEF P!parse_trusted_list
  <2>2. DOMAIN stack' = 1..1 /\ Len(stack') = 1 /\ stack'[1] = f
    BY <2>1
  <2>3. P!CountsStayPositive' /\ Deepest'
    BY <2>1, <2>2 DEF P!CountsStayPositive, Deepest
  <2>4. open' \in Seq(Range(open'))
    BY <1>2
  <2> QED
    BY <1>1, <2>3, <2>4 DEF CountInv
<1>3. CASE P!Parse /\ ReaderChecks
  <2>1. open' \in Seq(Range(open'))
    BY <1>3, NamesKept DEF CountInv
  <2>2. CASE P!ReadStart
    BY <1>1, <1>3, <2>1, <2>2, StartsCount DEF CountInv
  <2>3. CASE P!ReadEnd
    BY <1>1, <1>3, <2>1, <2>3, EndsCount DEF CountInv
  <2>4. CASE P!ReadEmpty \/ P!ReadText \/ P!ReadOther
    <3>1. stack' = stack /\ open' = open
      BY <1>3, <2>4 DEF P!ReadEmpty, P!ReadText, P!ReadOther, P!Next1, ReaderChecks
    <3> QED
      BY <1>1, <3>1 DEF CountInv, P!CountsStayPositive, Deepest
  <2>5. CASE P!ReadBroken \/ P!ReadEof
    <3>1. stack # <<>> /\ Closed
      BY <2>5, ReturnsClose DEF P!ReadBroken, P!ReadEof, P!Next1, P!Running, P!Error, P!Front, Closed
    <3>2. P!CountsStayPositive' /\ Deepest'
      BY <3>1, ClosedCounts DEF CountInv
    <3> QED
      BY <1>1, <2>1, <3>2 DEF CountInv
  <2> QED
    BY <1>3, <2>2, <2>3, <2>4, <2>5 DEF P!Parse
<1>4. CASE UNCHANGED <<stack, open>>
  BY <1>1, <1>4 DEF CountInv, P!CountsStayPositive, Deepest
<1> QED
  BY <1>2, <1>3, <1>4

\* With a reader that checks the names of end tags, and only because of it,
\* neither count can reach zero within its loop: the subtraction for an end
\* tag of another name does not wrap round.
THEOREM CountsNeverWrap == CheckedInput => []P!CountsStayPositive
<1>1. P!Idle /\ open = <<>> => CountInv
  <2> SUFFICES ASSUME P!Idle, open = <<>> PROVE CountInv
    OBVIOUS
  <2>1. stack = <<>> /\ <<>> \in Seq(Range(<<>>)) /\ DOMAIN <<>> = {}
    BY DEF P!Idle
  <2>2. PileInv
    BY PileStarts
  <2>3. P!CountsStayPositive /\ Deepest
    BY <2>1 DEF P!CountsStayPositive, Deepest
  <2> QED
    BY <2>1, <2>2, <2>3 DEF CountInv
<1>2. CountInv /\ [\/ (\E events : P!parse_trusted_list(events)) /\ open' = <<>>
                   \/ P!Parse /\ ReaderChecks
                   \/ UNCHANGED <<stack, data, result, open>>]_<<parsing, open>> => CountInv'
  BY CountStep DEF parsing
<1>3. CountInv => P!CountsStayPositive
  BY DEF CountInv
<1> QED
  BY <1>1, <1>2, <1>3, PTL DEF CheckedInput

----------------------------------------------------------------------------
(* The parser as a function: where one step leads from what is left to     *)
(* read, the functions called, their variables and the result.             *)

\* The caller of the innermost function; of the outermost there is none.
Caller(s) == IF Len(s) = 1 THEN "" ELSE s[Len(s) - 1].fn
Named(fn) == fn # ""

Back(rest, s, d, r) ==
  <<rest, SubSeq(s, 1, Len(s) - 1), P!Returned(d, s[Len(s)].fn, s[Len(s)].closing, Caller(s)),
    IF Named(Caller(s)) THEN r ELSE "Ok">>

Frame(fn, name) == [fn |-> fn, closing |-> name, depth |-> 1]
Recount(s, by) == [s EXCEPT ![Len(s)].depth = @ + by]

\* What the qualifiers read so far gain by a tag e.
Noted(d, fn, e) ==
  [d EXCEPT !.quals = @ \cup IF fn = "qualifiers" /\ e.name = "Qualifier" THEN {e.val} ELSE {}]

OnStart(e, rest, s, d, r) ==
  LET fn == s[Len(s)].fn
      called == P!Callee(d, fn, e.name) IN
  IF fn \in P!Counting THEN <<rest, Recount(s, 1), d, r>>
  ELSE IF called # "none" THEN <<rest, Append(s, Frame(called, e.name)), P!Fresh(d, called), r>>
  ELSE <<rest, s, Noted(d, fn, e), r>>

\* The end tag e is the one that the innermost function reads up to.
EndsCall(e, top) ==
  IF top.fn \in P!Counting THEN top.depth = 1 /\ (top.fn = "inside" => e.name = top.closing)
  ELSE top.closing = e.name

OnEnd(e, rest, s, d, r) ==
  IF EndsCall(e, s[Len(s)]) THEN Back(rest, s, d, r)
  ELSE <<rest, IF s[Len(s)].fn \in P!Counting THEN Recount(s, -1) ELSE s, d, r>>

OnText(e, rest, s, d, r) ==
  <<rest, s, IF s[Len(s)].fn \in {"text", "inside"} THEN [d EXCEPT !.text = @ \o e.val] ELSE d, r>>

OnBroken(rest, s, d, r) ==
  IF s[Len(s)].fn # "inside" THEN <<rest, <<>>, P!NoData, "Err">>
  ELSE LET update == s[Len(s)].closing = "NextUpdate" IN
       <<rest, SubSeq(s, 1, Len(s) - 1),
         [d EXCEPT !.scheme_type = IF update THEN @ ELSE <<"">>,
                   !.next_update = IF update THEN NoTime ELSE @], r>>

OnEvent(e, rest, s, d, r) ==
  CASE e.kind = "start" -> OnStart(e, rest, s, d, r)
    [] e.kind = "empty" -> <<rest, s, Noted(d, s[Len(s)].fn, e), r>>
    [] e.kind = "end" -> OnEnd(e, rest, s, d, r)
    [] e.kind = "text" -> OnText(e, rest, s, d, r)
    [] e.kind = "other" -> <<rest, s, d, r>>
    [] e.kind = "broken" -> OnBroken(rest, s, d, r)

Turn(c) ==
  IF c[2] = <<>> THEN c
  ELSE IF c[1] = <<>> THEN Back(c[1], c[2], c[3], c[4])
  ELSE OnEvent(Head(c[1]), Tail(c[1]), c[2], c[3], c[4])

Returning(c) ==
  c[2] # <<>> /\ (c[1] = <<>> \/ (Head(c[1]).kind = "end" /\ EndsCall(Head(c[1]), c[2][Len(c[2])])))

\* A certificate has been read that does not decode.  The function goes on, as
\* if it did.
Garbled(c) == Returning(c) /\ Caller(c[2]) = "identity" /\ P!Uri(c[3].text) \notin Keys
Refused(left) == <<left, <<>>, P!NoData, "Err">>

\* Otherwise the machine's steps are the function's.
LEMMA ReturnIsBack ==
  ASSUME P!Return
  PROVE  <<input', stack', data', result'>> =
           IF Caller(stack) = "identity" /\ P!Uri(data.text) \notin Keys THEN Refused(input')
           ELSE Back(input', stack, data, result)
<1>1. PICK caller : caller = IF Len(stack) = 1 THEN "" ELSE stack[Len(stack) - 1].fn
  OBVIOUS
<1>2. caller = Caller(stack)
  BY <1>1 DEF Caller
<1>3. CASE caller = "identity" /\ P!Uri(data.text) \notin Keys
  <2>1. stack' = <<>> /\ data' = P!NoData /\ result' = "Err"
    BY <1>1, <1>3 DEF P!Return, P!Error
  <2> QED
    BY <1>2, <1>3, <2>1 DEF Refused
<1>4. CASE ~(caller = "identity" /\ P!Uri(data.text) \notin Keys)
  <2>1. /\ stack' = SubSeq(stack, 1, Len(stack) - 1)
        /\ data' = P!Returned(data, stack[Len(stack)].fn, stack[Len(stack)].closing, caller)
        /\ result' = IF caller = "" THEN "Ok" ELSE result
    BY <1>1, <1>4 DEF P!Return, P!Front, P!Top, P!Last
  <2>2. result' = IF Named(caller) THEN result ELSE "Ok"
    BY <2>1 DEF Named
  <2> QED
    BY <1>2, <1>4, <2>1, <2>2 DEF Back
<1> QED
  BY <1>3, <1>4

LEMMA ParseTurns ==
  ASSUME P!Parse
  PROVE  <<input', stack', data', result'>> =
           IF Garbled(<<input, stack, data, result>>) THEN Refused(input')
           ELSE Turn(<<input, stack, data, result>>)
<1> DEFINE e == Head(input)
           c == <<input, stack, data, result>>
           next == <<input', stack', data', result'>>
<1>1. c[1] = input /\ c[2] = stack /\ c[3] = data /\ c[4] = result
  OBVIOUS
<1>2. CASE P!ReadEof
  <2>1. stack # <<>> /\ input = <<>> /\ P!Return /\ input' = input
    BY <1>2 DEF P!ReadEof, P!Running
  <2>2. Garbled(c) <=> Caller(stack) = "identity" /\ P!Uri(data.text) \notin Keys
    BY <1>1, <2>1 DEF Garbled, Returning
  <2>3. Turn(c) = Back(input', stack, data, result)
    BY <1>1, <2>1 DEF Turn
  <2> QED
    BY <2>1, <2>2, <2>3, ReturnIsBack
<1>3. CASE ~P!ReadEof
  <2>1. stack # <<>> /\ input # <<>> /\ input' = Tail(input)
    BY <1>3 DEF P!Parse, P!ReadStart, P!ReadEmpty, P!ReadEnd, P!ReadText, P!ReadOther, P!ReadBroken,
           P!Next1, P!Running
  <2>2. Turn(c) = OnEvent(e, input', stack, data, result)
    BY <1>1, <2>1 DEF Turn
  <2>g. Garbled(c) => e.kind = "end"
    BY <1>1, <2>1 DEF Garbled, Returning
  <2>3. CASE P!ReadStart
    <3>1. e.kind = "start" /\ result' = result
      BY <2>3 DEF P!ReadStart, P!Next1
    <3>2. next = OnStart(e, input', stack, data, result)
      BY <2>3, <3>1 DEF P!ReadStart, P!Top, P!Last, P!Deeper, P!Qualifiers, OnStart, Recount, Noted, Frame
    <3> QED
      BY <2>2, <2>g, <3>1, <3>2 DEF OnEvent
  <2>4. CASE P!ReadEmpty
    <3>1. /\ e.kind = "empty" /\ result' = result /\ stack' = stack
          /\ data' = Noted(data, stack[Len(stack)].fn, e)
      BY <2>4 DEF P!ReadEmpty, P!Next1, P!Top, P!Last, P!Qualifiers, Noted
    <3> QED
      BY <2>2, <2>g, <3>1 DEF OnEvent
  <2>5. CASE P!ReadEnd
    <3>1. e.kind = "end"
      BY <2>5 DEF P!ReadEnd, P!Next1
    <3>2. Turn(c) = OnEnd(e, input', stack, data, result)
      BY <2>2, <3>1 DEF OnEvent
    <3>3. CASE EndsCall(e, stack[Len(stack)])
      <4>1. P!Return
        BY <2>5, <3>3 DEF P!ReadEnd, P!Top, P!Last, EndsCall
      <4>2. Garbled(c) <=> Caller(stack) = "identity" /\ P!Uri(data.text) \notin Keys
        BY <1>1, <2>1, <3>1, <3>3 DEF Garbled, Returning
      <4>3. Turn(c) = Back(input', stack, data, result)
        BY <3>2, <3>3 DEF OnEnd
      <4> QED
        BY <4>1, <4>2, <4>3, ReturnIsBack
    <3>4. CASE ~EndsCall(e, stack[Len(stack)])
      <4>1. ~Garbled(c)
        BY <1>1, <2>1, <3>4 DEF Garbled, Returning
      <4>2. next = OnEnd(e, input', stack, data, result)
        BY <2>5, <3>4 DEF P!ReadEnd, P!Top, P!Last, P!Deeper, OnEnd, EndsCall, Recount
      <4> QED
        BY <3>2, <4>1, <4>2
    <3> QED
      BY <3>3, <3>4
  <2>6. CASE P!ReadText
    BY <2>2, <2>g, <2>6 DEF P!ReadText, P!Next1, P!Top, P!Last, OnEvent, OnText
  <2>7. CASE P!ReadOther
    BY <2>2, <2>g, <2>7 DEF P!ReadOther, P!Next1, OnEvent
  <2>8. CASE P!ReadBroken
    <3>1. e.kind = "broken"
      BY <2>8 DEF P!ReadBroken, P!Next1
    <3>2. next = OnBroken(input', stack, data, result)
      BY <2>8 DEF P!ReadBroken, P!Top, P!Last, P!Front, P!Error, OnBroken
    <3> QED
      BY <2>2, <2>g, <3>1, <3>2 DEF OnEvent
  <2> QED
    BY <1>3, <2>3, <2>4, <2>5, <2>6, <2>7, <2>8 DEF P!Parse
<1> QED
  BY <1>2, <1>3

\* What an element of a service's present period fills has not been filled.
Unfilled(svc, closing) ==
  /\ svc.history = <<>>
  /\ closing = "ServiceTypeIdentifier" => svc.kind = P!EmptyService.kind
  /\ closing = "ServiceStatus" => svc.status = P!EmptyService.status
  /\ closing = "StatusStartingTime" => svc.start = P!EmptyService.start

\* Nothing is broken, a text comes in one piece, and each element of a present
\* period once.
Kinds == {"start", "empty", "end", "text", "other"}
Anew(c) ==
  /\ c[1] # <<>> => Head(c[1]).kind \in Kinds
  /\ (c[2] # <<>> /\ c[2][Len(c[2])].fn = "text") =>
       /\ (c[1] # <<>> /\ Head(c[1]).kind = "text") => c[3].text = <<>>
       /\ (Caller(c[2]) = "information" /\ (c[1] # <<>> => Head(c[1]).kind = "end")) =>
            Unfilled(c[3].svc, c[2][Len(c[2])].closing)

\* f is where steps lead from c, each of them anew: it is in every set that
\* holds c and is closed, among those of some set.
Reach(c, f) ==
  \E U : /\ c \in U /\ \A x \in U : x # f => Anew(x) /\ Turn(x) \in U
        /\ \A S \in SUBSET U : (c \in S /\ \A x \in S : x # f => Turn(x) \in S) => f \in S

LEMMA ReachStays == ASSUME NEW c PROVE Reach(c, c)
<1>1. c \in {c} /\ \A x \in {c} : x # c => Anew(x) /\ Turn(x) \in {c}
  OBVIOUS
<1> QED
  BY <1>1, Zenon DEF Reach

LEMMA ReachStep ==
  ASSUME NEW c, NEW f, Reach(Turn(c), f), Anew(c)
  PROVE  Reach(c, f)
<1>1. CASE c = f
  BY <1>1, ReachStays
<1>2. CASE c # f
  <2>1. PICK U : /\ Turn(c) \in U /\ \A x \in U : x # f => Anew(x) /\ Turn(x) \in U
                 /\ \A S \in SUBSET U : (Turn(c) \in S /\ \A x \in S : x # f => Turn(x) \in S) => f \in S
    BY Zenon DEF Reach
  <2>2. PICK V : V = U \cup {c}
    OBVIOUS
  <2>3. c \in V /\ \A x \in V : x # f => Anew(x) /\ Turn(x) \in V
    BY <2>1, <2>2
  <2>4. ASSUME NEW S \in SUBSET V, c \in S, \A x \in S : x # f => Turn(x) \in S
        PROVE  f \in S
    <3>1. S \cap U \in SUBSET U /\ Turn(c) \in S \cap U
      BY <1>2, <2>1, <2>4
    <3>2. \A x \in S \cap U : x # f => Turn(x) \in S \cap U
      BY <2>1, <2>4
    <3>3. f \in S \cap U
      BY <2>1, <3>1, <3>2, Zenon
    <3> QED
      BY <3>3
  <2> QED
    BY <2>3, <2>4, Zenon DEF Reach
<1> QED
  BY <1>1, <1>2

LEMMA ReachThen ==
  ASSUME NEW c, NEW f, NEW g, Reach(c, f), Reach(f, g)
  PROVE  Reach(c, g)
<1>1. PICK U : /\ c \in U /\ \A x \in U : x # f => Anew(x) /\ Turn(x) \in U
               /\ \A S \in SUBSET U : (c \in S /\ \A x \in S : x # f => Turn(x) \in S) => f \in S
  BY Zenon DEF Reach
<1>2. PICK V : /\ f \in V /\ \A x \in V : x # g => Anew(x) /\ Turn(x) \in V
               /\ \A S \in SUBSET V : (f \in S /\ \A x \in S : x # g => Turn(x) \in S) => g \in S
  BY Zenon DEF Reach
<1>3. PICK W : W = U \cup V
  OBVIOUS
<1>4. c \in W /\ \A x \in W : x # g => Anew(x) /\ Turn(x) \in W
  BY <1>1, <1>2, <1>3
<1>5. ASSUME NEW S \in SUBSET W, c \in S, \A x \in S : x # g => Turn(x) \in S
      PROVE  g \in S
  <2> SUFFICES ASSUME g \notin S
               PROVE  FALSE
    OBVIOUS
  <2>1. S \cap U \in SUBSET U /\ c \in S \cap U
    BY <1>1, <1>5
  <2>2. \A x \in S \cap U : x # f => Turn(x) \in S \cap U
    BY <1>1, <1>5
  <2>3. f \in S \cap U
    BY <1>1, <2>1, <2>2, Zenon
  <2>4. S \cap V \in SUBSET V /\ f \in S \cap V
    BY <1>2, <2>3
  <2>5. \A x \in S \cap V : x # g => Turn(x) \in S \cap V
    BY <1>2, <1>5
  <2>6. g \in S \cap V
    BY <1>2, <2>4, <2>5, Zenon
  <2> QED
    BY <2>6
<1> QED
  BY <1>4, <1>5, Zenon DEF Reach

\* A step goes on towards wherever the parser was going.
LEMMA ReachOn ==
  ASSUME NEW c, NEW f, Reach(c, f), f # c
  PROVE  Reach(Turn(c), f) /\ Anew(c)
<1>1. PICK U : /\ c \in U /\ \A x \in U : x # f => Anew(x) /\ Turn(x) \in U
               /\ \A S \in SUBSET U : (c \in S /\ \A x \in S : x # f => Turn(x) \in S) => f \in S
  BY Zenon DEF Reach
<1>2. ASSUME NEW S \in SUBSET U, Turn(c) \in S, \A x \in S : x # f => Turn(x) \in S
      PROVE  f \in S
  <2>1. S \cup {c} \in SUBSET U /\ c \in S \cup {c}
    BY <1>1, <1>2
  <2>2. \A x \in S \cup {c} : x # f => Turn(x) \in S \cup {c}
    BY <1>2
  <2>3. f \in S \cup {c}
    BY <1>1, <2>1, <2>2, Zenon
  <2> QED
    BY <2>3
<1>3. Turn(c) \in U /\ Anew(c)
  BY <1>1
<1> QED
  BY <1>1, <1>2, <1>3, Zenon DEF Reach

\* It stops where it has arrived.
LEMMA ReachEnds ==
  ASSUME NEW c, NEW f, Reach(c, f), c[2] = <<>>
  PROVE  f = c
<1>1. PICK U : c \in U /\ \A S \in SUBSET U : (c \in S /\ \A x \in S : x # f => Turn(x) \in S) => f \in S
  BY Zenon DEF Reach
<1>2. {c} \in SUBSET U /\ c \in {c} /\ \A x \in {c} : x # f => Turn(x) \in {c}
  BY <1>1 DEF Turn
<1>3. f \in {c}
  BY <1>1, <1>2, Zenon
<1> QED
  BY <1>3

----------------------------------------------------------------------------
(* Rules for what is read of a document, piece by piece.                   *)

StartOf(name) == Event("start", name, <<>>)
EndOf(name) == Event("end", name, <<>>)

\* While the call goes on.
At(left, s, d) == <<left, s, d, "none">>

\* The piece q is read, by the functions s, from variables d to variables e,
\* whatever comes after it.
Reads(q, s, d, e) ==
  \A rest : IsSeq(rest) => Reach(At(q \o rest, s, d), At(rest, s, e))

\* The innermost function called is fn.
Within(s, fn) == IsSeq(s) /\ s # <<>> /\ s[Len(s)].fn = fn

LEMMA TurnOnEvent ==
  ASSUME NEW e, NEW rest, IsSeq(rest), NEW s, s # <<>>, NEW d
  PROVE  Turn(At(<<e>> \o rest, s, d)) = OnEvent(e, rest, s, d, "none")
<1>1. <<e>> \o rest # <<>> /\ Head(<<e>> \o rest) = e /\ Tail(<<e>> \o rest) = rest
  BY FirstAndRest
<1>2. PICK q : q = <<e>> \o rest
  OBVIOUS
<1>3. Turn(At(q, s, d)) = OnEvent(Head(q), Tail(q), s, d, "none")
  BY <1>1, <1>2 DEF Turn, At
<1> QED
  BY <1>1, <1>2, <1>3

LEMMA ReadsNothing == ASSUME NEW s, NEW d PROVE Reads(<<>>, s, d, d)
<1> SUFFICES ASSUME NEW rest, IsSeq(rest)
             PROVE  Reach(At(<<>> \o rest, s, d), At(rest, s, d))
  BY DEF Reads
<1>1. <<>> \o rest = rest
  BY FirstAndRest
<1> QED
  BY <1>1, ReachStays

LEMMA ReadsThen ==
  ASSUME NEW p, IsSeq(p), NEW q, IsSeq(q), NEW s, NEW d, NEW e, NEW f,
         Reads(p, s, d, e), Reads(q, s, e, f)
  PROVE  Reads(p \o q, s, d, f) /\ IsSeq(p \o q)
<1>1. ASSUME NEW rest, IsSeq(rest)
      PROVE  Reach(At((p \o q) \o rest, s, d), At(rest, s, f))
  <2>1. (p \o q) \o rest = p \o (q \o rest) /\ IsSeq(q \o rest)
    BY <1>1, JoinedTwice, Joined
  <2>2. Reach(At(p \o (q \o rest), s, d), At(q \o rest, s, e))
    BY <2>1 DEF Reads
  <2>3. Reach(At(q \o rest, s, e), At(rest, s, f))
    BY <1>1 DEF Reads
  <2> QED
    BY <2>1, <2>2, <2>3, ReachThen
<1> QED
  BY <1>1, Joined DEF Reads

LEMMA ElementParts ==
  ASSUME NEW name, NEW content, IsSeq(content)
  PROVE  /\ IsSeq(Element(name, content))
         /\ \A rest : IsSeq(rest) =>
              /\ IsSeq(<<EndOf(name)>> \o rest)
              /\ IsSeq(content \o (<<EndOf(name)>> \o rest))
              /\ Element(name, content) \o rest =
                   <<StartOf(name)>> \o (content \o (<<EndOf(name)>> \o rest))
<1>1. PICK a, b : a = <<StartOf(name)>> /\ b = <<EndOf(name)>>
  OBVIOUS
<1>2. IsSeq(a) /\ IsSeq(b)
  BY <1>1, OneElement
<1>3. Element(name, content) = (a \o content) \o b
  BY <1>1 DEF Element, StartOf, EndOf
<1>4. IsSeq(a \o content) /\ IsSeq((a \o content) \o b)
  BY <1>2, Joined
<1>5. ASSUME NEW rest, IsSeq(rest)
      PROVE  /\ IsSeq(b \o rest) /\ IsSeq(content \o (b \o rest))
             /\ ((a \o content) \o b) \o rest = a \o (content \o (b \o rest))
  <2>1. IsSeq(b \o rest)
    BY <1>2, <1>5, Joined
  <2>2. IsSeq(content \o (b \o rest))
    BY <2>1, Joined
  <2>3. ((a \o content) \o b) \o rest = a \o (content \o (b \o rest))
    <3>1. IsSeq(Cat(a, content))
      BY <1>2, CatTwice
    <3>2. Cat(Cat(Cat(a, content), b), rest) = Cat(Cat(a, content), Cat(b, rest))
      BY <1>2, <1>5, <3>1, CatTwice
    <3>3. IsSeq(Cat(b, rest))
      BY <1>2, <1>5, CatTwice
    <3>4. Cat(Cat(a, content), Cat(b, rest)) = Cat(a, Cat(content, Cat(b, rest)))
      BY <1>2, <3>3, CatTwice
    <3>5. Cat(Cat(Cat(a, content), b), rest) = Cat(a, Cat(content, Cat(b, rest)))
      BY <3>2, <3>4
    <3> QED
      BY <3>5 DEF Cat
  <2> QED
    BY <2>1, <2>2, <2>3
<1> QED
  BY <1>1, <1>3, <1>4, <1>5

LEMMA ElementIsSeq ==
  ASSUME NEW name, NEW content, IsSeq(content)
  PROVE  IsSeq(Element(name, content))
BY ElementParts

LEMMA EventParts ==
  ASSUME NEW kind, NEW name, NEW val
  PROVE  /\ Event(kind, name, val).kind = kind
         /\ Event(kind, name, val).name = name
         /\ Event(kind, name, val).val = val
BY DEF Event

LEMMA AnewElse ==
  ASSUME NEW s, s # <<>> => s[Len(s)].fn # "text", NEW d, NEW rest, IsSeq(rest)
  PROVE  /\ \A e : e.kind \in Kinds => Anew(At(<<e>> \o rest, s, d))
         /\ \A name : Anew(At(<<StartOf(name)>> \o rest, s, d)) /\ Anew(At(<<EndOf(name)>> \o rest, s, d))
<1>1. ASSUME NEW e, e.kind \in Kinds PROVE Anew(At(<<e>> \o rest, s, d))
  <2>1. PICK q : q = <<e>> \o rest
    OBVIOUS
  <2>2. Head(q) = e
    BY <2>1, FirstAndRest
  <2>3. At(q, s, d)[1] = q /\ At(q, s, d)[2] = s
    BY DEF At
  <2>4. Anew(At(q, s, d))
    BY <1>1, <2>2, <2>3 DEF Anew
  <2> QED
    BY <2>1, <2>4
<1>2. ASSUME NEW name PROVE StartOf(name).kind \in Kinds /\ EndOf(name).kind \in Kinds
  <2>1. PICK e, f : e = Event("start", name, <<>>) /\ f = Event("end", name, <<>>)
    OBVIOUS
  <2>2. e.kind = "start" /\ f.kind = "end"
    BY <2>1, EventParts
  <2> QED
    BY <2>1, <2>2 DEF StartOf, EndOf, Kinds
<1> QED
  BY <1>1, <1>2

LEMMA FrameParts ==
  ASSUME NEW fn, NEW name
  PROVE  Frame(fn, name).fn = fn /\ Frame(fn, name).closing = name /\ Frame(fn, name).depth = 1
BY DEF Frame

\* The start tag of an element for which a function is called.
LEMMA StartCalls ==
  ASSUME NEW s, NEW fn, Within(s, fn), fn \notin P!Counting, NEW name, NEW d,
         NEW called, P!Callee(d, fn, name) = called, called # "none", NEW rest, IsSeq(rest)
  PROVE  Turn(At(<<StartOf(name)>> \o rest, s, d)) =
           At(rest, Append(s, Frame(called, name)), P!Fresh(d, called))
<1>1. PICK e : e = StartOf(name)
  OBVIOUS
<1>2. e.kind = "start" /\ e.name = name
  BY <1>1, EventParts DEF StartOf
<1>3. Turn(At(<<e>> \o rest, s, d)) = OnEvent(e, rest, s, d, "none")
  BY TurnOnEvent DEF Within
<1>4. OnEvent(e, rest, s, d, "none") = OnStart(e, rest, s, d, "none")
  BY <1>2 DEF OnEvent
<1>5. OnStart(e, rest, s, d, "none") = At(rest, Append(s, Frame(called, name)), P!Fresh(d, called))
  BY <1>2 DEF OnStart, Within, At
<1> QED
  BY <1>1, <1>3, <1>4, <1>5

\* Its end tag: it is the function's own, and leads back to the caller.
LEMMA EndOfCall ==
  ASSUME NEW s, NEW fn, Within(s, fn), NEW name, NEW called, NEW rest, NEW e
  PROVE  /\ Append(s, Frame(called, name)) # <<>>
         /\ Append(s, Frame(called, name))[Len(Append(s, Frame(called, name)))] = Frame(called, name)
         /\ SubSeq(Append(s, Frame(called, name)), 1, Len(Append(s, Frame(called, name))) - 1) = s
         /\ Caller(Append(s, Frame(called, name))) = fn
         /\ OnEnd(EndOf(name), rest, Append(s, Frame(called, name)), e, "none") =
              Back(rest, Append(s, Frame(called, name)), e, "none")
<1>1. PICK g : g = EndOf(name)
  OBVIOUS
<1>2. g.kind = "end" /\ g.name = name
  BY <1>1, EventParts DEF EndOf
<1>3. PICK p : p = Append(s, Frame(called, name))
  OBVIOUS
<1>4. /\ p # <<>> /\ Len(p) = Len(s) + 1 /\ Len(s) \in Nat \ {0}
      /\ p[Len(p)] = Frame(called, name) /\ p[Len(p) - 1].fn = fn
      /\ SubSeq(p, 1, Len(p) - 1) = s
  <2>1. /\ p # <<>> /\ Len(p) = Len(s) + 1 /\ p[Len(s) + 1] = Frame(called, name)
        /\ \A n \in 1..Len(s) : p[n] = s[n]
        /\ SubSeq(p, 1, Len(s)) = s
    BY <1>3, OnTop DEF Within
  <2>2. Len(s) \in Nat \ {0}
    BY EmptySeq, LenProperties DEF Within, IsSeq
  <2>3. Len(p) - 1 = Len(s) /\ Len(s) \in 1..Len(s)
    BY <2>1, <2>2
  <2> QED
    BY <2>1, <2>2, <2>3 DEF Within
<1>5. OnEnd(g, rest, p, e, "none") = Back(rest, p, e, "none")
  <2>1. p[Len(p)].fn = called /\ p[Len(p)].closing = name /\ p[Len(p)].depth = 1
    BY <1>4, FrameParts
  <2>2. EndsCall(g, p[Len(p)])
    BY <1>2, <2>1 DEF EndsCall
  <2> QED
    BY <2>2 DEF OnEnd
<1>6. Caller(p) = fn
  <2>1. Len(p) # 1
    <3> HIDE DEF Within
    <3> QED
      BY <1>4
  <2> QED
    BY <1>4, <2>1 DEF Caller
<1> QED
  BY <1>1, <1>3, <1>4, <1>5, <1>6, Zenon

LEMMA EndIsRead ==
  ASSUME NEW p, p # <<>>, NEW name, NEW e, NEW rest, IsSeq(rest)
  PROVE  Turn(At(<<EndOf(name)>> \o rest, p, e)) = OnEnd(EndOf(name), rest, p, e, "none")
<1>1. PICK g : g = EndOf(name)
  OBVIOUS
<1>2. g.kind = "end"
  BY <1>1, EventParts DEF EndOf
<1>3. Turn(At(<<g>> \o rest, p, e)) = OnEvent(g, rest, p, e, "none")
  BY TurnOnEvent
<1>4. OnEvent(g, rest, p, e, "none") = OnEnd(g, rest, p, e, "none")
  BY <1>2 DEF OnEvent
<1> QED
  BY <1>1, <1>3, <1>4

LEMMA EndReturns ==
  ASSUME NEW s, NEW fn, Within(s, fn), Named(fn), NEW name, NEW e, NEW called,
         NEW rest, IsSeq(rest)
  PROVE  Turn(At(<<EndOf(name)>> \o rest, Append(s, Frame(called, name)), e)) =
           At(rest, s, P!Returned(e, called, name, fn))
<1>1. PICK p : p = Append(s, Frame(called, name))
  OBVIOUS
<1>2. /\ p # <<>> /\ p[Len(p)] = Frame(called, name) /\ SubSeq(p, 1, Len(p) - 1) = s
      /\ Caller(p) = fn
      /\ OnEnd(EndOf(name), rest, p, e, "none") = Back(rest, p, e, "none")
  BY <1>1, EndOfCall
<1>3. Turn(At(<<EndOf(name)>> \o rest, p, e)) = OnEnd(EndOf(name), rest, p, e, "none")
  BY <1>2, EndIsRead
<1>4. Back(rest, p, e, "none") = At(rest, s, P!Returned(e, called, name, fn))
  <2>1. p[Len(p)].fn = called /\ p[Len(p)].closing = name
    BY <1>2, FrameParts
  <2> QED
    BY <1>2, <2>1 DEF Back, At
<1> QED
  BY <1>1, <1>2, <1>3, <1>4

\* An element for which a function is called.
LEMMA ReadsElement ==
  ASSUME NEW s, NEW fn, Within(s, fn), fn \notin P!Counting, Named(fn), NEW name,
         NEW content, IsSeq(content), NEW d, NEW e,
         NEW called, P!Callee(d, fn, name) = called, called # "none",
         Reads(content, Append(s, Frame(called, name)), P!Fresh(d, called), e),
         called = "text" /\ fn = "information" => Unfilled(e.svc, name)
  PROVE  Reads(Element(name, content), s, d, P!Returned(e, called, name, fn))
<1> SUFFICES ASSUME NEW rest, IsSeq(rest)
             PROVE  Reach(At(Element(name, content) \o rest, s, d),
                          At(rest, s, P!Returned(e, called, name, fn)))
  BY DEF Reads
<1>1. PICK r : r = <<EndOf(name)>> \o rest
  OBVIOUS
<1>2. /\ IsSeq(r) /\ IsSeq(content \o r)
      /\ Element(name, content) \o rest = <<StartOf(name)>> \o (content \o r)
  BY <1>1, ElementParts
<1>3. PICK p : p = Append(s, Frame(called, name))
  OBVIOUS
<1>4. Turn(At(Element(name, content) \o rest, s, d)) = At(content \o r, p, P!Fresh(d, called))
  <2>1. PICK t : t = content \o r
    OBVIOUS
  <2>2. Turn(At(<<StartOf(name)>> \o t, s, d)) =
          At(t, Append(s, Frame(called, name)), P!Fresh(d, called))
    BY <1>2, <2>1, StartCalls
  <2> QED
    BY <1>2, <1>3, <2>1, <2>2
<1>5. Reach(At(content \o r, p, P!Fresh(d, called)), At(r, p, e))
  BY <1>2, <1>3 DEF Reads
<1>6. Turn(At(r, p, e)) = At(rest, s, P!Returned(e, called, name, fn))
  BY <1>1, <1>3, EndReturns
<1>7. Anew(At(Element(name, content) \o rest, s, d))
  <2>1. fn # "text"
    BY DEF P!Callee, P!Known, P!Calls, P!Skipping
  <2>2. s[Len(s)].fn # "text"
    BY <2>1 DEF Within
  <2>3. PICK t : t = content \o r
    OBVIOUS
  <2>4. Anew(At(<<StartOf(name)>> \o t, s, d))
    BY <1>2, <2>2, <2>3, AnewElse
  <2> QED
    BY <1>2, <2>3, <2>4
<1>8. Anew(At(r, p, e))
  <2>1. p[Len(p)] = Frame(called, name) /\ Caller(p) = fn
    BY <1>3, EndOfCall
  <2>2. p[Len(p)].fn = called /\ p[Len(p)].closing = name
    BY <2>1, FrameParts
  <2>3. Head(r) = EndOf(name)
    BY <1>1, FirstAndRest
  <2>4. Head(r).kind = "end"
    <3>1. PICK g : g = EndOf(name)
      OBVIOUS
    <3> QED
      BY <2>3, <3>1, EventParts DEF EndOf
  <2>5. At(r, p, e)[1] = r /\ At(r, p, e)[2] = p /\ At(r, p, e)[3] = e
    BY DEF At
  <2> QED
    BY <2>1, <2>2, <2>4, <2>5 DEF Anew, Kinds
<1>9. Reach(At(r, p, e), At(rest, s, P!Returned(e, called, name, fn)))
  BY <1>6, <1>8, ReachStep, ReachStays
<1>10. Reach(At(content \o r, p, P!Fresh(d, called)), At(rest, s, P!Returned(e, called, name, fn)))
  BY <1>5, <1>9, ReachThen
<1> QED
  BY <1>4, <1>7, <1>10, ReachStep

----------------------------------------------------------------------------
(* The variables of the functions, and the elements that call none.        *)

Locals ==
  {"territory", "scheme_type", "next_update", "providers", "tsp", "svc", "entry", "certs", "quals", "found",
   "text"}
IsData(d) == d = [x \in Locals |-> d[x]]

\* From d to e only the variables in F may have changed.
Same(d, e, F) == IsData(d) /\ IsData(e) /\ \A x \in Locals \ F : e[x] = d[x]

LEMMA SameThen ==
  ASSUME NEW d, NEW e, NEW f, NEW F, NEW G, Same(d, e, F), Same(e, f, G)
  PROVE  Same(d, f, F \cup G)
BY DEF Same

LEMMA SameWithin ==
  ASSUME NEW d, NEW e, NEW F, NEW G, Same(d, e, F), F \subseteq G
  PROVE  Same(d, e, G)
BY DEF Same

LEMMA SameTwice ==
  ASSUME NEW d, NEW e, NEW f, NEW F, Same(d, e, F), Same(e, f, F)
  PROVE  Same(d, f, F)
BY DEF Same

LEMMA SameData ==
  ASSUME NEW d, NEW e, NEW F, Same(d, e, F)
  PROVE  IsData(d) /\ IsData(e) /\ \A x \in Locals \ F : e[x] = d[x]
BY DEF Same

LEMMA SameSame == ASSUME NEW d, IsData(d), NEW F PROVE Same(d, d, F)
BY DEF Same

\* A variable is assigned to.
Assign(d, x, v) == [d EXCEPT ![x] = v]

LEMMA AssignedIs ==
  ASSUME NEW d, IsData(d), NEW x \in Locals, NEW v
  PROVE  Assign(d, x, v) = [y \in Locals |-> IF y = x THEN v ELSE d[y]]
<1>1. DOMAIN d = Locals
  BY DEF IsData
<1> QED
  BY <1>1 DEF Assign

LEMMA AssignedValue ==
  ASSUME NEW d, IsData(d), NEW x \in Locals, NEW v
  PROVE  IsData(Assign(d, x, v)) /\ Assign(d, x, v)[x] = v
<1>1. PICK e : e = Assign(d, x, v)
  OBVIOUS
<1>2. e = [y \in Locals |-> IF y = x THEN v ELSE d[y]]
  BY <1>1, AssignedIs
<1>3. e = [y \in Locals |-> e[y]]
  BY <1>2
<1>4. IsData(e) /\ e[x] = v
  BY <1>2, <1>3 DEF IsData
<1> QED
  BY <1>1, <1>4

LEMMA AssignedOther ==
  ASSUME NEW d, IsData(d), NEW x \in Locals, NEW v, NEW y \in Locals, y # x
  PROVE  Assign(d, x, v)[y] = d[y]
<1>1. Assign(d, x, v) = [z \in Locals |-> IF z = x THEN v ELSE d[z]]
  BY AssignedIs
<1> QED
  BY <1>1

LEMMA AssignedSame ==
  ASSUME NEW d, IsData(d), NEW x \in Locals, NEW v
  PROVE  Same(d, Assign(d, x, v), {x})
<1>1. IsData(Assign(d, x, v))
  BY AssignedValue
<1>2. \A y \in Locals \ {x} : Assign(d, x, v)[y] = d[y]
  BY AssignedOther
<1> QED
  BY <1>1, <1>2 DEF Same

LEMMA AssignedOver ==
  ASSUME NEW d, IsData(d), NEW x \in Locals, NEW v, NEW w
  PROVE  Assign(Assign(d, x, w), x, v) = Assign(d, x, v)
<1>1. PICK e : e = Assign(d, x, w)
  OBVIOUS
<1>2. IsData(e)
  BY <1>1, AssignedValue
<1>3. Assign(e, x, v) = [y \in Locals |-> IF y = x THEN v ELSE e[y]]
  BY <1>2, AssignedIs
<1>4. \A y \in Locals : y # x => e[y] = d[y]
  BY <1>1, AssignedOther
<1>5. Assign(d, x, v) = [y \in Locals |-> IF y = x THEN v ELSE d[y]]
  BY AssignedIs
<1> QED
  BY <1>1, <1>3, <1>4, <1>5

LEMMA NothingJoined == ASSUME NEW q, IsSeq(q) PROVE <<>> \o q = q /\ q \o <<>> = q
BY FirstAndRest

LEMMA NothingNoted ==
  ASSUME NEW d, IsData(d), NEW fn, NEW e, ~(fn = "qualifiers" /\ e.name = "Qualifier")
  PROVE  Noted(d, fn, e) = d
<1>1. DOMAIN d = Locals /\ d = [x \in Locals |-> d[x]] /\ "quals" \in Locals
  BY DEF IsData, Locals
<1>2. Noted(d, fn, e) = [d EXCEPT !.quals = d.quals]
  BY DEF Noted
<1> QED
  BY <1>1, <1>2

\* The start tag of an element for which no function is called, and its end
\* tag.
LEMMA StartUnknown ==
  ASSUME NEW s, NEW fn, Within(s, fn), fn \notin P!Counting, NEW name, NEW d, IsData(d),
         P!Callee(d, fn, name) = "none", ~(fn = "qualifiers" /\ name = "Qualifier"),
         NEW rest, IsSeq(rest)
  PROVE  Turn(At(<<StartOf(name)>> \o rest, s, d)) = At(rest, s, d)
<1>1. PICK e : e = StartOf(name)
  OBVIOUS
<1>2. e.kind = "start" /\ e.name = name
  BY <1>1, EventParts DEF StartOf
<1>3. Turn(At(<<e>> \o rest, s, d)) = OnEvent(e, rest, s, d, "none")
  BY TurnOnEvent DEF Within
<1>4. OnEvent(e, rest, s, d, "none") = OnStart(e, rest, s, d, "none")
  BY <1>2 DEF OnEvent
<1>5. Noted(d, fn, e) = d
  BY <1>2, NothingNoted
<1>6. OnStart(e, rest, s, d, "none") = At(rest, s, d)
  BY <1>2, <1>5 DEF OnStart, Within, At
<1> QED
  BY <1>1, <1>3, <1>4, <1>6

LEMMA EndUnknown ==
  ASSUME NEW s, NEW fn, Within(s, fn), fn \notin P!Counting, NEW name, s[Len(s)].closing # name,
         NEW d, NEW rest, IsSeq(rest)
  PROVE  Turn(At(<<EndOf(name)>> \o rest, s, d)) = At(rest, s, d)
<1>1. PICK e : e = EndOf(name)
  OBVIOUS
<1>2. e.kind = "end" /\ e.name = name
  BY <1>1, EventParts DEF EndOf
<1>3. Turn(At(<<e>> \o rest, s, d)) = OnEvent(e, rest, s, d, "none")
  BY TurnOnEvent DEF Within
<1>4. OnEvent(e, rest, s, d, "none") = OnEnd(e, rest, s, d, "none")
  BY <1>2 DEF OnEvent
<1>5. OnEnd(e, rest, s, d, "none") = At(rest, s, d)
  BY <1>2 DEF OnEnd, EndsCall, Within, At
<1> QED
  BY <1>1, <1>3, <1>4, <1>5

LEMMA ReadsUnknown ==
  ASSUME NEW s, NEW fn, Within(s, fn), fn \notin P!Counting, fn # "text", NEW name, s[Len(s)].closing # name,
         NEW d, IsData(d), P!Callee(d, fn, name) = "none", ~(fn = "qualifiers" /\ name = "Qualifier"),
         NEW content, IsSeq(content)
  PROVE  \A e : Reads(content, s, d, e) => Reads(Element(name, content), s, d, e)
<1>1. ASSUME NEW rest, IsSeq(rest)
      PROVE  \E r : /\ IsSeq(r)
                    /\ Turn(At(Element(name, content) \o rest, s, d)) = At(content \o r, s, d)
                    /\ \A e : Turn(At(r, s, e)) = At(rest, s, e)
                    /\ Anew(At(Element(name, content) \o rest, s, d)) /\ \A e : Anew(At(r, s, e))
  <2>1. PICK r : r = <<EndOf(name)>> \o rest
    OBVIOUS
  <2>2. PICK t : t = content \o r
    OBVIOUS
  <2>3. /\ IsSeq(r) /\ IsSeq(content \o r)
        /\ Element(name, content) \o rest = <<StartOf(name)>> \o (content \o r)
    BY <1>1, <2>1, ElementParts
  <2>4. IsSeq(t) /\ Element(name, content) \o rest = <<StartOf(name)>> \o t
    BY <2>2, <2>3, Zenon
  <2>5. Turn(At(<<StartOf(name)>> \o t, s, d)) = At(t, s, d)
    BY <2>4, StartUnknown
  <2>6. \A e : Turn(At(r, s, e)) = At(rest, s, e)
    BY <1>1, <2>1, EndUnknown
  <2>7. s[Len(s)].fn # "text"
    BY DEF Within
  <2>8. Anew(At(<<StartOf(name)>> \o t, s, d))
    BY <2>4, <2>7, AnewElse
  <2>9. \A e : Anew(At(r, s, e))
    BY <1>1, <2>1, <2>7, AnewElse
  <2>10. Anew(At(Element(name, content) \o rest, s, d))
    BY <2>4, <2>8
  <2> QED
    BY <2>2, <2>3, <2>4, <2>5, <2>6, <2>9, <2>10
<1>2. ASSUME NEW e, Reads(content, s, d, e), NEW rest, IsSeq(rest)
      PROVE  Reach(At(Element(name, content) \o rest, s, d), At(rest, s, e))
  <2>1. PICK r : /\ IsSeq(r)
                 /\ Turn(At(Element(name, content) \o rest, s, d)) = At(content \o r, s, d)
                 /\ Turn(At(r, s, e)) = At(rest, s, e)
                 /\ Anew(At(Element(name, content) \o rest, s, d)) /\ Anew(At(r, s, e))
    BY <1>1, <1>2
  <2>2. Reach(At(content \o r, s, d), At(r, s, e))
    BY <1>2, <2>1 DEF Reads
  <2>3. Anew(At(Element(name, content) \o rest, s, d)) /\ Anew(At(r, s, e))
    BY <2>1
  <2>4. Reach(At(r, s, e), At(rest, s, e))
    BY <2>1, <2>3, ReachStep, ReachStays
  <2>5. Reach(At(content \o r, s, d), At(rest, s, e))
    BY <2>2, <2>4, ReachThen
  <2> QED
    BY <2>1, <2>3, <2>5, ReachStep
<1> QED
  BY <1>2 DEF Reads

\* A text.
TextOf(text) == Event("text", "", text)

LEMMA ReadsText ==
  ASSUME NEW s, NEW fn, Within(s, fn), NEW text, NEW d, fn = "text" => d.text = <<>>
  PROVE  /\ fn \in {"text", "inside"} =>
              Reads(<<TextOf(text)>>, s, d, Assign(d, "text", d.text \o text))
         /\ fn \notin {"text", "inside"} => Reads(<<TextOf(text)>>, s, d, d)
         /\ IsSeq(<<TextOf(text)>>)
<1>1. PICK e : e = TextOf(text)
  OBVIOUS
<1>2. e.kind = "text" /\ e.val = text
  <2>1. \E name : e = Event("text", name, text)
    BY <1>1, Zenon DEF TextOf
  <2> QED
    BY <2>1, EventParts
<1>3. ASSUME NEW rest, IsSeq(rest)
      PROVE  /\ fn \in {"text", "inside"} =>
                  Turn(At(<<e>> \o rest, s, d)) = At(rest, s, Assign(d, "text", d.text \o text))
             /\ fn \notin {"text", "inside"} => Turn(At(<<e>> \o rest, s, d)) = At(rest, s, d)
  <2>1. Turn(At(<<e>> \o rest, s, d)) = OnEvent(e, rest, s, d, "none")
    BY <1>3, TurnOnEvent DEF Within
  <2>2. OnEvent(e, rest, s, d, "none") = OnText(e, rest, s, d, "none")
    BY <1>2 DEF OnEvent
  <2>3. s[Len(s)].fn = fn
    BY DEF Within
  <2> QED
    BY <1>2, <2>1, <2>2, <2>3 DEF OnText, At, Assign
<1>4. \A rest : IsSeq(rest) =>
        /\ fn \in {"text", "inside"} =>
             Reach(At(<<e>> \o rest, s, d), At(rest, s, Assign(d, "text", d.text \o text)))
        /\ fn \notin {"text", "inside"} => Reach(At(<<e>> \o rest, s, d), At(rest, s, d))
  <2>1. ASSUME NEW rest, IsSeq(rest)
        PROVE  Anew(At(<<e>> \o rest, s, d))
    <3>1. PICK q : q = <<e>> \o rest
      OBVIOUS
    <3>2. q # <<>> /\ Head(q).kind = "text"
      BY <1>2, <2>1, <3>1, FirstAndRest
    <3>3. fn = "text" => d.text = <<>>
      OBVIOUS
    <3>4. s[Len(s)].fn = fn
      BY DEF Within
    <3>5. At(q, s, d)[1] = q /\ At(q, s, d)[2] = s /\ At(q, s, d)[3] = d
      BY DEF At
    <3>6. Anew(At(q, s, d))
      BY <3>2, <3>3, <3>4, <3>5 DEF Anew, Kinds
    <3> QED
      BY <3>1, <3>6
  <2> QED
    BY <1>3, <2>1, ReachStep, ReachStays
<1> QED
  BY <1>1, <1>4, OneElement DEF Reads

LEMMA TextIgnored ==
  ASSUME NEW s, NEW fn, fn \notin {"text", "inside"}, Within(s, fn), NEW text, NEW d
  PROVE  Reads(<<TextOf(text)>>, s, d, d)
BY ReadsText

\* Which function is called for which element.
LEMMA CalledFor ==
  ASSUME NEW d
  PROVE  /\ P!Callee(d, "list", "SchemeInformation") = "scheme"
         /\ P!Callee(d, "list", "TrustServiceProviderList") = "providers"
         /\ \A name \in {"TrustServiceStatusList", "Signature"} : P!Callee(d, "list", name) = "none"
         /\ P!Callee(d, "scheme", "SchemeTerritory") = "text"
         /\ P!Callee(d, "scheme", "PointersToOtherTSL") = "skip"
         /\ P!Callee(d, "scheme", "NextUpdate") = "inside"
         /\ d.scheme_type = <<>> => P!Callee(d, "scheme", "SchemeTypeCommunityRules") = "inside"
         /\ P!Callee(d, "providers", "TrustServiceProvider") = "provider"
         /\ P!Callee(d, "provider", "TSPInformation") = "tspInformation"
         /\ P!Callee(d, "provider", "TSPServices") = "services"
         /\ P!Callee(d, "tspInformation", "TSPName") = "firstName"
         /\ d.found = <<>> => P!Callee(d, "firstName", "Name") = "text"
         /\ P!Callee(d, "services", "TSPService") = "service"
         /\ P!Callee(d, "service", "ServiceInformation") = "information"
         /\ P!Callee(d, "service", "ServiceHistory") = "history"
         /\ P!Callee(d, "history", "ServiceHistoryInstance") = "instance"
BY DEF P!Callee, P!Known, P!HasIt, P!Calls, P!Skipping

LEMMA CalledForPeriods ==
  ASSUME NEW d, NEW fn \in {"information", "instance"}
  PROVE  /\ \A name \in {"ServiceTypeIdentifier", "ServiceStatus", "StatusStartingTime"} :
              P!Callee(d, fn, name) = "text"
         /\ P!Callee(d, fn, "ServiceDigitalIdentity") = "identity"
         /\ P!Callee(d, fn, "ServiceInformationExtensions") = "qualifiers"
         /\ P!Callee(d, fn, "ServiceName") = IF fn = "information" THEN "firstName" ELSE "skip"
         /\ P!Callee(d, "identity", "DigitalId") = "none"
         /\ P!Callee(d, "identity", "X509Certificate") = "text"
         /\ \A name \in {"Extension", "TakenOverBy", "TSPName"} : P!Callee(d, "qualifiers", name) = "none"
BY DEF P!Callee, P!Known, P!HasIt, P!Calls, P!Skipping

\* The variables as a function is called.
LEMMA FreshData ==
  ASSUME NEW d
  PROVE  /\ P!Fresh(d, "text") = Assign(d, "text", <<>>)
         /\ P!Fresh(d, "inside") = Assign(d, "text", <<>>)
         /\ P!Fresh(d, "firstName") = Assign(d, "found", <<>>)
         /\ P!Fresh(d, "identity") = Assign(d, "certs", {})
         /\ P!Fresh(d, "qualifiers") = Assign(d, "quals", {})
         /\ P!Fresh(d, "instance") = Assign(d, "entry", P!EmptyEntry)
         /\ P!Fresh(d, "service") = Assign(d, "svc", P!EmptyService)
         /\ P!Fresh(d, "provider") = Assign(d, "tsp", <<>>)
         /\ \A fn \in {"list", "scheme", "providers", "tspInformation", "services", "information", "history",
                       "skip"} : P!Fresh(d, fn) = d
BY DEF P!Fresh, Assign

\* What a function hands back to its caller.
Records == {"instance", "service", "provider"}

LEMMA ReturnsToScheme ==
  ASSUME NEW d, NEW fn, fn \notin Records
  PROVE  /\ P!Returned(d, fn, "SchemeTerritory", "scheme") = Assign(d, "territory", d.text)
         /\ P!Returned(d, fn, "SchemeTypeCommunityRules", "scheme") =
              Assign(d, "scheme_type", <<P!Uri(d.text)>>)
         /\ P!Returned(d, fn, "NextUpdate", "scheme") = Assign(d, "next_update", P!parse_datetime(d.text))
         /\ P!Returned(d, fn, "PointersToOtherTSL", "scheme") = d
BY DEF P!Returned, Records, Assign

LEMMA ReturnsToPeriod ==
  ASSUME NEW d, NEW fn, fn \notin Records, NEW closing
  PROVE  /\ P!Returned(d, fn, closing, "information") = Assign(d, "svc", P!Filled(d, d.svc, closing))
         /\ P!Returned(d, fn, closing, "instance") = Assign(d, "entry", P!Filled(d, d.entry, closing))
BY DEF P!Returned, Records, Assign

LEMMA ReturnsToInner ==
  ASSUME NEW d, NEW fn, fn \notin Records, NEW closing
  PROVE  /\ P!Returned(d, fn, closing, "firstName") = Assign(d, "found", <<P!Uri(d.text)>>)
         /\ P!Returned(d, fn, closing, "identity") = Assign(d, "certs", d.certs \cup {P!Uri(d.text)})
BY DEF P!Returned, Records, Assign

LEMMA ReturnsNothing ==
  ASSUME NEW d, NEW fn, fn \notin Records, NEW closing,
         NEW caller \in {"list", "provider", "service", "tspInformation"}
  PROVE  P!Returned(d, fn, closing, caller) = d
BY DEF P!Returned, Records

LEMMA ReturnsRecord ==
  ASSUME NEW d, NEW closing
  PROVE  /\ P!Returned(d, "instance", closing, "history") =
              Assign(d, "svc", [d.svc EXCEPT !.history = Append(d.svc.history, d.entry)])
         /\ P!Returned(d, "service", closing, "services") = Assign(d, "tsp", Append(d.tsp, d.svc))
         /\ P!Returned(d, "provider", closing, "providers") =
              Assign(d, "providers", Append(d.providers, d.tsp))
BY DEF P!Returned, Assign

\* What is made of a text.
LEMMA TextRead ==
  ASSUME NEW v
  PROVE  P!Uri(<<v>>) = v /\ P!parse_datetime(<<"time", v>>) = v
<1>1. <<v>> # <<>> /\ <<v>>[1] = v /\ <<"time", v>> # <<>> /\ <<"time", v>>[1] = "time" /\ <<"time", v>>[2] = v
  OBVIOUS
<1>2. P!Uri(<<v>>) = v
  BY <1>1, Zenon DEF P!Uri
<1> QED
  BY <1>1, <1>2 DEF P!parse_datetime

\* The function just called is the innermost.
LEMMA Entered ==
  ASSUME NEW s, NEW fn, Within(s, fn), NEW called, NEW name
  PROVE  /\ Within(Append(s, Frame(called, name)), called)
         /\ Append(s, Frame(called, name))[Len(Append(s, Frame(called, name)))].closing = name
<1>1. PICK p : p = Append(s, Frame(called, name))
  OBVIOUS
<1>2. p # <<>> /\ p[Len(p)] = Frame(called, name)
  BY <1>1, EndOfCall
<1>3. IsSeq(p)
  BY <1>1, OnTop DEF Within
<1>4. p[Len(p)].fn = called /\ p[Len(p)].closing = name
  BY <1>2, FrameParts
<1> QED
  BY <1>1, <1>2, <1>3, <1>4 DEF Within

\* An element with a text, for a function that asks for it.
LEMMA LeafRead ==
  ASSUME NEW s, NEW fn, Within(s, fn), fn \notin P!Counting, Named(fn), NEW name, NEW d, IsData(d),
         P!Callee(d, fn, name) = "text", NEW text, IsSeq(text),
         fn = "information" => Unfilled(d.svc, name)
  PROVE  /\ IsSeq(Leaf(name, text))
         /\ Reads(Leaf(name, text), s, d, P!Returned(Assign(d, "text", text), "text", name, fn))
<1> DEFINE e == Assign(d, "text", text)
           p == Append(s, Frame("text", name))
<1>c. PICK content : content = <<TextOf(text)>>
  OBVIOUS
<1>1. Leaf(name, text) = Element(name, content)
  BY <1>c, Zenon DEF Leaf, TextOf
<1>2. IsSeq(content) /\ IsSeq(Leaf(name, text))
  <2>1. IsSeq(content)
    BY <1>c, OneElement
  <2> QED
    BY <1>1, <2>1, ElementIsSeq
<1>3. Within(p, "text")
  BY Entered
<1>4. PICK f : f = P!Fresh(d, "text")
  OBVIOUS
<1>5. f.text = <<>> => Reads(content, p, f, Assign(f, "text", f.text \o text))
  BY <1>c, <1>3, ReadsText
<1>6. Assign(f, "text", f.text \o text) = e /\ f.text = <<>> /\ e.svc = d.svc
  <2>1. "text" \in Locals
    BY DEF Locals
  <2>2. f = Assign(d, "text", <<>>)
    BY <1>4, FreshData
  <2>3. f.text = <<>> /\ <<>> \o text = text
    BY <2>1, <2>2, AssignedValue, NothingJoined
  <2> QED
    <3>1. f.text \o text = text
      BY <2>3
    <3>2. Assign(f, "text", text) = Assign(d, "text", text)
      BY <2>1, <2>2, AssignedOver
    <3>3. Assign(d, "text", text).svc = d.svc
      <4>1. "svc" \in Locals /\ "svc" # "text"
        BY DEF Locals
      <4> QED
        BY <2>1, <4>1, AssignedOther
    <3> QED
      BY <2>3, <3>1, <3>2, <3>3
<1>7. Reads(content, p, P!Fresh(d, "text"), e)
  BY <1>4, <1>5, <1>6
<1> HIDE DEF e, p
<1>8. fn = "information" => Unfilled(e.svc, name)
  BY <1>6
<1>9. Reads(Leaf(name, text), s, d, P!Returned(e, "text", name, fn))
  BY <1>1, <1>2, <1>7, <1>8, ReadsElement DEF p
<1> QED
  BY <1>2, <1>9 DEF e

----------------------------------------------------------------------------
(* Elements that are only counted.                                         *)

Counter(fn, name, n) == [fn |-> fn, closing |-> name, depth |-> n]

LEMMA CounterParts ==
  ASSUME NEW fn, NEW name, NEW n
  PROVE  /\ Counter(fn, name, n).fn = fn /\ Counter(fn, name, n).closing = name
         /\ Counter(fn, name, n).depth = n
         /\ Counter(fn, name, 1) = Frame(fn, name)
BY DEF Counter, Frame

LEMMA Recounted ==
  ASSUME NEW t, IsSeq(t), NEW fn, NEW name, NEW n, NEW by
  PROVE  Recount(Append(t, Counter(fn, name, n)), by) = Append(t, Counter(fn, name, n + by))
<1>1. PICK p, q, c, g : /\ p = Append(t, c) /\ c = Counter(fn, name, n)
                        /\ q = Append(t, g) /\ g = Counter(fn, name, n + by)
  OBVIOUS
<1>2. /\ p \in Seq(Range(p)) /\ q \in Seq(Range(q)) /\ Len(t) \in Nat
      /\ Len(p) = Len(t) + 1 /\ Len(q) = Len(t) + 1
      /\ p[Len(t) + 1] = c /\ q[Len(t) + 1] = g
      /\ \A m \in 1..Len(t) : p[m] = t[m] /\ q[m] = t[m]
  BY <1>1, OnTop DEF IsSeq
<1>3. PICK l \in Nat : l = Len(t)
  BY <1>2
<1>4. /\ p = [m \in 1..(l + 1) |-> p[m]] /\ q = [m \in 1..(l + 1) |-> q[m]]
  BY <1>2, <1>3, LenProperties
<1>5. [c EXCEPT !.depth = c.depth + by] = g
  BY <1>1 DEF Counter
<1>6. Recount(p, by) = [p EXCEPT ![l + 1] = g]
  BY <1>2, <1>3, <1>5 DEF Recount
<1>7. [p EXCEPT ![l + 1] = g] = q
  <2>1. \A m \in 1..(l + 1) : q[m] = IF m = l + 1 THEN g ELSE p[m]
    BY <1>2, <1>3
  <2> QED
    BY <1>4, <2>1
<1> QED
  BY <1>1, <1>6, <1>7

\* The piece q is read by a function fn that counts, however deep it is.
Counts(fn, q, d, e) ==
  \A t, name, n : IsSeq(t) /\ n \in Nat \ {0} => Reads(q, Append(t, Counter(fn, name, n)), d, e)

LEMMA StartIsCounted ==
  ASSUME NEW t, IsSeq(t), NEW fn \in P!Counting, NEW name, NEW n \in Nat \ {0}, NEW tag, NEW d,
         NEW rest, IsSeq(rest)
  PROVE  Turn(At(<<StartOf(tag)>> \o rest, Append(t, Counter(fn, name, n)), d)) =
           At(rest, Append(t, Counter(fn, name, n + 1)), d)
<1>1. PICK e, p : e = StartOf(tag) /\ p = Append(t, Counter(fn, name, n))
  OBVIOUS
<1>2. e.kind = "start"
  BY <1>1, EventParts DEF StartOf
<1>3. p # <<>> /\ p[Len(p)] = Counter(fn, name, n)
  BY <1>1, OnTop
<1>4. p[Len(p)].fn = fn
  BY <1>3, CounterParts
<1>5. Recount(p, 1) = Append(t, Counter(fn, name, n + 1))
  BY <1>1, Recounted
<1>6. OnEvent(e, rest, p, d, "none") = At(rest, Append(t, Counter(fn, name, n + 1)), d)
  <2>1. OnEvent(e, rest, p, d, "none") = OnStart(e, rest, p, d, "none")
    BY <1>2 DEF OnEvent
  <2> QED
    BY <1>4, <1>5, <2>1 DEF OnStart, At
<1>7. Turn(At(<<e>> \o rest, p, d)) = OnEvent(e, rest, p, d, "none")
  BY <1>3, TurnOnEvent
<1> QED
  BY <1>1, <1>6, <1>7

LEMMA EndIsCounted ==
  ASSUME NEW t, IsSeq(t), NEW fn \in P!Counting, NEW name, NEW n \in Nat \ {0}, NEW tag, NEW d,
         NEW rest, IsSeq(rest)
  PROVE  Turn(At(<<EndOf(tag)>> \o rest, Append(t, Counter(fn, name, n + 1)), d)) =
           At(rest, Append(t, Counter(fn, name, n)), d)
<1>1. PICK e, p : e = EndOf(tag) /\ p = Append(t, Counter(fn, name, n + 1))
  OBVIOUS
<1>2. e.kind = "end"
  BY <1>1, EventParts DEF EndOf
<1>3. p # <<>> /\ p[Len(p)] = Counter(fn, name, n + 1)
  BY <1>1, OnTop
<1>4. p[Len(p)].fn = fn /\ p[Len(p)].depth # 1
  <2>1. p[Len(p)].fn = fn /\ p[Len(p)].depth = n + 1
    BY <1>3, CounterParts
  <2> QED
    BY <2>1
<1>5. Recount(p, -1) = Append(t, Counter(fn, name, n))
  <2>1. PICK m, by : m = n + 1 /\ by = -1 /\ m + by = n
    OBVIOUS
  <2>2. p = Append(t, Counter(fn, name, m))
    BY <1>1, <2>1
  <2>3. Recount(p, by) = Append(t, Counter(fn, name, m + by))
    BY <2>2, Recounted
  <2> QED
    BY <2>1, <2>3
<1>6. OnEvent(e, rest, p, d, "none") = At(rest, Append(t, Counter(fn, name, n)), d)
  <2>1. OnEvent(e, rest, p, d, "none") = OnEnd(e, rest, p, d, "none")
    BY <1>2 DEF OnEvent
  <2> QED
    BY <1>4, <1>5, <2>1 DEF OnEnd, EndsCall, At
<1>7. Turn(At(<<e>> \o rest, p, d)) = OnEvent(e, rest, p, d, "none")
  BY <1>3, TurnOnEvent
<1> QED
  BY <1>1, <1>6, <1>7

LEMMA CountsElement ==
  ASSUME NEW fn \in P!Counting, NEW content, IsSeq(content), NEW d, NEW e, Counts(fn, content, d, e),
         NEW tag
  PROVE  Counts(fn, Element(tag, content), d, e)
<1> SUFFICES ASSUME NEW t, IsSeq(t), NEW name, NEW n \in Nat \ {0}, NEW rest, IsSeq(rest)
             PROVE  Reach(At(Element(tag, content) \o rest, Append(t, Counter(fn, name, n)), d),
                          At(rest, Append(t, Counter(fn, name, n)), e))
  BY DEF Counts, Reads
<1>1. PICK r, u : r = <<EndOf(tag)>> \o rest /\ u = content \o r
  OBVIOUS
<1>2. IsSeq(r) /\ IsSeq(u) /\ Element(tag, content) \o rest = <<StartOf(tag)>> \o u
  BY <1>1, ElementParts
<1>3. PICK m : m = n + 1 /\ m \in Nat \ {0}
  OBVIOUS
<1>4. PICK p, q : p = Append(t, Counter(fn, name, n)) /\ q = Append(t, Counter(fn, name, m))
  OBVIOUS
<1>5. Turn(At(<<StartOf(tag)>> \o u, p, d)) = At(u, q, d)
  BY <1>2, <1>3, <1>4, StartIsCounted
<1>6. Reach(At(u, q, d), At(r, q, e))
  <2>1. Reads(content, q, d, e)
    BY <1>3, <1>4 DEF Counts
  <2> QED
    BY <1>1, <1>2, <2>1 DEF Reads
<1>7. Turn(At(r, q, e)) = At(rest, p, e)
  BY <1>1, <1>3, <1>4, EndIsCounted
<1>8. Anew(At(<<StartOf(tag)>> \o u, p, d)) /\ Anew(At(r, q, e))
  <2>1. p[Len(p)] = Counter(fn, name, n) /\ q[Len(q)] = Counter(fn, name, m)
    BY <1>4, OnTop
  <2>2. p[Len(p)].fn # "text" /\ q[Len(q)].fn # "text"
    BY <2>1, CounterParts DEF P!Counting
  <2> QED
    BY <1>1, <1>2, <2>2, AnewElse
<1>9. Reach(At(r, q, e), At(rest, p, e))
  BY <1>7, <1>8, ReachStep, ReachStays
<1>10. Reach(At(u, q, d), At(rest, p, e))
  BY <1>6, <1>9, ReachThen
<1>11. Reach(At(<<StartOf(tag)>> \o u, p, d), At(rest, p, e))
  BY <1>5, <1>8, <1>10, ReachStep
<1> QED
  BY <1>2, <1>4, <1>11

LEMMA CountsThen ==
  ASSUME NEW fn, NEW p, IsSeq(p), NEW q, IsSeq(q), NEW d, NEW e, NEW f, Counts(fn, p, d, e), Counts(fn, q, e, f)
  PROVE  Counts(fn, p \o q, d, f)
<1> SUFFICES ASSUME NEW t, IsSeq(t), NEW name, NEW n \in Nat \ {0}
             PROVE  Reads(p \o q, Append(t, Counter(fn, name, n)), d, f)
  BY DEF Counts
<1>1. PICK s : s = Append(t, Counter(fn, name, n))
  OBVIOUS
<1>2. Reads(p, s, d, e) /\ Reads(q, s, e, f)
  BY <1>1 DEF Counts
<1>3. Reads(p \o q, s, d, f)
  BY <1>2, ReadsThen
<1> QED
  BY <1>1, <1>3

\* A text in an element that is skipped, and in one of which all texts are
\* taken.
LEMMA CountsLeaf ==
  ASSUME NEW name, NEW text, NEW d
  PROVE  /\ IsSeq(Leaf(name, text))
         /\ Counts("skip", Leaf(name, text), d, d)
         /\ Counts("inside", Leaf(name, text), d, Assign(d, "text", d.text \o text))
<1>c. PICK content : content = <<TextOf(text)>>
  OBVIOUS
<1>1. Leaf(name, text) = Element(name, content)
  BY <1>c, Zenon DEF Leaf, TextOf
<1>2. IsSeq(content) /\ IsSeq(Leaf(name, text))
  <2>1. IsSeq(content)
    BY <1>c, OneElement
  <2> QED
    BY <1>1, <2>1, ElementIsSeq
<1>3. ASSUME NEW fn \in P!Counting, NEW t, IsSeq(t), NEW tag, NEW n
      PROVE  Within(Append(t, Counter(fn, tag, n)), fn)
  <2>1. PICK p : p = Append(t, Counter(fn, tag, n))
    OBVIOUS
  <2>2. IsSeq(p) /\ p # <<>> /\ p[Len(p)] = Counter(fn, tag, n)
    BY <1>3, <2>1, OnTop
  <2>3. p[Len(p)].fn = fn
    BY <2>2, CounterParts
  <2> QED
    BY <2>1, <2>2, <2>3 DEF Within
<1>4. "skip" \in P!Counting /\ "inside" \in P!Counting
  BY DEF P!Counting
<1>5. ASSUME NEW t, IsSeq(t), NEW tag, NEW n
      PROVE  /\ Reads(content, Append(t, Counter("skip", tag, n)), d, d)
             /\ Reads(content, Append(t, Counter("inside", tag, n)), d, Assign(d, "text", d.text \o text))
  <2>1. PICK p, q : p = Append(t, Counter("skip", tag, n)) /\ q = Append(t, Counter("inside", tag, n))
    OBVIOUS
  <2>2. Within(p, "skip") /\ Within(q, "inside")
    BY <1>3, <1>4, <1>5, <2>1
  <2>3. Reads(content, p, d, d)
    BY <1>c, <2>2, TextIgnored
  <2>4. Reads(content, q, d, Assign(d, "text", d.text \o text))
    BY <1>c, <2>2, ReadsText
  <2> QED
    BY <2>1, <2>3, <2>4
<1>6. /\ Counts("skip", content, d, d)
      /\ Counts("inside", content, d, Assign(d, "text", d.text \o text))
  BY <1>5 DEF Counts
<1> QED
  BY <1>1, <1>2, <1>4, <1>6, CountsElement

----------------------------------------------------------------------------
(* Pieces one after the other.                                             *)

\* What holds of nothing and, if of n, of one more, holds of k.
LEMMA UpTo ==
  ASSUME NEW k \in Nat, NEW S, 0 \in S, \A n \in 0..(k - 1) : n \in S => n + 1 \in S
  PROVE  k \in S
<1> SUFFICES ASSUME k \notin S PROVE FALSE
  OBVIOUS
<1> DEFINE T == {n \in 0..k : n \notin S}
<1>1. T \subseteq Nat /\ T # {}
  OBVIOUS
<1>2. PICK n \in T : \A m \in T : n <= m
  BY <1>1, LeastIndex
<1>3. n \in 1..k /\ n - 1 \in 0..(k - 1) /\ n - 1 \notin T
  BY <1>2
<1>4. n - 1 \in S /\ (n - 1) + 1 = n
  BY <1>3
<1> QED
  BY <1>2, <1>3, <1>4

\* The first m pieces of F.
FirstOnes(F, m) == FlattenSeq([n \in 1..m |-> F[n]])

\* f puts the pieces up to the m-th together, one after the other.
Unfolds(F, f, m) == f = [i \in 1..m |-> IF i = 1 THEN F[i] ELSE f[i - 1] \o F[i]]

LEMMA UnfoldsOn ==
  ASSUME NEW F, NEW f, NEW m \in Nat, Unfolds(F, f, m)
  PROVE  \E g : Unfolds(F, g, m + 1)
<1> DEFINE g == [i \in 1..(m + 1) |-> IF i = m + 1 THEN IF i = 1 THEN F[i] ELSE f[m] \o F[i] ELSE f[i]]
<1>1. ASSUME NEW i \in 1..(m + 1)
      PROVE  g[i] = IF i = 1 THEN F[i] ELSE g[i - 1] \o F[i]
  <2>1. CASE i = m + 1
    <3>1. CASE i = 1
      BY <2>1, <3>1
    <3>2. CASE i # 1
      <4>1. i - 1 \in 1..m /\ i - 1 = m /\ i - 1 # m + 1 /\ i - 1 \in 1..(m + 1)
        BY <2>1, <3>2
      <4>2. g[i - 1] = f[m] /\ g[i] = f[m] \o F[i]
        BY <2>1, <3>2, <4>1
      <4> QED
        BY <3>2, <4>2
    <3> QED
      BY <3>1, <3>2
  <2>2. CASE i # m + 1
    <3>1. i \in 1..m /\ g[i] = f[i]
      BY <2>2
    <3>2. f[i] = IF i = 1 THEN F[i] ELSE f[i - 1] \o F[i]
      BY <3>1 DEF Unfolds
    <3>3. CASE i = 1
      BY <3>1, <3>2, <3>3
    <3>4. CASE i # 1
      <4>1. i - 1 \in 1..m /\ i - 1 \in 1..(m + 1) /\ i - 1 # m + 1
        BY <3>1, <3>4
      <4>2. g[i - 1] = f[i - 1]
        BY <4>1
      <4> QED
        BY <3>1, <3>2, <3>4, <4>2
    <3> QED
      BY <3>3, <3>4
  <2> QED
    BY <2>1, <2>2
<1>2. g = [i \in 1..(m + 1) |-> g[i]]
  OBVIOUS
<1>3. PICK h : h = g
  OBVIOUS
<1>4. h = [i \in 1..(m + 1) |-> IF i = 1 THEN F[i] ELSE h[i - 1] \o F[i]]
  <2> HIDE DEF g
  <2> QED
    BY <1>1, <1>2, <1>3
<1> QED
  BY <1>4 DEF Unfolds

LEMMA UnfoldsExist ==
  ASSUME NEW F, NEW k \in Nat
  PROVE  \E f : Unfolds(F, f, k)
<1> DEFINE S == {m \in Nat : \E f : Unfolds(F, f, m)}
<1>1. 0 \in S
  <2>1. PICK f : f = [i \in 1..0 |-> F[i]]
    OBVIOUS
  <2>2. f = [i \in 1..0 |-> IF i = 1 THEN F[i] ELSE f[i - 1] \o F[i]]
    BY <2>1
  <2> QED
    BY <2>2 DEF Unfolds
<1>2. \A m \in 0..(k - 1) : m \in S => m + 1 \in S
  BY UnfoldsOn
<1> HIDE DEF S
<1>3. k \in S
  BY <1>1, <1>2, UpTo
<1> QED
  BY <1>3 DEF S

LEMMA UnfoldsAlike ==
  ASSUME NEW F, NEW f, NEW g, NEW k \in Nat, NEW l \in Nat, Unfolds(F, f, k), Unfolds(F, g, l),
         NEW n \in Nat, n <= k, n <= l, n # 0
  PROVE  f[n] = g[n]
<1> DEFINE S == {i \in Nat : i = 0 \/ f[i] = g[i]}
<1>1. 0 \in S
  OBVIOUS
<1>2. ASSUME NEW i \in 0..(n - 1), i \in S
      PROVE  i + 1 \in S
  <2>1. i + 1 \in 1..k /\ i + 1 \in 1..l /\ (i + 1) - 1 = i
    OBVIOUS
  <2>2. /\ f[i + 1] = IF i + 1 = 1 THEN F[i + 1] ELSE f[i] \o F[i + 1]
        /\ g[i + 1] = IF i + 1 = 1 THEN F[i + 1] ELSE g[i] \o F[i + 1]
    BY <2>1 DEF Unfolds
  <2>3. i + 1 = 1 \/ f[i] = g[i]
    BY <1>2
  <2> QED
    BY <2>1, <2>2, <2>3
<1> HIDE DEF S
<1>3. n \in S
  BY <1>1, <1>2, UpTo
<1> QED
  BY <1>3 DEF S

LEMMA FirstOnesUnfold ==
  ASSUME NEW F, NEW k \in Nat \ {0}
  PROVE  \E f : Unfolds(F, f, k) /\ FirstOnes(F, k) = f[k]
<1>1. PICK G : G = [n \in 1..k |-> F[n]]
  OBVIOUS
<1>2. Len(G) = k /\ \A i \in 1..k : G[i] = F[i]
  BY <1>1
<1> DEFINE flatten == CHOOSE f : f = [i \in 1..k |-> IF i = 1 THEN G[i] ELSE f[i - 1] \o G[i]]
<1>3. FlattenSeq(G) = flatten[k]
  BY <1>2 DEF FlattenSeq
<1>4. \E f : f = [i \in 1..k |-> IF i = 1 THEN G[i] ELSE f[i - 1] \o G[i]]
  <2>1. \E f : Unfolds(G, f, k)
    BY UnfoldsExist
  <2> QED
    BY <2>1 DEF Unfolds
<1>5. flatten = [i \in 1..k |-> IF i = 1 THEN G[i] ELSE flatten[i - 1] \o G[i]]
  BY <1>4, Zenon
<1> HIDE DEF flatten
<1>6. flatten = [i \in 1..k |-> IF i = 1 THEN F[i] ELSE flatten[i - 1] \o F[i]]
  BY <1>2, <1>5
<1> QED
  BY <1>1, <1>3, <1>6 DEF Unfolds, FirstOnes

LEMMA OneMorePiece ==
  ASSUME NEW F, NEW m \in Nat, \A n \in 1..(m + 1) : IsSeq(F[n]), IsSeq(FirstOnes(F, m))
  PROVE  FirstOnes(F, m + 1) = FirstOnes(F, m) \o F[m + 1] /\ IsSeq(FirstOnes(F, m + 1))
<1>1. PICK g : Unfolds(F, g, m + 1) /\ FirstOnes(F, m + 1) = g[m + 1]
  BY FirstOnesUnfold
<1>2. m + 1 \in 1..(m + 1) /\ (m + 1) - 1 = m
  OBVIOUS
<1>3. g[m + 1] = IF m + 1 = 1 THEN F[m + 1] ELSE g[m] \o F[m + 1]
  BY <1>1, <1>2 DEF Unfolds
<1>4. IsSeq(F[m + 1])
  BY <1>2
<1>5. CASE m = 0
  <2>1. FirstOnes(F, 0) = <<>>
    BY DEF FirstOnes, FlattenSeq
  <2>2. FirstOnes(F, m + 1) = F[m + 1]
    BY <1>1, <1>3, <1>5
  <2> QED
    BY <1>4, <1>5, <2>1, <2>2, FirstAndRest
<1>6. CASE m # 0
  <2>1. PICK f : Unfolds(F, f, m) /\ FirstOnes(F, m) = f[m]
    BY <1>6, FirstOnesUnfold
  <2>2. f[m] = g[m]
    BY <1>1, <1>6, <2>1, UnfoldsAlike
  <2>3. FirstOnes(F, m + 1) = FirstOnes(F, m) \o F[m + 1]
    <3>1. m + 1 # 1
      BY <1>6
    <3>2. g[m + 1] = g[m] \o F[m + 1]
      BY <1>3, <3>1, Zenon
    <3> QED
      BY <1>1, <2>1, <2>2, <3>2, Zenon
  <2> QED
    BY <1>4, <2>3, Joined
<1> QED
  BY <1>5, <1>6

LEMMA NoPieces == ASSUME NEW F PROVE FirstOnes(F, 0) = <<>> /\ IsSeq(FirstOnes(F, 0))
<1>1. FirstOnes(F, 0) = <<>>
  BY DEF FirstOnes, FlattenSeq
<1> QED
  BY <1>1, OneElement

\* A finite set written down one after the other, each element once.
LEMMA InSomeOrder ==
  ASSUME NEW S, IsFiniteSet(S)
  PROVE  \E k \in Nat : /\ DOMAIN SetToSeq(S) = 1..k
                        /\ \A n \in 1..k : SetToSeq(S)[n] \in S
                        /\ \A x \in S : \E n \in 1..k : SetToSeq(S)[n] = x
<1> DEFINE k == Cardinality(S)
           q == SetToSeq(S)
<1>1. k \in Nat /\ ExistsBijection(1..k, S)
  BY FS_CardinalityType
<1>2. PICK f : f \in Bijection(1..k, S)
  BY <1>1 DEF ExistsBijection
<1>3. f \in [1..k -> S] /\ IsInjective(f)
  BY <1>2 DEF Bijection, Injection
<1>4. q \in [1..k -> S] /\ IsInjective(q)
  BY <1>3 DEF SetToSeq
<1>5. q \in Injection(1..k, S)
  BY <1>4 DEF Injection
<1>6. IsFiniteSet(1..k) /\ Cardinality(1..k) = k
  BY <1>1, FS_Interval
<1>7. q \in Surjection(1..k, S)
  <2> HIDE DEF q
  <2> QED
    BY <1>5, <1>6, FS_Injection
<1> QED
  BY <1>1, <1>4, <1>7 DEF Surjection

\* The piece q is read, assigns to variables in F alone and leaves r with v.
Leads(q, s, d, F, r, v) == IsSeq(q) /\ \E e : Reads(q, s, d, e) /\ Same(d, e, F) /\ e[r] = v

LEMMA LeadsThen ==
  ASSUME NEW p, NEW q, NEW s, NEW d, NEW F, NEW r, NEW v, NEW w, Leads(p, s, d, F, r, v),
         \A e : Same(d, e, F) /\ e[r] = v => Leads(q, s, e, F, r, w)
  PROVE  Leads(p \o q, s, d, F, r, w)
<1>1. PICK e : Reads(p, s, d, e) /\ Same(d, e, F) /\ e[r] = v /\ IsSeq(p)
  BY DEF Leads
<1>2. PICK f : Reads(q, s, e, f) /\ Same(e, f, F) /\ f[r] = w /\ IsSeq(q)
  BY <1>1 DEF Leads
<1>3. Reads(p \o q, s, d, f) /\ IsSeq(p \o q)
  BY <1>1, <1>2, ReadsThen
<1>4. Same(d, f, F)
  BY <1>1, <1>2, SameTwice
<1> QED
  BY <1>2, <1>3, <1>4 DEF Leads

\* So do the first k pieces of F, if each leads on from one value in V to the
\* next.
LEMMA LeadsEach ==
  ASSUME NEW k \in Nat, NEW F, NEW V, NEW s, NEW d, IsData(d), NEW G, NEW r, d[r] = V[0],
         \A n \in 1..k : IsSeq(F[n]) /\ \A e : Same(d, e, G) /\ e[r] = V[n - 1] => Leads(F[n], s, e, G, r, V[n])
  PROVE  Leads(FirstOnes(F, k), s, d, G, r, V[k])
<1> DEFINE S == {m \in 0..k : Leads(FirstOnes(F, m), s, d, G, r, V[m])}
<1>1. 0 \in S
  <2>1. FirstOnes(F, 0) = <<>> /\ IsSeq(FirstOnes(F, 0))
    BY NoPieces
  <2>2. Reads(FirstOnes(F, 0), s, d, d)
    BY <2>1, ReadsNothing
  <2>3. Same(d, d, G)
    BY SameSame
  <2> QED
    BY <2>1, <2>2, <2>3 DEF Leads
<1>2. ASSUME NEW m \in 0..(k - 1), m \in S
      PROVE  m + 1 \in S
  <2>1. m \in Nat /\ m + 1 \in 1..k /\ m + 1 \in 0..k /\ (m + 1) - 1 = m /\ \A n \in 1..(m + 1) : n \in 1..k
    OBVIOUS
  <2>2. Leads(FirstOnes(F, m), s, d, G, r, V[m])
    BY <1>2
  <2>3. \A e : Same(d, e, G) /\ e[r] = V[m] => Leads(F[m + 1], s, e, G, r, V[m + 1])
    BY <2>1
  <2>4. IsSeq(FirstOnes(F, m)) /\ \A n \in 1..(m + 1) : IsSeq(F[n])
    BY <2>1, <2>2 DEF Leads
  <2>5. FirstOnes(F, m + 1) = FirstOnes(F, m) \o F[m + 1]
    BY <2>1, <2>4, OneMorePiece
  <2>6. Leads(FirstOnes(F, m) \o F[m + 1], s, d, G, r, V[m + 1])
    BY <2>2, <2>3, LeadsThen
  <2> QED
    BY <2>1, <2>5, <2>6
<1> HIDE DEF S
<1>3. k \in S
  BY <1>1, <1>2, UpTo
<1> QED
  BY <1>3 DEF S

----------------------------------------------------------------------------
(* The elements of a document.                                             *)

\* The innermost function called is fn, for the element called name.
InCall(s, fn, name) == Within(s, fn) /\ s[Len(s)].closing = name

LEMMA EnteredCall ==
  ASSUME NEW s, NEW fn, NEW tag, InCall(s, fn, tag), NEW called, NEW name
  PROVE  InCall(Append(s, Frame(called, name)), called, name)
<1>1. Within(s, fn)
  BY DEF InCall
<1>2. PICK p : p = Append(s, Frame(called, name))
  OBVIOUS
<1>3. Within(p, called) /\ p[Len(p)].closing = name
  BY <1>1, <1>2, Entered
<1> QED
  BY <1>2, <1>3 DEF InCall

Readers ==
  {"list", "scheme", "providers", "provider", "tspInformation", "services", "service", "information",
   "history", "instance", "identity", "qualifiers", "firstName", "text"}

LEMMA ReadersRead == \A fn \in Readers : fn \notin P!Counting
BY DEF Readers, P!Counting

LEMMA ReadersNamed == \A fn \in Readers : Named(fn)
BY Zenon DEF Readers, Named

\* A certificate among the digital identities of a service.
LEMMA CertificateRead ==
  ASSUME NEW s, InCall(s, "identity", "ServiceDigitalIdentity"), NEW d, IsData(d), NEW key
  PROVE  /\ IsSeq(Certificate(key))
         /\ \E e : /\ Reads(Certificate(key), s, d, e)
                   /\ Same(d, e, {"text", "certs"}) /\ e.certs = d.certs \cup {key}
<1>1. PICK leaf : leaf = Leaf("X509Certificate", <<key>>)
  OBVIOUS
<1>2. Certificate(key) = Element("DigitalId", leaf)
  BY <1>1 DEF Certificate
<1>3. /\ Within(s, "identity") /\ s[Len(s)].closing # "DigitalId"
      /\ "identity" \notin P!Counting /\ Named("identity") /\ "identity" # "text"
  BY ReadersRead, ReadersNamed DEF InCall, Readers
<1>4. P!Callee(d, "identity", "DigitalId") = "none" /\ P!Callee(d, "identity", "X509Certificate") = "text"
  BY CalledForPeriods
<1>5. PICK text : text = <<key>> /\ IsSeq(text) /\ P!Uri(text) = key
  BY OneElement, TextRead
<1> DEFINE f == Assign(d, "text", text)
           after == Assign(f, "certs", f.certs \cup {P!Uri(f.text)})
<1>6. IsSeq(leaf) /\ IsSeq(Certificate(key))
  <2>1. IsSeq(leaf)
    BY <1>1, <1>3, <1>4, <1>5, LeafRead
  <2> QED
    BY <1>2, <2>1, ElementIsSeq
<1>7. \E e : /\ Reads(Certificate(key), s, d, e)
            /\ Same(d, e, {"text", "certs"}) /\ e.certs = d.certs \cup {key}
  <2>1. Reads(leaf, s, d, P!Returned(f, "text", "X509Certificate", "identity"))
    BY <1>1, <1>3, <1>4, <1>5, LeafRead
  <2>2. P!Returned(f, "text", "X509Certificate", "identity") = after
    BY ReturnsToInner DEF Records
  <2>3. Reads(Certificate(key), s, d, after)
    BY <1>2, <1>3, <1>4, <1>6, <2>1, <2>2, ReadsUnknown
  <2>4. /\ Same(d, f, {"text"}) /\ Same(f, after, {"certs"}) /\ f.text = text /\ f.certs = d.certs
        /\ after.certs = f.certs \cup {P!Uri(f.text)} /\ IsData(f)
    <3>1. "text" \in Locals /\ "certs" \in Locals
      BY DEF Locals
    <3>2. Same(d, f, {"text"}) /\ f.text = text /\ f.certs = d.certs /\ IsData(f)
      BY <3>1, AssignedValue, AssignedOther, AssignedSame
    <3> HIDE DEF f
    <3>3. Same(f, after, {"certs"}) /\ after.certs = f.certs \cup {P!Uri(f.text)}
      BY <3>1, <3>2, AssignedValue, AssignedSame
    <3> QED
      BY <3>2, <3>3
  <2> HIDE DEF after, f
  <2>5. Same(d, after, {"text", "certs"})
    <3>1. {"text"} \cup {"certs"} = {"text", "certs"}
      OBVIOUS
    <3>2. Same(d, after, {"text"} \cup {"certs"})
      BY <2>4, SameThen
    <3> QED
      BY <3>1, <3>2
  <2> QED
    BY <1>5, <2>3, <2>4, <2>5
<1> QED
  BY <1>6, <1>7

LEMMA CertificatesRead ==
  ASSUME NEW s, InCall(s, "identity", "ServiceDigitalIdentity"), NEW d, IsData(d),
         NEW keys, IsFiniteSet(keys)
  PROVE  /\ IsSeq(Certificates(keys))
         /\ \E e : /\ Reads(Certificates(keys), s, d, e)
                   /\ Same(d, e, {"text", "certs"}) /\ e.certs = d.certs \cup keys
<1>q. PICK q : q = SetToSeq(keys)
  OBVIOUS
<1>1. PICK k \in Nat : /\ DOMAIN q = 1..k
                       /\ \A n \in 1..k : q[n] \in keys
                       /\ \A x \in keys : \E n \in 1..k : q[n] = x
  BY <1>q, InSomeOrder
<1>2. PICK F : F = [n \in 1..k |-> Certificate(q[n])]
  OBVIOUS
<1> DEFINE Done(m, e) == /\ Reads(FirstOnes(F, m), s, d, e) /\ Same(d, e, {"text", "certs"})
                         /\ e.certs = d.certs \cup {q[n] : n \in 1..m}
           S == {m \in 0..k : IsSeq(FirstOnes(F, m)) /\ \E e : Done(m, e)}
<1>3. 0 \in S
  <2>1. FirstOnes(F, 0) = <<>> /\ IsSeq(FirstOnes(F, 0))
    BY NoPieces
  <2>2. Reads(FirstOnes(F, 0), s, d, d)
    BY <2>1, ReadsNothing
  <2>3. Same(d, d, {"text", "certs"})
    BY SameSame
  <2>4. {q[n] : n \in 1..0} = {}
    OBVIOUS
  <2>5. d.certs = d.certs \cup {q[n] : n \in 1..0}
    BY <2>4
  <2> QED
    BY <2>1, <2>2, <2>3, <2>5
<1>4. ASSUME NEW m \in 0..(k - 1), m \in S
      PROVE  m + 1 \in S
  <2>1. PICK e : IsSeq(FirstOnes(F, m)) /\ Done(m, e)
    BY <1>4
  <2>2. m + 1 \in 1..k /\ m + 1 \in 0..k
    BY <1>1
  <2>3. F[m + 1] = Certificate(q[m + 1])
    BY <1>1, <1>2, <2>2
  <2>4. IsData(e)
    BY <2>1, SameData
  <2>5. PICK f : /\ Reads(F[m + 1], s, e, f)
                 /\ Same(e, f, {"text", "certs"}) /\ f.certs = e.certs \cup {q[m + 1]}
    BY <2>3, <2>4, CertificateRead
  <2>6. \A n \in 1..(m + 1) : IsSeq(F[n])
    <3>1. \A n \in 1..(m + 1) : n \in 1..k
      BY <2>2
    <3> QED
      BY <1>2, <3>1, CertificateRead
  <2>7. FirstOnes(F, m + 1) = FirstOnes(F, m) \o F[m + 1] /\ IsSeq(FirstOnes(F, m + 1))
    <3>1. m \in Nat /\ IsSeq(FirstOnes(F, m))
      BY <2>1
    <3> QED
      BY <2>6, <3>1, OneMorePiece
  <2>8. Reads(FirstOnes(F, m + 1), s, d, f)
    <3>1. m + 1 \in 1..(m + 1)
      OBVIOUS
    <3>2. PICK piece : piece = F[m + 1] /\ IsSeq(piece)
      BY <2>6, <3>1
    <3>3. Reads(FirstOnes(F, m), s, d, e) /\ Reads(piece, s, e, f)
      BY <2>1, <2>5, <3>2
    <3>4. Reads(FirstOnes(F, m) \o piece, s, d, f)
      BY <2>1, <3>2, <3>3, ReadsThen
    <3> QED
      BY <2>7, <3>2, <3>4
  <2>9. Same(d, f, {"text", "certs"})
    BY <2>1, <2>5, SameTwice
  <2>10. f.certs = d.certs \cup {q[n] : n \in 1..(m + 1)}
    <3>1. 1..(m + 1) = 1..m \cup {m + 1}
      OBVIOUS
    <3>2. {q[n] : n \in 1..(m + 1)} = {q[n] : n \in 1..m} \cup {q[m + 1]}
      BY <3>1
    <3> QED
      BY <2>1, <2>5, <3>2
  <2> QED
    BY <2>2, <2>7, <2>8, <2>9, <2>10
<1> HIDE DEF S
<1>5. k \in S
  BY <1>3, <1>4, UpTo
<1>6. FirstOnes(F, k) = Certificates(keys)
  BY <1>q, <1>1, <1>2 DEF FirstOnes, Certificates
<1>7. {q[n] : n \in 1..k} = keys
  BY <1>1
<1>8. PICK e : IsSeq(FirstOnes(F, k)) /\ Done(k, e)
  BY <1>5 DEF S
<1> QED
  BY <1>6, <1>7, <1>8

----------------------------------------------------------------------------
\* What the functions do with an element for which they call one.
LEMMA ReadsCall ==
  ASSUME NEW s, NEW fn \in Readers, Within(s, fn), NEW name,
         NEW content, IsSeq(content), NEW d, NEW e,
         NEW called, P!Callee(d, fn, name) = called, called # "none",
         Reads(content, Append(s, Frame(called, name)), P!Fresh(d, called), e),
         called # "text" \/ fn # "information"
  PROVE  Reads(Element(name, content), s, d, P!Returned(e, called, name, fn))
<1>1. fn \notin P!Counting /\ Named(fn)
  BY ReadersRead, ReadersNamed
<1> QED
  BY <1>1, ReadsElement

\* The periods of a service: the present one and those of its history.
Periods == {"information", "instance"}
RecordOf(fn) == IF fn = "information" THEN "svc" ELSE "entry"

LEMMA RecordIsLocal == \A fn \in Periods : RecordOf(fn) \in {"svc", "entry"} /\ RecordOf(fn) \in Locals
BY DEF Periods, RecordOf, Locals

\* What the elements of a period are read with.
Touched(fn) == {"text", "found", "certs", RecordOf(fn)}

LEMMA ReadsIntoRecord ==
  ASSUME NEW fn \in Periods, NEW s, Within(s, fn), NEW name,
         NEW content, IsSeq(content), NEW d, NEW e,
         NEW called, P!Callee(d, fn, name) = called, called \notin {"none", "text"}, called \notin Records,
         Reads(content, Append(s, Frame(called, name)), P!Fresh(d, called), e)
  PROVE  Reads(Element(name, content), s, d, Assign(e, RecordOf(fn), P!Filled(e, e[RecordOf(fn)], name)))
<1>1. fn \in Readers
  BY DEF Periods, Readers
<1>2. Reads(Element(name, content), s, d, P!Returned(e, called, name, fn))
  BY <1>1, ReadsCall
<1>3. P!Returned(e, called, name, fn) = Assign(e, RecordOf(fn), P!Filled(e, e[RecordOf(fn)], name))
  BY ReturnsToPeriod DEF Periods, RecordOf
<1> QED
  BY <1>2, <1>3

\* What is kept of a certificate: it goes with those of the identity before.
WithKeys(r, keys) == [r EXCEPT !.keys = @ \cup keys]

\* What stands beside the certificates of a service, and what is read of it.
Spoils(others, spoilt) ==
  \/ others = <<>> /\ spoilt = {}
  \/ \E key : others = Certificate(key) /\ spoilt = {key}

LEMMA OthersRead ==
  ASSUME NEW s, InCall(s, "identity", "ServiceDigitalIdentity"), NEW d, IsData(d),
         NEW others, NEW spoilt, Spoils(others, spoilt)
  PROVE  /\ IsSeq(others)
         /\ \E e : /\ Reads(others, s, d, e)
                   /\ Same(d, e, {"text", "certs"}) /\ e.certs = d.certs \cup spoilt
<1>1. CASE others = <<>> /\ spoilt = {}
  <2>1. Reads(<<>>, s, d, d) /\ Same(d, d, {"text", "certs"}) /\ IsSeq(<<>>)
    BY ReadsNothing, SameSame, OneElement
  <2>2. d.certs = d.certs \cup spoilt
    BY <1>1
  <2> QED
    BY <1>1, <2>1, <2>2
<1>2. ASSUME NEW key, others = Certificate(key), spoilt = {key}
      PROVE  /\ IsSeq(others)
             /\ \E e : /\ Reads(others, s, d, e)
                       /\ Same(d, e, {"text", "certs"}) /\ e.certs = d.certs \cup spoilt
  BY <1>2, CertificateRead
<1> QED
  BY <1>1, <1>2 DEF Spoils

LEMMA IdentityRead ==
  ASSUME NEW fn \in Periods, NEW s, Within(s, fn), NEW d, IsData(d),
         NEW keys, IsFiniteSet(keys), NEW others, NEW spoilt, Spoils(others, spoilt)
  PROVE  Leads(Identity(keys, others), s, d, Touched(fn), RecordOf(fn),
               WithKeys(d[RecordOf(fn)], keys \cup spoilt))
<1>1. PICK p : p = Append(s, Frame("identity", "ServiceDigitalIdentity"))
  OBVIOUS
<1>2. InCall(p, "identity", "ServiceDigitalIdentity")
  BY <1>1, Entered DEF InCall
<1>3. PICK c, r : c = P!Fresh(d, "identity") /\ r = RecordOf(fn)
  OBVIOUS
<1>4. r \in {"svc", "entry"} /\ r \in Locals /\ "certs" \in Locals /\ "text" \in Locals
  BY <1>3, RecordIsLocal DEF Locals
<1>5. IsData(c) /\ c.certs = {} /\ Same(d, c, {"certs"})
  <2>1. c = Assign(d, "certs", {})
    BY <1>3, FreshData
  <2> QED
    BY <1>4, <2>1, AssignedValue, AssignedSame
<1>6. PICK good, content : good = Certificates(keys) /\ content = good \o others
  OBVIOUS
<1>7. /\ IsSeq(good) /\ IsSeq(others) /\ IsSeq(content)
      /\ Identity(keys, others) = Element("ServiceDigitalIdentity", content)
  <2>1. IsSeq(good) /\ IsSeq(others)
    BY <1>2, <1>5, <1>6, CertificatesRead, OthersRead
  <2> QED
    BY <1>6, <2>1, Joined DEF Identity
<1>8. PICK f : Reads(content, p, c, f) /\ Same(c, f, {"text", "certs"}) /\ f.certs = keys \cup spoilt
  <2>1. PICK g : Reads(good, p, c, g) /\ Same(c, g, {"text", "certs"}) /\ g.certs = c.certs \cup keys
    <3>1. IsData(c)
      BY <1>5
    <3>2. \E g : /\ Reads(Certificates(keys), p, c, g)
                /\ Same(c, g, {"text", "certs"}) /\ g.certs = c.certs \cup keys
      BY <1>2, <3>1, CertificatesRead
    <3> QED
      BY <1>6, <3>2
  <2>2. IsData(g)
    BY <2>1, SameData
  <2>3. PICK f : Reads(others, p, g, f) /\ Same(g, f, {"text", "certs"}) /\ f.certs = g.certs \cup spoilt
    BY <1>2, <2>2, OthersRead
  <2>4. Reads(content, p, c, f)
    BY <1>6, <1>7, <2>1, <2>3, ReadsThen
  <2>5. Same(c, f, {"text", "certs"})
    BY <2>1, <2>3, SameTwice
  <2>6. f.certs = keys \cup spoilt
    BY <1>5, <2>1, <2>3
  <2> QED
    BY <2>4, <2>5, <2>6
<1> DEFINE e == Assign(f, r, P!Filled(f, f[r], "ServiceDigitalIdentity"))
<1>9. Reads(Identity(keys, others), s, d, e)
  <2>1. /\ P!Callee(d, fn, "ServiceDigitalIdentity") = "identity" /\ "identity" \notin {"none", "text"}
        /\ "identity" \notin Records
    BY CalledForPeriods DEF Periods, Records
  <2> QED
    BY <1>1, <1>3, <1>7, <1>8, <2>1, ReadsIntoRecord
<1>10. Same(d, f, {"text", "certs"}) /\ IsData(f) /\ f[r] = d[r] /\ f.certs = keys \cup spoilt
  <2>1. Same(d, c, {"text", "certs"})
    BY <1>5, SameWithin
  <2>2. Same(d, f, {"text", "certs"})
    BY <1>8, <2>1, SameTwice
  <2>3. IsData(f) /\ f[r] = d[r]
    BY <1>4, <2>2, SameData
  <2> QED
    BY <1>5, <1>8, <2>2, <2>3
<1>11. e[r] = WithKeys(d[r], keys \cup spoilt) /\ Same(d, e, {"text", "certs", r})
  <2>1. P!Filled(f, f[r], "ServiceDigitalIdentity") = WithKeys(d[r], keys \cup spoilt)
    BY <1>10 DEF P!Filled, WithKeys
  <2>2. e[r] = P!Filled(f, f[r], "ServiceDigitalIdentity") /\ Same(f, e, {r})
    BY <1>4, <1>10, AssignedValue, AssignedSame
  <2> HIDE DEF e
  <2>3. Same(d, f, {"text", "certs", r}) /\ Same(f, e, {"text", "certs", r})
    BY <1>10, <2>2, SameWithin
  <2> QED
    BY <2>1, <2>2, <2>3, SameTwice
<1>12. IsSeq(Identity(keys, others))
  BY <1>7, ElementIsSeq
<1>13. Same(d, e, Touched(fn))
  BY <1>3, <1>11, SameWithin DEF Touched
<1> QED
  BY <1>3, <1>9, <1>11, <1>12, <1>13 DEF Leads

\* The elements of a period with a text.
FilledWith(r, name, text) ==
  CASE name = "ServiceTypeIdentifier" -> [r EXCEPT !.kind = P!Uri(text)]
    [] name = "ServiceStatus" -> [r EXCEPT !.status = P!Uri(text)]
    [] name = "StatusStartingTime" -> [r EXCEPT !.start = P!parse_datetime(text)]

LEMMA LeafFills ==
  ASSUME NEW fn \in Periods, NEW s, Within(s, fn), NEW d, IsData(d), NEW text, IsSeq(text),
         NEW name \in {"ServiceTypeIdentifier", "ServiceStatus", "StatusStartingTime"},
         fn = "information" => Unfilled(d.svc, name)
  PROVE  Leads(Leaf(name, text), s, d, Touched(fn), RecordOf(fn), FilledWith(d[RecordOf(fn)], name, text))
<1>1. PICK r : r = RecordOf(fn)
  OBVIOUS
<1>2. r \in {"svc", "entry"} /\ r \in Locals /\ "text" \in Locals
  BY <1>1, RecordIsLocal DEF Locals
<1>3. P!Callee(d, fn, name) = "text"
  BY CalledForPeriods DEF Periods
<1>4. fn \notin P!Counting /\ Named(fn) /\ fn # "identity" /\ "text" \notin Records
  BY ReadersRead, ReadersNamed DEF Periods, Readers, Records
<1>5. PICK f : f = Assign(d, "text", text)
  OBVIOUS
<1>6. f.text = text /\ f[r] = d[r] /\ IsData(f) /\ Same(d, f, {"text"})
  BY <1>2, <1>5, AssignedValue, AssignedOther, AssignedSame
<1>7. PICK e : e = Assign(f, r, P!Filled(f, f[r], name))
  OBVIOUS
<1>8. IsSeq(Leaf(name, text)) /\ Reads(Leaf(name, text), s, d, e)
  <2>1. IsSeq(Leaf(name, text)) /\ Reads(Leaf(name, text), s, d, P!Returned(f, "text", name, fn))
    BY <1>3, <1>4, <1>5, LeafRead
  <2>2. P!Returned(f, "text", name, fn) = e
    BY <1>1, <1>4, <1>7, ReturnsToPeriod DEF Periods, RecordOf
  <2> QED
    BY <2>1, <2>2
<1>9. e[r] = FilledWith(d[r], name, text)
  <2>1. e[r] = P!Filled(f, f[r], name)
    BY <1>2, <1>6, <1>7, AssignedValue
  <2>2. PICK old : old = d[r]
    OBVIOUS
  <2>3. P!Filled(f, old, name) = FilledWith(old, name, text)
    BY <1>6 DEF P!Filled, FilledWith
  <2> QED
    BY <1>6, <2>1, <2>2, <2>3
<1>10. Same(d, e, {"text", r})
  <2>1. Same(f, e, {r})
    BY <1>2, <1>6, <1>7, AssignedSame
  <2>2. Same(d, f, {"text", r}) /\ Same(f, e, {"text", r})
    BY <1>6, <2>1, SameWithin
  <2> QED
    BY <2>2, SameTwice
<1>11. Same(d, e, Touched(fn))
  BY <1>1, <1>10, SameWithin DEF Touched
<1> QED
  BY <1>1, <1>8, <1>9, <1>11 DEF Leads

\* The first name of something.
LEMMA FirstNameRead ==
  ASSUME NEW s, Within(s, "firstName"), NEW d, IsData(d), d.found = <<>>, NEW text, IsSeq(text)
  PROVE  /\ IsSeq(Leaf("Name", text))
         /\ \E e : Reads(Leaf("Name", text), s, d, e) /\ Same(d, e, {"text", "found"})
<1>1. P!Callee(d, "firstName", "Name") = "text"
  BY CalledFor
<1>2. "firstName" \notin P!Counting /\ Named("firstName") /\ "text" \notin Records
  BY ReadersRead, ReadersNamed DEF Readers, Records
<1>3. PICK f : f = Assign(d, "text", text)
  OBVIOUS
<1>4. "text" \in Locals /\ "found" \in Locals
  BY DEF Locals
<1>5. IsData(f) /\ Same(d, f, {"text"})
  BY <1>3, <1>4, AssignedValue, AssignedSame
<1>6. PICK e : e = Assign(f, "found", <<P!Uri(f.text)>>)
  OBVIOUS
<1>7. Same(f, e, {"found"})
  BY <1>4, <1>5, <1>6, AssignedSame
<1>8. Same(d, e, {"text", "found"})
  <2>1. Same(d, f, {"text", "found"}) /\ Same(f, e, {"text", "found"})
    BY <1>5, <1>7, SameWithin
  <2> QED
    BY <2>1, SameTwice
<1>9. IsSeq(Leaf("Name", text)) /\ Reads(Leaf("Name", text), s, d, P!Returned(f, "text", "Name", "firstName"))
  BY <1>1, <1>2, <1>3, LeafRead
<1>10. P!Returned(f, "text", "Name", "firstName") = e
  BY <1>2, <1>6, ReturnsToInner
<1> QED
  BY <1>8, <1>9, <1>10

LEMMA NameIsRead ==
  ASSUME NEW fn \in Periods, NEW s, Within(s, fn), NEW d, IsData(d), NEW text, IsSeq(text)
  PROVE  Leads(Element("ServiceName", Leaf("Name", text)), s, d, Touched(fn), RecordOf(fn), d[RecordOf(fn)])
<1>1. PICK r, leaf, called : /\ r = RecordOf(fn) /\ leaf = Leaf("Name", text)
                             /\ called = IF fn = "information" THEN "firstName" ELSE "skip"
  OBVIOUS
<1>2. r \in {"svc", "entry"} /\ r \in Locals /\ "text" \in Locals /\ "found" \in Locals
  BY <1>1, RecordIsLocal DEF Locals
<1>3. PICK p, c : p = Append(s, Frame(called, "ServiceName")) /\ c = P!Fresh(d, called)
  OBVIOUS
<1>4. IsSeq(leaf)
  BY <1>1, CountsLeaf
<1>5. \E f : Reads(leaf, p, c, f) /\ Same(d, f, {"text", "found"})
  <2>1. CASE fn = "information"
    <3>1. c = Assign(d, "found", <<>>)
      BY <1>1, <1>3, <2>1, FreshData
    <3>2. IsData(c) /\ c.found = <<>> /\ Same(d, c, {"found"})
      BY <1>2, <3>1, AssignedValue, AssignedSame
    <3>3. Within(p, "firstName")
      BY <1>1, <1>3, <2>1, Entered
    <3>4. IsData(c) /\ c.found = <<>>
      BY <3>2
    <3>5. \E f : Reads(Leaf("Name", text), p, c, f) /\ Same(c, f, {"text", "found"})
      BY <3>3, <3>4, FirstNameRead
    <3>6. Same(d, c, {"text", "found"})
      BY <3>2, SameWithin
    <3> QED
      BY <1>1, <3>5, <3>6, SameTwice
  <2>2. CASE fn # "information"
    <3>1. called = "skip" /\ c = d
      BY <1>1, <1>3, <2>2, FreshData
    <3>2. Counts("skip", leaf, d, d)
      BY <1>1, CountsLeaf
    <3>3. p = Append(s, Counter("skip", "ServiceName", 1)) /\ 1 \in Nat \ {0} /\ IsSeq(s)
      BY <1>3, <3>1, CounterParts DEF Within
    <3>4. Reads(leaf, p, d, d)
      BY <3>2, <3>3 DEF Counts
    <3> QED
      BY <3>1, <3>4, SameSame
  <2> QED
    BY <2>1, <2>2
<1>6. PICK f : Reads(leaf, p, c, f) /\ Same(d, f, {"text", "found"})
  BY <1>5
<1>7. PICK e : e = Assign(f, r, P!Filled(f, f[r], "ServiceName"))
  OBVIOUS
<1>8. Reads(Element("ServiceName", leaf), s, d, e)
  <2>1. P!Callee(d, fn, "ServiceName") = called
    BY <1>1, CalledForPeriods DEF Periods
  <2>2. called \notin {"none", "text"} /\ called \notin Records
    BY <1>1 DEF Records
  <2> QED
    BY <1>1, <1>3, <1>4, <1>6, <1>7, <2>1, <2>2, ReadsIntoRecord
<1>9. Same(d, e, {"text", "found"})
  <2>1. P!Filled(f, f[r], "ServiceName") = f[r]
    BY DEF P!Filled
  <2>2. IsData(f)
    BY <1>6, SameData
  <2>3. IsData(e) /\ Same(f, e, {r}) /\ e[r] = f[r]
    BY <1>2, <1>7, <2>1, <2>2, AssignedValue, AssignedSame
  <2>4. Same(f, e, {})
    BY <2>3 DEF Same
  <2>5. Same(f, e, {"text", "found"})
    BY <2>4, SameWithin
  <2> QED
    BY <1>6, <2>5, SameTwice
<1>10. Same(d, e, Touched(fn)) /\ e[r] = d[r]
  BY <1>2, <1>9, SameWithin, SameData DEF Touched
<1>11. IsSeq(Element("ServiceName", leaf))
  BY <1>4, ElementIsSeq
<1> QED
  BY <1>1, <1>8, <1>10, <1>11 DEF Leads

\* What the elements of a period p make of r, with all the certificates.
FilledAs(r, p, keys) ==
  FilledWith(FilledWith(WithKeys(FilledWith(r, "ServiceTypeIdentifier", <<p.kind>>), keys),
                        "ServiceStatus", <<p.status>>),
             "StatusStartingTime", <<"time", p.start>>)

IsService(r) == DOMAIN r = {"kind", "status", "start", "keys", "history", "qualifiers"}

LEMMA FilledParts ==
  ASSUME NEW r, IsService(r), NEW text, NEW keys
  PROVE  /\ LET v == FilledWith(r, "ServiceTypeIdentifier", text) IN
              IsService(v) /\ v.status = r.status /\ v.start = r.start /\ v.history = r.history
         /\ LET v == FilledWith(r, "ServiceStatus", text) IN
              IsService(v) /\ v.kind = r.kind /\ v.start = r.start /\ v.history = r.history
         /\ LET v == WithKeys(r, keys) IN
              IsService(v) /\ v.status = r.status /\ v.start = r.start /\ v.history = r.history
<1>1. FilledWith(r, "ServiceTypeIdentifier", text) = [r EXCEPT !.kind = P!Uri(text)]
  BY DEF FilledWith
<1>2. FilledWith(r, "ServiceStatus", text) = [r EXCEPT !.status = P!Uri(text)]
  BY DEF FilledWith
<1>3. WithKeys(r, keys) = [r EXCEPT !.keys = @ \cup keys]
  BY DEF WithKeys
<1> QED
  BY <1>1, <1>2, <1>3 DEF IsService

LEMMA EmptyParts ==
  /\ IsService(P!EmptyService) /\ P!EmptyService.history = <<>> /\ P!EmptyService.keys = {}
  /\ P!EmptyService.start = NoTime /\ P!EmptyService.qualifiers = {}
<1>1. PICK none : P!EmptyService = [kind |-> none, status |-> none, start |-> NoTime, keys |-> {},
                                    history |-> <<>>, qualifiers |-> {}]
  <2>1. \E none : P!EmptyService = [kind |-> none, status |-> none, start |-> NoTime, keys |-> {},
                                    history |-> <<>>, qualifiers |-> {}]
    BY Zenon DEF P!EmptyService
  <2> QED
    BY <2>1
<1> QED
  BY <1>1 DEF IsService

\* Each of them fills what has not been filled.
LEMMA FillsOnce ==
  ASSUME NEW ta, NEW keys, NEW tc,
         NEW v1, v1 = FilledWith(P!EmptyService, "ServiceTypeIdentifier", ta), NEW v2, v2 = WithKeys(v1, keys),
         NEW v3, v3 = FilledWith(v2, "ServiceStatus", tc)
  PROVE  /\ Unfilled(P!EmptyService, "ServiceTypeIdentifier") /\ Unfilled(v2, "ServiceStatus")
         /\ Unfilled(v3, "StatusStartingTime")
<1>1. IsService(v1) /\ v1.status = P!EmptyService.status /\ v1.start = P!EmptyService.start /\ v1.history = <<>>
  BY EmptyParts, FilledParts
<1>2. IsService(v2) /\ v2.status = P!EmptyService.status /\ v2.start = P!EmptyService.start /\ v2.history = <<>>
  BY <1>1, FilledParts
<1>3. v3.start = P!EmptyService.start /\ v3.history = <<>>
  BY <1>2, FilledParts
<1> QED
  BY <1>2, <1>3, EmptyParts DEF Unfilled

LEMMA PeriodRead ==
  ASSUME NEW fn \in Periods, NEW s, Within(s, fn), NEW d, IsData(d),
         NEW p, IsFiniteSet(p.keys), NEW others, NEW spoilt, Spoils(others, spoilt),
         fn = "information" => d.svc = P!EmptyService
  PROVE  Leads(Period(p, others), s, d, Touched(fn), RecordOf(fn),
               FilledAs(d[RecordOf(fn)], p, p.keys \cup spoilt))
<1>1. PICK r, F : r = RecordOf(fn) /\ F = Touched(fn)
  OBVIOUS
<1>2. PICK ta, tb, tc, td : ta = <<p.kind>> /\ tb = <<"name">> /\ tc = <<p.status>> /\ td = <<"time", p.start>>
  OBVIOUS
<1>3. IsSeq(ta) /\ IsSeq(tb) /\ IsSeq(tc) /\ IsSeq(td)
  <2>1. <<"time", p.start>> \in Seq({"time", p.start})
    OBVIOUS
  <2> QED
    BY <1>2, <2>1, OneElement, OfItsRange DEF IsSeq
<1>4. PICK a, b, c, g, h : /\ a = Leaf("ServiceTypeIdentifier", ta) /\ b = Element("ServiceName", Leaf("Name", tb))
                           /\ c = Identity(p.keys, others) /\ g = Leaf("ServiceStatus", tc)
                           /\ h = Leaf("StatusStartingTime", td)
  OBVIOUS
<1>5. Period(p, others) = (((a \o b) \o c) \o g) \o h
  BY <1>2, <1>4 DEF Period
<1>6. PICK v1, v2, v3, v4 : /\ v1 = FilledWith(d[r], "ServiceTypeIdentifier", ta)
                            /\ v2 = WithKeys(v1, p.keys \cup spoilt)
                            /\ v3 = FilledWith(v2, "ServiceStatus", tc)
                            /\ v4 = FilledWith(v3, "StatusStartingTime", td)
  OBVIOUS
<1>u. ASSUME fn = "information"
      PROVE  /\ r = "svc" /\ Unfilled(d.svc, "ServiceTypeIdentifier")
             /\ Unfilled(v2, "ServiceStatus") /\ Unfilled(v3, "StatusStartingTime")
  <2>1. r = "svc" /\ d[r] = P!EmptyService /\ d.svc = P!EmptyService
    BY <1>1, <1>u DEF RecordOf
  <2>2. PICK keys : keys = p.keys \cup spoilt
    OBVIOUS
  <2>3. /\ d.svc = P!EmptyService /\ v2 = WithKeys(v1, keys)
        /\ v1 = FilledWith(P!EmptyService, "ServiceTypeIdentifier", ta)
    BY <1>6, <2>1, <2>2
  <2>4. /\ Unfilled(P!EmptyService, "ServiceTypeIdentifier") /\ Unfilled(v2, "ServiceStatus")
        /\ Unfilled(v3, "StatusStartingTime")
    BY <1>6, <2>3, FillsOnce
  <2> QED
    BY <2>1, <2>3, <2>4
<1>7. Leads(a, s, d, F, r, v1)
  <2>1. IsSeq(ta) /\ (fn = "information" => Unfilled(d.svc, "ServiceTypeIdentifier"))
    BY <1>3, <1>u
  <2>2. Leads(Leaf("ServiceTypeIdentifier", ta), s, d, Touched(fn), RecordOf(fn),
              FilledWith(d[RecordOf(fn)], "ServiceTypeIdentifier", ta))
    BY <2>1, LeafFills
  <2> QED
    BY <1>1, <1>4, <1>6, <2>2
<1>8. ASSUME NEW e, IsData(e) PROVE Leads(b, s, e, F, r, e[r])
  <2>1. IsSeq(tb)
    BY <1>3
  <2>2. Leads(Element("ServiceName", Leaf("Name", tb)), s, e, Touched(fn), RecordOf(fn), e[RecordOf(fn)])
    BY <1>8, <2>1, NameIsRead
  <2> QED
    BY <1>1, <1>4, <2>2
<1>9. ASSUME NEW e, IsData(e) PROVE Leads(c, s, e, F, r, WithKeys(e[r], p.keys \cup spoilt))
  <2>1. PICK keys : keys = p.keys /\ IsFiniteSet(keys)
    OBVIOUS
  <2>2. Leads(Identity(keys, others), s, e, Touched(fn), RecordOf(fn),
              WithKeys(e[RecordOf(fn)], keys \cup spoilt))
    BY <1>9, <2>1, IdentityRead
  <2> QED
    BY <1>1, <1>4, <2>1, <2>2
<1>10. ASSUME NEW e, IsData(e), e[r] = v2 PROVE Leads(g, s, e, F, r, FilledWith(e[r], "ServiceStatus", tc))
  <2>1. IsSeq(tc) /\ (fn = "information" => Unfilled(e.svc, "ServiceStatus"))
    BY <1>3, <1>10, <1>u
  <2>2. Leads(Leaf("ServiceStatus", tc), s, e, Touched(fn), RecordOf(fn),
              FilledWith(e[RecordOf(fn)], "ServiceStatus", tc))
    BY <1>10, <2>1, LeafFills
  <2> QED
    BY <1>1, <1>4, <2>2
<1>11. ASSUME NEW e, IsData(e), e[r] = v3
       PROVE  Leads(h, s, e, F, r, FilledWith(e[r], "StatusStartingTime", td))
  <2>1. IsSeq(td) /\ (fn = "information" => Unfilled(e.svc, "StatusStartingTime"))
    BY <1>3, <1>11, <1>u
  <2>2. Leads(Leaf("StatusStartingTime", td), s, e, Touched(fn), RecordOf(fn),
              FilledWith(e[RecordOf(fn)], "StatusStartingTime", td))
    BY <1>11, <2>1, LeafFills
  <2> QED
    BY <1>1, <1>4, <2>2
<1>12. \A e : Same(d, e, F) => IsData(e)
  BY SameData
<1>13. Leads(a \o b, s, d, F, r, v1)
  <2>1. \A e : Same(d, e, F) /\ e[r] = v1 => Leads(b, s, e, F, r, v1)
    BY <1>8, <1>12
  <2> QED
    BY <1>7, <2>1, LeadsThen
<1>14. Leads((a \o b) \o c, s, d, F, r, v2)
  <2>1. \A e : Same(d, e, F) /\ e[r] = v1 => Leads(c, s, e, F, r, v2)
    BY <1>6, <1>9, <1>12
  <2> QED
    BY <1>13, <2>1, LeadsThen
<1>15. Leads(((a \o b) \o c) \o g, s, d, F, r, v3)
  <2>1. \A e : Same(d, e, F) /\ e[r] = v2 => Leads(g, s, e, F, r, v3)
    BY <1>6, <1>10, <1>12
  <2> QED
    BY <1>14, <2>1, LeadsThen
<1>16. Leads((((a \o b) \o c) \o g) \o h, s, d, F, r, v4)
  <2>1. \A e : Same(d, e, F) /\ e[r] = v3 => Leads(h, s, e, F, r, v4)
    BY <1>6, <1>11, <1>12
  <2> QED
    BY <1>15, <2>1, LeadsThen
<1>17. v4 = FilledAs(d[r], p, p.keys \cup spoilt)
  BY <1>2, <1>6 DEF FilledAs
<1> QED
  BY <1>1, <1>5, <1>16, <1>17

LEMMA LeadsWithin ==
  ASSUME NEW q, NEW s, NEW d, NEW F, NEW r, NEW v, Leads(q, s, d, F, r, v), NEW G, F \subseteq G
  PROVE  Leads(q, s, d, G, r, v)
<1>1. PICK e : Reads(q, s, d, e) /\ Same(d, e, F) /\ e[r] = v /\ IsSeq(q)
  BY DEF Leads
<1>2. Same(d, e, G)
  BY <1>1, SameWithin
<1> QED
  BY <1>1, <1>2 DEF Leads

----------------------------------------------------------------------------
\* A qualifier, as an empty tag.
QualifierTag(uri) == Event("empty", "Qualifier", uri)

LEMMA QualifierRead ==
  ASSUME NEW s, Within(s, "qualifiers"), NEW d, IsData(d), NEW uri
  PROVE  Leads(<<QualifierTag(uri)>>, s, d, {"quals"}, "quals", d.quals \cup {uri})
<1>1. PICK e, f : e = QualifierTag(uri) /\ f = Assign(d, "quals", d.quals \cup {uri})
  OBVIOUS
<1>2. e.kind = "empty" /\ e.name = "Qualifier" /\ e.val = uri
  BY <1>1, EventParts DEF QualifierTag
<1>3. Noted(d, "qualifiers", e) = f
  BY <1>1, <1>2 DEF Noted, Assign
<1>4. ASSUME NEW rest, IsSeq(rest)
      PROVE  Turn(At(<<e>> \o rest, s, d)) = At(rest, s, f)
  <2>1. Turn(At(<<e>> \o rest, s, d)) = OnEvent(e, rest, s, d, "none")
    BY <1>4, TurnOnEvent DEF Within
  <2>2. s[Len(s)].fn = "qualifiers"
    BY DEF Within
  <2> QED
    BY <1>2, <1>3, <2>1, <2>2 DEF OnEvent, At
<1>5. Reads(<<e>>, s, d, f)
  <2>1. ASSUME NEW rest, IsSeq(rest)
        PROVE  Anew(At(<<e>> \o rest, s, d))
    <3>1. s[Len(s)].fn # "text"
      BY DEF Within
    <3>2. e.kind \in Kinds
      BY <1>2 DEF Kinds
    <3> QED
      BY <2>1, <3>1, <3>2, AnewElse
  <2> QED
    BY <1>4, <2>1, ReachStep, ReachStays DEF Reads
<1>6. "quals" \in Locals
  BY DEF Locals
<1>7. Same(d, f, {"quals"}) /\ f["quals"] = d.quals \cup {uri}
  BY <1>1, <1>6, AssignedSame, AssignedValue
<1> QED
  BY <1>1, <1>5, <1>7, OneElement DEF Leads

LEMMA QualifiersRead ==
  ASSUME NEW s, Within(s, "qualifiers"), NEW d, IsData(d), d.quals = {}, NEW uris, IsFiniteSet(uris)
  PROVE  Leads(Qualifiers(uris), s, d, {"quals"}, "quals", uris)
<1>q. PICK q : q = SetToSeq(uris)
  OBVIOUS
<1>1. PICK k \in Nat : /\ DOMAIN q = 1..k
                       /\ \A n \in 1..k : q[n] \in uris
                       /\ \A x \in uris : \E n \in 1..k : q[n] = x
  BY <1>q, InSomeOrder
<1>2. PICK F, V : /\ F = [n \in 1..k |-> <<QualifierTag(q[n])>>]
                  /\ V = [n \in 0..k |-> {q[i] : i \in 1..n}]
  OBVIOUS
<1>3. V[0] = {} /\ V[k] = uris
  BY <1>1, <1>2
<1>4. ASSUME NEW n \in 1..k, NEW e, Same(d, e, {"quals"}), e["quals"] = V[n - 1]
      PROVE  Leads(F[n], s, e, {"quals"}, "quals", V[n])
  <2>1. n - 1 \in 0..k /\ n \in 0..k /\ 1..n = 1..(n - 1) \cup {n}
    BY <1>1
  <2>2. V[n] = V[n - 1] \cup {q[n]}
    BY <1>2, <2>1
  <2>3. IsData(e) /\ e.quals = V[n - 1]
    BY <1>4, SameData
  <2>4. Leads(<<QualifierTag(q[n])>>, s, e, {"quals"}, "quals", e.quals \cup {q[n]})
    BY <2>3, QualifierRead
  <2> QED
    BY <1>2, <2>2, <2>3, <2>4
<1>5. \A n \in 1..k : IsSeq(F[n])
  BY <1>2, OneElement
<1>6. Leads(FirstOnes(F, k), s, d, {"quals"}, "quals", V[k])
  <2>1. d["quals"] = V[0]
    BY <1>3
  <2> QED
    BY <1>4, <1>5, <2>1, LeadsEach
<1>7. FirstOnes(F, k) = Qualifiers(uris)
  BY <1>q, <1>1, <1>2 DEF FirstOnes, Qualifiers, QualifierTag
<1> QED
  BY <1>3, <1>6, <1>7

\* Beside them nothing is taken of an extension.
LEMMA ExtensionRead ==
  ASSUME NEW s, InCall(s, "qualifiers", "ServiceInformationExtensions"), NEW d, IsData(d)
  PROVE  Reads(TakenOverBy, s, d, d) /\ IsSeq(TakenOverBy)
<1>1. /\ Within(s, "qualifiers") /\ s[Len(s)].closing = "ServiceInformationExtensions"
      /\ "qualifiers" \notin P!Counting /\ "qualifiers" # "text"
  BY ReadersRead DEF InCall, Readers
<1>2. \A name \in {"Extension", "TakenOverBy", "TSPName"} :
        P!Callee(d, "qualifiers", name) = "none" /\ name # "Qualifier" /\ s[Len(s)].closing # name
  BY <1>1, CalledForPeriods
<1>3. PICK text, a, b, c : /\ text = <<TextOf(<<"taker">>)>> /\ a = Element("TSPName", text)
                           /\ b = Element("TakenOverBy", a) /\ c = Element("Extension", b)
  OBVIOUS
<1>4. TakenOverBy = c
  <2>1. Leaf("TSPName", <<"taker">>) = Element("TSPName", text)
    BY <1>3, Zenon DEF Leaf, TextOf
  <2> QED
    BY <1>3, <2>1 DEF TakenOverBy
<1>5. Reads(text, s, d, d) /\ IsSeq(text)
  <2>1. "qualifiers" \notin {"text", "inside"}
    OBVIOUS
  <2> QED
    BY <1>1, <1>3, <2>1, TextIgnored, OneElement
<1>6. Reads(a, s, d, d) /\ IsSeq(a)
  BY <1>1, <1>2, <1>3, <1>5, ReadsUnknown, ElementIsSeq
<1>7. Reads(b, s, d, d) /\ IsSeq(b)
  BY <1>1, <1>2, <1>3, <1>6, ReadsUnknown, ElementIsSeq
<1>8. Reads(c, s, d, d) /\ IsSeq(c)
  BY <1>1, <1>2, <1>3, <1>7, ReadsUnknown, ElementIsSeq
<1> QED
  BY <1>4, <1>8

\* The qualifiers of a service join those of the extensions before.
WithQualifiers(r, uris) == [r EXCEPT !.qualifiers = @ \cup uris]

LEMMA ExtensionsRead ==
  ASSUME NEW s, Within(s, "information"), NEW d, IsData(d), NEW uris, IsFiniteSet(uris)
  PROVE  Leads(Element("ServiceInformationExtensions", Qualifiers(uris) \o TakenOverBy), s, d,
               {"quals", "svc"}, "svc", WithQualifiers(d.svc, uris))
<1>1. PICK name, p, c : /\ name = "ServiceInformationExtensions" /\ p = Append(s, Frame("qualifiers", name))
                        /\ c = P!Fresh(d, "qualifiers")
  OBVIOUS
<1>2. InCall(p, "qualifiers", "ServiceInformationExtensions")
  BY <1>1, Entered DEF InCall
<1>3. "quals" \in Locals /\ "svc" \in Locals
  BY DEF Locals
<1>4. IsData(c) /\ c.quals = {} /\ Same(d, c, {"quals"})
  <2>1. c = Assign(d, "quals", {})
    BY <1>1, FreshData
  <2> QED
    BY <1>3, <2>1, AssignedValue, AssignedSame
<1>5. PICK a, b : a = Qualifiers(uris) /\ b = TakenOverBy
  OBVIOUS
<1>6. PICK f : Reads(a, p, c, f) /\ Same(c, f, {"quals"}) /\ f.quals = uris /\ IsSeq(a)
  <2>1. Within(p, "qualifiers")
    BY <1>2 DEF InCall
  <2>2. Leads(a, p, c, {"quals"}, "quals", uris)
    BY <1>4, <1>5, <2>1, QualifiersRead
  <2> QED
    BY <2>2 DEF Leads
<1>7. Same(d, f, {"quals"})
  BY <1>4, <1>6, SameTwice
<1>8. IsData(f) /\ f.svc = d.svc
  <2>1. "svc" \in Locals \ {"quals"}
    BY <1>3
  <2> QED
    BY <1>7, <2>1, SameData
<1>9. Reads(b, p, f, f) /\ IsSeq(b)
  BY <1>2, <1>5, <1>8, ExtensionRead
<1>10. Reads(a \o b, p, c, f) /\ IsSeq(a \o b)
  BY <1>6, <1>9, ReadsThen
<1>11. PICK e : e = Assign(f, "svc", P!Filled(f, f.svc, name))
  OBVIOUS
<1>12. Reads(Element(name, a \o b), s, d, e)
  <2>1. RecordOf("information") = "svc" /\ "information" \in Periods /\ "qualifiers" \notin Records
    BY DEF RecordOf, Periods, Records
  <2>2. P!Callee(d, "information", name) = "qualifiers" /\ "qualifiers" \notin {"none", "text"}
    BY <1>1, CalledForPeriods
  <2>3. PICK content : content = a \o b
    OBVIOUS
  <2>4. Reads(content, Append(s, Frame("qualifiers", name)), P!Fresh(d, "qualifiers"), f) /\ IsSeq(content)
    BY <1>1, <1>10, <2>3
  <2>5. Reads(Element(name, content), s, d,
              Assign(f, RecordOf("information"), P!Filled(f, f[RecordOf("information")], name)))
    BY <2>1, <2>2, <2>4, ReadsIntoRecord
  <2> QED
    BY <1>11, <2>1, <2>3, <2>5
<1>13. e["svc"] = WithQualifiers(d.svc, uris)
  <2>1. P!Filled(f, f.svc, "ServiceInformationExtensions") = WithQualifiers(d.svc, uris)
    BY <1>6, <1>8 DEF P!Filled, WithQualifiers
  <2> QED
    BY <1>1, <1>3, <1>8, <1>11, <2>1, AssignedValue
<1>14. Same(d, e, {"quals", "svc"})
  <2>1. Same(f, e, {"svc"})
    BY <1>3, <1>8, <1>11, AssignedSame
  <2>2. Same(d, f, {"quals", "svc"}) /\ Same(f, e, {"quals", "svc"})
    BY <1>7, <2>1, SameWithin
  <2> QED
    BY <2>2, SameTwice
<1> QED
  BY <1>1, <1>5, <1>10, <1>12, <1>13, <1>14, ElementIsSeq DEF Leads

----------------------------------------------------------------------------
(* Services.                                                               *)

\* Functions that neither have variables of their own nor return anything.
LEMMA Through ==
  ASSUME NEW fn \in {"list", "provider", "service"}, NEW s, Within(s, fn), NEW d, NEW name,
         NEW called \in {"scheme", "providers", "tspInformation", "services", "information", "history"},
         P!Callee(d, fn, name) = called, NEW content, IsSeq(content)
  PROVE  /\ \A e : Reads(content, Append(s, Frame(called, name)), d, e) => Reads(Element(name, content), s, d, e)
         /\ \A F, r, v : Leads(content, Append(s, Frame(called, name)), d, F, r, v) =>
              Leads(Element(name, content), s, d, F, r, v)
<1>1. /\ fn \in Readers /\ called \notin {"none", "text"} /\ called \notin Records
      /\ fn \in {"list", "provider", "service", "tspInformation"} /\ fn \notin P!Counting
  BY DEF Readers, Records, P!Counting
<1>2. P!Fresh(d, called) = d
  BY FreshData
<1>3. ASSUME NEW e, Reads(content, Append(s, Frame(called, name)), d, e)
      PROVE  Reads(Element(name, content), s, d, e)
  <2>1. Reads(Element(name, content), s, d, P!Returned(e, called, name, fn))
    BY <1>1, <1>2, <1>3, ReadsCall
  <2>2. P!Returned(e, called, name, fn) = e
    BY <1>1, ReturnsNothing
  <2> QED
    BY <2>1, <2>2
<1> QED
  BY <1>3, ElementIsSeq DEF Leads

\* What the parser keeps of a service with history h, and of an entry of its
\* history.  If a certificate that does not decode stands beside those of a
\* service, it would be kept with them.
WithHistory(svc, h) ==
  [kind |-> svc.kind, status |-> svc.status, start |-> svc.start, keys |-> svc.keys,
   history |-> h, qualifiers |-> svc.qualifiers]
EntryKept(kind, h) ==
  [kind |-> kind, status |-> h.status, start |-> h.start, keys |-> h.keys, qualifiers |-> {}]
EntriesKept(svc, m) == [n \in 1..m |-> EntryKept(svc.kind, svc.history[n])]
Spoilt(layout) == IF layout.unreadable = "identity" THEN {"garbage"} ELSE {}
WithSpoilt(svc, spoilt) ==
  [kind |-> svc.kind, status |-> svc.status, start |-> svc.start, keys |-> svc.keys \cup spoilt,
   history |-> svc.history, qualifiers |-> svc.qualifiers]
ServiceKept(svc, layout) ==
  WithHistory(WithSpoilt(svc, Spoilt(layout)), EntriesKept(svc, Len(svc.history)))

\* A service that the document can say: of certificates that decode, and each
\* part finite.
EntryIsSound(h) == h = EntrySeen(h) /\ h.keys \subseteq Keys
ServiceIsSound(svc) ==
  /\ svc = WithHistory(svc, svc.history) /\ svc.keys \subseteq Keys /\ IsFiniteSet(svc.qualifiers)
  /\ svc.history \in Seq(Range(svc.history))
  /\ \A n \in DOMAIN svc.history : EntryIsSound(svc.history[n])
KeysAreSound == IsFiniteSet(Keys) /\ "garbage" \notin Keys

\* Before its history is read.
Told(p, keys) ==
  [kind |-> p.kind, status |-> p.status, start |-> p.start, keys |-> keys,
   history |-> <<>>, qualifiers |-> p.qualifiers]

LEMMA FilledNew ==
  ASSUME NEW p, NEW keys
  PROVE  /\ WithQualifiers(FilledAs(P!EmptyService, p, keys), p.qualifiers) =
              Told(p, keys)
         /\ keys = p.keys => FilledAs(P!EmptyEntry, p, keys) = EntryKept(p.kind, p)
<1>1. P!Uri(<<p.kind>>) = p.kind /\ P!Uri(<<p.status>>) = p.status /\ P!parse_datetime(<<"time", p.start>>) = p.start
  BY TextRead
<1>2. PICK none : P!EmptyService = [kind |-> none, status |-> none, start |-> NoTime, keys |-> {},
                                    history |-> <<>>, qualifiers |-> {}]
  <2>1. \E none : P!EmptyService = [kind |-> none, status |-> none, start |-> NoTime, keys |-> {},
                                    history |-> <<>>, qualifiers |-> {}]
    BY Zenon DEF P!EmptyService
  <2> QED
    BY <2>1
<1>3. PICK unset : P!EmptyEntry = [kind |-> unset, status |-> unset, start |-> NoTime, keys |-> {},
                                   qualifiers |-> {}]
  <2>1. \E unset : P!EmptyEntry = [kind |-> unset, status |-> unset, start |-> NoTime, keys |-> {},
                                   qualifiers |-> {}]
    BY Zenon DEF P!EmptyEntry
  <2> QED
    BY <2>1
<1>4. ASSUME NEW r
      PROVE  FilledAs(r, p, keys) = [[[[r EXCEPT !.kind = p.kind] EXCEPT !.keys = @ \cup keys]
                                  EXCEPT !.status = p.status] EXCEPT !.start = p.start]
  BY <1>1 DEF FilledAs, FilledWith, WithKeys
<1>5. ASSUME keys = p.keys PROVE FilledAs(P!EmptyEntry, p, keys) = EntryKept(p.kind, p)
  <2>1. PICK r : r = P!EmptyEntry
    OBVIOUS
  <2>2. r = [kind |-> unset, status |-> unset, start |-> NoTime, keys |-> {}, qualifiers |-> {}]
    BY <1>3, <2>1
  <2>3. FilledAs(r, p, keys) = [kind |-> p.kind, status |-> p.status, start |-> p.start, keys |-> keys,
                          qualifiers |-> {}]
    <3>1. FilledAs(r, p, keys) = [[[[r EXCEPT !.kind = p.kind] EXCEPT !.keys = @ \cup keys]
                              EXCEPT !.status = p.status] EXCEPT !.start = p.start]
      BY <1>4
    <3>2. {} \cup keys = keys
      OBVIOUS
    <3> QED
      BY <2>2, <3>1, <3>2
  <2> QED
    BY <1>5, <2>1, <2>3 DEF EntryKept
<1>6. WithQualifiers(FilledAs(P!EmptyService, p, keys), p.qualifiers) = Told(p, keys)
  <2>1. PICK r : r = P!EmptyService
    OBVIOUS
  <2>2. r = [kind |-> none, status |-> none, start |-> NoTime, keys |-> {}, history |-> <<>>,
             qualifiers |-> {}]
    BY <1>2, <2>1
  <2>3. FilledAs(r, p, keys) = [kind |-> p.kind, status |-> p.status, start |-> p.start, keys |-> keys,
                          history |-> <<>>, qualifiers |-> {}]
    <3>1. FilledAs(r, p, keys) = [[[[r EXCEPT !.kind = p.kind] EXCEPT !.keys = @ \cup keys]
                              EXCEPT !.status = p.status] EXCEPT !.start = p.start]
      BY <1>4
    <3>2. {} \cup keys = keys
      OBVIOUS
    <3> QED
      BY <2>2, <3>1, <3>2
  <2>4. {} \cup p.qualifiers = p.qualifiers
    OBVIOUS
  <2>5. WithQualifiers(FilledAs(r, p, keys), p.qualifiers) = Told(p, keys)
    BY <2>3, <2>4 DEF WithQualifiers, Told
  <2> QED
    BY <2>1, <2>5
<1> QED
  BY <1>5, <1>6

\* What the elements of a service are read with.
ServiceLocals == {"text", "found", "certs", "quals", "entry", "svc"}

LEMMA UnreadableSpoils ==
  ASSUME NEW layout
  PROVE  Spoils(Unreadable(layout, "identity"), Spoilt(layout))
BY Zenon DEF Spoils, Unreadable, Spoilt

LEMMA InformationRead ==
  ASSUME KeysAreSound, NEW s, Within(s, "service"), NEW d, IsData(d), d.svc = P!EmptyService,
         NEW svc, ServiceIsSound(svc), NEW others, NEW spoilt, Spoils(others, spoilt)
  PROVE  Leads(Element("ServiceInformation",
                       Period(svc, others) \o Element("ServiceInformationExtensions",
                                                      Qualifiers(svc.qualifiers) \o TakenOverBy)),
               s, d, ServiceLocals, "svc", WithHistory(WithSpoilt(svc, spoilt), <<>>))
<1>1. PICK name, p : name = "ServiceInformation" /\ p = Append(s, Frame("information", name))
  OBVIOUS
<1>2. Within(p, "information")
  BY <1>1, Entered
<1>3. svc.keys \subseteq Keys /\ IsFiniteSet(svc.keys) /\ IsFiniteSet(svc.qualifiers)
  BY FS_Subset DEF ServiceIsSound, KeysAreSound
<1>4. PICK a, b : /\ a = Period(svc, others)
                  /\ b = Element("ServiceInformationExtensions", Qualifiers(svc.qualifiers) \o TakenOverBy)
  OBVIOUS
<1>5. "information" \in Periods /\ RecordOf("information") = "svc" /\ Touched("information") \subseteq ServiceLocals
  BY DEF Periods, RecordOf, Touched, ServiceLocals
<1>6. PICK v, keys : keys = svc.keys \cup spoilt /\ v = FilledAs(d.svc, svc, keys)
  OBVIOUS
<1>7. Leads(a, p, d, ServiceLocals, "svc", v)
  <2>1. Leads(a, p, d, Touched("information"), RecordOf("information"),
              FilledAs(d[RecordOf("information")], svc, svc.keys \cup spoilt))
    BY <1>2, <1>3, <1>4, <1>5, PeriodRead
  <2>2. Leads(a, p, d, Touched("information"), "svc", v)
    BY <1>5, <1>6, <2>1
  <2> QED
    BY <1>5, <2>2, LeadsWithin
<1>8. ASSUME NEW e, Same(d, e, ServiceLocals), e["svc"] = v
      PROVE  Leads(b, p, e, ServiceLocals, "svc", WithQualifiers(v, svc.qualifiers))
  <2>1. IsData(e)
    BY <1>8, SameData
  <2>2. Leads(b, p, e, {"quals", "svc"}, "svc", WithQualifiers(e.svc, svc.qualifiers))
    BY <1>2, <1>3, <1>4, <2>1, ExtensionsRead
  <2>3. {"quals", "svc"} \subseteq ServiceLocals
    BY DEF ServiceLocals
  <2> QED
    BY <1>8, <2>2, <2>3, LeadsWithin
<1>9. Leads(a \o b, p, d, ServiceLocals, "svc", WithQualifiers(v, svc.qualifiers))
  BY <1>7, <1>8, LeadsThen
<1>10. WithQualifiers(v, svc.qualifiers) = WithHistory(WithSpoilt(svc, spoilt), <<>>)
  <2>1. WithQualifiers(FilledAs(P!EmptyService, svc, keys), svc.qualifiers) = Told(svc, keys)
    BY FilledNew
  <2>2. Told(svc, keys) = WithHistory(WithSpoilt(svc, spoilt), <<>>)
    BY <1>6 DEF Told, WithHistory, WithSpoilt
  <2> QED
    BY <1>6, <2>1, <2>2
<1>11. IsSeq(a \o b)
  BY <1>9 DEF Leads
<1>12. P!Callee(d, "service", name) = "information"
  BY <1>1, CalledFor
<1> QED
  BY <1>1, <1>4, <1>9, <1>10, <1>11, <1>12, Through

\* The first n values of G, and one more.
LEMMA OneMoreValue ==
  ASSUME NEW G, NEW n \in Nat \ {0}
  PROVE  /\ Append([i \in 1..(n - 1) |-> G[i]], G[n]) = [i \in 1..n |-> G[i]]
         /\ IsSeq([i \in 1..n |-> G[i]]) /\ [i \in 1..0 |-> G[i]] = <<>>
<1>1. PICK p, q, S : /\ p = [i \in 1..(n - 1) |-> G[i]] /\ q = [i \in 1..n |-> G[i]]
                     /\ S = {G[i] : i \in 1..n}
  OBVIOUS
<1>2. p \in [1..(n - 1) -> S] /\ q \in [1..n -> S] /\ n - 1 \in Nat /\ G[n] \in S
  BY <1>1
<1>3. p \in Seq(S) /\ q \in Seq(S) /\ Len(p) = n - 1 /\ Len(q) = n
  BY <1>2
<1>4. /\ Append(p, G[n]) \in Seq(S) /\ Len(Append(p, G[n])) = n
      /\ \A i \in 1..(n - 1) : Append(p, G[n])[i] = p[i]
      /\ Append(p, G[n])[n] = G[n]
  <2>1. /\ Append(p, G[n]) \in Seq(S) /\ Len(Append(p, G[n])) = Len(p) + 1
        /\ \A i \in 1..Len(p) : Append(p, G[n])[i] = p[i]
        /\ Append(p, G[n])[Len(p) + 1] = G[n]
    BY <1>2, <1>3, AppendProperties
  <2> QED
    BY <1>3, <2>1
<1>5. \A i \in 1..n : Append(p, G[n])[i] = q[i]
  <2>1. ASSUME NEW i \in 1..n PROVE Append(p, G[n])[i] = q[i]
    <3>1. CASE i = n
      BY <1>1, <1>4, <3>1
    <3>2. CASE i # n
      <4>1. i \in 1..(n - 1)
        BY <3>2
      <4> QED
        BY <1>1, <1>4, <4>1
    <3> QED
      BY <3>1, <3>2
  <2> QED
    BY <2>1
<1>6. Append(p, G[n]) = q
  BY <1>3, <1>4, <1>5, SeqEqual
<1>7. IsSeq(q)
  BY <1>3, OfItsRange DEF IsSeq
<1>8. [i \in 1..0 |-> G[i]] = <<>>
  OBVIOUS
<1> QED
  BY <1>1, <1>6, <1>7, <1>8

Grown(svc, h) == [svc EXCEPT !.history = h]

LEMMA WithItsHistory ==
  ASSUME NEW svc, NEW h, NEW all
  PROVE  Grown(WithHistory(svc, h), all) = WithHistory(svc, all) /\ WithHistory(svc, h).history = h
BY DEF Grown, WithHistory

\* A former period.
Instance(svc, n) ==
  LET h == svc.history[n] IN
  Element("ServiceHistoryInstance",
          Period([kind |-> svc.kind, status |-> h.status, start |-> h.start, keys |-> h.keys], <<>>))

LEMMA InstanceRead ==
  ASSUME KeysAreSound, NEW s, Within(s, "history"), NEW d, IsData(d), NEW svc, NEW kept, NEW h,
         d.svc = WithHistory(kept, h), NEW n, EntryIsSound(svc.history[n])
  PROVE  Leads(Instance(svc, n), s, d, ServiceLocals, "svc",
               WithHistory(kept, Append(h, EntryKept(svc.kind, svc.history[n]))))
<1>1. PICK name, t, c : /\ name = "ServiceHistoryInstance" /\ t = Append(s, Frame("instance", name))
                        /\ c = P!Fresh(d, "instance")
  OBVIOUS
<1>2. Within(t, "instance")
  BY <1>1, Entered
<1>3. PICK p, entry, content :
        /\ entry = svc.history[n]
        /\ p = [kind |-> svc.kind, status |-> entry.status, start |-> entry.start, keys |-> entry.keys]
        /\ content = Period(p, <<>>)
  OBVIOUS
<1>4. /\ p.kind = svc.kind /\ p.status = entry.status /\ p.start = entry.start /\ p.keys = entry.keys
      /\ p.keys \subseteq Keys
  BY <1>3 DEF EntryIsSound
<1>5. IsFiniteSet(p.keys)
  BY <1>4, FS_Subset DEF KeysAreSound
<1>6. EntryKept(p.kind, p) = EntryKept(svc.kind, entry)
  BY <1>4 DEF EntryKept
<1>7. "entry" \in Locals /\ "svc" \in Locals /\ "svc" \notin {"text", "found", "certs", "entry"}
  BY DEF Locals
<1>8. IsData(c) /\ c.entry = P!EmptyEntry /\ Same(d, c, {"entry"})
  BY <1>1, <1>7, FreshData, AssignedValue, AssignedSame
<1>9. PICK f : /\ IsSeq(content) /\ Reads(content, t, c, f) /\ Same(c, f, {"text", "found", "certs", "entry"})
               /\ f.entry = EntryKept(svc.kind, entry)
  <2>1. "instance" \in Periods /\ RecordOf("instance") = "entry" /\ Touched("instance") = {"text", "found", "certs", "entry"}
    BY DEF Periods, RecordOf, Touched
  <2>2. IsData(c) /\ IsFiniteSet(p.keys) /\ Within(t, "instance")
    BY <1>2, <1>5, <1>8
  <2>3. Leads(Period(p, <<>>), t, c, Touched("instance"), RecordOf("instance"),
              FilledAs(c[RecordOf("instance")], p, p.keys \cup {}))
    <3>1. Spoils(<<>>, {}) /\ "instance" # "information"
      BY DEF Spoils
    <3> QED
      BY <2>1, <2>2, <3>1, PeriodRead
  <2>4. FilledAs(P!EmptyEntry, p, p.keys \cup {}) = EntryKept(svc.kind, entry)
    <3>1. p.keys \cup {} = p.keys
      OBVIOUS
    <3> QED
      BY <1>6, <3>1, FilledNew
  <2>5. Leads(content, t, c, {"text", "found", "certs", "entry"}, "entry", EntryKept(svc.kind, entry))
    BY <1>3, <1>8, <2>1, <2>3, <2>4
  <2> QED
    BY <2>5 DEF Leads
<1>10. Same(d, f, {"text", "found", "certs", "entry"})
  <2>1. Same(d, c, {"text", "found", "certs", "entry"})
    BY <1>8, SameWithin
  <2> QED
    BY <1>9, <2>1, SameTwice
<1>11. IsData(f) /\ f.svc = WithHistory(kept, h)
  BY <1>7, <1>10, SameData
<1>12. PICK new, e : /\ new = [f.svc EXCEPT !.history = Append(f.svc.history, f.entry)]
                     /\ e = Assign(f, "svc", new)
  OBVIOUS
<1>13. Reads(Element(name, content), s, d, e)
  <2>1. "history" \in Readers /\ "instance" # "none" /\ "instance" # "text"
    BY DEF Readers
  <2>2. P!Callee(d, "history", name) = "instance"
    BY <1>1, CalledFor
  <2>3. Reads(Element(name, content), s, d, P!Returned(f, "instance", name, "history"))
    BY <1>1, <1>9, <2>1, <2>2, ReadsCall
  <2>4. P!Returned(f, "instance", name, "history") = e
    BY <1>12, ReturnsRecord
  <2> QED
    BY <2>3, <2>4
<1>14. e["svc"] = WithHistory(kept, Append(h, EntryKept(svc.kind, entry)))
  <2>1. e["svc"] = new
    BY <1>7, <1>11, <1>12, AssignedValue
  <2>2. PICK old, all : old = f.svc /\ old = WithHistory(kept, h) /\ all = Append(h, f.entry)
    BY <1>11
  <2>3. new = WithHistory(kept, all)
    <3>1. old.history = h
      BY <2>2, WithItsHistory
    <3>2. new = Grown(old, all)
      BY <1>12, <2>2, <3>1 DEF Grown
    <3>3. Grown(WithHistory(kept, h), all) = WithHistory(kept, all)
      BY WithItsHistory
    <3> QED
      BY <2>2, <3>2, <3>3
  <2> QED
    BY <1>9, <2>1, <2>2, <2>3
<1>15. Same(d, e, ServiceLocals)
  <2>1. Same(f, e, {"svc"})
    BY <1>7, <1>11, <1>12, AssignedSame
  <2>2. {"svc"} \subseteq ServiceLocals /\ {"text", "found", "certs", "entry"} \subseteq ServiceLocals
    BY DEF ServiceLocals
  <2>3. Same(d, f, ServiceLocals) /\ Same(f, e, ServiceLocals)
    BY <1>10, <2>1, <2>2, SameWithin
  <2> QED
    BY <2>3, SameTwice
<1>16. IsSeq(Element(name, content)) /\ Instance(svc, n) = Element(name, content)
  BY <1>1, <1>3, <1>9, ElementIsSeq DEF Instance
<1> QED
  BY <1>3, <1>13, <1>14, <1>15, <1>16 DEF Leads

LEMMA HistoryRead ==
  ASSUME KeysAreSound, NEW s, Within(s, "service"), NEW d, IsData(d), NEW svc, ServiceIsSound(svc),
         NEW kept, d.svc = WithHistory(kept, <<>>)
  PROVE  Leads(Element("ServiceHistory", FlattenSeq([n \in DOMAIN svc.history |-> Instance(svc, n)])),
               s, d, ServiceLocals, "svc", WithHistory(kept, EntriesKept(svc, Len(svc.history))))
<1>1. PICK k \in Nat : k = Len(svc.history) /\ DOMAIN svc.history = 1..k
  BY LenProperties DEF ServiceIsSound
<1>2. PICK name, t : name = "ServiceHistory" /\ t = Append(s, Frame("history", name))
  OBVIOUS
<1>3. Within(t, "history")
  BY <1>2, Entered
<1>4. PICK F, V : /\ F = [n \in 1..k |-> Instance(svc, n)]
                  /\ V = [n \in 0..k |-> WithHistory(kept, EntriesKept(svc, n))]
  OBVIOUS
<1>5. \A n \in 1..k : EntryIsSound(svc.history[n])
  BY <1>1 DEF ServiceIsSound
<1>6. PICK G : G = [n \in 1..k |-> EntryKept(svc.kind, svc.history[n])]
  OBVIOUS
<1>7. \A n \in 0..k : EntriesKept(svc, n) = [i \in 1..n |-> G[i]]
  BY <1>1, <1>6 DEF EntriesKept
<1>8. d["svc"] = V[0] /\ V[k] = WithHistory(kept, EntriesKept(svc, Len(svc.history)))
  <2>1. EntriesKept(svc, 0) = <<>>
    BY <1>7, OneMoreValue
  <2> QED
    BY <1>1, <1>4, <2>1
<1>9. ASSUME NEW n \in 1..k, NEW e, IsData(e), e["svc"] = V[n - 1]
      PROVE  Leads(F[n], t, e, ServiceLocals, "svc", V[n])
  <2>1. n - 1 \in 0..k /\ n \in 0..k /\ n \in Nat \ {0}
    BY <1>1
  <2>2. PICK h : h = EntriesKept(svc, n - 1)
    OBVIOUS
  <2>3. e.svc = WithHistory(kept, h)
    BY <1>4, <1>9, <2>1, <2>2
  <2>4. Append(h, EntryKept(svc.kind, svc.history[n])) = EntriesKept(svc, n)
    <3>1. Append([i \in 1..(n - 1) |-> G[i]], G[n]) = [i \in 1..n |-> G[i]]
      BY <2>1, OneMoreValue
    <3>2. G[n] = EntryKept(svc.kind, svc.history[n])
      BY <1>6
    <3> QED
      BY <1>7, <2>1, <2>2, <3>1, <3>2
  <2>5. Leads(Instance(svc, n), t, e, ServiceLocals, "svc",
              WithHistory(kept, Append(h, EntryKept(svc.kind, svc.history[n]))))
    BY <1>3, <1>5, <1>9, <2>3, InstanceRead
  <2> QED
    BY <1>4, <2>1, <2>4, <2>5
<1>10. \A n \in 1..k : \A e : Same(d, e, ServiceLocals) /\ e["svc"] = V[n - 1] =>
          Leads(F[n], t, e, ServiceLocals, "svc", V[n])
  BY <1>9, SameData
<1>11. ASSUME NEW n \in 1..k PROVE IsSeq(F[n])
  <2>1. Leads(Instance(svc, n), t, d, ServiceLocals, "svc",
              WithHistory(kept, Append(<<>>, EntryKept(svc.kind, svc.history[n]))))
    BY <1>3, <1>5, InstanceRead
  <2> QED
    BY <1>4, <2>1 DEF Leads
<1>12. Leads(FirstOnes(F, k), t, d, ServiceLocals, "svc", V[k])
  BY <1>8, <1>10, <1>11, LeadsEach
<1>13. FlattenSeq([n \in DOMAIN svc.history |-> Instance(svc, n)]) = FirstOnes(F, k)
  <2>1. [n \in DOMAIN svc.history |-> Instance(svc, n)] = [n \in 1..k |-> F[n]]
    BY <1>1, <1>4
  <2> QED
    BY <2>1 DEF FirstOnes
<1>14. P!Callee(d, "service", name) = "history" /\ IsSeq(FirstOnes(F, k))
  BY <1>2, <1>12, CalledFor DEF Leads
<1> QED
  BY <1>2, <1>8, <1>12, <1>13, <1>14, Through

\* A service.
LEMMA ServiceParts ==
  ASSUME NEW svc, NEW layout
  PROVE  ServiceDocument(svc, layout) =
           Element("TSPService",
             Element("ServiceInformation",
                     Period(svc, Unreadable(layout, "identity")) \o
                       Element("ServiceInformationExtensions", Qualifiers(svc.qualifiers) \o TakenOverBy)) \o
             Element("ServiceHistory", FlattenSeq([n \in DOMAIN svc.history |-> Instance(svc, n)])))
BY Zenon DEF ServiceDocument, Instance

ProviderLocals == ServiceLocals \cup {"tsp"}

LEMMA ServiceRead ==
  ASSUME KeysAreSound, NEW s, Within(s, "services"), NEW d, IsData(d), NEW svc, ServiceIsSound(svc),
         NEW layout
  PROVE  Leads(ServiceDocument(svc, layout), s, d, ProviderLocals, "tsp", Append(d.tsp, ServiceKept(svc, layout)))
<1>1. PICK name, t, c : /\ name = "TSPService" /\ t = Append(s, Frame("service", name))
                        /\ c = P!Fresh(d, "service")
  OBVIOUS
<1>2. Within(t, "service")
  BY <1>1, Entered
<1>3. "svc" \in Locals /\ "tsp" \in Locals /\ "tsp" \notin ServiceLocals /\ "svc" \in ServiceLocals
  BY DEF Locals, ServiceLocals
<1>4. IsData(c) /\ c.svc = P!EmptyService /\ Same(d, c, {"svc"})
  BY <1>1, <1>3, FreshData, AssignedValue, AssignedSame
<1>5. PICK a, b, others, kept, content :
        /\ others = Unreadable(layout, "identity") /\ kept = WithSpoilt(svc, Spoilt(layout))
        /\ a = Element("ServiceInformation",
                       Period(svc, others) \o Element("ServiceInformationExtensions",
                                                    Qualifiers(svc.qualifiers) \o TakenOverBy))
        /\ b = Element("ServiceHistory", FlattenSeq([n \in DOMAIN svc.history |-> Instance(svc, n)]))
        /\ content = a \o b
  OBVIOUS
<1>6. ServiceDocument(svc, layout) = Element(name, content)
  BY <1>1, <1>5, ServiceParts
<1>7. Leads(a, t, c, ServiceLocals, "svc", WithHistory(kept, <<>>))
  BY <1>2, <1>4, <1>5, UnreadableSpoils, InformationRead
<1>8. ASSUME NEW e, Same(c, e, ServiceLocals), e["svc"] = WithHistory(kept, <<>>)
      PROVE  Leads(b, t, e, ServiceLocals, "svc", ServiceKept(svc, layout))
  <2>1. IsData(e)
    BY <1>8, SameData
  <2> QED
    BY <1>2, <1>5, <1>8, <2>1, HistoryRead DEF ServiceKept
<1>9. Leads(content, t, c, ServiceLocals, "svc", ServiceKept(svc, layout))
  BY <1>5, <1>7, <1>8, LeadsThen
<1>10. PICK f : /\ IsSeq(content) /\ Reads(content, t, c, f) /\ Same(c, f, ServiceLocals)
                /\ f.svc = ServiceKept(svc, layout)
  BY <1>9 DEF Leads
<1>11. Same(d, f, ServiceLocals)
  <2>1. {"svc"} \subseteq ServiceLocals
    BY <1>3
  <2>2. Same(d, c, ServiceLocals)
    BY <1>4, <2>1, SameWithin
  <2> QED
    BY <1>10, <2>2, SameTwice
<1>12. IsData(f) /\ f.tsp = d.tsp
  BY <1>3, <1>11, SameData
<1>13. PICK e, all : e = Assign(f, "tsp", all) /\ all = Append(f.tsp, f.svc)
  OBVIOUS
<1>14. Reads(Element(name, content), s, d, e)
  <2>1. "services" \in Readers /\ "service" # "none" /\ "service" # "text"
    BY DEF Readers
  <2>2. P!Callee(d, "services", name) = "service"
    BY <1>1, CalledFor
  <2>3. Reads(Element(name, content), s, d, P!Returned(f, "service", name, "services"))
    BY <1>1, <1>10, <2>1, <2>2, ReadsCall
  <2>4. P!Returned(f, "service", name, "services") = e
    BY <1>13, ReturnsRecord
  <2> QED
    BY <2>3, <2>4
<1>15. e["tsp"] = Append(d.tsp, ServiceKept(svc, layout)) /\ Same(f, e, {"tsp"})
  <2>1. IsData(f) /\ "tsp" \in Locals /\ e = Assign(f, "tsp", all)
    BY <1>3, <1>12, <1>13
  <2>2. Same(f, e, {"tsp"})
    BY <2>1, AssignedSame
  <2>3. e["tsp"] = all
    BY <2>1, AssignedValue
  <2> QED
    BY <1>10, <1>12, <1>13, <2>2, <2>3
<1>16. Same(d, e, ProviderLocals)
  BY <1>11, <1>15, SameThen DEF ProviderLocals
<1> QED
  BY <1>6, <1>10, <1>14, <1>15, <1>16, ElementIsSeq DEF Leads

----------------------------------------------------------------------------
(* Providers.                                                              *)

AllSound(svcs) == svcs \in Seq(Range(svcs)) /\ \A n \in DOMAIN svcs : ServiceIsSound(svcs[n])
AllKept(svcs, layout) == [n \in DOMAIN svcs |-> ServiceKept(svcs[n], layout)]

LEMMA ServicesRead ==
  ASSUME KeysAreSound, NEW s, Within(s, "provider"), NEW d, IsData(d), d.tsp = <<>>,
         NEW svcs, AllSound(svcs), NEW layout
  PROVE  Leads(Element("TSPServices", FlattenSeq([n \in DOMAIN svcs |-> ServiceDocument(svcs[n], layout)])),
               s, d, ProviderLocals, "tsp", AllKept(svcs, layout))
<1>1. PICK k \in Nat : DOMAIN svcs = 1..k
  BY LenProperties DEF AllSound
<1>2. PICK name, t : name = "TSPServices" /\ t = Append(s, Frame("services", name))
  OBVIOUS
<1>3. Within(t, "services")
  BY <1>2, Entered
<1>4. PICK F, G, V : /\ F = [n \in 1..k |-> ServiceDocument(svcs[n], layout)]
                     /\ G = [n \in 1..k |-> ServiceKept(svcs[n], layout)]
                     /\ V = [n \in 0..k |-> [i \in 1..n |-> G[i]]]
  OBVIOUS
<1>5. \A n \in 1..k : ServiceIsSound(svcs[n])
  BY <1>1 DEF AllSound
<1>6. d["tsp"] = V[0] /\ V[k] = AllKept(svcs, layout)
  <2>1. [i \in 1..0 |-> G[i]] = <<>>
    BY OneMoreValue
  <2> QED
    BY <1>1, <1>4, <2>1 DEF AllKept
<1>7. ASSUME NEW n \in 1..k, NEW e, IsData(e)
      PROVE  Leads(F[n], t, e, ProviderLocals, "tsp", Append(e.tsp, G[n]))
  <2>1. Leads(ServiceDocument(svcs[n], layout), t, e, ProviderLocals, "tsp", Append(e.tsp, ServiceKept(svcs[n], layout)))
    BY <1>3, <1>5, <1>7, ServiceRead
  <2> QED
    BY <1>4, <2>1
<1>8. ASSUME NEW n \in 1..k, NEW e, IsData(e), e["tsp"] = V[n - 1]
      PROVE  Leads(F[n], t, e, ProviderLocals, "tsp", V[n])
  <2>1. n - 1 \in 0..k /\ n \in 0..k /\ n \in Nat \ {0}
    BY <1>1
  <2>2. Append([i \in 1..(n - 1) |-> G[i]], G[n]) = [i \in 1..n |-> G[i]]
    BY <2>1, OneMoreValue
  <2>3. Append(e.tsp, G[n]) = V[n]
    BY <1>4, <1>8, <2>1, <2>2
  <2> QED
    BY <1>7, <1>8, <2>3
<1>9. \A n \in 1..k : IsSeq(F[n]) /\ \A e : Same(d, e, ProviderLocals) /\ e["tsp"] = V[n - 1] =>
         Leads(F[n], t, e, ProviderLocals, "tsp", V[n])
  <2>1. \A n \in 1..k : IsSeq(F[n])
    BY <1>7 DEF Leads
  <2> QED
    BY <1>8, <2>1, SameData
<1>10. Leads(FirstOnes(F, k), t, d, ProviderLocals, "tsp", V[k])
  BY <1>6, <1>9, LeadsEach
<1>11. FlattenSeq([n \in DOMAIN svcs |-> ServiceDocument(svcs[n], layout)]) = FirstOnes(F, k)
  <2>1. [n \in DOMAIN svcs |-> ServiceDocument(svcs[n], layout)] = [n \in 1..k |-> F[n]]
    BY <1>1, <1>4
  <2> QED
    BY <2>1 DEF FirstOnes
<1>12. P!Callee(d, "provider", name) = "services" /\ IsSeq(FirstOnes(F, k))
  BY <1>2, <1>10, CalledFor DEF Leads
<1> QED
  BY <1>2, <1>6, <1>10, <1>11, <1>12, Through

\* The name of a provider leaves no trace.
LEMMA ProviderNameRead ==
  ASSUME NEW s, Within(s, "provider"), NEW d, IsData(d)
  PROVE  /\ IsSeq(Element("TSPInformation", Element("TSPName", Leaf("Name", <<"name">>))))
         /\ \E e : /\ Reads(Element("TSPInformation", Element("TSPName", Leaf("Name", <<"name">>))), s, d, e)
                   /\ Same(d, e, {"text", "found"})
<1>1. PICK a, b, leaf, text : /\ text = <<"name">> /\ leaf = Leaf("Name", text)
                              /\ a = Element("TSPName", leaf) /\ b = Element("TSPInformation", a)
  OBVIOUS
<1>2. PICK t, u, c : /\ t = Append(s, Frame("tspInformation", "TSPInformation"))
                     /\ u = Append(t, Frame("firstName", "TSPName")) /\ c = P!Fresh(d, "firstName")
  OBVIOUS
<1>3. Within(t, "tspInformation")
  BY <1>2, Entered
<1>4. Within(u, "firstName")
  BY <1>2, <1>3, Entered
<1>5. "found" \in Locals
  BY DEF Locals
<1>6. IsData(c) /\ c.found = <<>> /\ Same(d, c, {"found"})
  <2>1. c = Assign(d, "found", <<>>)
    BY <1>2, FreshData
  <2> QED
    BY <1>5, <2>1, AssignedValue, AssignedSame
<1>7. IsSeq(text)
  BY <1>1, OneElement
<1>8. PICK e : IsSeq(leaf) /\ Reads(leaf, u, c, e) /\ Same(c, e, {"text", "found"})
  BY <1>1, <1>4, <1>6, <1>7, FirstNameRead
<1>9. Same(d, e, {"text", "found"})
  <2>1. Same(d, c, {"text", "found"})
    BY <1>6, SameWithin
  <2> QED
    BY <1>8, <2>1, SameTwice
<1>10. Reads(a, t, d, e)
  <2>1. /\ "tspInformation" \in Readers /\ "firstName" # "text" /\ "firstName" # "none"
        /\ "firstName" \notin Records
    BY DEF Readers, Records
  <2>2. P!Callee(d, "tspInformation", "TSPName") = "firstName"
    BY CalledFor
  <2>3. Reads(a, t, d, P!Returned(e, "firstName", "TSPName", "tspInformation"))
    BY <1>1, <1>2, <1>3, <1>8, <2>1, <2>2, ReadsCall
  <2>4. P!Returned(e, "firstName", "TSPName", "tspInformation") = e
    BY <2>1, ReturnsNothing
  <2> QED
    BY <2>3, <2>4
<1>11. IsSeq(a) /\ IsSeq(b)
  BY <1>1, <1>8, ElementIsSeq
<1>12. Reads(b, s, d, e)
  <2>1. P!Callee(d, "provider", "TSPInformation") = "tspInformation"
    BY CalledFor
  <2> QED
    BY <1>1, <1>2, <1>10, <1>11, <2>1, Through
<1> QED
  BY <1>1, <1>9, <1>11, <1>12

ListLocals == ProviderLocals \cup {"providers"}

LEMMA ProviderRead ==
  ASSUME KeysAreSound, NEW s, Within(s, "providers"), NEW d, IsData(d),
         NEW svcs, AllSound(svcs), NEW layout
  PROVE  Leads(Provider(svcs, layout), s, d, ListLocals, "providers", Append(d.providers, AllKept(svcs, layout)))
<1>1. PICK name, t, c : /\ name = "TrustServiceProvider" /\ t = Append(s, Frame("provider", name))
                        /\ c = P!Fresh(d, "provider")
  OBVIOUS
<1>2. Within(t, "provider")
  BY <1>1, Entered
<1>3. "tsp" \in Locals /\ "providers" \in Locals /\ "providers" \notin ProviderLocals
  BY DEF Locals, ProviderLocals, ServiceLocals
<1>4. IsData(c) /\ c.tsp = <<>> /\ Same(d, c, {"tsp"})
  <2>1. c = Assign(d, "tsp", <<>>)
    BY <1>1, FreshData
  <2> QED
    BY <1>3, <2>1, AssignedValue, AssignedSame
<1>5. PICK a, b, content :
        /\ a = Element("TSPInformation", Element("TSPName", Leaf("Name", <<"name">>)))
        /\ b = Element("TSPServices", FlattenSeq([n \in DOMAIN svcs |-> ServiceDocument(svcs[n], layout)]))
        /\ content = a \o b
  OBVIOUS
<1>6. Provider(svcs, layout) = Element(name, content)
  BY <1>1, <1>5 DEF Provider
<1>7. PICK e : IsSeq(a) /\ Reads(a, t, c, e) /\ Same(c, e, {"text", "found"})
  BY <1>2, <1>4, <1>5, ProviderNameRead
<1>8. IsData(e) /\ e.tsp = <<>>
  <2>1. "tsp" \in Locals \ {"text", "found"}
    BY <1>3
  <2> QED
    BY <1>4, <1>7, <2>1, SameData
<1>9. Leads(b, t, e, ProviderLocals, "tsp", AllKept(svcs, layout))
  BY <1>2, <1>5, <1>8, ServicesRead
<1>10. PICK f : IsSeq(b) /\ Reads(b, t, e, f) /\ Same(e, f, ProviderLocals) /\ f.tsp = AllKept(svcs, layout)
  BY <1>9 DEF Leads
<1>11. Reads(content, t, c, f) /\ IsSeq(content)
  BY <1>5, <1>7, <1>10, ReadsThen
<1>12. Same(d, f, ProviderLocals)
  <2>1. {"text", "found"} \subseteq ProviderLocals /\ {"tsp"} \subseteq ProviderLocals
    BY DEF ProviderLocals, ServiceLocals
  <2>2. Same(d, c, ProviderLocals) /\ Same(c, e, ProviderLocals)
    BY <1>4, <1>7, <2>1, SameWithin
  <2> QED
    BY <1>10, <2>2, SameTwice
<1>13. IsData(f) /\ f.providers = d.providers
  BY <1>3, <1>12, SameData
<1>14. PICK g, all : g = Assign(f, "providers", all) /\ all = Append(f.providers, f.tsp)
  OBVIOUS
<1>15. Reads(Element(name, content), s, d, g)
  <2>1. "providers" \in Readers /\ "provider" # "none" /\ "provider" # "text"
    BY DEF Readers
  <2>2. P!Callee(d, "providers", name) = "provider"
    BY <1>1, CalledFor
  <2>3. Reads(Element(name, content), s, d, P!Returned(f, "provider", name, "providers"))
    BY <1>1, <1>11, <2>1, <2>2, ReadsCall
  <2>4. P!Returned(f, "provider", name, "providers") = g
    BY <1>14, ReturnsRecord
  <2> QED
    BY <2>3, <2>4
<1>16. IsData(f) /\ "providers" \in Locals /\ g = Assign(f, "providers", all)
  BY <1>3, <1>13, <1>14
<1>17. g["providers"] = Append(d.providers, AllKept(svcs, layout))
  <2>1. g["providers"] = all
    BY <1>16, AssignedValue
  <2> QED
    BY <1>10, <1>13, <1>14, <2>1
<1>18. Same(d, g, ListLocals)
  <2>1. Same(f, g, {"providers"})
    BY <1>16, AssignedSame
  <2> QED
    BY <1>12, <2>1, SameThen DEF ListLocals
<1> QED
  BY <1>6, <1>11, <1>15, <1>17, <1>18, ElementIsSeq DEF Leads

\* The elements of the list of providers, and what is kept of them.
ProvidersListed(svcs, layout) ==
  IF layout.together THEN Provider(svcs, layout)
  ELSE FlattenSeq([n \in DOMAIN svcs |-> Provider(<<svcs[n]>>, layout)])
ProvidersKept(svcs, layout) ==
  IF layout.together THEN <<AllKept(svcs, layout)>> ELSE [n \in DOMAIN svcs |-> AllKept(<<svcs[n]>>, layout)]

LEMMA OneService ==
  ASSUME NEW svc, ServiceIsSound(svc)
  PROVE  AllSound(<<svc>>) /\ <<svc>> # <<>>
<1>1. PICK q : q = <<svc>>
  OBVIOUS
<1>2. IsSeq(q) /\ DOMAIN q = {1} /\ q[1] = svc /\ q # <<>>
  BY <1>1, OneElement
<1> QED
  BY <1>1, <1>2 DEF AllSound, IsSeq

LEMMA ProvidersRead ==
  ASSUME KeysAreSound, NEW s, Within(s, "list"), NEW d, IsData(d), d.providers = <<>>,
         NEW svcs, AllSound(svcs), NEW layout
  PROVE  Leads(Element("TrustServiceProviderList", ProvidersListed(svcs, layout)), s, d, ListLocals, "providers",
               ProvidersKept(svcs, layout))
<1>1. PICK k \in Nat : DOMAIN svcs = 1..k
  BY LenProperties DEF AllSound
<1>2. PICK name, t : name = "TrustServiceProviderList" /\ t = Append(s, Frame("providers", name))
  OBVIOUS
<1>3. Within(t, "providers")
  BY <1>2, Entered
<1>4. PICK content, v : content = ProvidersListed(svcs, layout) /\ v = ProvidersKept(svcs, layout)
  OBVIOUS
<1>5. CASE layout.together
  <2>1. content = Provider(svcs, layout) /\ v = <<AllKept(svcs, layout)>>
    BY <1>4, <1>5 DEF ProvidersListed, ProvidersKept
  <2>2. Leads(content, t, d, ListLocals, "providers", Append(d.providers, AllKept(svcs, layout)))
    BY <1>3, <2>1, ProviderRead
  <2>3. Append(<<>>, AllKept(svcs, layout)) = <<AllKept(svcs, layout)>>
    OBVIOUS
  <2>4. Leads(content, t, d, ListLocals, "providers", v)
    BY <2>1, <2>2, <2>3
  <2> QED
    <3>1. P!Callee(d, "list", name) = "providers" /\ IsSeq(content)
      BY <1>2, <2>4, CalledFor DEF Leads
    <3> QED
      BY <1>2, <1>4, <2>4, <3>1, Through
<1>6. CASE ~layout.together
  <2>1. PICK F, G, V : /\ F = [n \in 1..k |-> Provider(<<svcs[n]>>, layout)]
                       /\ G = [n \in 1..k |-> AllKept(<<svcs[n]>>, layout)]
                       /\ V = [n \in 0..k |-> [i \in 1..n |-> G[i]]]
    OBVIOUS
  <2>2. \A n \in 1..k : AllSound(<<svcs[n]>>)
    BY <1>1, OneService DEF AllSound
  <2>3. d["providers"] = V[0] /\ V[k] = v
    <3>1. [i \in 1..0 |-> G[i]] = <<>>
      BY OneMoreValue
    <3>2. 0 \in 0..k /\ k \in 0..k
      BY <1>1
    <3>3. V[0] = <<>> /\ V[k] = [i \in 1..k |-> G[i]]
      BY <2>1, <3>1, <3>2
    <3>4. v = [n \in DOMAIN svcs |-> AllKept(<<svcs[n]>>, layout)]
      BY <1>4, <1>6 DEF ProvidersKept
    <3>5. v = [i \in 1..k |-> G[i]]
      BY <1>1, <2>1, <3>4
    <3> QED
      BY <3>3, <3>5
  <2>4. ASSUME NEW n \in 1..k, NEW e, IsData(e)
        PROVE  Leads(F[n], t, e, ListLocals, "providers", Append(e.providers, G[n]))
    <3>1. PICK one : one = <<svcs[n]>>
      OBVIOUS
    <3>2. AllSound(one)
      BY <2>2, <3>1
    <3>3. Leads(Provider(one, layout), t, e, ListLocals, "providers", Append(e.providers, AllKept(one, layout)))
      BY <1>3, <2>4, <3>2, ProviderRead
    <3> QED
      BY <2>1, <3>1, <3>3
  <2>5. ASSUME NEW n \in 1..k, NEW e, IsData(e), e["providers"] = V[n - 1]
        PROVE  Leads(F[n], t, e, ListLocals, "providers", V[n])
    <3>1. n - 1 \in 0..k /\ n \in 0..k /\ n \in Nat \ {0}
      BY <1>1
    <3>2. Append([i \in 1..(n - 1) |-> G[i]], G[n]) = [i \in 1..n |-> G[i]]
      BY <3>1, OneMoreValue
    <3>3. Append(e.providers, G[n]) = V[n]
      BY <2>1, <2>5, <3>1, <3>2
    <3> QED
      BY <2>4, <2>5, <3>3
  <2>6. \A n \in 1..k : IsSeq(F[n]) /\ \A e : Same(d, e, ListLocals) /\ e["providers"] = V[n - 1] =>
           Leads(F[n], t, e, ListLocals, "providers", V[n])
    <3>1. \A n \in 1..k : IsSeq(F[n])
      BY <2>4 DEF Leads
    <3> QED
      BY <2>5, <3>1, SameData
  <2>7. Leads(FirstOnes(F, k), t, d, ListLocals, "providers", V[k])
    BY <2>3, <2>6, LeadsEach
  <2>8. content = FirstOnes(F, k)
    <3>1. [n \in DOMAIN svcs |-> Provider(<<svcs[n]>>, layout)] = [n \in 1..k |-> F[n]]
      BY <1>1, <2>1
    <3> QED
      BY <1>4, <1>6, <3>1 DEF FirstOnes, ProvidersListed
  <2>9. Leads(content, t, d, ListLocals, "providers", v)
    BY <2>3, <2>7, <2>8
  <2> QED
    <3>1. P!Callee(d, "list", name) = "providers" /\ IsSeq(content)
      BY <1>2, <2>9, CalledFor DEF Leads
    <3> QED
      BY <1>2, <1>4, <2>9, <3>1, Through
<1> QED
  BY <1>5, <1>6

----------------------------------------------------------------------------
(* The scheme information.                                                 *)

LEMMA CountedCall ==
  ASSUME NEW s, Within(s, "scheme"), NEW called \in P!Counting, NEW name, NEW content, NEW d, NEW e,
         P!Callee(d, "scheme", name) = called, IsSeq(content),
         Counts(called, content, P!Fresh(d, called), e)
  PROVE  Reads(Element(name, content), s, d, P!Returned(e, called, name, "scheme"))
<1>1. PICK c, t : c = P!Fresh(d, called) /\ t = Append(s, Frame(called, name))
  OBVIOUS
<1>2. Reads(content, t, c, e)
  <2>1. t = Append(s, Counter(called, name, 1)) /\ 1 \in Nat \ {0} /\ IsSeq(s)
    BY <1>1, CounterParts DEF Within
  <2> QED
    BY <1>1, <2>1 DEF Counts
<1>3. called # "none" /\ called # "text" /\ "scheme" \in Readers
  BY DEF P!Counting, Readers
<1> QED
  BY <1>1, <1>2, <1>3, ReadsCall

LEMMA SchemeTypeRead ==
  ASSUME NEW s, Within(s, "scheme"), NEW d, IsData(d), d.scheme_type = <<>>, NEW t1, NEW t2, NEW q,
         q = Element("SchemeTypeCommunityRules", Leaf("URI", t1) \o Leaf("URI", t2))
  PROVE  IsSeq(q) /\ \E e : Reads(q, s, d, e) /\ Same(d, e, {"text", "scheme_type"})
<1>1. PICK a, b, c : a = Leaf("URI", t1) /\ b = Leaf("URI", t2) /\ c = P!Fresh(d, "inside")
  OBVIOUS
<1>2. "text" \in Locals /\ "scheme_type" \in Locals
  BY DEF Locals
<1>3. IsData(c) /\ Same(d, c, {"text"})
  <2>1. c = Assign(d, "text", <<>>)
    BY <1>1, FreshData
  <2> QED
    BY <1>2, <2>1, AssignedValue, AssignedSame
<1>4. PICK e1 : e1 = Assign(c, "text", c.text \o t1)
  OBVIOUS
<1>5. IsData(e1) /\ Same(c, e1, {"text"})
  BY <1>2, <1>3, <1>4, AssignedValue, AssignedSame
<1>6. PICK e2 : e2 = Assign(e1, "text", e1.text \o t2)
  OBVIOUS
<1>7. IsData(e2) /\ Same(e1, e2, {"text"})
  BY <1>2, <1>5, <1>6, AssignedValue, AssignedSame
<1>8. IsSeq(a) /\ IsSeq(b) /\ Counts("inside", a, c, e1) /\ Counts("inside", b, e1, e2)
  BY <1>1, <1>4, <1>6, CountsLeaf
<1>9. IsSeq(a \o b) /\ Counts("inside", a \o b, c, e2)
  BY <1>8, Joined, CountsThen
<1>10. PICK f, uri : uri = <<P!Uri(e2.text)>> /\ f = Assign(e2, "scheme_type", uri)
  OBVIOUS
<1>11. Reads(q, s, d, f)
  <2>1. "inside" \in P!Counting /\ "inside" \notin Records
    BY DEF P!Counting, Records
  <2>2. P!Callee(d, "scheme", "SchemeTypeCommunityRules") = "inside"
    BY CalledFor
  <2>3. PICK content : content = a \o b
    OBVIOUS
  <2>4. IsSeq(content) /\ Counts("inside", content, P!Fresh(d, "inside"), e2)
    BY <1>1, <1>9, <2>3
  <2>5. Reads(Element("SchemeTypeCommunityRules", content), s, d,
              P!Returned(e2, "inside", "SchemeTypeCommunityRules", "scheme"))
    BY <2>1, <2>2, <2>4, CountedCall
  <2>6. P!Returned(e2, "inside", "SchemeTypeCommunityRules", "scheme") = f
    BY <1>10, <2>1, ReturnsToScheme
  <2> QED
    BY <1>1, <2>3, <2>5, <2>6
<1>12. Same(d, f, {"text", "scheme_type"})
  <2>1. Same(e2, f, {"scheme_type"})
    BY <1>2, <1>7, <1>10, AssignedSame
  <2>2. Same(d, e2, {"text"})
    BY <1>3, <1>5, <1>7, SameTwice
  <2>3. Same(e2, f, {"text", "scheme_type"}) /\ Same(d, e2, {"text", "scheme_type"})
    BY <2>1, <2>2, SameWithin
  <2> QED
    BY <2>3, SameTwice
<1> QED
  BY <1>1, <1>9, <1>11, <1>12, ElementIsSeq

LEMMA TerritoryRead ==
  ASSUME NEW s, Within(s, "scheme"), NEW d, IsData(d), NEW text, IsSeq(text)
  PROVE  Leads(Leaf("SchemeTerritory", text), s, d, {"text", "territory"}, "territory", text)
<1>1. PICK f : f = Assign(d, "text", text)
  OBVIOUS
<1>2. "text" \in Locals /\ "territory" \in Locals
  BY DEF Locals
<1>3. IsData(f) /\ f["text"] = text /\ Same(d, f, {"text"})
  BY <1>1, <1>2, AssignedValue, AssignedSame
<1>4. PICK e : e = Assign(f, "territory", text)
  OBVIOUS
<1>5. Same(f, e, {"territory"}) /\ e["territory"] = text
  BY <1>2, <1>3, <1>4, AssignedValue, AssignedSame
<1>6. IsSeq(Leaf("SchemeTerritory", text)) /\ Reads(Leaf("SchemeTerritory", text), s, d, e)
  <2>1. "scheme" \notin P!Counting /\ Named("scheme") /\ "scheme" # "information" /\ "text" \notin Records
    BY ReadersRead, ReadersNamed DEF Readers, Records
  <2>2. P!Callee(d, "scheme", "SchemeTerritory") = "text"
    BY CalledFor
  <2>3. /\ IsSeq(Leaf("SchemeTerritory", text))
        /\ Reads(Leaf("SchemeTerritory", text), s, d, P!Returned(f, "text", "SchemeTerritory", "scheme"))
    BY <1>1, <2>1, <2>2, LeafRead
  <2>4. P!Returned(f, "text", "SchemeTerritory", "scheme") = e
    BY <1>3, <1>4, <2>1, ReturnsToScheme
  <2> QED
    BY <2>3, <2>4
<1>7. Same(d, e, {"text", "territory"})
  <2>1. Same(d, f, {"text", "territory"}) /\ Same(f, e, {"text", "territory"})
    BY <1>3, <1>5, SameWithin
  <2> QED
    BY <2>1, SameTwice
<1> QED
  BY <1>5, <1>6, <1>7 DEF Leads

\* A list pointed to: its territory and its certificates are skipped.
LEMMA PointersRead ==
  ASSUME NEW s, Within(s, "scheme"), NEW d, NEW text, NEW layout, NEW q,
         q = Element("PointersToOtherTSL",
                     Leaf("SchemeTerritory", text) \o Identity({}, Unreadable(layout, "pointer")))
  PROVE  IsSeq(q) /\ Reads(q, s, d, d)
<1>1. PICK a, b, other : /\ a = Leaf("SchemeTerritory", text) /\ b = Identity({}, other)
                         /\ other = Unreadable(layout, "pointer")
  OBVIOUS
<1>2. "skip" \in P!Counting /\ "skip" \notin Records
  BY DEF P!Counting, Records
<1>3. IsSeq(a) /\ Counts("skip", a, d, d)
  BY <1>1, CountsLeaf
<1>4. IsSeq(<<>>) /\ Counts("skip", <<>>, d, d)
  BY OneElement, ReadsNothing DEF Counts
<1>5. IsSeq(other) /\ Counts("skip", other, d, d)
  <2>1. PICK leaf : leaf = Leaf("X509Certificate", <<"garbage">>)
    OBVIOUS
  <2>2. IsSeq(leaf) /\ Counts("skip", leaf, d, d)
    BY <2>1, CountsLeaf
  <2>3. IsSeq(Element("DigitalId", leaf)) /\ Counts("skip", Element("DigitalId", leaf), d, d)
    BY <1>2, <2>2, CountsElement, ElementIsSeq
  <2>4. Certificate("garbage") = Element("DigitalId", leaf)
    BY <2>1 DEF Certificate
  <2> QED
    BY <1>1, <1>4, <2>3, <2>4 DEF Unreadable
<1>6. Certificates({}) = <<>>
  <2>1. PICK k \in Nat : DOMAIN SetToSeq({}) = 1..k /\ \A n \in 1..k : SetToSeq({})[n] \in {}
    BY InSomeOrder, FS_EmptySet
  <2>2. k = 0
    BY <2>1
  <2>3. PICK F : F = [n \in 1..0 |-> Certificate(SetToSeq({})[n])]
    OBVIOUS
  <2>4. [n \in DOMAIN SetToSeq({}) |-> Certificate(SetToSeq({})[n])] = [n \in 1..0 |-> F[n]]
    BY <2>1, <2>2, <2>3
  <2> QED
    BY <2>4, NoPieces DEF Certificates, FirstOnes
<1>7. IsSeq(b) /\ Counts("skip", b, d, d)
  <2>1. b = Element("ServiceDigitalIdentity", other)
    BY <1>1, <1>5, <1>6, NothingJoined DEF Identity
  <2> QED
    BY <1>2, <1>5, <2>1, CountsElement, ElementIsSeq
<1>8. PICK content : content = a \o b
  OBVIOUS
<1>9. IsSeq(content) /\ Counts("skip", content, P!Fresh(d, "skip"), d)
  <2>1. P!Fresh(d, "skip") = d
    BY FreshData
  <2> QED
    BY <1>3, <1>7, <1>8, <2>1, Joined, CountsThen
<1>10. Reads(Element("PointersToOtherTSL", content), s, d, d)
  <2>1. P!Callee(d, "scheme", "PointersToOtherTSL") = "skip"
    BY CalledFor
  <2>2. Reads(Element("PointersToOtherTSL", content), s, d, P!Returned(d, "skip", "PointersToOtherTSL", "scheme"))
    BY <1>2, <1>9, <2>1, CountedCall
  <2>3. P!Returned(d, "skip", "PointersToOtherTSL", "scheme") = d
    BY <1>2, ReturnsToScheme
  <2> QED
    BY <2>2, <2>3
<1> QED
  BY <1>1, <1>8, <1>9, <1>10, ElementIsSeq

LEMMA NextUpdateRead ==
  ASSUME NEW s, Within(s, "scheme"), NEW d, IsData(d), NEW time
  PROVE  Leads(Element("NextUpdate", Leaf("dateTime", <<"time", time>>)), s, d, {"text", "next_update"},
               "next_update", time)
<1>1. PICK text, a, c : text = <<"time", time>> /\ a = Leaf("dateTime", text) /\ c = P!Fresh(d, "inside")
  OBVIOUS
<1>2. "text" \in Locals /\ "next_update" \in Locals
  BY DEF Locals
<1>3. IsSeq(text)
  <2>1. <<"time", time>> \in Seq({"time", time})
    OBVIOUS
  <2> QED
    BY <1>1, <2>1, OfItsRange DEF IsSeq
<1>4. IsData(c) /\ c["text"] = <<>> /\ Same(d, c, {"text"})
  <2>1. c = Assign(d, "text", <<>>)
    BY <1>1, FreshData
  <2> QED
    BY <1>2, <2>1, AssignedValue, AssignedSame
<1>5. PICK f : f = Assign(c, "text", text)
  OBVIOUS
<1>6. IsData(f) /\ f["text"] = text /\ Same(c, f, {"text"})
  BY <1>2, <1>4, <1>5, AssignedValue, AssignedSame
<1>7. IsSeq(a) /\ Counts("inside", a, c, f)
  <2>1. IsSeq(a) /\ Counts("inside", a, c, Assign(c, "text", c.text \o text))
    BY <1>1, CountsLeaf
  <2>2. c.text \o text = text
    BY <1>3, <1>4, NothingJoined
  <2> QED
    BY <1>5, <2>1, <2>2
<1>8. PICK e : e = Assign(f, "next_update", time)
  OBVIOUS
<1>9. Same(f, e, {"next_update"}) /\ e["next_update"] = time
  BY <1>2, <1>6, <1>8, AssignedValue, AssignedSame
<1>10. Reads(Element("NextUpdate", a), s, d, e)
  <2>1. "inside" \in P!Counting /\ "inside" \notin Records
    BY DEF P!Counting, Records
  <2>2. P!Callee(d, "scheme", "NextUpdate") = "inside"
    BY CalledFor
  <2>3. Reads(Element("NextUpdate", a), s, d, P!Returned(f, "inside", "NextUpdate", "scheme"))
    BY <1>1, <1>7, <2>1, <2>2, CountedCall
  <2>4. P!Returned(f, "inside", "NextUpdate", "scheme") = Assign(f, "next_update", P!parse_datetime(f.text))
    BY <2>1, ReturnsToScheme
  <2>5. P!parse_datetime(f.text) = time
    BY <1>1, <1>6, TextRead
  <2> QED
    BY <1>8, <2>3, <2>4, <2>5
<1>11. Same(d, e, {"text", "next_update"})
  <2>1. Same(d, f, {"text"})
    BY <1>4, <1>6, SameTwice
  <2>2. Same(d, f, {"text", "next_update"}) /\ Same(f, e, {"text", "next_update"})
    BY <1>9, <2>1, SameWithin
  <2> QED
    BY <2>2, SameTwice
<1> QED
  BY <1>1, <1>7, <1>9, <1>10, <1>11, ElementIsSeq DEF Leads

LEMMA SchemeRead ==
  ASSUME NEW s, Within(s, "list"), NEW d, IsData(d), d.scheme_type = <<>>, NEW layout
  PROVE  /\ IsSeq(Scheme(layout))
         /\ \E e : /\ Reads(Scheme(layout), s, d, e)
                   /\ Same(d, e, {"text", "scheme_type", "territory", "next_update"})
                   /\ e.territory = <<"home">> /\ e.next_update = MaxTime
<1>1. PICK name, t : name = "SchemeInformation" /\ t = Append(s, Frame("scheme", name))
  OBVIOUS
<1>2. Within(t, "scheme")
  BY <1>1, Entered
<1>3. PICK home : home = <<"home">> /\ IsSeq(home)
  BY OneElement
<1>4. PICK a, b, c, g, content :
        /\ a = Element("SchemeTypeCommunityRules", Leaf("URI", <<"EU">>) \o Leaf("URI", <<"other">>))
        /\ b = Leaf("SchemeTerritory", home)
        /\ c = Element("PointersToOtherTSL",
                       Leaf("SchemeTerritory", <<"abroad">>) \o Identity({}, Unreadable(layout, "pointer")))
        /\ g = Element("NextUpdate", Leaf("dateTime", <<"time", MaxTime>>))
        /\ content = ((a \o b) \o c) \o g
  OBVIOUS
<1>5. Scheme(layout) = Element(name, content)
  BY <1>1, <1>3, <1>4 DEF Scheme
<1>6. PICK F : F = {"text", "scheme_type", "territory", "next_update"}
  OBVIOUS
<1>7. "territory" \in Locals
  BY DEF Locals
<1>8. PICK d1 : IsSeq(a) /\ Reads(a, t, d, d1) /\ Same(d, d1, {"text", "scheme_type"})
  BY <1>2, <1>4, SchemeTypeRead
<1>9. PICK d2 : IsSeq(b) /\ Reads(b, t, d1, d2) /\ Same(d1, d2, {"text", "territory"}) /\ d2.territory = home
  <2>1. IsData(d1)
    BY <1>8, SameData
  <2>2. Leads(b, t, d1, {"text", "territory"}, "territory", home)
    BY <1>2, <1>3, <1>4, <2>1, TerritoryRead
  <2> QED
    BY <2>2 DEF Leads
<1>10. IsSeq(c) /\ Reads(c, t, d2, d2)
  BY <1>2, <1>4, PointersRead
<1>11. PICK e : IsSeq(g) /\ Reads(g, t, d2, e) /\ Same(d2, e, {"text", "next_update"}) /\ e.next_update = MaxTime
  <2>1. IsData(d2)
    BY <1>9, SameData
  <2>2. Leads(g, t, d2, {"text", "next_update"}, "next_update", MaxTime)
    BY <1>2, <1>4, <2>1, NextUpdateRead
  <2> QED
    BY <2>2 DEF Leads
<1>12. Reads(content, t, d, e) /\ IsSeq(content)
  <2>1. Reads(a \o b, t, d, d2) /\ IsSeq(a \o b)
    BY <1>8, <1>9, ReadsThen
  <2>2. Reads((a \o b) \o c, t, d, d2) /\ IsSeq((a \o b) \o c)
    BY <1>10, <2>1, ReadsThen
  <2> QED
    BY <1>4, <1>11, <2>2, ReadsThen
<1>13. Same(d, e, F)
  <2>1. {"text", "scheme_type"} \subseteq F /\ {"text", "territory"} \subseteq F /\ {"text", "next_update"} \subseteq F
    BY <1>6
  <2>2. Same(d, d1, F) /\ Same(d1, d2, F) /\ Same(d2, e, F)
    BY <1>8, <1>9, <1>11, <2>1, SameWithin
  <2> QED
    BY <2>2, SameTwice
<1>14. e.territory = home
  BY <1>7, <1>9, <1>11, SameData
<1>15. Reads(Element(name, content), s, d, e)
  <2>1. P!Callee(d, "list", name) = "scheme"
    BY <1>1, CalledFor
  <2> QED
    BY <1>1, <1>12, <2>1, Through
<1> QED
  BY <1>3, <1>5, <1>6, <1>11, <1>12, <1>13, <1>14, <1>15, ElementIsSeq

----------------------------------------------------------------------------
(* The whole document.                                                     *)

\* As parse_trusted_list is called, and what ends its call.
NoName == ""
Bottom == <<[fn |-> "list", closing |-> NoName, depth |-> 1]>>

LEMMA NamesDiffer ==
  /\ NoName \notin {"TrustServiceStatusList", "Signature"}
  /\ NoName \notin {"scheme", "firstName", "country", "information", "instance", "identity"}
  /\ ~Named(NoName)
BY Zenon DEF NoName, Named

LEMMA BottomParts ==
  /\ InCall(Bottom, "list", NoName) /\ Len(Bottom) = 1 /\ SubSeq(Bottom, 1, 0) = <<>>
  /\ Caller(Bottom) = NoName
<1>1. PICK f, name : f = [fn |-> "list", closing |-> name, depth |-> 1] /\ name = NoName
  OBVIOUS
<1>2. PICK s : s = <<f>>
  OBVIOUS
<1>3. IsSeq(s) /\ s # <<>> /\ Len(s) = 1 /\ s[1] = f /\ SubSeq(s, 1, 0) = <<>>
  BY <1>2, OneElement
<1>4. s = Bottom
  BY <1>1, <1>2 DEF Bottom
<1>5. InCall(s, "list", name)
  BY <1>1, <1>3 DEF InCall, Within
<1>6. Caller(s) = NoName
  BY <1>3, Zenon DEF Caller, NoName
<1> QED
  BY <1>1, <1>3, <1>4, <1>5, <1>6

LEMMA EndOfInput ==
  ASSUME NEW e
  PROVE  Turn(At(<<>>, Bottom, e)) = <<<<>>, <<>>, e, "Ok">>
<1>1. PICK s : s = Bottom
  OBVIOUS
<1>2. /\ s # <<>> /\ s[Len(s)].fn = "list" /\ SubSeq(s, 1, Len(s) - 1) = <<>>
      /\ Caller(s) = NoName /\ s[Len(s)].closing = NoName
  <2>1. InCall(s, "list", NoName) /\ Len(s) = 1 /\ SubSeq(s, 1, 0) = <<>> /\ Caller(s) = NoName
    BY <1>1, BottomParts
  <2> QED
    BY <2>1 DEF InCall, Within
<1>3. Turn(At(<<>>, s, e)) = Back(<<>>, s, e, "none")
  BY <1>2 DEF Turn, At
<1>4. ~Named(Caller(s))
  BY <1>2, NamesDiffer
<1>5. P!Returned(e, "list", NoName, NoName) = e
  <2>1. PICK name : name = NoName
    OBVIOUS
  <2>2. name \notin {"scheme", "firstName", "country", "information", "instance", "identity"}
    BY <2>1, NamesDiffer
  <2>3. P!Returned(e, "list", name, name) = e
    BY <2>2 DEF P!Returned
  <2> QED
    BY <2>1, <2>3
<1>6. Back(<<>>, s, e, "none") = <<<<>>, <<>>, e, "Ok">>
  BY <1>2, <1>4, <1>5 DEF Back
<1> QED
  BY <1>1, <1>3, <1>6

Other == Event("other", "", <<>>)

LEMMA OtherRead ==
  ASSUME NEW s, s # <<>>, s[Len(s)].fn # "text", NEW d
  PROVE  Reads(<<Other>>, s, d, d) /\ IsSeq(<<Other>>)
<1>1. PICK e : e = Other
  OBVIOUS
<1>2. e.kind = "other"
  <2>1. \E name, val : e = Event("other", name, val)
    BY <1>1, Zenon DEF Other
  <2> QED
    BY <2>1, EventParts
<1>3. ASSUME NEW rest, IsSeq(rest)
      PROVE  Turn(At(<<e>> \o rest, s, d)) = At(rest, s, d)
  <2>1. Turn(At(<<e>> \o rest, s, d)) = OnEvent(e, rest, s, d, "none")
    BY <1>3, TurnOnEvent
  <2> QED
    BY <1>2, <2>1 DEF OnEvent, At
<1>4. ASSUME NEW rest, IsSeq(rest) PROVE Anew(At(<<e>> \o rest, s, d))
  <2>1. e.kind \in Kinds
    BY <1>2 DEF Kinds
  <2> QED
    BY <1>4, <2>1, AnewElse
<1>5. Reads(<<e>>, s, d, d)
  BY <1>3, <1>4, ReachStep, ReachStays DEF Reads
<1> QED
  BY <1>1, <1>5, OneElement

LEMMA DocumentParts ==
  ASSUME NEW svcs, NEW layout
  PROVE  Document(svcs, layout) =
           <<Other>> \o Element("TrustServiceStatusList",
             (Scheme(layout) \o Element("TrustServiceProviderList", ProvidersListed(svcs, layout)))
               \o Element("Signature", <<>>))
BY Zenon DEF Document, Other, ProvidersListed

\* Where a whole document of the services leads, if no certificate ends the
\* call on the way.
AsPublished(f, svcs, layout) ==
  /\ f[2] = <<>> /\ f[4] = "Ok"
  /\ f[3].providers = ProvidersKept(svcs, layout)
  /\ f[3].territory = <<"home">> /\ f[3].next_update = MaxTime

LEMMA NoDataParts ==
  IsData(P!NoData) /\ P!NoData.scheme_type = <<>> /\ P!NoData.providers = <<>>
BY DEF P!NoData, IsData, Locals

LEMMA DocumentEnds ==
  ASSUME KeysAreSound, NEW svcs, AllSound(svcs), NEW layout
  PROVE  \E f : Reach(At(Document(svcs, layout), Bottom, P!NoData), f) /\ AsPublished(f, svcs, layout)
<1>1. PICK d, s : d = P!NoData /\ s = Bottom
  OBVIOUS
<1>2. IsData(d) /\ d.scheme_type = <<>> /\ d.providers = <<>>
  BY <1>1, NoDataParts
<1>3. Within(s, "list") /\ s[Len(s)].closing = NoName /\ s # <<>> /\ "list" \notin P!Counting /\ "list" # "text"
  BY <1>1, BottomParts, ReadersRead DEF InCall, Within, Readers
<1>4. PICK a, b, c, g, h :
        /\ a = <<Other>> /\ b = Scheme(layout)
        /\ c = Element("TrustServiceProviderList", ProvidersListed(svcs, layout))
        /\ g = Element("Signature", <<>>)
        /\ h = Element("TrustServiceStatusList", (b \o c) \o g)
  OBVIOUS
<1>5. Document(svcs, layout) = a \o h
  BY <1>4, DocumentParts
<1>6. IsSeq(a) /\ Reads(a, s, d, d)
  BY <1>3, <1>4, OtherRead DEF Within
<1>7. PICK e : /\ IsSeq(b) /\ Reads(b, s, d, e)
               /\ Same(d, e, {"text", "scheme_type", "territory", "next_update"})
               /\ e.territory = <<"home">> /\ e.next_update = MaxTime
  BY <1>2, <1>3, <1>4, SchemeRead
<1>8. IsData(e) /\ e.providers = <<>>
  <2>1. "providers" \in Locals \ {"text", "scheme_type", "territory", "next_update"}
    BY DEF Locals
  <2> QED
    BY <1>2, <1>7, <2>1, SameData
<1>9. \A x : /\ P!Callee(x, "list", "TrustServiceStatusList") = "none"
             /\ P!Callee(x, "list", "Signature") = "none"
  BY CalledFor
<1>10. s[Len(s)].closing # "TrustServiceStatusList" /\ s[Len(s)].closing # "Signature"
  BY <1>3, NamesDiffer
<1>11. \A x : IsData(x) => Reads(g, s, x, x)
  <2>1. IsSeq(<<>>) /\ \A x : Reads(<<>>, s, x, x)
    BY OneElement, ReadsNothing
  <2>2. ~("list" = "qualifiers" /\ "Signature" = "Qualifier")
    OBVIOUS
  <2> QED
    BY <1>3, <1>4, <1>9, <1>10, <2>1, <2>2, ReadsUnknown
<1>12. IsSeq(g)
  BY <1>4, OneElement, ElementIsSeq
<1>13. ASSUME IsSeq(c)
       PROVE  /\ IsSeq(h)
              /\ \A x : Reads((b \o c) \o g, s, d, x) => Reads(h, s, d, x)
  <2>1. PICK content : content = (b \o c) \o g
    OBVIOUS
  <2>2. IsSeq(b \o c)
    BY <1>7, <1>13, Joined
  <2>3. IsSeq(content)
    BY <1>12, <2>1, <2>2, Joined
  <2>4. ~("list" = "qualifiers" /\ "TrustServiceStatusList" = "Qualifier")
    OBVIOUS
  <2>5. P!Callee(d, "list", "TrustServiceStatusList") = "none"
    BY <1>9
  <2>6. \A x : Reads(content, s, d, x) => Reads(Element("TrustServiceStatusList", content), s, d, x)
    BY <1>2, <1>3, <1>10, <2>3, <2>4, <2>5, ReadsUnknown
  <2> QED
    BY <1>4, <2>1, <2>3, <2>6, ElementIsSeq
<1>14. IsSeq(<<>>) /\ \A q : IsSeq(q) => q \o <<>> = q
  BY OneElement, NothingJoined
<1>15. Leads(c, s, e, ListLocals, "providers", ProvidersKept(svcs, layout))
  BY <1>3, <1>4, <1>8, ProvidersRead
<1>16. PICK f : /\ IsSeq(c) /\ Reads(c, s, e, f) /\ Same(e, f, ListLocals)
               /\ f.providers = ProvidersKept(svcs, layout)
  BY <1>15 DEF Leads
<1>17. IsData(f) /\ f.territory = e.territory /\ f.next_update = e.next_update
  <2>1. "territory" \in Locals \ ListLocals /\ "next_update" \in Locals \ ListLocals
    BY DEF Locals, ListLocals, ProviderLocals, ServiceLocals
  <2> QED
    BY <1>16, <2>1, SameData
<1>18. Reads(b \o c, s, d, f) /\ IsSeq(b \o c)
  BY <1>7, <1>16, ReadsThen
<1>19. Reads((b \o c) \o g, s, d, f)
  BY <1>11, <1>12, <1>17, <1>18, ReadsThen
<1>20. Reads(h, s, d, f) /\ IsSeq(h)
  BY <1>13, <1>16, <1>19
<1>21. Reads(a \o h, s, d, f) /\ IsSeq(a \o h)
  BY <1>6, <1>20, ReadsThen
<1>22. Reach(At((a \o h) \o <<>>, s, d), At(<<>>, s, f))
  BY <1>14, <1>21 DEF Reads
<1>23. PICK end : end = <<<<>>, <<>>, f, "Ok">>
  OBVIOUS
<1>24. Reach(At(<<>>, s, f), end)
  <2>1. Anew(At(<<>>, s, f))
    <3>1. At(<<>>, s, f)[2] = s
      BY DEF At
    <3>2. s[Len(s)].fn # "text"
      BY <1>3 DEF Within
    <3>3. At(<<>>, s, f)[1] = <<>>
      BY DEF At
    <3> QED
      BY <3>1, <3>2, <3>3 DEF Anew
  <2> QED
    BY <1>1, <1>23, <2>1, EndOfInput, ReachStep, ReachStays
<1>25. Reach(At(a \o h, s, d), end)
  BY <1>14, <1>21, <1>22, <1>24, ReachThen
<1>26. AsPublished(end, svcs, layout)
  BY <1>7, <1>16, <1>17, <1>23 DEF AsPublished
<1> QED
  BY <1>1, <1>5, <1>25, <1>26

----------------------------------------------------------------------------
(* What the engine sees of the services kept.                              *)

LEMMA SeenAsSaid ==
  ASSUME NEW svc, ServiceIsSound(svc), NEW layout, Spoilt(layout) = {}
  PROVE  ServiceSeen(ServiceKept(svc, layout)) = svc
<1>1. PICK k \in Nat : k = Len(svc.history) /\ svc.history = [n \in 1..k |-> svc.history[n]]
  BY LenProperties DEF ServiceIsSound
<1>2. PICK h : h = EntriesKept(svc, k)
  OBVIOUS
<1>3. DOMAIN h = 1..k /\ \A n \in 1..k : EntrySeen(h[n]) = svc.history[n]
  <2>1. DOMAIN h = 1..k /\ \A n \in 1..k : h[n] = EntryKept(svc.kind, svc.history[n])
    BY <1>2 DEF EntriesKept
  <2>2. \A x : EntrySeen(EntryKept(svc.kind, x)) = EntrySeen(x)
    BY DEF EntrySeen, EntryKept
  <2>3. \A n \in 1..k : svc.history[n] = EntrySeen(svc.history[n])
    <3>1. DOMAIN svc.history = 1..k
      BY <1>1
    <3> QED
      BY <3>1 DEF ServiceIsSound, EntryIsSound
  <2> QED
    BY <2>1, <2>2, <2>3
<1>4. [n \in DOMAIN h |-> EntrySeen(h[n])] = svc.history
  <2>1. [n \in DOMAIN h |-> EntrySeen(h[n])] = [n \in 1..k |-> svc.history[n]]
    BY <1>3
  <2> QED
    BY <1>1, <2>1
<1>5. ServiceKept(svc, layout) = WithHistory(svc, h)
  <2>1. PICK spoilt : spoilt = Spoilt(layout)
    OBVIOUS
  <2>2. svc.keys \cup spoilt = svc.keys
    BY <2>1
  <2>3. WithHistory(WithSpoilt(svc, spoilt), h) = WithHistory(svc, h)
    BY <2>2 DEF WithSpoilt, WithHistory
  <2> QED
    BY <1>1, <1>2, <2>1, <2>3 DEF ServiceKept
<1>6. ServiceSeen(WithHistory(svc, h)) = Grown(WithHistory(svc, h), [n \in DOMAIN h |-> EntrySeen(h[n])])
  <2>1. PICK old : old = WithHistory(svc, h) /\ old.history = h
    BY WithItsHistory
  <2>2. ServiceSeen(old) = Grown(old, [n \in DOMAIN h |-> EntrySeen(h[n])])
    BY <2>1 DEF ServiceSeen, Grown
  <2> QED
    BY <2>1, <2>2
<1>7. Grown(WithHistory(svc, h), svc.history) = WithHistory(svc, svc.history)
  BY WithItsHistory
<1> QED
  BY <1>4, <1>5, <1>6, <1>7 DEF ServiceIsSound

LEMMA AllSeen ==
  ASSUME NEW svcs, AllSound(svcs), NEW layout
  PROVE  FlattenSeq(ProvidersKept(svcs, layout)) = AllKept(svcs, layout)
<1>1. PICK k \in Nat : DOMAIN svcs = 1..k
  BY LenProperties DEF AllSound
<1>2. PICK G : G = [n \in 1..k |-> ServiceKept(svcs[n], layout)]
  OBVIOUS
<1>3. AllKept(svcs, layout) = [n \in 1..k |-> G[n]]
  BY <1>1, <1>2 DEF AllKept
<1>4. CASE layout.together
  <2>1. PICK q, F : q = AllKept(svcs, layout) /\ F = <<q>>
    OBVIOUS
  <2>2. IsSeq(q)
    <3>1. CASE k = 0
      <4>1. q = <<>>
        BY <1>3, <2>1, <3>1
      <4> QED
        BY <4>1, OneElement
    <3>2. CASE k # 0
      BY <1>3, <2>1, <3>2, OneMoreValue
    <3> QED
      BY <3>1, <3>2
  <2>3. FirstOnes(F, 1) = q
    <3>1. FirstOnes(F, 0) = <<>> /\ IsSeq(FirstOnes(F, 0))
      BY NoPieces
    <3>2. PICK m \in Nat : m = 0 /\ m + 1 = 1
      OBVIOUS
    <3>3. \A n \in 1..(m + 1) : IsSeq(F[n])
      BY <2>1, <2>2, <3>2
    <3>4. FirstOnes(F, m + 1) = FirstOnes(F, m) \o F[m + 1]
      BY <3>1, <3>2, <3>3, OneMorePiece
    <3>5. F[1] = q
      BY <2>1
    <3>6. FirstOnes(F, 1) = <<>> \o q
      BY <3>1, <3>2, <3>4, <3>5
    <3> QED
      BY <2>2, <3>6, NothingJoined
  <2>4. [n \in 1..1 |-> F[n]] = <<q>>
    BY <2>1
  <2>5. ProvidersKept(svcs, layout) = <<q>>
    BY <1>4, <2>1 DEF ProvidersKept
  <2> QED
    BY <2>1, <2>3, <2>4, <2>5 DEF FirstOnes
<1>5. CASE ~layout.together
  <2>1. PICK F : F = [n \in 1..k |-> <<G[n]>>]
    OBVIOUS
  <2>2. ProvidersKept(svcs, layout) = [n \in 1..k |-> F[n]]
    <3>1. \A x : AllKept(<<x>>, layout) = <<ServiceKept(x, layout)>>
      BY DEF AllKept
    <3> QED
      BY <1>1, <1>2, <1>5, <2>1, <3>1 DEF ProvidersKept
  <2> DEFINE S == {m \in 0..k : FirstOnes(F, m) = [n \in 1..m |-> G[n]] /\ IsSeq(FirstOnes(F, m))}
  <2>3. 0 \in S
    <3>1. 1 \in Nat \ {0}
      OBVIOUS
    <3>2. [n \in 1..0 |-> G[n]] = <<>>
      BY <3>1, OneMoreValue
    <3>3. FirstOnes(F, 0) = <<>> /\ IsSeq(FirstOnes(F, 0))
      BY NoPieces
    <3>4. FirstOnes(F, 0) = [n \in 1..0 |-> G[n]] /\ 0 \in 0..k
      BY <1>1, <3>2, <3>3
    <3> QED
      BY <3>3, <3>4
  <2>4. ASSUME NEW m \in 0..(k - 1), m \in S
        PROVE  m + 1 \in S
    <3>1. m \in Nat /\ m + 1 \in 0..k /\ m + 1 \in 1..k /\ m + 1 \in Nat \ {0} /\ (m + 1) - 1 = m
      OBVIOUS
    <3>2. \A n \in 1..(m + 1) : IsSeq(F[n])
      <4>1. \A n \in 1..(m + 1) : n \in 1..k
        OBVIOUS
      <4> QED
        BY <2>1, <4>1, OneElement
    <3>3. FirstOnes(F, m + 1) = FirstOnes(F, m) \o F[m + 1] /\ IsSeq(FirstOnes(F, m + 1))
      BY <2>4, <3>1, <3>2, OneMorePiece
    <3>4. PICK p, x : p = FirstOnes(F, m) /\ x = G[m + 1]
      OBVIOUS
    <3>5. F[m + 1] = <<x>>
      BY <2>1, <3>1, <3>4
    <3>6. p \o <<x>> = Append(p, x)
      <4>1. PICK T : T = Range(p) \cup {x}
        OBVIOUS
      <4>2. p \in Seq(T) /\ x \in T
        <5>1. p \in Seq(Range(p))
          BY <2>4, <3>4 DEF IsSeq
        <5> QED
          BY <4>1, <5>1, SeqMonotonic
      <4> QED
        BY <4>2, AppendIsConcat
    <3>7. Append([n \in 1..m |-> G[n]], G[m + 1]) = [n \in 1..(m + 1) |-> G[n]]
      BY <3>1, OneMoreValue
    <3>8. p = [n \in 1..m |-> G[n]]
      BY <2>4, <3>4
    <3> QED
      BY <3>1, <3>3, <3>4, <3>5, <3>6, <3>7, <3>8
  <2> HIDE DEF S
  <2>5. k \in S
    BY <2>3, <2>4, UpTo
  <2>6. FirstOnes(F, k) = [n \in 1..k |-> G[n]]
    BY <2>5 DEF S
  <2> QED
    BY <1>3, <2>2, <2>6 DEF FirstOnes
<1> QED
  BY <1>4, <1>5

----------------------------------------------------------------------------
(* The editions.                                                           *)

LEMMA FirstIsSound ==
  ASSUME NEW svc \in Range(FirstEdition)
  PROVE  ServiceIsSound(svc)
<1>1. PICK h : h = svc.history
  OBVIOUS
<1>2. /\ DOMAIN svc = {"kind", "status", "start", "keys", "history", "qualifiers"}
      /\ h \in Seq(Range(h))
  BY <1>1, EditionAssumption
<1>3. /\ svc = ServiceSeen(svc) /\ svc.keys \subseteq Keys /\ IsFiniteSet(svc.qualifiers)
      /\ \A i \in DOMAIN h : h[i].keys \subseteq Keys
  BY <1>1, DocumentAssumption
<1>4. PICK seen : seen = [n \in DOMAIN h |-> EntrySeen(h[n])]
  OBVIOUS
<1>5. svc = [svc EXCEPT !.history = seen]
  BY <1>1, <1>3, <1>4 DEF ServiceSeen
<1>6. svc = WithHistory(svc, h) /\ h = seen
  BY <1>1, <1>2, <1>5 DEF WithHistory
<1>7. \A i \in DOMAIN h : EntryIsSound(h[i])
  BY <1>3, <1>4, <1>6 DEF EntryIsSound
<1> QED
  BY <1>1, <1>2, <1>3, <1>6, <1>7 DEF ServiceIsSound

LEMMA FormerIsSound ==
  ASSUME NEW svc, ServiceIsSound(svc)
  PROVE  EntryIsSound(Former(svc))
BY DEF ServiceIsSound, EntryIsSound, EntrySeen, Former

\* A service that changes, and the history it then has.
Changed(svc, terms, status, start, keys, h) ==
  [svc EXCEPT !.kind = terms.kind, !.qualifiers = terms.qualifiers,
              !.status = status, !.start = start, !.keys = keys, !.history = h]
HistoryThen(svc, newestFirst) ==
  IF newestFirst THEN <<Former(svc)>> \o svc.history ELSE Append(svc.history, Former(svc))

LEMMA ChangedParts ==
  ASSUME NEW svc, NEW before, NEW terms, NEW status, NEW start, NEW keys, NEW h
  PROVE  Changed(WithHistory(svc, before), terms, status, start, keys, h)
           = [kind |-> terms.kind, status |-> status, start |-> start, keys |-> keys,
              history |-> h, qualifiers |-> terms.qualifiers]
<1>1. PICK kind, qualifiers : kind = terms.kind /\ qualifiers = terms.qualifiers
  OBVIOUS
<1>2. PICK r0 : r0 = WithHistory(svc, before)
  OBVIOUS
<1>3. r0 = [kind |-> svc.kind, status |-> svc.status, start |-> svc.start, keys |-> svc.keys,
            history |-> before, qualifiers |-> svc.qualifiers]
  BY <1>2 DEF WithHistory
<1>4. PICK r1 : r1 = [r0 EXCEPT !.kind = kind]
  OBVIOUS
<1>5. PICK r2 : r2 = [r1 EXCEPT !.qualifiers = qualifiers]
  OBVIOUS
<1>6. PICK r3 : r3 = [r2 EXCEPT !.status = status]
  OBVIOUS
<1>7. PICK r4 : r4 = [r3 EXCEPT !.start = start]
  OBVIOUS
<1>8. PICK r5 : r5 = [r4 EXCEPT !.keys = keys]
  OBVIOUS
<1>9. r2 = [kind |-> kind, status |-> svc.status, start |-> svc.start, keys |-> svc.keys,
            history |-> before, qualifiers |-> qualifiers]
  <2>1. r1 = [kind |-> kind, status |-> svc.status, start |-> svc.start, keys |-> svc.keys,
              history |-> before, qualifiers |-> svc.qualifiers]
    BY <1>3, <1>4
  <2> QED
    BY <1>5, <2>1
<1>10. r3 = [kind |-> kind, status |-> status, start |-> svc.start, keys |-> svc.keys,
             history |-> before, qualifiers |-> qualifiers]
  BY <1>6, <1>9
<1>11. r4 = [kind |-> kind, status |-> status, start |-> start, keys |-> svc.keys,
             history |-> before, qualifiers |-> qualifiers]
  BY <1>7, <1>10
<1>12. r5 = [kind |-> kind, status |-> status, start |-> start, keys |-> keys,
             history |-> before, qualifiers |-> qualifiers]
  BY <1>8, <1>11
<1>13. [r5 EXCEPT !.history = h]
         = [kind |-> kind, status |-> status, start |-> start, keys |-> keys,
            history |-> h, qualifiers |-> qualifiers]
  BY <1>12
<1> QED
  BY <1>1, <1>2, <1>4, <1>5, <1>6, <1>7, <1>8, <1>13 DEF Changed

LEMMA ChangedIsSound ==
  ASSUME NEW svc, ServiceIsSound(svc), NEW terms, IsFiniteSet(terms.qualifiers),
         NEW status, NEW start, NEW keys, keys \subseteq Keys,
         NEW newestFirst \in BOOLEAN
  PROVE  ServiceIsSound(Changed(svc, terms, status, start, keys, HistoryThen(svc, newestFirst)))
<1>1. PICK h, old, h2 : /\ h = svc.history /\ old = Former(svc)
                        /\ h2 = IF newestFirst THEN <<old>> \o h ELSE Append(h, old)
  OBVIOUS
<1>2. PICK kind, qualifiers : kind = terms.kind /\ qualifiers = terms.qualifiers
  OBVIOUS
<1>3. PICK new : new = [kind |-> kind, status |-> status, start |-> start, keys |-> keys,
                        history |-> h2, qualifiers |-> qualifiers]
  OBVIOUS
<1>4. Changed(svc, terms, status, start, keys, HistoryThen(svc, newestFirst)) = new
  <2>1. svc = WithHistory(svc, h)
    BY <1>1 DEF ServiceIsSound
  <2>2. Changed(WithHistory(svc, h), terms, status, start, keys, h2) = new
    BY <1>2, <1>3, ChangedParts
  <2>3. HistoryThen(svc, newestFirst) = h2
    BY <1>1 DEF HistoryThen
  <2> QED
    BY <2>1, <2>2, <2>3
<1>5. h \in Seq(Range(h)) /\ \A n \in DOMAIN h : EntryIsSound(h[n])
  BY <1>1 DEF ServiceIsSound
<1>6. EntryIsSound(old)
  BY <1>1, FormerIsSound
<1>7. h2 \in Seq(Range(h2)) /\ \A n \in DOMAIN h2 : EntryIsSound(h2[n])
  <2>1. IsSeq(h) /\ IsSeq(<<old>>) /\ Range(<<old>>) = {old}
    BY <1>5, OneElement DEF IsSeq
  <2>2. \A x \in Range(h) : EntryIsSound(x)
    BY <1>5 DEF Range
  <2>3. \A p : IsSeq(p) /\ (\A x \in Range(p) : EntryIsSound(x)) =>
          p \in Seq(Range(p)) /\ \A n \in DOMAIN p : EntryIsSound(p[n])
    BY DEF IsSeq, Range
  <2>4. CASE newestFirst
    <3>1. IsSeq(<<old>> \o h) /\ Range(<<old>> \o h) = Range(<<old>>) \cup Range(h)
      BY <2>1, Joined
    <3>2. \A x \in Range(<<old>> \o h) : EntryIsSound(x)
      BY <1>6, <2>1, <2>2, <3>1
    <3> QED
      BY <1>1, <2>3, <2>4, <3>1, <3>2
  <2>5. CASE ~newestFirst
    <3>1. Append(h, old) = h \o <<old>>
      <4>1. PICK T : T = Range(h) \cup {old}
        OBVIOUS
      <4>2. h \in Seq(T) /\ old \in T
        BY <1>5, <4>1, SeqMonotonic
      <4> QED
        BY <4>2, AppendIsConcat
    <3>2. IsSeq(h \o <<old>>) /\ Range(h \o <<old>>) = Range(h) \cup Range(<<old>>)
      BY <2>1, Joined
    <3>3. \A x \in Range(h \o <<old>>) : EntryIsSound(x)
      BY <1>6, <2>1, <2>2, <3>2
    <3> QED
      BY <1>1, <2>3, <2>5, <3>1, <3>2, <3>3
  <2> QED
    BY <2>4, <2>5
<1>8. ServiceIsSound(new)
  <2>1. IsFiniteSet(qualifiers)
    BY <1>2
  <2>2. /\ new.kind = kind /\ new.status = status /\ new.start = start /\ new.keys = keys
        /\ new.history = h2 /\ new.qualifiers = qualifiers
    BY <1>3
  <2>3. new = WithHistory(new, new.history)
    BY <1>3, <2>2 DEF WithHistory
  <2> QED
    BY <1>7, <2>1, <2>2, <2>3 DEF ServiceIsSound
<1> QED
  BY <1>4, <1>8

LEMMA EditionsStart == Init => AllSound(services)
<1>1. FirstEdition \in Seq(Range(FirstEdition))
  BY EditionAssumption
<1>2. \A n \in DOMAIN FirstEdition : FirstEdition[n] \in Range(FirstEdition)
  BY DEF Range
<1> QED
  BY <1>1, <1>2, FirstIsSound DEF Init, AllSound

LEMMA EditionsStep == AllSound(services) /\ [Next]_vars => AllSound(services)'
<1> SUFFICES ASSUME AllSound(services), [Next]_vars PROVE AllSound(services')
  BY DEF AllSound
<1>1. ASSUME NEW s \in DOMAIN services, NEW status, NEW keys \in SUBSET Keys \ {{}},
             NEW terms \in Terms, NEW newestFirst \in BOOLEAN,
             Publish(s, status, keys, terms, newestFirst)
      PROVE  AllSound(services')
  <2>1. PICK svc, new : /\ svc = services[s]
                        /\ new = Changed(svc, terms, status, now, keys, HistoryThen(svc, newestFirst))
    OBVIOUS
  <2>2. services' = [services EXCEPT ![s] = new]
    BY <1>1, <2>1 DEF Publish, Changed, HistoryThen
  <2>3. ServiceIsSound(new)
    <3>1. ServiceIsSound(svc) /\ keys \subseteq Keys
      BY <2>1 DEF AllSound
    <3> QED
      BY <2>1, <3>1, DocumentAssumption, ChangedIsSound
  <2>4. PICK k \in Nat : DOMAIN services = 1..k /\ services = [n \in 1..k |-> services[n]]
    BY LenProperties DEF AllSound
  <2>5. /\ services' = [n \in 1..k |-> IF n = s THEN new ELSE services[n]]
    BY <2>2, <2>4
  <2>6. PICK q : q = services' /\ q = [n \in 1..k |-> q[n]]
    BY <2>5
  <2>7. q \in Seq(Range(q))
    <3>1. q \in [1..k -> Range(q)]
      BY <2>6 DEF Range
    <3> QED
      BY <3>1
  <2>8. \A n \in DOMAIN q : ServiceIsSound(q[n])
    BY <2>3, <2>4, <2>5, <2>6 DEF AllSound
  <2> QED
    BY <2>6, <2>7, <2>8 DEF AllSound
<1>2. CASE Tick
  BY <1>2 DEF Tick
<1>3. CASE UNCHANGED vars
  BY <1>3 DEF vars
<1> QED
  BY <1>1, <1>2, <1>3 DEF Next

LEMMA EditionsSound == Spec => []AllSound(services)
<1>1. Init => AllSound(services)
  BY EditionsStart
<1>2. AllSound(services) /\ [Next]_vars => AllSound(services)'
  BY EditionsStep
<1> QED
  BY <1>1, <1>2, PTL DEF Spec

----------------------------------------------------------------------------
(* Which functions are in the pile at which place.                         *)

\* Function f calls g for the element called name.
Links(f, name, g) ==
  \/ P!Known(f, name) /\ g = P!Calls[f][name]
  \/ ~P!Known(f, name) /\ f \in P!Skipping /\ g = "skip"

Places ==
  [list |-> {1}, scheme |-> {2}, providers |-> {2}, provider |-> {3}, services |-> {4}, service |-> {5},
   information |-> {6}, history |-> {6}, instance |-> {7}, identity |-> {7, 8}]
Placed(fn, i) == fn \in DOMAIN Places => i \in Places[fn]

Pile(s) ==
  /\ IsSeq(s)
  /\ \A i \in DOMAIN s : DOMAIN s[i] = {"fn", "closing", "depth"} /\ Placed(s[i].fn, i) /\ Named(s[i].fn)
  /\ \A i \in DOMAIN s : i = 1 => s[i].fn = "list"
  /\ \A i \in DOMAIN s : i # 1 => Links(s[i - 1].fn, s[i].closing, s[i].fn)

\* The function at place i is fn.
Opens(s, i, fn) == i \in DOMAIN s /\ s[i].fn = fn
AtTop(s, i) == i = Len(s)
InProvider(s) == Opens(s, 3, "provider")
InService(s) == Opens(s, 5, "service")
InInstance(s) == Opens(s, 7, "instance")
InIdentity(s) == Opens(s, 7, "identity") \/ Opens(s, 8, "identity")

LEMMA LinksTo ==
  ASSUME NEW f, NEW name, NEW g, Links(f, name, g)
  PROVE  /\ g \in {"scheme", "providers"} => f = "list"
         /\ g = "provider" => f = "providers"
         /\ g = "services" => f = "provider"
         /\ g = "service" => f = "services"
         /\ g \in {"information", "history"} => f = "service"
         /\ g = "instance" => f = "history"
         /\ g = "identity" => f \in {"information", "instance"} /\ name = "ServiceDigitalIdentity"
         /\ g # "list" /\ f \in DOMAIN P!Calls
BY DEF Links, P!Known, P!Calls, P!Skipping

LEMMA LinksFrom ==
  ASSUME NEW f, NEW name, NEW g, Links(f, name, g)
  PROVE  /\ f \in {"information", "instance"} =>
              /\ name \in {"ServiceTypeIdentifier", "ServiceStatus", "StatusStartingTime"} => g = "text"
              /\ name = "ServiceDigitalIdentity" => g = "identity"
         /\ f = "identity" => g = "text"
         /\ f = "history" => g = "instance"
         /\ f = "services" => g = "service"
         /\ f = "providers" => g = "provider"
BY DEF Links, P!Known, P!Calls, P!Skipping

LEMMA CalleeLinks ==
  ASSUME NEW d, NEW f, NEW name, NEW g, P!Callee(d, f, name) = g, g # "none"
  PROVE  Links(f, name, g) /\ Named(g)
<1>1. Links(f, name, g)
  BY DEF P!Callee, Links
<1>2. CASE P!Known(f, name) /\ g = P!Calls[f][name]
  <2>1. \E x \in DOMAIN Level : x = g
    BY <1>2 DEF P!Known, P!Calls, Level
  <2>2. \A x \in DOMAIN Level : Named(x)
    BY Zenon DEF Level, Named
  <2> QED
    BY <1>1, <2>1, <2>2
<1>3. CASE g = "skip"
  BY <1>1, <1>3, Zenon DEF Named
<1> QED
  BY <1>1, <1>2, <1>3 DEF Links

LEMMA PileParts ==
  ASSUME NEW s, Pile(s), s # <<>>
  PROVE  /\ Len(s) \in Nat \ {0} /\ Len(s) \in DOMAIN s /\ DOMAIN s = 1..Len(s)
         /\ Placed(s[Len(s)].fn, Len(s)) /\ Named(s[Len(s)].fn)
<1>1. Len(s) \in Nat \ {0} /\ DOMAIN s = 1..Len(s)
  BY LenProperties, EmptySeq DEF Pile, IsSeq
<1> QED
  BY <1>1 DEF Pile

\* What is open around an element of a service.
LEMMA Nested ==
  ASSUME NEW s, Pile(s)
  PROVE  /\ InService(s) => InProvider(s)
         /\ Opens(s, 6, "information") \/ Opens(s, 6, "history") => InService(s)
         /\ InInstance(s) => Opens(s, 6, "history")
         /\ InIdentity(s) => Opens(s, 6, "information") \/ InInstance(s)
<1>1. PICK n \in Nat : DOMAIN s = 1..n
  BY LenProperties DEF Pile, IsSeq
<1>2. ASSUME NEW i \in DOMAIN s, i # 1
      PROVE  i - 1 \in DOMAIN s /\ Links(s[i - 1].fn, s[i].closing, s[i].fn) /\ Placed(s[i - 1].fn, i - 1)
  BY <1>1, <1>2 DEF Pile
<1>3. ASSUME Opens(s, 5, "service") PROVE Opens(s, 3, "provider")
  <2>1. 5 \in DOMAIN s /\ 4 \in DOMAIN s /\ 3 \in DOMAIN s /\ s[5].fn = "service"
    BY <1>1, <1>3 DEF Opens
  <2>2. Links(s[4].fn, s[5].closing, s[5].fn) /\ Links(s[3].fn, s[4].closing, s[4].fn)
    BY <1>2, <2>1
  <2> QED
    BY <2>1, <2>2, LinksTo DEF Opens
<1>4. ASSUME NEW fn \in {"information", "history"}, Opens(s, 6, fn) PROVE Opens(s, 5, "service")
  <2>1. 6 \in DOMAIN s /\ 5 \in DOMAIN s /\ s[6].fn = fn
    BY <1>1, <1>4 DEF Opens
  <2>2. Links(s[5].fn, s[6].closing, s[6].fn)
    BY <1>2, <2>1
  <2> QED
    BY <2>1, <2>2, LinksTo DEF Opens
<1>5. ASSUME Opens(s, 7, "instance") PROVE Opens(s, 6, "history")
  <2>1. 7 \in DOMAIN s /\ 6 \in DOMAIN s /\ s[7].fn = "instance"
    BY <1>1, <1>5 DEF Opens
  <2>2. Links(s[6].fn, s[7].closing, s[7].fn)
    BY <1>2, <2>1
  <2> QED
    BY <2>1, <2>2, LinksTo DEF Opens
<1>6. ASSUME NEW i \in {7, 8}, Opens(s, i, "identity") PROVE Opens(s, 6, "information") \/ Opens(s, 7, "instance")
  <2>1. i \in DOMAIN s /\ i - 1 \in DOMAIN s /\ s[i].fn = "identity" /\ i # 1
    BY <1>1, <1>6 DEF Opens
  <2>2. Links(s[i - 1].fn, s[i].closing, s[i].fn) /\ Placed(s[i - 1].fn, i - 1)
    BY <1>2, <2>1
  <2>3. s[i - 1].fn \in {"information", "instance"}
    BY <2>1, <2>2, LinksTo
  <2>4. (s[i - 1].fn = "information" => i - 1 = 6) /\ (s[i - 1].fn = "instance" => i - 1 = 7)
    BY <2>2 DEF Placed, Places
  <2>5. CASE s[i - 1].fn = "information"
    <3>1. 6 \in DOMAIN s /\ s[6].fn = "information"
      BY <2>1, <2>4, <2>5
    <3> QED
      BY <3>1 DEF Opens
  <2>6. CASE s[i - 1].fn = "instance"
    <3>1. 7 \in DOMAIN s /\ s[7].fn = "instance"
      BY <2>1, <2>4, <2>6
    <3> QED
      BY <3>1 DEF Opens
  <2> QED
    BY <2>3, <2>5, <2>6
<1> QED
  BY <1>3, <1>4, <1>5, <1>6 DEF InProvider, InService, InInstance, InIdentity

LEMMA Popped ==
  ASSUME NEW s, Pile(s), s # <<>>, NEW p, p = SubSeq(s, 1, Len(s) - 1)
  PROVE  /\ Pile(p) /\ Len(p) = Len(s) - 1
         /\ \A i, fn : Opens(p, i, fn) <=> Opens(s, i, fn) /\ ~AtTop(s, i)
<1>1. PICK n \in Nat \ {0} : n = Len(s) /\ DOMAIN s = 1..n
  BY PileParts
<1>2. IsSeq(p) /\ Len(p) = n - 1 /\ DOMAIN p = 1..(n - 1) /\ \A i \in 1..(n - 1) : p[i] = s[i]
  <2>1. p \in Seq(Range(p)) /\ Len(p) = n - 1 /\ \A i \in 1..(n - 1) : p[i] = s[i]
    BY <1>1, Shortened DEF Pile, IsSeq
  <2> QED
    BY <2>1, LenProperties DEF IsSeq
<1>3. \A i, fn : Opens(p, i, fn) <=> Opens(s, i, fn) /\ ~AtTop(s, i)
  BY <1>1, <1>2 DEF Opens, AtTop
<1>4. \A i \in DOMAIN p : i \in DOMAIN s /\ p[i] = s[i] /\ (i # 1 => p[i - 1] = s[i - 1])
  BY <1>1, <1>2
<1>5. Pile(p)
  BY <1>2, <1>4 DEF Pile
<1> QED
  BY <1>1, <1>2, <1>3, <1>5

LEMMA Pushed ==
  ASSUME NEW s, Pile(s), s # <<>>, NEW name, NEW g, Links(s[Len(s)].fn, name, g), Named(g),
         NEW p, p = Append(s, Frame(g, name))
  PROVE  /\ Pile(p) /\ p # <<>> /\ Len(p) = Len(s) + 1 /\ p[Len(p)] = Frame(g, name) /\ p[Len(p) - 1] = s[Len(s)]
         /\ \A i, fn : Opens(p, i, fn) <=> Opens(s, i, fn) \/ (AtTop(p, i) /\ fn = g)
<1>1. PICK n \in Nat \ {0} : n = Len(s) /\ DOMAIN s = 1..n /\ Placed(s[n].fn, n)
  BY PileParts
<1>2. PICK f : f = Frame(g, name) /\ DOMAIN f = {"fn", "closing", "depth"} /\ f.fn = g /\ f.closing = name
  BY DEF Frame
<1>3. IsSeq(p) /\ p # <<>> /\ Len(p) = n + 1 /\ DOMAIN p = 1..(n + 1) /\ p[n + 1] = f /\ \A i \in 1..n : p[i] = s[i]
  <2>1. IsSeq(p) /\ p # <<>> /\ Len(p) = n + 1 /\ p[n + 1] = f /\ \A i \in 1..n : p[i] = s[i]
    BY <1>1, <1>2, OnTop DEF Pile
  <2> QED
    BY <2>1, LenProperties DEF IsSeq
<1>4. \A i, fn : Opens(p, i, fn) <=> Opens(s, i, fn) \/ (AtTop(p, i) /\ fn = g)
  BY <1>1, <1>2, <1>3 DEF Opens, AtTop
<1>5. Placed(g, n + 1)
  <2>1. ASSUME g \in DOMAIN Places PROVE n + 1 \in Places[g]
    <3>1. g \in {"scheme", "providers", "provider", "services", "service", "information", "history", "instance",
                 "identity"}
      BY <2>1, LinksTo DEF Places
    <3>2. s[n].fn \in DOMAIN Places
      BY <1>1, <3>1, LinksTo DEF Places
    <3>3. n \in Places[s[n].fn]
      BY <1>1, <3>2 DEF Placed
    <3> QED
      BY <1>1, <3>1, <3>3, LinksTo DEF Places
  <2> QED
    BY <2>1 DEF Placed
<1>6. ASSUME NEW i \in DOMAIN p
      PROVE  /\ DOMAIN p[i] = {"fn", "closing", "depth"} /\ Placed(p[i].fn, i) /\ Named(p[i].fn)
             /\ i = 1 => p[i].fn = "list"
             /\ i # 1 => Links(p[i - 1].fn, p[i].closing, p[i].fn)
  <2>1. CASE i = n + 1
    BY <1>1, <1>2, <1>3, <1>5, <2>1
  <2>2. CASE i # n + 1
    <3>1. i \in DOMAIN s /\ p[i] = s[i] /\ (i # 1 => p[i - 1] = s[i - 1])
      BY <1>1, <1>3, <2>2
    <3> QED
      BY <3>1 DEF Pile
  <2> QED
    BY <2>1, <2>2
<1>7. Pile(p)
  BY <1>3, <1>6 DEF Pile
<1> QED
  BY <1>1, <1>2, <1>3, <1>4, <1>7

LEMMA Deepened ==
  ASSUME NEW s, Pile(s), s # <<>>, NEW by, NEW p, p = Recount(s, by)
  PROVE  /\ Pile(p) /\ p # <<>> /\ Len(p) = Len(s)
         /\ \A i \in DOMAIN s : p[i].fn = s[i].fn /\ p[i].closing = s[i].closing
         /\ \A i, fn : Opens(p, i, fn) <=> Opens(s, i, fn)
<1>1. PICK n \in Nat \ {0} : n = Len(s) /\ DOMAIN s = 1..n
  BY PileParts
<1>2. PICK f : f = [s[n] EXCEPT !.depth = @ + by]
  OBVIOUS
<1>3. p = [i \in 1..n |-> IF i = n THEN f ELSE s[i]]
  <2>1. s = [i \in 1..n |-> s[i]]
    BY <1>1, LenProperties DEF Pile, IsSeq
  <2>2. p = [s EXCEPT ![n] = f]
    BY <1>1, <1>2 DEF Recount
  <2> QED
    BY <2>1, <2>2
<1>4. DOMAIN f = {"fn", "closing", "depth"} /\ f.fn = s[n].fn /\ f.closing = s[n].closing
  <2>1. DOMAIN s[n] = {"fn", "closing", "depth"}
    BY <1>1 DEF Pile
  <2> QED
    BY <1>2, <2>1
<1>5. IsSeq(p) /\ Len(p) = n /\ p # <<>>
  <2>1. p \in [1..n -> Range(p)]
    BY <1>3 DEF Range
  <2>2. p \in Seq(Range(p)) /\ Len(p) = n
    BY <1>3, <2>1
  <2> QED
    BY <1>1, <2>2, EmptySeq DEF IsSeq
<1>6. /\ DOMAIN p = 1..n
      /\ \A i \in 1..n : /\ DOMAIN p[i] = {"fn", "closing", "depth"}
                         /\ p[i].fn = s[i].fn /\ p[i].closing = s[i].closing
  BY <1>1, <1>3, <1>4 DEF Pile
<1>7. \A i \in 1..n : i # 1 => i - 1 \in 1..n
  BY <1>1
<1>8. Pile(p)
  BY <1>1, <1>5, <1>6, <1>7 DEF Pile
<1>9. \A i, fn : Opens(p, i, fn) <=> Opens(s, i, fn)
  BY <1>1, <1>6 DEF Opens
<1> QED
  BY <1>1, <1>5, <1>6, <1>8, <1>9

----------------------------------------------------------------------------
(* The variables of the functions in the pile.                             *)

\* The certificates in them have keys in K.
ServiceHeld(svc, K) == IsService(svc) /\ IsSeq(svc.history) /\ svc.keys \subseteq K
ServicesHeld(q, K) == IsSeq(q) /\ \A i \in DOMAIN q : ServiceHeld(q[i], K)
IsEntry(r) == DOMAIN r = {"kind", "status", "start", "keys", "qualifiers"}
Local(d, K) ==
  /\ IsData(d)
  /\ IsSeq(d.providers) /\ \A i \in DOMAIN d.providers : ServicesHeld(d.providers[i], K)
  /\ ServicesHeld(d.tsp, K)
  /\ ServiceHeld(d.svc, K)
  /\ IsEntry(d.entry)
  /\ d.certs \subseteq K

\* The variables that no service is made of.
Outer == {"territory", "scheme_type", "next_update", "found", "quals", "text"}

\* What a function f called by g for an element returns.
HandedBack(g, closing, f, d, e) ==
  \/ /\ g \notin {"information", "instance", "identity"} /\ f \notin Records
     /\ e = d \/ \E x \in Outer \ {"text"} : \E v : e = Assign(d, x, v)
  \/ g = "information" /\ f \notin Records /\ e = Assign(d, "svc", P!Filled(d, d.svc, closing))
  \/ g = "instance" /\ f \notin Records /\ e = Assign(d, "entry", P!Filled(d, d.entry, closing))
  \/ g = "identity" /\ f = "text" /\ e = Assign(d, "certs", d.certs \cup {P!Uri(d.text)})
  \/ /\ g = "history" /\ f = "instance"
     /\ e = Assign(d, "svc", [d.svc EXCEPT !.history = Append(d.svc.history, d.entry)])
  \/ g = "services" /\ f = "service" /\ e = Assign(d, "tsp", Append(d.tsp, d.svc))
  \/ g = "providers" /\ f = "provider" /\ e = Assign(d, "providers", Append(d.providers, d.tsp))

LEMMA HandsBack ==
  ASSUME NEW g, NEW closing, NEW f, Links(g, closing, f), NEW d, NEW e, e = P!Returned(d, f, closing, g)
  PROVE  HandedBack(g, closing, f, d, e)
<1> USE DEF HandedBack
<1>1. /\ g = "history" => f = "instance"
      /\ g = "services" => f = "service"
      /\ g = "providers" => f = "provider"
      /\ g = "identity" => f = "text"
  BY LinksFrom
<1>2. g \notin {"history", "services", "providers"} => f \notin Records
  BY LinksTo DEF Records
<1>3. g \in {"list", "scheme", "providers", "provider", "tspInformation", "services", "service", "information",
             "history", "instance", "identity", "firstName", "country"}
  BY LinksTo DEF P!Calls
<1>4. CASE g \in {"list", "provider", "tspInformation", "service"}
  BY <1>2, <1>4, ReturnsNothing
<1>5. CASE g \in {"information", "instance"}
  BY <1>2, <1>5, ReturnsToPeriod
<1>6. CASE g = "identity"
  <2>1. f \notin Records
    BY <1>2, <1>6
  <2> QED
    BY <1>1, <1>6, <2>1, ReturnsToInner
<1>7. CASE g \in {"history", "services", "providers"}
  BY <1>1, <1>7, ReturnsRecord
<1>8. CASE g \in {"firstName", "country"}
  <2>1. e = Assign(d, "found", <<P!Uri(d.text)>>)
    <3>1. PICK uri : uri = P!Uri(d.text)
      OBVIOUS
    <3>2. P!Returned(d, f, closing, g) = [d EXCEPT !.found = <<uri>>]
      BY <1>2, <1>8, <3>1 DEF P!Returned, Records
    <3> QED
      BY <3>1, <3>2 DEF Assign
  <2>2. "found" \in Outer \ {"text"}
    BY DEF Outer
  <2> QED
    BY <1>2, <1>8, <2>1, <2>2
<1>9. CASE g = "scheme"
  <2>1. \/ e = d
        \/ e = Assign(d, "territory", d.text)
        \/ e = Assign(d, "scheme_type", <<P!Uri(d.text)>>)
        \/ e = Assign(d, "next_update", P!parse_datetime(d.text))
    BY <1>2, <1>9 DEF P!Returned, Records, Assign
  <2>2. "territory" \in Outer \ {"text"} /\ "scheme_type" \in Outer \ {"text"} /\ "next_update" \in Outer \ {"text"}
    BY DEF Outer
  <2> QED
    BY <1>2, <1>9, <2>1, <2>2
<1> QED
  BY <1>3, <1>4, <1>5, <1>6, <1>7, <1>8, <1>9

\* A service as an element of its period fills it.
FilledFrom(d, r, closing, v) ==
  /\ DOMAIN v = DOMAIN r
  /\ v.kind = IF closing = "ServiceTypeIdentifier" THEN P!Uri(d.text) ELSE r.kind
  /\ v.status = IF closing = "ServiceStatus" THEN P!Uri(d.text) ELSE r.status
  /\ v.start = IF closing = "StatusStartingTime" THEN P!parse_datetime(d.text) ELSE r.start
  /\ v.keys = IF closing = "ServiceDigitalIdentity" THEN r.keys \cup d.certs ELSE r.keys
  /\ IsService(r) => v.history = r.history

LEMMA Fills ==
  ASSUME NEW d, NEW r, IsService(r) \/ IsEntry(r), NEW closing
  PROVE  FilledFrom(d, r, closing, P!Filled(d, r, closing))
<1>v. PICK v : v = P!Filled(d, r, closing)
  OBVIOUS
<1>w. SUFFICES FilledFrom(d, r, closing, v)
  BY <1>v
<1>1. {"kind", "status", "start", "keys", "qualifiers"} \subseteq DOMAIN r
  BY DEF IsService, IsEntry
<1>2. IsService(r) => "history" \in DOMAIN r
  BY DEF IsService
<1>3. PICK uri, time : uri = P!Uri(d.text) /\ time = P!parse_datetime(d.text)
  OBVIOUS
<1>4. CASE closing = "ServiceTypeIdentifier"
  <2>1. v = [r EXCEPT !.kind = uri]
    BY <1>v, <1>3, <1>4 DEF P!Filled
  <2> QED
    BY <1>1, <1>2, <1>3, <1>4, <2>1 DEF FilledFrom
<1>5. CASE closing = "ServiceStatus"
  <2>1. v = [r EXCEPT !.status = uri]
    BY <1>v, <1>3, <1>5 DEF P!Filled
  <2> QED
    BY <1>1, <1>2, <1>3, <1>5, <2>1 DEF FilledFrom
<1>6. CASE closing = "StatusStartingTime"
  <2>1. v = [r EXCEPT !.start = time]
    BY <1>v, <1>3, <1>6 DEF P!Filled
  <2> QED
    BY <1>1, <1>2, <1>3, <1>6, <2>1 DEF FilledFrom
<1>7. CASE closing = "ServiceDigitalIdentity"
  <2>1. v = [r EXCEPT !.keys = @ \cup d.certs]
    BY <1>v, <1>7 DEF P!Filled
  <2> QED
    BY <1>1, <1>2, <1>3, <1>7, <2>1 DEF FilledFrom
<1>8. CASE closing = "ServiceInformationExtensions"
  <2>1. v = [r EXCEPT !.qualifiers = @ \cup d.quals]
    BY <1>v, <1>8 DEF P!Filled
  <2> QED
    BY <1>1, <1>2, <1>3, <1>8, <2>1 DEF FilledFrom
<1>9. CASE closing \notin {"ServiceTypeIdentifier", "ServiceStatus", "StatusStartingTime", "ServiceDigitalIdentity",
                           "ServiceInformationExtensions"}
  <2>1. v = r
    BY <1>v, <1>9 DEF P!Filled
  <2> QED
    BY <1>9, <2>1 DEF FilledFrom
<1> QED
  BY <1>4, <1>5, <1>6, <1>7, <1>8, <1>9

\* A service as a former period is added to it.
LEMMA Grows ==
  ASSUME NEW r, IsService(r), NEW h
  PROVE  /\ IsService(Grown(r, h)) /\ Grown(r, h).history = h
         /\ Grown(r, h).kind = r.kind /\ Grown(r, h).status = r.status
         /\ Grown(r, h).start = r.start /\ Grown(r, h).keys = r.keys
BY DEF IsService, Grown

\* What a function g finds when it is called.
LEMMA BeginsWith ==
  ASSUME NEW d, NEW g, NEW e, e = P!Fresh(d, g)
  PROVE  \/ /\ g \notin {"identity", "instance", "service", "provider"}
            /\ e = d \/ \E x \in Outer : \E v : e = Assign(d, x, v) /\ (x = "text" => v = <<>>)
         \/ g = "identity" /\ e = Assign(d, "certs", {})
         \/ g = "instance" /\ e = Assign(d, "entry", P!EmptyEntry)
         \/ g = "service" /\ e = Assign(d, "svc", P!EmptyService)
         \/ g = "provider" /\ e = Assign(d, "tsp", <<>>)
<1>1. "text" \in Outer /\ "found" \in Outer /\ "quals" \in Outer
  BY DEF Outer
<1>2. CASE g \in {"identity", "instance", "service", "provider"}
  BY <1>2, FreshData
<1>3. CASE g \in {"text", "inside"}
  BY <1>1, <1>3, FreshData
<1>4. CASE g \in {"firstName", "country"}
  <2>1. e = Assign(d, "found", <<>>)
    BY <1>4 DEF P!Fresh, Assign
  <2> QED
    BY <1>1, <1>4, <2>1
<1>5. CASE g = "qualifiers"
  BY <1>1, <1>5, FreshData
<1>6. CASE g \notin {"identity", "instance", "service", "provider", "text", "inside", "firstName", "country",
                     "qualifiers"}
  <2>1. e = d
    BY <1>6 DEF P!Fresh
  <2> QED
    BY <1>6, <2>1
<1> QED
  BY <1>2, <1>3, <1>4, <1>5, <1>6

LEMMA EmptyHeld ==
  ASSUME NEW K
  PROVE  ServiceHeld(P!EmptyService, K) /\ IsEntry(P!EmptyEntry) /\ ServicesHeld(<<>>, K)
<1>1. ServiceHeld(P!EmptyService, K)
  BY EmptyParts, OneElement DEF ServiceHeld
<1>2. IsEntry(P!EmptyEntry)
  <2>1. PICK unset : P!EmptyEntry = [kind |-> unset, status |-> unset, start |-> NoTime, keys |-> {},
                                     qualifiers |-> {}]
    <3>1. \E unset : P!EmptyEntry = [kind |-> unset, status |-> unset, start |-> NoTime, keys |-> {},
                                     qualifiers |-> {}]
      BY Zenon DEF P!EmptyEntry
    <3> QED
      BY <3>1
  <2> QED
    BY <2>1 DEF IsEntry
<1>3. ServicesHeld(<<>>, K)
  <2>1. PICK q : q = <<>>
    OBVIOUS
  <2>2. IsSeq(q) /\ DOMAIN q = {}
    <3>1. IsSeq(<<>>)
      BY OneElement
    <3>2. DOMAIN <<>> = {}
      OBVIOUS
    <3> QED
      BY <2>1, <3>1, <3>2
  <2>3. ServicesHeld(q, K)
    BY <2>2 DEF ServicesHeld
  <2> QED
    BY <2>1, <2>3
<1> QED
  BY <1>1, <1>2, <1>3

LEMMA LocalAssigned ==
  ASSUME NEW d, NEW K, Local(d, K), NEW x \in Locals, NEW v, NEW e, e = Assign(d, x, v),
         x = "providers" => IsSeq(v) /\ \A i \in DOMAIN v : ServicesHeld(v[i], K),
         x = "tsp" => ServicesHeld(v, K),
         x = "svc" => ServiceHeld(v, K),
         x = "entry" => IsEntry(v),
         x = "certs" => v \subseteq K
  PROVE  Local(e, K) /\ e[x] = v /\ \A y \in Locals : y # x => e[y] = d[y]
<1>1. IsData(d)
  BY DEF Local
<1>2. IsData(e) /\ e[x] = v /\ \A y \in Locals : y # x => e[y] = d[y]
  BY <1>1, AssignedValue, AssignedOther
<1>3. "providers" \in Locals /\ "tsp" \in Locals /\ "svc" \in Locals /\ "entry" \in Locals /\ "certs" \in Locals
  BY DEF Locals
<1>4. IsSeq(e.providers) /\ \A i \in DOMAIN e.providers : ServicesHeld(e.providers[i], K)
  <2>1. CASE x = "providers"
    BY <1>2, <2>1
  <2>2. CASE x # "providers"
    <3>1. e.providers = d.providers
      BY <1>2, <1>3, <2>2
    <3> QED
      BY <3>1 DEF Local
  <2> QED
    BY <2>1, <2>2
<1>5. ServicesHeld(e.tsp, K)
  BY <1>2, <1>3 DEF Local
<1>6. ServiceHeld(e.svc, K)
  BY <1>2, <1>3 DEF Local
<1>7. IsEntry(e.entry)
  BY <1>2, <1>3 DEF Local
<1>8. e.certs \subseteq K
  BY <1>2, <1>3 DEF Local
<1> QED
  BY <1>2, <1>4, <1>5, <1>6, <1>7, <1>8 DEF Local

LEMMA LocalOuter ==
  ASSUME NEW d, NEW K, Local(d, K), NEW x \in Outer, NEW v
  PROVE  /\ Local(Assign(d, x, v), K) /\ \A y \in Locals : y # x => Assign(d, x, v)[y] = d[y]
         /\ Assign(d, x, v)[x] = v
<1>1. x \in Locals /\ x \notin {"providers", "tsp", "svc", "entry", "certs"}
  BY DEF Outer, Locals
<1> QED
  BY <1>1, LocalAssigned

LEMMA LocalFresh ==
  ASSUME NEW d, NEW K, Local(d, K), NEW g
  PROVE  Local(P!Fresh(d, g), K)
<1>1. "tsp" \in Locals /\ "svc" \in Locals /\ "entry" \in Locals /\ "certs" \in Locals
  BY DEF Locals
<1>2. PICK e : e = P!Fresh(d, g)
  OBVIOUS
<1>3. CASE e = d \/ \E x \in Outer : \E v : e = Assign(d, x, v)
  BY <1>2, <1>3, LocalOuter
<1>4. CASE e = Assign(d, "certs", {})
  BY <1>1, <1>2, <1>4, LocalAssigned
<1>5. CASE e = Assign(d, "entry", P!EmptyEntry)
  BY <1>1, <1>2, <1>5, EmptyHeld, LocalAssigned
<1>6. CASE e = Assign(d, "svc", P!EmptyService)
  BY <1>1, <1>2, <1>6, EmptyHeld, LocalAssigned
<1>7. CASE e = Assign(d, "tsp", <<>>)
  BY <1>1, <1>2, <1>7, EmptyHeld, LocalAssigned
<1> QED
  BY <1>2, <1>3, <1>4, <1>5, <1>6, <1>7, BeginsWith

LEMMA MoreHeld ==
  ASSUME NEW S, NEW q, IsSeq(q), \A i \in DOMAIN q : q[i] \in S, NEW x \in S
  PROVE  IsSeq(Append(q, x)) /\ \A i \in DOMAIN Append(q, x) : Append(q, x)[i] \in S
<1>1. /\ Append(q, x) \in Seq(Range(Append(q, x)))
      /\ DOMAIN Append(q, x) = DOMAIN q \cup {Len(q) + 1}
      /\ \A n \in DOMAIN q : Append(q, x)[n] = q[n]
      /\ Append(q, x)[Len(q) + 1] = x
  BY Appended DEF IsSeq
<1> QED
  BY <1>1 DEF IsSeq

LEMMA FilledHeld ==
  ASSUME NEW d, NEW closing, NEW K, NEW r
  PROVE  /\ ServiceHeld(r, K) /\ d.certs \subseteq K => ServiceHeld(P!Filled(d, r, closing), K)
         /\ IsEntry(r) => IsEntry(P!Filled(d, r, closing))
<1>1. PICK v : v = P!Filled(d, r, closing)
  OBVIOUS
<1>2. IsService(r) \/ IsEntry(r) => FilledFrom(d, r, closing, v)
  <2>1. IsService(r) \/ IsEntry(r) => FilledFrom(d, r, closing, P!Filled(d, r, closing))
    BY Fills
  <2> QED
    BY <1>1, <2>1
<1>3. ASSUME ServiceHeld(r, K), d.certs \subseteq K PROVE ServiceHeld(v, K)
  <2>1. FilledFrom(d, r, closing, v)
    BY <1>2, <1>3 DEF ServiceHeld
  <2>2. v.keys = IF closing = "ServiceDigitalIdentity" THEN r.keys \cup d.certs ELSE r.keys
    BY <2>1 DEF FilledFrom
  <2>3. v.keys \subseteq K
    BY <1>3, <2>2 DEF ServiceHeld
  <2> QED
    BY <1>3, <2>1, <2>3 DEF ServiceHeld, FilledFrom, IsService
<1>4. ASSUME IsEntry(r) PROVE IsEntry(v)
  BY <1>2, <1>4 DEF IsEntry, FilledFrom
<1> QED
  BY <1>1, <1>3, <1>4

LEMMA GrownHeld ==
  ASSUME NEW K, NEW r, ServiceHeld(r, K), NEW h, IsSeq(h)
  PROVE  ServiceHeld(Grown(r, h), K)
<1>1. PICK v : v = Grown(r, h)
  OBVIOUS
<1>2. IsService(v) /\ v.history = h /\ v.keys = r.keys
  <2>1. IsService(Grown(r, h)) /\ Grown(r, h).history = h /\ Grown(r, h).keys = r.keys
    BY Grows DEF ServiceHeld
  <2> QED
    BY <1>1, <2>1
<1>3. ServiceHeld(v, K)
  BY <1>2 DEF ServiceHeld
<1> QED
  BY <1>1, <1>3

LEMMA LocalReturned ==
  ASSUME NEW d, NEW K, Local(d, K), NEW g, NEW closing, NEW f, Links(g, closing, f),
         g = "identity" => P!Uri(d.text) \in K
  PROVE  Local(P!Returned(d, f, closing, g), K)
<1>1. "tsp" \in Locals /\ "svc" \in Locals /\ "entry" \in Locals /\ "certs" \in Locals /\ "providers" \in Locals
  BY DEF Locals
<1>2. PICK e : e = P!Returned(d, f, closing, g)
  OBVIOUS
<1>3. CASE e = d \/ \E x \in Outer : \E v : e = Assign(d, x, v)
  BY <1>2, <1>3, LocalOuter
<1>4. CASE e = Assign(d, "svc", P!Filled(d, d.svc, closing))
  <2>1. ServiceHeld(d.svc, K) /\ d.certs \subseteq K
    BY DEF Local
  <2>2. ServiceHeld(P!Filled(d, d.svc, closing), K)
    BY <2>1, FilledHeld
  <2> QED
    BY <1>1, <1>2, <1>4, <2>2, LocalAssigned
<1>5. CASE e = Assign(d, "entry", P!Filled(d, d.entry, closing))
  <2>1. IsEntry(P!Filled(d, d.entry, closing))
    BY FilledHeld DEF Local
  <2> QED
    BY <1>1, <1>2, <1>5, <2>1, LocalAssigned
<1>6. CASE g = "identity" /\ e = Assign(d, "certs", d.certs \cup {P!Uri(d.text)})
  <2>1. PICK v : v = d.certs \cup {P!Uri(d.text)}
    OBVIOUS
  <2>2. v \subseteq K
    BY <1>6, <2>1 DEF Local
  <2> QED
    BY <1>1, <1>2, <1>6, <2>1, <2>2, LocalAssigned
<1>7. CASE e = Assign(d, "svc", [d.svc EXCEPT !.history = Append(d.svc.history, d.entry)])
  <2>1. PICK h, r, v : h = Append(d.svc.history, d.entry) /\ r = d.svc /\ v = Grown(r, h)
    OBVIOUS
  <2>2. ServiceHeld(r, K)
    BY <2>1 DEF Local
  <2>3. IsSeq(h)
    BY <2>1, <2>2, Appended DEF ServiceHeld, IsSeq
  <2>4. ServiceHeld(v, K)
    <3>1. ServiceHeld(Grown(r, h), K)
      BY <2>2, <2>3, GrownHeld
    <3> QED
      BY <2>1, <3>1
  <2>5. e = Assign(d, "svc", v)
    BY <1>7, <2>1 DEF Grown
  <2> QED
    BY <1>1, <1>2, <2>4, <2>5, LocalAssigned
<1>8. CASE e = Assign(d, "tsp", Append(d.tsp, d.svc))
  <2>1. PICK v : v = Append(d.tsp, d.svc)
    OBVIOUS
  <2>2. PICK S : S = {x \in Range(d.tsp) \cup {d.svc} : ServiceHeld(x, K)}
    OBVIOUS
  <2>3. IsSeq(d.tsp) /\ (\A i \in DOMAIN d.tsp : d.tsp[i] \in S) /\ d.svc \in S
    BY <2>2 DEF Local, ServicesHeld, Range
  <2>4. IsSeq(v) /\ \A i \in DOMAIN v : v[i] \in S
    BY <2>1, <2>3, MoreHeld
  <2>5. ServicesHeld(v, K)
    BY <2>2, <2>4 DEF ServicesHeld
  <2> QED
    BY <1>1, <1>2, <1>8, <2>1, <2>5, LocalAssigned
<1>9. CASE e = Assign(d, "providers", Append(d.providers, d.tsp))
  <2>1. PICK v : v = Append(d.providers, d.tsp)
    OBVIOUS
  <2>2. PICK S : S = {x \in Range(d.providers) \cup {d.tsp} : ServicesHeld(x, K)}
    OBVIOUS
  <2>3. IsSeq(d.providers) /\ (\A i \in DOMAIN d.providers : d.providers[i] \in S) /\ d.tsp \in S
    BY <2>2 DEF Local, Range
  <2>4. IsSeq(v) /\ \A i \in DOMAIN v : v[i] \in S
    BY <2>1, <2>3, MoreHeld
  <2>5. IsSeq(v) /\ \A i \in DOMAIN v : ServicesHeld(v[i], K)
    BY <2>2, <2>4
  <2>6. e = Assign(d, "providers", v)
    BY <1>9, <2>1
  <2>7. Local(e, K)
    BY <1>1, <2>5, <2>6, LocalAssigned
  <2> QED
    BY <1>2, <2>7
<1> QED
  BY <1>2, <1>3, <1>4, <1>5, <1>6, <1>7, <1>8, <1>9, HandsBack DEF HandedBack

----------------------------------------------------------------------------
(* What each step keeps.                                                   *)

LEMMA CallerParts ==
  ASSUME NEW s, Pile(s), s # <<>>
  PROVE  /\ Len(s) = 1 => Caller(s) = NoName /\ ~Named(Caller(s)) /\ s[Len(s)].fn = "list"
         /\ Len(s) # 1 =>
              /\ Len(s) - 1 \in DOMAIN s /\ Caller(s) = s[Len(s) - 1].fn /\ Named(Caller(s))
              /\ Links(Caller(s), s[Len(s)].closing, s[Len(s)].fn)
<1>1. PICK n \in Nat \ {0} : n = Len(s) /\ DOMAIN s = 1..n
  BY PileParts
<1>2. CASE n = 1
  <2>1. Caller(s) = NoName
    BY <1>1, <1>2, Zenon DEF Caller, NoName
  <2>2. s[n].fn = "list"
    BY <1>1, <1>2 DEF Pile
  <2> QED
    BY <1>1, <1>2, <2>1, <2>2, NamesDiffer
<1>3. CASE n # 1
  <2>1. Caller(s) = s[Len(s) - 1].fn
    BY <1>1, <1>3, Zenon DEF Caller
  <2>2. n - 1 \in DOMAIN s
    BY <1>1, <1>3
  <2>3. Named(s[n - 1].fn) /\ Links(s[n - 1].fn, s[n].closing, s[n].fn)
    BY <1>1, <1>3, <2>2 DEF Pile
  <2> QED
    BY <1>1, <1>3, <2>1, <2>2, <2>3
<1> QED
  BY <1>1, <1>2, <1>3

LEMMA ListReturns == ASSUME NEW d, NEW closing PROVE P!Returned(d, "list", closing, NoName) = d
BY NamesDiffer DEF P!Returned

\* Between two steps: the functions called, and what their variables hold.
Sound(x, K) == Pile(x[2]) /\ (x[2] # <<>> => x[4] = "none") /\ Local(x[3], K)

LEMMA BackParts ==
  ASSUME NEW s, Pile(s), s # <<>>, NEW rest, NEW d, NEW x, x = Back(rest, s, d, "none")
  PROVE  /\ x[1] = rest /\ x[2] = SubSeq(s, 1, Len(s) - 1)
         /\ Len(s) = 1 => x[3] = d /\ x[4] = "Ok" /\ x[2] = <<>>
         /\ Len(s) # 1 => x[3] = P!Returned(d, s[Len(s)].fn, s[Len(s)].closing, Caller(s)) /\ x[4] = "none"
<1>1. PICK c, e, p : /\ c = Caller(s) /\ e = P!Returned(d, s[Len(s)].fn, s[Len(s)].closing, c)
                     /\ p = SubSeq(s, 1, Len(s) - 1)
  OBVIOUS
<1>2. x = <<rest, p, e, IF Named(c) THEN "none" ELSE "Ok">>
  BY <1>1, Zenon DEF Back
<1>3. x[1] = rest /\ x[2] = p /\ x[3] = e /\ x[4] = IF Named(c) THEN "none" ELSE "Ok"
  BY <1>2
<1>4. CASE Len(s) = 1
  <2>1. c = NoName /\ ~Named(c) /\ s[Len(s)].fn = "list"
    BY <1>1, <1>4, CallerParts
  <2>2. e = d
    BY <1>1, <2>1, ListReturns
  <2>3. p = <<>>
    <3>1. p = SubSeq(s, 1, Len(s) - 1)
      BY <1>1
    <3>2. Pile(p) /\ Len(p) = Len(s) - 1
      BY <3>1, Popped
    <3>3. Len(p) = 0
      BY <1>4, <3>2
    <3> QED
      BY <3>2, <3>3, EmptySeq DEF Pile, IsSeq
  <2> QED
    BY <1>1, <1>3, <1>4, <2>1, <2>2, <2>3
<1>5. CASE Len(s) # 1
  <2>1. Named(c)
    BY <1>1, <1>5, CallerParts
  <2> QED
    BY <1>1, <1>3, <1>5, <2>1
<1> QED
  BY <1>4, <1>5

LEMMA BackSound ==
  ASSUME NEW s, Pile(s), s # <<>>, NEW d, NEW K, Local(d, K), Caller(s) = "identity" => P!Uri(d.text) \in K,
         NEW rest, NEW x, x = Back(rest, s, d, "none")
  PROVE  Sound(x, K)
<1>1. Pile(x[2])
  BY BackParts, Popped
<1>2. CASE Len(s) = 1
  BY <1>1, <1>2, BackParts DEF Sound
<1>3. CASE Len(s) # 1
  <2>1. Links(Caller(s), s[Len(s)].closing, s[Len(s)].fn)
    BY <1>3, CallerParts
  <2>2. Local(P!Returned(d, s[Len(s)].fn, s[Len(s)].closing, Caller(s)), K)
    BY <2>1, LocalReturned
  <2> QED
    BY <1>1, <1>3, <2>2, BackParts DEF Sound
<1> QED
  BY <1>2, <1>3

\* What a step of a call makes of the pile and of the variables: nothing a
\* service is made of, a function called, more of a text, or a return.
Aside(s, d, y) ==
  /\ y[2] = s \/ \E by : y[2] = Recount(s, by)
  /\ y[3] = d \/ \E x \in Outer \ {"text"} : \E v : y[3] = Assign(d, x, v)
  /\ y[4] = "none"
Calling(s, d, y) ==
  \E name, g : /\ Links(s[Len(s)].fn, name, g) /\ Named(g)
               /\ y[2] = Append(s, Frame(g, name)) /\ y[3] = P!Fresh(d, g) /\ y[4] = "none"
Taking(s, d, e, y) ==
  /\ s[Len(s)].fn \in {"text", "inside"} /\ e.kind = "text"
  /\ y[2] = s /\ y[3] = Assign(d, "text", d.text \o e.val) /\ y[4] = "none"

LEMMA NotedIs ==
  ASSUME NEW d, NEW fn, NEW e
  PROVE  \E x \in Outer \ {"text"} : \E v : Noted(d, fn, e) = Assign(d, x, v)
<1>1. PICK v : v = d.quals \cup IF fn = "qualifiers" /\ e.name = "Qualifier" THEN {e.val} ELSE {}
  OBVIOUS
<1>2. Noted(d, fn, e) = Assign(d, "quals", v)
  BY <1>1 DEF Noted, Assign
<1>3. "quals" \in Outer \ {"text"}
  BY DEF Outer
<1> QED
  BY <1>2, <1>3

LEMMA BackRest ==
  ASSUME NEW rest, NEW s, NEW d, NEW r
  PROVE  Back(rest, s, d, r)[1] = rest
<1>1. PICK p, e, t : Back(rest, s, d, r) = <<rest, p, e, t>>
  <2>1. \E p, e, t : Back(rest, s, d, r) = <<rest, p, e, t>>
    BY Zenon DEF Back
  <2> QED
    BY <2>1
<1> QED
  BY <1>1

LEMMA EventMoves ==
  ASSUME NEW e, e.kind \in Kinds, NEW rest, NEW s, NEW d, NEW y, y = OnEvent(e, rest, s, d, "none")
  PROVE  /\ y[1] = rest
         /\ \/ Aside(s, d, y)
            \/ Calling(s, d, y)
            \/ Taking(s, d, e, y)
            \/ e.kind = "end" /\ EndsCall(e, s[Len(s)]) /\ y = Back(rest, s, d, "none")
<1>1. CASE e.kind = "start"
  <2>1. y = OnStart(e, rest, s, d, "none")
    BY <1>1 DEF OnEvent
  <2>2. PICK called : called = P!Callee(d, s[Len(s)].fn, e.name)
    OBVIOUS
  <2>3. CASE s[Len(s)].fn \in P!Counting
    <3>1. y = <<rest, Recount(s, 1), d, "none">>
      BY <2>1, <2>3 DEF OnStart
    <3> QED
      BY <3>1 DEF Aside
  <2>4. CASE s[Len(s)].fn \notin P!Counting /\ called # "none"
    <3>1. y = <<rest, Append(s, Frame(called, e.name)), P!Fresh(d, called), "none">>
      BY <2>1, <2>2, <2>4 DEF OnStart
    <3>2. Links(s[Len(s)].fn, e.name, called) /\ Named(called)
      BY <2>2, <2>4, CalleeLinks
    <3>3. y[1] = rest /\ y[2] = Append(s, Frame(called, e.name)) /\ y[3] = P!Fresh(d, called) /\ y[4] = "none"
      BY <3>1
    <3> QED
      BY <3>2, <3>3 DEF Calling
  <2>5. CASE s[Len(s)].fn \notin P!Counting /\ called = "none"
    <3>1. y = <<rest, s, Noted(d, s[Len(s)].fn, e), "none">>
      BY <2>1, <2>2, <2>5 DEF OnStart
    <3> QED
      BY <3>1, NotedIs DEF Aside
  <2> QED
    BY <2>3, <2>4, <2>5
<1>2. CASE e.kind = "empty"
  <2>1. y = <<rest, s, Noted(d, s[Len(s)].fn, e), "none">>
    BY <1>2 DEF OnEvent
  <2> QED
    BY <2>1, NotedIs DEF Aside
<1>3. CASE e.kind = "end"
  <2>1. y = OnEnd(e, rest, s, d, "none")
    BY <1>3 DEF OnEvent
  <2>2. CASE EndsCall(e, s[Len(s)])
    <3>1. y = Back(rest, s, d, "none")
      BY <2>1, <2>2 DEF OnEnd
    <3>2. y[1] = rest
      BY <3>1, BackRest
    <3> QED
      BY <1>3, <2>2, <3>1, <3>2
  <2>3. CASE ~EndsCall(e, s[Len(s)])
    <3>1. y = <<rest, IF s[Len(s)].fn \in P!Counting THEN Recount(s, -1) ELSE s, d, "none">>
      BY <2>1, <2>3 DEF OnEnd
    <3>2. y[1] = rest /\ (y[2] = s \/ y[2] = Recount(s, -1)) /\ y[3] = d /\ y[4] = "none"
      BY <3>1
    <3> QED
      BY <3>2 DEF Aside
  <2> QED
    BY <2>2, <2>3
<1>4. CASE e.kind = "text"
  <2>1. y = <<rest, s, IF s[Len(s)].fn \in {"text", "inside"} THEN Assign(d, "text", d.text \o e.val) ELSE d,
              "none">>
    BY <1>4 DEF OnEvent, OnText, Assign
  <2>2. CASE s[Len(s)].fn \in {"text", "inside"}
    BY <1>4, <2>1, <2>2 DEF Taking
  <2>3. CASE s[Len(s)].fn \notin {"text", "inside"}
    BY <2>1, <2>3 DEF Aside
  <2> QED
    BY <2>2, <2>3
<1>5. CASE e.kind = "other"
  <2>1. y = <<rest, s, d, "none">>
    BY <1>5 DEF OnEvent
  <2> QED
    BY <2>1 DEF Aside
<1> QED
  BY <1>1, <1>2, <1>3, <1>4, <1>5 DEF Kinds

LEMMA Moves ==
  ASSUME NEW x, x[2] # <<>>, x[4] = "none", x[1] # <<>> => Head(x[1]).kind \in Kinds, NEW y, y = Turn(x)
  PROVE  \/ Aside(x[2], x[3], y)
         \/ Calling(x[2], x[3], y)
         \/ x[1] # <<>> /\ Taking(x[2], x[3], Head(x[1]), y)
         \/ Returning(x) /\ y = Back(y[1], x[2], x[3], "none")
<1>1. CASE x[1] = <<>>
  <2>1. y = Back(x[1], x[2], x[3], "none")
    BY <1>1 DEF Turn
  <2>2. y[1] = x[1]
    BY <2>1, BackRest
  <2>3. Returning(x)
    BY <1>1 DEF Returning
  <2> QED
    BY <2>1, <2>2, <2>3
<1>2. CASE x[1] # <<>>
  <2>1. y = OnEvent(Head(x[1]), Tail(x[1]), x[2], x[3], "none")
    BY <1>2 DEF Turn
  <2> QED
    BY <1>2, <2>1, EventMoves DEF Returning
<1> QED
  BY <1>1, <1>2

LEMMA SoundTurn ==
  ASSUME NEW x, NEW K, Sound(x, K), x[1] # <<>> => Head(x[1]).kind \in Kinds,
         Returning(x) /\ Caller(x[2]) = "identity" => P!Uri(x[3].text) \in K
  PROVE  Sound(Turn(x), K)
<1>1. CASE x[2] = <<>>
  BY <1>1 DEF Turn
<1>2. CASE x[2] # <<>>
  <2>1. PICK s, d, y : s = x[2] /\ d = x[3] /\ y = Turn(x)
    OBVIOUS
  <2>2. s # <<>> /\ Pile(s) /\ Local(d, K) /\ x[4] = "none"
    BY <1>2, <2>1 DEF Sound
  <2>3. ASSUME NEW v \in Outer, NEW w PROVE Local(Assign(d, v, w), K)
    BY <2>2, LocalOuter
  <2>4. CASE Aside(s, d, y)
    <3>1. Pile(y[2])
      BY <2>2, <2>4, Deepened DEF Aside
    <3>2. Local(y[3], K)
      BY <2>2, <2>3, <2>4 DEF Aside
    <3> QED
      BY <2>1, <2>4, <3>1, <3>2 DEF Sound, Aside
  <2>5. CASE Calling(s, d, y)
    <3>1. Pile(y[2])
      <4>1. PICK name, g : Links(s[Len(s)].fn, name, g) /\ Named(g) /\ y[2] = Append(s, Frame(g, name))
        BY <2>5 DEF Calling
      <4>2. s # <<>> /\ Pile(s)
        BY <2>2
      <4>3. Pile(Append(s, Frame(g, name)))
        BY <4>1, <4>2, Pushed
      <4> QED
        BY <4>1, <4>3
    <3>2. Local(y[3], K)
      BY <2>2, <2>5, LocalFresh DEF Calling
    <3> QED
      BY <2>1, <2>5, <3>1, <3>2 DEF Sound, Calling
  <2>6. CASE Taking(s, d, Head(x[1]), y)
    <3>1. "text" \in Outer
      BY DEF Outer
    <3>2. Local(y[3], K)
      BY <2>3, <2>6, <3>1 DEF Taking
    <3> QED
      BY <2>1, <2>2, <2>6, <3>2 DEF Sound, Taking
  <2>7. CASE Returning(x) /\ y = Back(y[1], s, d, "none")
    BY <2>1, <2>2, <2>7, BackSound
  <2> QED
    BY <1>2, <2>1, <2>2, <2>4, <2>5, <2>6, <2>7, Moves
<1> QED
  BY <1>1, <1>2

----------------------------------------------------------------------------
(* Lists of lists.                                                         *)

\* A sequence of sequences put together, and with one more.
LEMMA Flattened ==
  ASSUME NEW q, IsSeq(q), \A i \in DOMAIN q : IsSeq(q[i])
  PROVE  IsSeq(FlattenSeq(q)) /\ \A x : IsSeq(x) => FlattenSeq(Append(q, x)) = FlattenSeq(q) \o x
<1>1. PICK k \in Nat : k = Len(q) /\ DOMAIN q = 1..k /\ q = [n \in 1..k |-> q[n]]
  BY LenProperties DEF IsSeq
<1>2. ASSUME NEW F, \A n \in 1..k : IsSeq(F[n]) PROVE IsSeq(FirstOnes(F, k))
  <2> DEFINE S == {m \in 0..k : IsSeq(FirstOnes(F, m))}
  <2>1. 0 \in S
    BY <1>1, NoPieces
  <2>2. ASSUME NEW m \in 0..(k - 1), m \in S PROVE m + 1 \in S
    <3>1. m \in Nat /\ m + 1 \in 0..k /\ \A n \in 1..(m + 1) : n \in 1..k
      OBVIOUS
    <3>2. IsSeq(FirstOnes(F, m)) /\ \A n \in 1..(m + 1) : IsSeq(F[n])
      BY <1>2, <2>2, <3>1
    <3>3. IsSeq(FirstOnes(F, m + 1))
      BY <3>1, <3>2, OneMorePiece
    <3> QED
      BY <3>1, <3>3
  <2> HIDE DEF S
  <2>3. k \in S
    BY <2>1, <2>2, UpTo
  <2> QED
    BY <2>3 DEF S
<1>3. FirstOnes(q, k) = FlattenSeq(q)
  BY <1>1 DEF FirstOnes
<1>4. ASSUME NEW x, IsSeq(x) PROVE FlattenSeq(Append(q, x)) = FlattenSeq(q) \o x
  <2>1. PICK r : r = Append(q, x)
    OBVIOUS
  <2>2. IsSeq(r) /\ Len(r) = k + 1 /\ r[k + 1] = x /\ \A n \in 1..k : r[n] = q[n]
    BY <1>1, <2>1, OnTop
  <2>3. DOMAIN r = 1..(k + 1) /\ r = [n \in 1..(k + 1) |-> r[n]]
    BY <2>2, LenProperties DEF IsSeq
  <2>4. FirstOnes(r, k + 1) = FlattenSeq(r)
    BY <2>3 DEF FirstOnes
  <2>5. FirstOnes(r, k) = FlattenSeq(q)
    <3>1. [n \in 1..k |-> r[n]] = q
      BY <1>1, <2>2
    <3> QED
      BY <3>1 DEF FirstOnes
  <2>6. \A n \in 1..(k + 1) : IsSeq(r[n])
    <3>1. ASSUME NEW n \in 1..(k + 1) PROVE IsSeq(r[n])
      <4>1. CASE n = k + 1
        BY <1>4, <2>2, <4>1
      <4>2. CASE n # k + 1
        <5>1. n \in 1..k
          BY <4>2
        <5>2. r[n] = q[n] /\ IsSeq(q[n])
          BY <1>1, <2>2, <5>1
        <5> QED
          BY <5>2
      <4> QED
        BY <4>1, <4>2
    <3> QED
      BY <3>1
  <2>7. IsSeq(FirstOnes(r, k))
    BY <1>2, <2>6
  <2>8. FirstOnes(r, k + 1) = FirstOnes(r, k) \o r[k + 1]
    BY <2>6, <2>7, OneMorePiece
  <2> QED
    BY <2>1, <2>2, <2>4, <2>5, <2>8
<1>5. IsSeq(FlattenSeq(q))
  BY <1>1, <1>2, <1>3
<1> QED
  BY <1>4, <1>5

\* Its elements are those of the sequences.
LEMMA FlattenedFrom ==
  ASSUME NEW q, IsSeq(q), NEW S, \A i \in DOMAIN q : IsSeq(q[i]) /\ Range(q[i]) \subseteq S
  PROVE  Range(FlattenSeq(q)) \subseteq S
<1>1. PICK k \in Nat : k = Len(q) /\ DOMAIN q = 1..k /\ q = [n \in 1..k |-> q[n]]
  BY LenProperties DEF IsSeq
<1> DEFINE P0 == {m \in 0..k : IsSeq(FirstOnes(q, m)) /\ Range(FirstOnes(q, m)) \subseteq S}
<1>2. 0 \in P0
  <2>1. FirstOnes(q, 0) = <<>> /\ IsSeq(FirstOnes(q, 0))
    BY NoPieces
  <2>2. Range(FirstOnes(q, 0)) = {}
    BY <2>1, OneElement
  <2> QED
    BY <1>1, <2>1, <2>2
<1>3. ASSUME NEW m \in 0..(k - 1), m \in P0 PROVE m + 1 \in P0
  <2>1. m \in Nat /\ m + 1 \in 0..k /\ (\A n \in 1..(m + 1) : n \in 1..k) /\ m + 1 \in 1..(m + 1)
    OBVIOUS
  <2>2. IsSeq(FirstOnes(q, m)) /\ (\A n \in 1..(m + 1) : IsSeq(q[n])) /\ Range(q[m + 1]) \subseteq S
    BY <1>1, <1>3, <2>1
  <2>3. IsSeq(FirstOnes(q, m + 1)) /\ FirstOnes(q, m + 1) = FirstOnes(q, m) \o q[m + 1]
    BY <2>1, <2>2, OneMorePiece
  <2>4. IsSeq(q[m + 1])
    BY <2>1, <2>2
  <2>5. Range(FirstOnes(q, m + 1)) = Range(FirstOnes(q, m)) \cup Range(q[m + 1])
    BY <2>2, <2>3, <2>4, Joined
  <2> QED
    BY <1>3, <2>1, <2>2, <2>3, <2>5
<1> HIDE DEF P0
<1>4. k \in P0
  BY <1>2, <1>3, UpTo
<1>5. FirstOnes(q, k) = FlattenSeq(q)
  BY <1>1 DEF FirstOnes
<1> QED
  BY <1>4, <1>5 DEF P0

\* Two lists together, and one more element.
LEMMA JoinedMore ==
  ASSUME NEW p, IsSeq(p), NEW q, IsSeq(q), NEW x
  PROVE  p \o Append(q, x) = Append(p \o q, x)
<1>1. PICK T : T = (Range(p) \cup Range(q)) \cup {x}
  OBVIOUS
<1>2. p \in Seq(T) /\ q \in Seq(T) /\ x \in T
  BY <1>1, SeqMonotonic DEF IsSeq
<1>3. PICK r : r = p \o q
  OBVIOUS
<1>4. r \in Seq(T)
  BY <1>2, <1>3
<1>5. Append(q, x) = q \o <<x>> /\ Append(r, x) = r \o <<x>>
  BY <1>2, <1>4, AppendIsConcat
<1>6. IsSeq(<<x>>)
  BY OneElement
<1>7. r \o <<x>> = p \o (q \o <<x>>)
  BY <1>3, <1>6, JoinedTwice
<1> QED
  BY <1>3, <1>5, <1>7

----------------------------------------------------------------------------
(* What is read of a list fits what all of it says, at every step.         *)

\* The lists that a whole document can say: T, of services and their periods.
Wholes(T) == IsSeq(T) /\ \A m \in DOMAIN T : IsService(T[m]) /\ IsSeq(T[m].history)

\* All of q is as g says, and g says more.
Wholly(q, g) == Len(q) < Len(g) /\ \A n \in 1..Len(q) : q[n] = g[n]

\* A text may not have been reached, or be cut off.
Unsaid == {NoName, "cut"}
Heard(x, y) == x \in Unsaid \/ x = y

\* A service r is read of which all is t.
Begun(r, t) ==
  /\ Heard(r.kind, t.kind) /\ Heard(r.status, t.status) /\ r.keys \subseteq t.keys
  /\ r.start = t.start \/ (r.start = NoTime /\ r.history = <<>>)

\* Of the periods in h all but the last are as g says.
FormerPeriods(h, g) ==
  /\ Len(h) <= Len(g) /\ \A n \in 1..(Len(h) - 1) : h[n] = g[n]
  /\ h # <<>> => h[Len(h)].keys \subseteq g[Len(h)].keys
Partial(r, t) == Begun(r, t) /\ FormerPeriods(r.history, t.history)

\* Of the services in q all but the last are as T says.
Partly(q, T) ==
  /\ Len(q) <= Len(T) /\ \A n \in 1..(Len(q) - 1) : q[n] = T[n]
  /\ q # <<>> => Partial(q[Len(q)], T[Len(q)])

\* A former period x of r is read.
Returns(r, x, t) ==
  r.start = t.start /\ Wholly(r.history, t.history) /\ x.keys \subseteq t.history[Len(r.history) + 1].keys

\* The keys of the certificates that may be read, and what a text may say.
Wanted(s, d, t) == IF InInstance(s) THEN t.history[Len(d.svc.history) + 1].keys ELSE t.keys
Says(closing, d, t) ==
  /\ closing = "ServiceTypeIdentifier" => Heard(P!Uri(d.text), t.kind)
  /\ closing = "ServiceStatus" => Heard(P!Uri(d.text), t.status)
  /\ closing = "StatusStartingTime" => P!parse_datetime(d.text) \in {NoTime, t.start} /\ d.svc.history = <<>>
TextFits(s, d, t) ==
  s[Len(s)].fn = "text" =>
    /\ Caller(s) = "identity" => P!Uri(d.text) \in Wanted(s, d, t) \cup Unsaid
    /\ Caller(s) = "information" => Says(s[Len(s)].closing, d, t)

OpenFits(s, d, t) ==
  /\ Begun(d.svc, t)
  /\ InInstance(s) => Returns(d.svc, d.entry, t)
  /\ ~InInstance(s) => FormerPeriods(d.svc.history, t.history)
  /\ InIdentity(s) => d.certs \subseteq Wanted(s, d, t)
  /\ TextFits(s, d, t)

Done(s, d) == IF InProvider(s) THEN FlattenSeq(d.providers) \o d.tsp ELSE FlattenSeq(d.providers)
Fits(s, d, T) ==
  IF InService(s) THEN Wholly(Done(s, d), T) /\ OpenFits(s, d, T[Len(Done(s, d)) + 1])
  ELSE Partly(Done(s, d), T)

LEMMA WhollyFormer ==
  ASSUME NEW h, IsSeq(h), NEW g, IsSeq(g), Wholly(h, g)
  PROVE  FormerPeriods(h, g)
<1>1. PICK n \in Nat : n = Len(h) /\ (h # <<>> => n # 0)
  BY LenProperties, EmptySeq DEF IsSeq
<1>2. PICK m \in Nat : m = Len(g)
  BY LenProperties DEF IsSeq
<1>3. n < m /\ \A i \in 1..n : h[i] = g[i]
  BY <1>1, <1>2 DEF Wholly
<1>4. (\A i \in 1..(n - 1) : h[i] = g[i]) /\ (n # 0 => h[n] = g[n])
  BY <1>3
<1> QED
  BY <1>1, <1>2, <1>3, <1>4 DEF FormerPeriods

LEMMA FormerMore ==
  ASSUME NEW h, IsSeq(h), NEW g, IsSeq(g), NEW x
  PROVE  /\ FormerPeriods(Append(h, x), g) <=> Wholly(h, g) /\ x.keys \subseteq g[Len(h) + 1].keys
         /\ Append(h, x) # <<>>
<1>1. PICK n \in Nat : n = Len(h)
  BY LenProperties DEF IsSeq
<1>2. PICK m \in Nat : m = Len(g)
  BY LenProperties DEF IsSeq
<1>3. PICK q : q = Append(h, x)
  OBVIOUS
<1>4. Len(q) = n + 1 /\ q # <<>> /\ q[n + 1] = x /\ \A i \in 1..n : q[i] = h[i]
  BY <1>1, <1>3, OnTop
<1>5. Wholly(h, g) <=> n + 1 <= m /\ \A i \in 1..n : h[i] = g[i]
  BY <1>1, <1>2 DEF Wholly
<1>6. FormerPeriods(q, g) <=> n + 1 <= m /\ (\A i \in 1..n : q[i] = g[i]) /\ x.keys \subseteq g[n + 1].keys
  BY <1>1, <1>2, <1>4 DEF FormerPeriods
<1> QED
  BY <1>1, <1>3, <1>4, <1>5, <1>6

\* A service of which all is read.
LEMMA WholeFits ==
  ASSUME NEW t, IsSeq(t.history)
  PROVE  Partial(t, t)
<1>1. Begun(t, t)
  BY DEF Begun, Heard
<1>2. FormerPeriods(t.history, t.history)
  <2>1. Len(t.history) \in Nat
    BY LenProperties DEF IsSeq
  <2> QED
    BY <2>1 DEF FormerPeriods
<1> QED
  BY <1>1, <1>2 DEF Partial

LEMMA WhollyPartly ==
  ASSUME NEW T, Wholes(T), NEW q, IsSeq(q), Wholly(q, T)
  PROVE  Partly(q, T)
<1>1. PICK n \in Nat : n = Len(q) /\ (q # <<>> => n # 0)
  BY LenProperties, EmptySeq DEF IsSeq
<1>2. PICK m \in Nat : m = Len(T) /\ DOMAIN T = 1..m
  BY LenProperties DEF Wholes, IsSeq
<1>3. n < m /\ \A i \in 1..n : q[i] = T[i]
  BY <1>1, <1>2 DEF Wholly
<1>4. (\A i \in 1..(n - 1) : q[i] = T[i]) /\ (n # 0 => q[n] = T[n] /\ n \in DOMAIN T)
  BY <1>2, <1>3
<1>5. n # 0 => Partial(q[n], T[n])
  BY <1>4, WholeFits DEF Wholes
<1> QED
  BY <1>1, <1>2, <1>3, <1>4, <1>5 DEF Partly

LEMMA PartlyMore ==
  ASSUME NEW T, Wholes(T), NEW q, IsSeq(q), NEW x
  PROVE  Partly(Append(q, x), T) <=> Wholly(q, T) /\ Partial(x, T[Len(q) + 1])
<1>1. PICK n \in Nat : n = Len(q)
  BY LenProperties DEF IsSeq
<1>2. PICK m \in Nat : m = Len(T)
  BY LenProperties DEF IsSeq, Wholes
<1>3. PICK r : r = Append(q, x)
  OBVIOUS
<1>4. Len(r) = n + 1 /\ r # <<>> /\ r[n + 1] = x /\ \A i \in 1..n : r[i] = q[i]
  BY <1>1, <1>3, OnTop
<1>5. Wholly(q, T) <=> n + 1 <= m /\ \A i \in 1..n : q[i] = T[i]
  BY <1>1, <1>2 DEF Wholly
<1>6. Partly(r, T) <=> n + 1 <= m /\ (\A i \in 1..n : r[i] = T[i]) /\ Partial(x, T[n + 1])
  BY <1>1, <1>2, <1>4 DEF Partly
<1> QED
  BY <1>1, <1>3, <1>4, <1>5, <1>6

\* Nothing of this changes as long as the same functions are open around and
\* the same is read of services.
Around(s, p) ==
  /\ InProvider(s) <=> InProvider(p)
  /\ InService(s) <=> InService(p)
  /\ InInstance(s) <=> InInstance(p)
  /\ InIdentity(s) <=> InIdentity(p)
Alike(d, e) ==
  e.providers = d.providers /\ e.tsp = d.tsp /\ e.svc = d.svc /\ e.entry = d.entry /\ e.certs = d.certs

LEMMA FitsAlike ==
  ASSUME NEW s, NEW p, Around(s, p), NEW d, NEW e, Alike(d, e), NEW T,
         InService(s) => \A t : TextFits(s, d, t) => TextFits(p, e, t)
  PROVE  Fits(s, d, T) => Fits(p, e, T)
<1>1. Done(p, e) = Done(s, d)
  BY DEF Done, Around, Alike
<1>2. \A t : Wanted(p, e, t) = Wanted(s, d, t)
  BY DEF Wanted, Around, Alike
<1>3. ASSUME NEW t, InService(s), OpenFits(s, d, t) PROVE OpenFits(p, e, t)
  BY <1>2, <1>3 DEF OpenFits, Around, Alike
<1> QED
  BY <1>1, <1>3 DEF Fits, Around

LEMMA AlikeOuter ==
  ASSUME NEW d, NEW K, Local(d, K), NEW x \in Outer, NEW v
  PROVE  Alike(d, Assign(d, x, v)) /\ (x # "text" => Assign(d, x, v).text = d.text)
<1>1. \A y \in Locals : y # x => Assign(d, x, v)[y] = d[y]
  BY LocalOuter
<1>2. {"providers", "tsp", "svc", "entry", "certs", "text"} \subseteq Locals
  BY DEF Locals
<1>3. x \notin {"providers", "tsp", "svc", "entry", "certs"}
  BY DEF Outer
<1> QED
  BY <1>1, <1>2, <1>3 DEF Alike

LEMMA AroundOpened ==
  ASSUME NEW s, NEW p, \A i, fn : Opens(p, i, fn) <=> Opens(s, i, fn)
  PROVE  Around(s, p)
BY DEF Around, InProvider, InService, InInstance, InIdentity

Scopes == {"provider", "service", "instance", "identity"}

\* The pile p is s with function g called.
Atop(s, p, g) ==
  /\ Pile(s) /\ Pile(p) /\ p # <<>> /\ p[Len(p)].fn = g /\ Len(s) = Len(p) - 1
  /\ \A i, fn : Opens(p, i, fn) <=> Opens(s, i, fn) \/ (AtTop(p, i) /\ fn = g)

LEMMA PushedAtop ==
  ASSUME NEW s, Pile(s), s # <<>>, NEW name, NEW g, Links(s[Len(s)].fn, name, g), Named(g),
         NEW p, p = Append(s, Frame(g, name))
  PROVE  Atop(s, p, g)
<1>1. \A i, fn : Opens(p, i, fn) <=> Opens(s, i, fn) \/ (AtTop(p, i) /\ fn = g)
  BY Pushed
<1>2. Pile(p) /\ p # <<>> /\ Len(p) = Len(s) + 1
  BY Pushed
<1>3. p[Len(p)].fn = g
  <2>1. p[Len(p)] = Frame(g, name)
    BY Pushed
  <2> QED
    BY <2>1, FrameParts
<1>4. Len(s) \in Nat
  BY PileParts
<1> QED
  BY <1>1, <1>2, <1>3, <1>4 DEF Atop

LEMMA PoppedAtop ==
  ASSUME NEW s, Pile(s), s # <<>>, NEW p, p = SubSeq(s, 1, Len(s) - 1)
  PROVE  Atop(p, s, s[Len(s)].fn)
<1>1. \A i, fn : Opens(p, i, fn) <=> Opens(s, i, fn) /\ ~AtTop(s, i)
  BY Popped
<1>2. Pile(p) /\ Len(p) = Len(s) - 1
  BY Popped
<1>3. \A i, fn : AtTop(s, i) => (Opens(s, i, fn) <=> fn = s[Len(s)].fn)
  <2>1. Len(s) \in DOMAIN s
    BY PileParts
  <2> QED
    BY <2>1 DEF AtTop, Opens
<1> QED
  BY <1>1, <1>2, <1>3 DEF Atop

\* In which of the functions that matter here it is.
LEMMA Scoped ==
  ASSUME NEW s, NEW p, NEW g, Atop(s, p, g)
  PROVE  /\ g \notin Scopes => Around(s, p) /\ Around(p, s)
         /\ g # "provider" => (InProvider(s) <=> InProvider(p))
         /\ g # "service" => (InService(s) <=> InService(p))
         /\ g # "instance" => (InInstance(s) <=> InInstance(p))
         /\ g # "identity" => (InIdentity(s) <=> InIdentity(p))
         /\ g = "provider" => InProvider(p) /\ ~InProvider(s) /\ ~InService(p) /\ ~InService(s)
         /\ g = "service" => InProvider(s) /\ InService(p) /\ ~InService(s) /\ ~InInstance(p) /\ ~InIdentity(p)
         /\ g = "instance" => InService(s) /\ InInstance(p) /\ ~InInstance(s) /\ ~InIdentity(p) /\ ~InIdentity(s)
         /\ g = "identity" => InService(s) /\ InIdentity(p) /\ ~InIdentity(s)
<1>1. \A i, fn : fn # g => (Opens(p, i, fn) <=> Opens(s, i, fn))
  BY DEF Atop
<1>2. \A i, fn : Opens(s, i, fn) => Opens(p, i, fn)
  BY DEF Atop
<1>3. PICK n \in Nat \ {0} : n = Len(p) /\ DOMAIN p = 1..n /\ Placed(g, n) /\ p[n].fn = g
  BY PileParts DEF Atop
<1>4. DOMAIN s = 1..(n - 1)
  BY <1>3, LenProperties DEF Atop, Pile, IsSeq
<1>5. g # "provider" => (InProvider(s) <=> InProvider(p))
  BY <1>1 DEF InProvider
<1>6. g # "service" => (InService(s) <=> InService(p))
  BY <1>1 DEF InService
<1>7. g # "instance" => (InInstance(s) <=> InInstance(p))
  BY <1>1 DEF InInstance
<1>8. g # "identity" => (InIdentity(s) <=> InIdentity(p))
  BY <1>1 DEF InIdentity
<1>9. g \notin Scopes => Around(s, p) /\ Around(p, s)
  BY <1>5, <1>6, <1>7, <1>8 DEF Around, Scopes
<1>10. ASSUME g = "provider" PROVE InProvider(p) /\ ~InProvider(s) /\ ~InService(p) /\ ~InService(s)
  <2>1. n = 3
    BY <1>3, <1>10 DEF Placed, Places
  <2> QED
    BY <1>3, <1>4, <1>10, <2>1 DEF InProvider, InService, Opens
<1>11. ASSUME g = "service"
       PROVE  InProvider(s) /\ InService(p) /\ ~InService(s) /\ ~InInstance(p) /\ ~InIdentity(p)
  <2>1. n = 5
    BY <1>3, <1>11 DEF Placed, Places
  <2>2. InService(p) /\ ~InService(s) /\ ~InInstance(p) /\ ~InIdentity(p)
    BY <1>3, <1>4, <1>11, <2>1 DEF InService, InInstance, InIdentity, Opens
  <2>3. InProvider(p)
    BY <2>2, Nested DEF Atop
  <2> QED
    BY <1>5, <1>11, <2>2, <2>3
<1>12. ASSUME g = "instance"
       PROVE  InService(s) /\ InInstance(p) /\ ~InInstance(s) /\ ~InIdentity(p) /\ ~InIdentity(s)
  <2>1. n = 7
    BY <1>3, <1>12 DEF Placed, Places
  <2>2. InInstance(p) /\ ~InInstance(s) /\ ~InIdentity(p)
    BY <1>3, <1>4, <1>12, <2>1 DEF InInstance, InIdentity, Opens
  <2>3. InService(p)
    BY <2>2, Nested DEF Atop
  <2> QED
    BY <1>6, <1>8, <1>12, <2>2, <2>3
<1>13. ASSUME g = "identity" PROVE InService(s) /\ InIdentity(p) /\ ~InIdentity(s)
  <2>1. n = 7 \/ n = 8
    BY <1>3, <1>13 DEF Placed, Places
  <2>2. InIdentity(p)
    <3>1. Opens(p, n, "identity")
      BY <1>3, <1>13 DEF Opens
    <3> QED
      BY <2>1, <3>1 DEF InIdentity
  <2>3. InService(p)
    BY <2>2, Nested DEF Atop
  <2>4. ~Opens(s, 8, "identity")
    BY <1>4, <2>1 DEF Opens
  <2>5. ~Opens(s, 7, "identity")
    <3> SUFFICES ASSUME Opens(s, 7, "identity") PROVE FALSE
      OBVIOUS
    <3>1. n = 8
      BY <1>4, <2>1 DEF Opens
    <3>2. p[7].fn = "identity"
      BY <1>2 DEF Opens
    <3>3. Links(p[8 - 1].fn, p[8].closing, p[8].fn)
      BY <1>3, <3>1 DEF Atop, Pile
    <3>4. p[8].fn = "identity"
      BY <1>3, <1>13, <3>1
    <3>5. p[7].fn \in {"information", "instance"}
      BY <3>3, <3>4, LinksTo
    <3> QED
      BY <3>2, <3>5
  <2> QED
    BY <1>6, <1>13, <2>2, <2>3, <2>4, <2>5 DEF InIdentity
<1> QED
  BY <1>5, <1>6, <1>7, <1>8, <1>9, <1>10, <1>11, <1>12, <1>13

LEMMA AsideFits ==
  ASSUME NEW s, Pile(s), s # <<>>, NEW d, NEW K, Local(d, K), NEW y, Aside(s, d, y), NEW T
  PROVE  Fits(y[2], y[3], T) <=> Fits(s, d, T)
<1>1. PICK p, e : p = y[2] /\ e = y[3]
  OBVIOUS
<1>2. /\ Len(p) = Len(s)
      /\ \A i \in DOMAIN s : p[i].fn = s[i].fn /\ p[i].closing = s[i].closing
      /\ \A i, fn : Opens(p, i, fn) <=> Opens(s, i, fn)
  <2>1. CASE p = s
    BY <2>1
  <2>2. CASE \E by : p = Recount(s, by)
    BY <2>2, Deepened
  <2> QED
    BY <1>1, <2>1, <2>2 DEF Aside
<1>3. Alike(d, e) /\ e.text = d.text
  <2>1. CASE e = d
    BY <2>1 DEF Alike
  <2>2. CASE \E x \in Outer \ {"text"} : \E v : e = Assign(d, x, v)
    BY <2>2, AlikeOuter
  <2> QED
    BY <1>1, <2>1, <2>2 DEF Aside
<1>4. Around(s, p) /\ Around(p, s) /\ Alike(e, d)
  BY <1>2, <1>3, AroundOpened DEF Alike
<1>5. s[Len(s)].fn = p[Len(p)].fn /\ s[Len(s)].closing = p[Len(p)].closing
  BY <1>2, PileParts
<1>6. Caller(p) = Caller(s)
  <2>1. CASE Len(s) = 1
    BY <1>2, <2>1, Zenon DEF Caller
  <2>2. CASE Len(s) # 1
    <3>1. Caller(s) = s[Len(s) - 1].fn /\ Len(s) - 1 \in DOMAIN s
      BY <2>2, CallerParts
    <3>2. Caller(p) = p[Len(s) - 1].fn
      BY <1>2, <2>2, Zenon DEF Caller
    <3> QED
      BY <1>2, <3>1, <3>2
  <2> QED
    BY <2>1, <2>2
<1>7. \A t : Wanted(p, e, t) = Wanted(s, d, t)
  BY <1>3, <1>4 DEF Wanted, Around, Alike
<1>8. \A t, closing : Says(closing, e, t) <=> Says(closing, d, t)
  BY <1>3 DEF Says, Alike
<1>9. \A t : TextFits(p, e, t) <=> TextFits(s, d, t)
  BY <1>3, <1>5, <1>6, <1>7, <1>8 DEF TextFits
<1>10. Fits(s, d, T) => Fits(p, e, T)
  BY <1>3, <1>4, <1>9, FitsAlike
<1>11. Fits(p, e, T) => Fits(s, d, T)
  BY <1>4, <1>9, FitsAlike
<1> QED
  BY <1>1, <1>10, <1>11

\* A text has not been read.
LEMMA NoTextFits ==
  ASSUME NEW s, NEW d, d.text = <<>>, NEW t,
         Caller(s) = "information" /\ s[Len(s)].closing = "StatusStartingTime" => d.svc.history = <<>>
  PROVE  TextFits(s, d, t)
<1>1. PICK q : q = <<>>
  OBVIOUS
<1>2. P!Uri(q) = NoName
  BY <1>1, Zenon DEF P!Uri, NoName
<1>3. P!parse_datetime(q) = NoTime
  BY <1>1 DEF P!parse_datetime
<1>4. P!Uri(d.text) = NoName /\ P!parse_datetime(d.text) = NoTime
  BY <1>1, <1>2, <1>3
<1>5. NoName \in Unsaid
  BY Zenon DEF Unsaid
<1> QED
  BY <1>4, <1>5 DEF TextFits, Says, Heard

\* A text that is cut off.
LEMMA CutTextFits ==
  ASSUME NEW s, NEW d, d.text = <<"cut">>, NEW t,
         Caller(s) = "information" /\ s[Len(s)].closing = "StatusStartingTime" => d.svc.history = <<>>
  PROVE  TextFits(s, d, t)
<1>1. P!Uri(d.text) = "cut"
  BY TextRead
<1>2. P!parse_datetime(d.text) = NoTime
  BY DEF P!parse_datetime
<1>3. "cut" \in Unsaid
  BY Zenon DEF Unsaid
<1> QED
  BY <1>1, <1>2, <1>3 DEF TextFits, Says, Heard

LEMMA TakingFits ==
  ASSUME NEW s, NEW d, NEW K, Local(d, K), NEW e, NEW y, Taking(s, d, e, y), NEW T,
         s[Len(s)].fn = "text" => d.text = <<>>
  PROVE  /\ Fits(y[2], y[3], T) => Fits(s, d, T)
         /\ e.val = <<"cut">> /\ Fits(s, d, T) => Fits(y[2], y[3], T)
<1>1. PICK f : f = y[3]
  OBVIOUS
<1>2. y[2] = s /\ f = Assign(d, "text", d.text \o e.val)
  BY <1>1 DEF Taking
<1>3. "text" \in Outer /\ "text" \in Locals
  BY DEF Outer, Locals
<1>4. Alike(d, f) /\ Alike(f, d) /\ Around(s, s)
  BY <1>2, <1>3, AlikeOuter DEF Alike, Around
<1>5. f.text = d.text \o e.val
  BY <1>2, <1>3, AssignedValue DEF Local
<1>6. CASE s[Len(s)].fn # "text"
  <2>1. \A t : TextFits(s, d, t) /\ TextFits(s, f, t)
    BY <1>6 DEF TextFits
  <2> QED
    BY <1>1, <1>2, <1>4, <2>1, FitsAlike
<1>7. CASE s[Len(s)].fn = "text"
  <2>1. d.text = <<>> /\ f.svc = d.svc
    BY <1>4, <1>7 DEF Alike
  <2>2. \A t : TextFits(s, f, t) => TextFits(s, d, t)
    <3>1. ASSUME NEW t, TextFits(s, f, t) PROVE TextFits(s, d, t)
      <4>1. Caller(s) = "information" /\ s[Len(s)].closing = "StatusStartingTime" => d.svc.history = <<>>
        BY <1>7, <2>1, <3>1 DEF TextFits, Says
      <4> QED
        BY <2>1, <4>1, NoTextFits
    <3> QED
      BY <3>1
  <2>3. ASSUME e.val = <<"cut">>, NEW t, TextFits(s, d, t) PROVE TextFits(s, f, t)
    <3>1. Caller(s) = "information" /\ s[Len(s)].closing = "StatusStartingTime" => f.svc.history = <<>>
      BY <1>7, <2>1, <2>3 DEF TextFits, Says
    <3>2. f.text = <<"cut">>
      <4>1. PICK q : q = <<"cut">>
        OBVIOUS
      <4>2. IsSeq(q)
        BY <4>1, OneElement
      <4>3. <<>> \o q = q
        BY <4>2, NothingJoined
      <4> QED
        BY <1>5, <2>1, <2>3, <4>1, <4>3
    <3> QED
      BY <3>1, <3>2, CutTextFits
  <2>4. Fits(s, f, T) => Fits(s, d, T)
    BY <1>4, <2>2, FitsAlike
  <2>5. e.val = <<"cut">> /\ Fits(s, d, T) => Fits(s, f, T)
    BY <1>4, <2>3, FitsAlike
  <2> QED
    BY <1>1, <1>2, <2>4, <2>5
<1> QED
  BY <1>6, <1>7

LEMMA DoneIsSeq ==
  ASSUME NEW d, NEW K, Local(d, K), NEW s
  PROVE  IsSeq(Done(s, d)) /\ IsSeq(FlattenSeq(d.providers)) /\ IsSeq(d.tsp) /\ IsSeq(d.svc.history)
<1>1. IsSeq(d.providers) /\ \A i \in DOMAIN d.providers : IsSeq(d.providers[i])
  BY DEF Local, ServicesHeld
<1>2. IsSeq(FlattenSeq(d.providers))
  BY <1>1, Flattened
<1>3. IsSeq(d.tsp)
  BY DEF Local, ServicesHeld
<1>4. IsSeq(FlattenSeq(d.providers) \o d.tsp)
  BY <1>2, <1>3, Joined
<1>5. IsSeq(d.svc.history)
  BY DEF Local, ServiceHeld
<1> QED
  BY <1>2, <1>3, <1>4, <1>5 DEF Done

\* The service of T that is being read.
LEMMA WholesNext ==
  ASSUME NEW T, Wholes(T), NEW q, IsSeq(q), Wholly(q, T)
  PROVE  Len(q) + 1 \in DOMAIN T /\ IsSeq(T[Len(q) + 1].history)
<1>1. Len(q) \in Nat /\ Len(T) \in Nat /\ DOMAIN T = 1..Len(T)
  BY LenProperties DEF Wholes, IsSeq
<1>2. Len(q) + 1 \in DOMAIN T
  BY <1>1 DEF Wholly
<1> QED
  BY <1>2 DEF Wholes

LEMMA CallingFits ==
  ASSUME NEW s, Pile(s), s # <<>>, NEW d, NEW K, Local(d, K), NEW y, Calling(s, d, y),
         NEW T, Wholes(T), Fits(y[2], y[3], T)
  PROVE  Fits(s, d, T)
<1>1. PICK name, g : /\ Links(s[Len(s)].fn, name, g) /\ Named(g)
                     /\ y[2] = Append(s, Frame(g, name)) /\ y[3] = P!Fresh(d, g)
  BY DEF Calling
<1>2. PICK p, e : p = y[2] /\ e = y[3]
  OBVIOUS
<1>3. e = P!Fresh(d, g) /\ Fits(p, e, T)
  BY <1>1, <1>2
<1>4. Atop(s, p, g)
  <2>1. Links(s[Len(s)].fn, name, g) /\ Named(g)
    BY <1>1
  <2>2. p = Append(s, Frame(g, name))
    BY <1>1, <1>2
  <2> QED
    BY <2>1, <2>2, PushedAtop
<1>5. \A t : TextFits(s, d, t)
  <2>1. s[Len(s)].fn \in DOMAIN P!Calls
    BY <1>1, LinksTo
  <2>2. s[Len(s)].fn # "text"
    BY <2>1 DEF P!Calls
  <2> QED
    BY <2>2 DEF TextFits
<1>6. IsData(d) /\ {"providers", "tsp", "svc", "entry", "certs"} \subseteq Locals
  BY DEF Local, Locals
<1>7. CASE g \notin Scopes
  <2>1. Alike(e, d)
    <3>1. e = d \/ \E x \in Outer : \E v : e = Assign(d, x, v)
      BY <1>3, <1>7, BeginsWith DEF Scopes
    <3> QED
      BY <3>1, AlikeOuter DEF Alike
  <2>2. Around(p, s)
    BY <1>4, <1>7, Scoped
  <2> QED
    BY <1>3, <1>5, <2>1, <2>2, FitsAlike
<1>8. CASE g = "identity"
  <2>1. e = Assign(d, "certs", {})
    BY <1>3, <1>8, FreshData
  <2>2. e.providers = d.providers /\ e.tsp = d.tsp /\ e.svc = d.svc /\ e.entry = d.entry
    BY <1>6, <2>1, AssignedOther
  <2>3. InService(p) /\ InService(s) /\ ~InIdentity(s)
    BY <1>4, <1>8, Scoped
  <2>4. (InProvider(s) <=> InProvider(p)) /\ (InInstance(s) <=> InInstance(p))
    BY <1>4, <1>8, Scoped
  <2>5. Done(p, e) = Done(s, d)
    BY <2>2, <2>4 DEF Done
  <2>6. \A t : OpenFits(p, e, t) => OpenFits(s, d, t)
    BY <1>5, <2>2, <2>3, <2>4 DEF OpenFits
  <2> QED
    BY <1>3, <2>3, <2>5, <2>6 DEF Fits
<1>9. CASE g = "instance"
  <2>1. e = Assign(d, "entry", P!EmptyEntry)
    BY <1>3, <1>9, FreshData
  <2>2. e.providers = d.providers /\ e.tsp = d.tsp /\ e.svc = d.svc
    BY <1>6, <2>1, AssignedOther
  <2>3. InService(p) /\ InService(s) /\ ~InIdentity(s) /\ InInstance(p) /\ ~InInstance(s)
    BY <1>4, <1>9, Scoped
  <2>4. InProvider(s) <=> InProvider(p)
    BY <1>4, <1>9, Scoped
  <2>5. Done(p, e) = Done(s, d)
    BY <2>2, <2>4 DEF Done
  <2>6. PICK t : t = T[Len(Done(s, d)) + 1]
    OBVIOUS
  <2>7. Wholly(Done(s, d), T) /\ OpenFits(p, e, t)
    BY <1>3, <2>3, <2>5, <2>6 DEF Fits
  <2>8. FormerPeriods(d.svc.history, t.history)
    <3>1. IsSeq(t.history)
      BY <2>6, <2>7, DoneIsSeq, WholesNext
    <3>2. Wholly(d.svc.history, t.history)
      BY <2>2, <2>3, <2>7 DEF OpenFits, Returns
    <3> QED
      BY <3>1, <3>2, DoneIsSeq, WhollyFormer
  <2>9. OpenFits(s, d, t)
    BY <1>5, <2>2, <2>3, <2>7, <2>8 DEF OpenFits
  <2> QED
    BY <2>3, <2>6, <2>7, <2>9 DEF Fits
<1>10. CASE g = "service"
  <2>1. e = Assign(d, "svc", P!EmptyService)
    BY <1>3, <1>10, FreshData
  <2>2. e.providers = d.providers /\ e.tsp = d.tsp
    BY <1>6, <2>1, AssignedOther
  <2>3. InService(p) /\ ~InService(s)
    BY <1>4, <1>10, Scoped
  <2>4. InProvider(s) <=> InProvider(p)
    BY <1>4, <1>10, Scoped
  <2>5. Done(p, e) = Done(s, d)
    BY <2>2, <2>4 DEF Done
  <2>6. Wholly(Done(s, d), T)
    BY <1>3, <2>3, <2>5 DEF Fits
  <2>7. Partly(Done(s, d), T)
    BY <2>6, DoneIsSeq, WhollyPartly
  <2> QED
    BY <2>3, <2>7 DEF Fits
<1>11. CASE g = "provider"
  <2>1. e = Assign(d, "tsp", <<>>)
    BY <1>3, <1>11, FreshData
  <2>2. e.providers = d.providers /\ e.tsp = <<>>
    BY <1>6, <2>1, AssignedOther, AssignedValue
  <2>3. InProvider(p) /\ ~InProvider(s) /\ ~InService(p) /\ ~InService(s)
    BY <1>4, <1>11, Scoped
  <2>4. Done(p, e) = FlattenSeq(d.providers) \o <<>> /\ Done(s, d) = FlattenSeq(d.providers)
    BY <2>2, <2>3 DEF Done
  <2>5. Done(p, e) = Done(s, d)
    <3>1. PICK q : q = FlattenSeq(d.providers)
      OBVIOUS
    <3>2. IsSeq(q)
      BY <3>1, DoneIsSeq
    <3>3. q \o <<>> = q
      BY <3>2, NothingJoined
    <3> QED
      BY <2>4, <3>1, <3>3
  <2> QED
    BY <1>3, <2>3, <2>5 DEF Fits
<1> QED
  BY <1>7, <1>8, <1>9, <1>10, <1>11 DEF Scopes

LEMMA UnsetName == P!EmptyService.kind = NoName /\ P!EmptyService.status = NoName
<1>1. PICK unset : /\ unset = NoName
                   /\ P!EmptyService = [kind |-> unset, status |-> unset, start |-> NoTime, keys |-> {},
                                        history |-> <<>>, qualifiers |-> {}]
  <2>1. P!EmptyService = [kind |-> NoName, status |-> NoName, start |-> NoTime, keys |-> {},
                          history |-> <<>>, qualifiers |-> {}]
    BY Zenon DEF P!EmptyService, NoName
  <2> QED
    BY <2>1, Zenon
<1> QED
  BY <1>1

\* An element of the present period fills the service it is read into, as it
\* may.
LEMMA FilledFits ==
  ASSUME NEW d, IsService(d.svc), NEW closing, NEW v, v = P!Filled(d, d.svc, closing), NEW t
  PROVE  /\ v.history = d.svc.history
         /\ /\ closing \in {"ServiceTypeIdentifier", "ServiceStatus", "StatusStartingTime"} =>
                 Unfilled(d.svc, closing)
            /\ Begun(v, t)
            => /\ Begun(d.svc, t) /\ Says(closing, d, t)
               /\ closing = "ServiceDigitalIdentity" => d.certs \subseteq t.keys
         /\ /\ Begun(d.svc, t) /\ Says(closing, d, t)
            /\ closing = "ServiceDigitalIdentity" => d.certs \subseteq t.keys
            => Begun(v, t)
<1>1. PICK r : r = d.svc
  OBVIOUS
<1>2. FilledFrom(d, r, closing, v) /\ IsService(r)
  <2>1. FilledFrom(d, r, closing, P!Filled(d, r, closing))
    BY <1>1, Fills
  <2> QED
    BY <1>1, <2>1
<1>3. PICK uri, time : uri = P!Uri(d.text) /\ time = P!parse_datetime(d.text)
  OBVIOUS
<1>4. /\ v.kind = IF closing = "ServiceTypeIdentifier" THEN uri ELSE r.kind
      /\ v.status = IF closing = "ServiceStatus" THEN uri ELSE r.status
      /\ v.start = IF closing = "StatusStartingTime" THEN time ELSE r.start
      /\ v.keys = IF closing = "ServiceDigitalIdentity" THEN r.keys \cup d.certs ELSE r.keys
      /\ v.history = r.history
  BY <1>2, <1>3 DEF FilledFrom
<1>5. Says(closing, d, t) <=>
        /\ closing = "ServiceTypeIdentifier" => Heard(uri, t.kind)
        /\ closing = "ServiceStatus" => Heard(uri, t.status)
        /\ closing = "StatusStartingTime" => time \in {NoTime, t.start} /\ r.history = <<>>
  BY <1>1, <1>3 DEF Says
<1>6. \A y : Heard(NoName, y)
  BY Zenon DEF Heard, Unsaid
<1>7. ASSUME closing \in {"ServiceTypeIdentifier", "ServiceStatus", "StatusStartingTime"} => Unfilled(r, closing),
             Begun(v, t)
      PROVE  /\ Begun(r, t) /\ Says(closing, d, t)
             /\ closing = "ServiceDigitalIdentity" => d.certs \subseteq t.keys
  <2>1. /\ closing = "ServiceTypeIdentifier" => r.kind = NoName
        /\ closing = "ServiceStatus" => r.status = NoName
        /\ closing = "StatusStartingTime" => r.start = NoTime /\ r.history = <<>>
    BY <1>7, UnsetName, EmptyParts DEF Unfilled
  <2>2. Heard(r.kind, t.kind) /\ (closing = "ServiceTypeIdentifier" => Heard(uri, t.kind))
    BY <1>4, <1>6, <1>7, <2>1 DEF Begun
  <2>3. Heard(r.status, t.status) /\ (closing = "ServiceStatus" => Heard(uri, t.status))
    BY <1>4, <1>6, <1>7, <2>1 DEF Begun
  <2>4. r.start = t.start \/ (r.start = NoTime /\ r.history = <<>>)
    BY <1>4, <1>7, <2>1 DEF Begun
  <2>5. closing = "StatusStartingTime" => time \in {NoTime, t.start} /\ r.history = <<>>
    BY <1>4, <1>7, <2>1 DEF Begun
  <2>6. r.keys \subseteq t.keys /\ (closing = "ServiceDigitalIdentity" => d.certs \subseteq t.keys)
    BY <1>4, <1>7 DEF Begun
  <2>7. Begun(r, t)
    BY <2>2, <2>3, <2>4, <2>6 DEF Begun
  <2>8. Says(closing, d, t)
    BY <1>5, <2>2, <2>3, <2>5
  <2> QED
    BY <2>6, <2>7, <2>8
<1>8. ASSUME Begun(r, t), Says(closing, d, t), closing = "ServiceDigitalIdentity" => d.certs \subseteq t.keys
      PROVE  Begun(v, t)
  <2>1. Heard(v.kind, t.kind) /\ Heard(v.status, t.status)
    BY <1>4, <1>5, <1>8 DEF Begun
  <2>2. v.keys \subseteq t.keys
    BY <1>4, <1>8 DEF Begun
  <2>3. v.start = t.start \/ (v.start = NoTime /\ v.history = <<>>)
    BY <1>4, <1>5, <1>8 DEF Begun
  <2> QED
    BY <2>1, <2>2, <2>3 DEF Begun
<1> QED
  BY <1>1, <1>4, <1>7, <1>8

LEMMA TopIn ==
  ASSUME NEW p, Pile(p), p # <<>>
  PROVE  /\ p[Len(p)].fn = "information" => InService(p) /\ ~InInstance(p) /\ ~InIdentity(p)
         /\ p[Len(p)].fn = "instance" => InService(p) /\ InInstance(p) /\ ~InIdentity(p)
         /\ p[Len(p)].fn = "identity" => InService(p) /\ InIdentity(p)
         /\ p[Len(p)].fn = "history" => InService(p) /\ ~InInstance(p) /\ ~InIdentity(p)
<1>1. PICK n \in Nat \ {0} : n = Len(p) /\ DOMAIN p = 1..n /\ Placed(p[n].fn, n)
  BY PileParts
<1>2. PICK q : q = SubSeq(p, 1, Len(p) - 1)
  OBVIOUS
<1>3. Atop(q, p, p[Len(p)].fn)
  BY <1>2, PoppedAtop
<1>4. CASE p[n].fn = "information" \/ p[n].fn = "history"
  <2>1. n = 6
    BY <1>1, <1>4 DEF Placed, Places
  <2>2. ~InInstance(p) /\ ~InIdentity(p)
    BY <1>1, <2>1 DEF InInstance, InIdentity, Opens
  <2>3. Opens(p, 6, "information") \/ Opens(p, 6, "history")
    BY <1>1, <1>4, <2>1 DEF Opens
  <2>4. InService(p)
    BY <2>3, Nested
  <2> QED
    BY <1>1, <1>4, <2>2, <2>4
<1>5. CASE p[n].fn = "instance"
  <2>1. Atop(q, p, "instance")
    BY <1>1, <1>3, <1>5
  <2>2. InService(q) /\ InInstance(p) /\ ~InIdentity(p) /\ (InService(q) <=> InService(p))
    BY <2>1, Scoped
  <2> QED
    BY <1>1, <1>5, <2>2
<1>6. CASE p[n].fn = "identity"
  <2>1. Atop(q, p, "identity")
    BY <1>1, <1>3, <1>6
  <2>2. InService(q) /\ InIdentity(p) /\ (InService(q) <=> InService(p))
    BY <2>1, Scoped
  <2> QED
    BY <1>1, <1>6, <2>2
<1> QED
  BY <1>1, <1>4, <1>5, <1>6

\* A function returns to another.
Handing(s, d, p, e) ==
  /\ Pile(s) /\ s # <<>> /\ Len(s) # 1 /\ p = SubSeq(s, 1, Len(s) - 1)
  /\ e = P!Returned(d, s[Len(s)].fn, s[Len(s)].closing, Caller(s))

LEMMA HandingParts ==
  ASSUME NEW s, NEW d, NEW p, NEW e, Handing(s, d, p, e), NEW f, f = s[Len(s)].fn
  PROVE  /\ Links(Caller(s), s[Len(s)].closing, f) /\ Pile(p) /\ p # <<>> /\ p[Len(p)].fn = Caller(s)
         /\ Atop(p, s, f)
         /\ \A t : TextFits(p, e, t)
         /\ Caller(s) \notin {"identity", "information"} \/ f # "text" => \A t : TextFits(s, d, t)
<1>1. Pile(s) /\ s # <<>> /\ Len(s) # 1 /\ p = SubSeq(s, 1, Len(s) - 1)
  BY DEF Handing
<1>2. PICK n \in Nat \ {0} : n = Len(s) /\ DOMAIN s = 1..n
  BY <1>1, PileParts
<1>3. Pile(p) /\ Len(p) = n - 1
  BY <1>1, <1>2, Popped
<1>4. Atop(p, s, f)
  BY <1>1, PoppedAtop
<1>5. Links(Caller(s), s[Len(s)].closing, f) /\ Caller(s) = s[n - 1].fn
  BY <1>1, <1>2, CallerParts
<1>6. p # <<>>
  <2>1. n - 1 # 0 /\ Len(<<>>) = 0
    BY <1>1, <1>2
  <2> QED
    BY <1>3, <2>1
<1>7. p[n - 1].fn = s[n - 1].fn
  <2>1. \A i \in 1..(Len(s) - 1) : SubSeq(s, 1, Len(s) - 1)[i] = s[i]
    BY <1>1, Shortened DEF Pile, IsSeq
  <2>2. n - 1 \in 1..(n - 1)
    BY <1>1, <1>2
  <2> QED
    BY <1>1, <1>2, <2>1, <2>2
<1>8. Caller(s) # "text"
  <2>1. Caller(s) \in DOMAIN P!Calls
    BY <1>5, LinksTo
  <2> QED
    BY <2>1 DEF P!Calls
<1>9. p[Len(p)].fn = Caller(s)
  BY <1>3, <1>5, <1>7
<1>10. \A t : TextFits(p, e, t)
  BY <1>8, <1>9 DEF TextFits
<1>11. Caller(s) \notin {"identity", "information"} \/ f # "text" => \A t : TextFits(s, d, t)
  BY DEF TextFits
<1> QED
  BY <1>3, <1>4, <1>5, <1>6, <1>9, <1>10, <1>11

LEMMA OuterHanded ==
  ASSUME NEW s, NEW d, NEW K, Local(d, K), NEW p, NEW e, Handing(s, d, p, e), NEW T,
         Caller(s) \notin {"information", "instance", "identity"}, s[Len(s)].fn \notin Records,
         e = d \/ \E x \in Outer \ {"text"} : \E v : e = Assign(d, x, v)
  PROVE  Fits(s, d, T) <=> Fits(p, e, T)
<1>1. PICK f : f = s[Len(s)].fn
  OBVIOUS
<1>2. Links(Caller(s), s[Len(s)].closing, f) /\ Atop(p, s, f)
  BY <1>1, HandingParts
<1>3. \A t : TextFits(p, e, t) /\ TextFits(s, d, t)
  BY <1>1, HandingParts
<1>4. f \notin Scopes
  BY <1>1, <1>2, LinksTo DEF Scopes, Records
<1>5. Around(s, p) /\ Around(p, s)
  BY <1>2, <1>4, Scoped
<1>6. Alike(d, e) /\ Alike(e, d)
  BY AlikeOuter DEF Alike
<1>7. Fits(s, d, T) => Fits(p, e, T)
  BY <1>3, <1>5, <1>6, FitsAlike
<1>8. Fits(p, e, T) => Fits(s, d, T)
  BY <1>3, <1>5, <1>6, FitsAlike
<1> QED
  BY <1>7, <1>8

LEMMA PeriodHanded ==
  ASSUME NEW s, NEW d, NEW K, Local(d, K), NEW p, NEW e, Handing(s, d, p, e), NEW T,
         Caller(s) = "information", s[Len(s)].fn \notin Records,
         NEW closing, closing = s[Len(s)].closing,
         NEW v, v = P!Filled(d, d.svc, closing), e = Assign(d, "svc", v)
  PROVE  /\ (s[Len(s)].fn = "text" => Unfilled(d.svc, closing)) /\ Fits(p, e, T) => Fits(s, d, T)
         /\ Fits(s, d, T) => Fits(p, e, T)
<1>1. PICK f : f = s[Len(s)].fn
  OBVIOUS
<1>2. Links("information", closing, f) /\ Pile(p) /\ p # <<>> /\ p[Len(p)].fn = "information"
  BY <1>1, HandingParts
<1>3. Atop(p, s, f)
  BY <1>1, HandingParts
<1>4. \A t : TextFits(p, e, t)
  BY HandingParts
<1>5. f \notin {"provider", "service", "instance"}
  BY <1>1 DEF Records
<1>6. InService(p) /\ ~InInstance(p) /\ ~InIdentity(p)
  BY <1>2, TopIn
<1>7. /\ InProvider(p) <=> InProvider(s)
      /\ InService(p) <=> InService(s)
      /\ InInstance(p) <=> InInstance(s)
  BY <1>3, <1>5, Scoped
<1>8. InIdentity(s) <=> f = "identity"
  BY <1>3, <1>6, Scoped
<1>9. /\ closing \in {"ServiceTypeIdentifier", "ServiceStatus", "StatusStartingTime"} => f = "text"
      /\ closing = "ServiceDigitalIdentity" <=> f = "identity"
  BY <1>2, LinksFrom, LinksTo
<1>10. \A t : TextFits(s, d, t) <=> Says(closing, d, t)
  <2>1. CASE f = "text"
    BY <1>1, <2>1 DEF TextFits
  <2>2. CASE f # "text"
    <3>1. closing \notin {"ServiceTypeIdentifier", "ServiceStatus", "StatusStartingTime"}
      BY <1>9, <2>2
    <3> QED
      BY <1>1, <2>2, <3>1 DEF TextFits, Says
  <2> QED
    BY <2>1, <2>2
<1>11. IsData(d) /\ {"providers", "tsp", "svc"} \subseteq Locals
  BY DEF Local, Locals
<1>12. e.providers = d.providers /\ e.tsp = d.tsp /\ e.svc = v
  BY <1>11, AssignedOther, AssignedValue
<1>13. Done(p, e) = Done(s, d)
  BY <1>7, <1>12 DEF Done
<1>14. IsService(d.svc)
  BY DEF Local, ServiceHeld
<1>15. \A t : OpenFits(p, e, t) <=> Begun(v, t) /\ FormerPeriods(v.history, t.history)
  BY <1>4, <1>6, <1>12 DEF OpenFits
<1>16. \A t : OpenFits(s, d, t) <=> /\ Begun(d.svc, t) /\ FormerPeriods(d.svc.history, t.history)
                                    /\ closing = "ServiceDigitalIdentity" => d.certs \subseteq t.keys
                                    /\ Says(closing, d, t)
  BY <1>6, <1>7, <1>8, <1>9, <1>10 DEF OpenFits, Wanted
<1>17. ASSUME NEW t
       PROVE  /\ (f = "text" => Unfilled(d.svc, closing)) /\ OpenFits(p, e, t) => OpenFits(s, d, t)
              /\ OpenFits(s, d, t) => OpenFits(p, e, t)
  <2>1. v.history = d.svc.history
    BY <1>14, FilledFits
  <2>2. (f = "text" => Unfilled(d.svc, closing)) /\ Begun(v, t)
        => /\ Begun(d.svc, t) /\ Says(closing, d, t)
           /\ closing = "ServiceDigitalIdentity" => d.certs \subseteq t.keys
    BY <1>9, <1>14, FilledFits
  <2>3. /\ Begun(d.svc, t) /\ Says(closing, d, t)
        /\ closing = "ServiceDigitalIdentity" => d.certs \subseteq t.keys
        => Begun(v, t)
    BY <1>14, FilledFits
  <2> QED
    BY <1>15, <1>16, <2>1, <2>2, <2>3
<1> QED
  BY <1>1, <1>6, <1>7, <1>13, <1>17 DEF Fits

LEMMA FormerHanded ==
  ASSUME NEW s, NEW d, NEW K, Local(d, K), NEW p, NEW e, Handing(s, d, p, e), NEW T,
         Caller(s) = "instance", s[Len(s)].fn \notin Records,
         NEW closing, closing = s[Len(s)].closing,
         NEW v, v = P!Filled(d, d.entry, closing), e = Assign(d, "entry", v)
  PROVE  Fits(s, d, T) <=> Fits(p, e, T)
<1>1. PICK f : f = s[Len(s)].fn
  OBVIOUS
<1>2. Links("instance", closing, f) /\ Pile(p) /\ p # <<>> /\ p[Len(p)].fn = "instance"
  BY <1>1, HandingParts
<1>3. Atop(p, s, f)
  BY <1>1, HandingParts
<1>4. \A t : TextFits(p, e, t) /\ TextFits(s, d, t)
  BY HandingParts
<1>5. f \notin {"provider", "service", "instance"}
  BY <1>1 DEF Records
<1>6. InService(p) /\ InInstance(p) /\ ~InIdentity(p)
  BY <1>2, TopIn
<1>7. /\ InProvider(p) <=> InProvider(s)
      /\ InService(p) <=> InService(s)
      /\ InInstance(p) <=> InInstance(s)
  BY <1>3, <1>5, Scoped
<1>8. InIdentity(s) <=> f = "identity"
  BY <1>3, <1>6, Scoped
<1>9. closing = "ServiceDigitalIdentity" <=> f = "identity"
  BY <1>2, LinksFrom, LinksTo
<1>11. IsData(d) /\ {"providers", "tsp", "svc", "entry"} \subseteq Locals
  BY DEF Local, Locals
<1>12. e.providers = d.providers /\ e.tsp = d.tsp /\ e.svc = d.svc /\ e.entry = v
  BY <1>11, AssignedOther, AssignedValue
<1>13. Done(p, e) = Done(s, d)
  BY <1>7, <1>12 DEF Done
<1>14. v.keys = IF closing = "ServiceDigitalIdentity" THEN d.entry.keys \cup d.certs ELSE d.entry.keys
  <2>1. PICK r : r = d.entry
    OBVIOUS
  <2>2. IsEntry(r)
    BY <2>1 DEF Local
  <2>3. FilledFrom(d, r, closing, P!Filled(d, r, closing))
    BY <2>2, Fills
  <2>4. FilledFrom(d, r, closing, v)
    BY <2>1, <2>3
  <2> QED
    BY <2>1, <2>4 DEF FilledFrom
<1>15. \A t : Returns(d.svc, v, t) <=>
                /\ Returns(d.svc, d.entry, t)
                /\ closing = "ServiceDigitalIdentity" =>
                     d.certs \subseteq t.history[Len(d.svc.history) + 1].keys
  BY <1>14 DEF Returns
<1>16. \A t : OpenFits(p, e, t) <=> Begun(d.svc, t) /\ Returns(d.svc, v, t)
  BY <1>4, <1>6, <1>12 DEF OpenFits
<1>17. \A t : OpenFits(s, d, t) <=> /\ Begun(d.svc, t) /\ Returns(d.svc, d.entry, t)
                                    /\ closing = "ServiceDigitalIdentity" =>
                                         d.certs \subseteq t.history[Len(d.svc.history) + 1].keys
  BY <1>4, <1>6, <1>7, <1>8, <1>9 DEF OpenFits, Wanted
<1>18. \A t : OpenFits(p, e, t) <=> OpenFits(s, d, t)
  BY <1>15, <1>16, <1>17
<1> QED
  BY <1>6, <1>7, <1>13, <1>18 DEF Fits

LEMMA KeyHanded ==
  ASSUME NEW s, NEW d, NEW K, Local(d, K), NEW p, NEW e, Handing(s, d, p, e), NEW T,
         Caller(s) = "identity", s[Len(s)].fn = "text",
         NEW key, key = P!Uri(d.text), e = Assign(d, "certs", d.certs \cup {key})
  PROVE  /\ Fits(p, e, T) => Fits(s, d, T)
         /\ key \notin Unsaid /\ Fits(s, d, T) => Fits(p, e, T)
<1>1. Pile(p) /\ p # <<>> /\ p[Len(p)].fn = "identity"
  BY HandingParts
<1>2. Atop(p, s, "text")
  BY HandingParts
<1>3. \A t : TextFits(p, e, t)
  BY HandingParts
<1>4. InService(p) /\ InIdentity(p)
  BY <1>1, TopIn
<1>5. Around(p, s)
  BY <1>2, Scoped DEF Scopes
<1>6. IsData(d) /\ {"providers", "tsp", "svc", "entry", "certs"} \subseteq Locals
  BY DEF Local, Locals
<1>7. e.providers = d.providers /\ e.tsp = d.tsp /\ e.svc = d.svc /\ e.entry = d.entry
  BY <1>6, AssignedOther
<1>8. e.certs = d.certs \cup {key}
  BY <1>6, AssignedValue
<1>9. Done(p, e) = Done(s, d)
  BY <1>5, <1>7 DEF Done, Around
<1>10. \A t : Wanted(p, e, t) = Wanted(s, d, t)
  BY <1>5, <1>7 DEF Wanted, Around
<1>11. \A t : TextFits(s, d, t) <=> key \in Wanted(s, d, t) \cup Unsaid
  BY DEF TextFits
<1>12. ASSUME NEW t
       PROVE  /\ OpenFits(p, e, t) => OpenFits(s, d, t)
              /\ key \notin Unsaid /\ OpenFits(s, d, t) => OpenFits(p, e, t)
  <2>1. OpenFits(p, e, t) <=> /\ Begun(d.svc, t)
                              /\ InInstance(s) => Returns(d.svc, d.entry, t)
                              /\ ~InInstance(s) => FormerPeriods(d.svc.history, t.history)
                              /\ d.certs \cup {key} \subseteq Wanted(s, d, t)
    BY <1>3, <1>4, <1>5, <1>7, <1>8, <1>10 DEF OpenFits, Around
  <2>2. OpenFits(s, d, t) <=> /\ Begun(d.svc, t)
                              /\ InInstance(s) => Returns(d.svc, d.entry, t)
                              /\ ~InInstance(s) => FormerPeriods(d.svc.history, t.history)
                              /\ d.certs \subseteq Wanted(s, d, t)
                              /\ key \in Wanted(s, d, t) \cup Unsaid
    BY <1>4, <1>5, <1>11 DEF OpenFits, Around
  <2> QED
    BY <2>1, <2>2
<1> QED
  BY <1>4, <1>5, <1>9, <1>12 DEF Fits, Around

With(q, x) == Append(q, x)

LEMMA InstanceHanded ==
  ASSUME NEW s, NEW d, NEW K, Local(d, K), NEW p, NEW e, Handing(s, d, p, e), NEW T, Wholes(T),
         Caller(s) = "history", s[Len(s)].fn = "instance",
         NEW h, h = With(d.svc.history, d.entry), NEW v, v = Grown(d.svc, h), e = Assign(d, "svc", v)
  PROVE  Fits(s, d, T) <=> Fits(p, e, T)
<1>1. Pile(p) /\ p # <<>> /\ p[Len(p)].fn = "history"
  BY HandingParts
<1>2. Atop(p, s, "instance")
  BY HandingParts
<1>3. \A t : TextFits(p, e, t) /\ TextFits(s, d, t)
  BY HandingParts
<1>4. /\ InService(p) /\ ~InInstance(p) /\ ~InIdentity(p)
      /\ InService(s) /\ InInstance(s) /\ ~InIdentity(s)
      /\ InProvider(p) <=> InProvider(s)
  BY <1>1, <1>2, TopIn, Scoped
<1>5. IsData(d) /\ {"providers", "tsp", "svc"} \subseteq Locals
  BY DEF Local, Locals
<1>6. e.providers = d.providers /\ e.tsp = d.tsp /\ e.svc = v
  BY <1>5, AssignedOther, AssignedValue
<1>7. Done(p, e) = Done(s, d)
  BY <1>4, <1>6 DEF Done
<1>8. v.history = h /\ v.kind = d.svc.kind /\ v.status = d.svc.status /\ v.start = d.svc.start /\ v.keys = d.svc.keys
  <2>1. PICK r : r = d.svc
    OBVIOUS
  <2>2. IsService(r)
    BY <2>1 DEF Local, ServiceHeld
  <2>3. /\ Grown(r, h).history = h
        /\ Grown(r, h).kind = r.kind /\ Grown(r, h).status = r.status
        /\ Grown(r, h).start = r.start /\ Grown(r, h).keys = r.keys
    BY <2>2, Grows
  <2>4. v = Grown(r, h)
    BY <2>1
  <2> QED
    BY <2>1, <2>3, <2>4
<1>9. IsSeq(d.svc.history)
  BY DoneIsSeq
<1>10. h # <<>>
  BY <1>9, FormerMore, OneElement DEF With
<1>11. \A t : IsSeq(t.history) =>
         (FormerPeriods(h, t.history) <=> /\ Wholly(d.svc.history, t.history)
                                    /\ d.entry.keys \subseteq t.history[Len(d.svc.history) + 1].keys)
  BY <1>9, FormerMore DEF With
<1>12. \A t : OpenFits(p, e, t) <=> Begun(v, t) /\ FormerPeriods(h, t.history)
  BY <1>3, <1>4, <1>6, <1>8 DEF OpenFits
<1>13. \A t : OpenFits(s, d, t) <=> Begun(d.svc, t) /\ Returns(d.svc, d.entry, t)
  BY <1>3, <1>4 DEF OpenFits
<1>14. \A t : Begun(v, t) <=> /\ Heard(d.svc.kind, t.kind) /\ Heard(d.svc.status, t.status)
                              /\ d.svc.keys \subseteq t.keys /\ d.svc.start = t.start
  BY <1>8, <1>10 DEF Begun
<1>15. \A t : Begun(d.svc, t) /\ d.svc.start = t.start <=>
                /\ Heard(d.svc.kind, t.kind) /\ Heard(d.svc.status, t.status)
                /\ d.svc.keys \subseteq t.keys /\ d.svc.start = t.start
  BY DEF Begun
<1>16. ASSUME NEW t, IsSeq(t.history) PROVE OpenFits(p, e, t) <=> OpenFits(s, d, t)
  BY <1>11, <1>12, <1>13, <1>14, <1>15, <1>16 DEF Returns
<1>17. Wholly(Done(s, d), T) => IsSeq(T[Len(Done(s, d)) + 1].history)
  BY DoneIsSeq, WholesNext
<1>18. Wholly(Done(s, d), T) => (OpenFits(p, e, T[Len(Done(s, d)) + 1]) <=> OpenFits(s, d, T[Len(Done(s, d)) + 1]))
  BY <1>16, <1>17
<1> QED
  BY <1>4, <1>7, <1>18 DEF Fits

LEMMA ServiceHanded ==
  ASSUME NEW s, NEW d, NEW K, Local(d, K), NEW p, NEW e, Handing(s, d, p, e), NEW T, Wholes(T),
         Caller(s) = "services", s[Len(s)].fn = "service",
         NEW more, more = With(d.tsp, d.svc), e = Assign(d, "tsp", more)
  PROVE  Fits(s, d, T) <=> Fits(p, e, T)
<1>1. Atop(p, s, "service")
  BY HandingParts
<1>2. \A t : TextFits(s, d, t)
  BY HandingParts
<1>3. /\ InProvider(p) /\ ~InService(p) /\ InProvider(s) /\ InService(s)
      /\ ~InInstance(s) /\ ~InIdentity(s)
  BY <1>1, Scoped
<1>4. IsData(d) /\ {"providers", "tsp"} \subseteq Locals
  BY DEF Local, Locals
<1>5. e.providers = d.providers /\ e.tsp = more
  BY <1>4, AssignedOther, AssignedValue
<1>6. PICK q, r, l, x : q = FlattenSeq(d.providers) /\ r = Done(s, d) /\ l = d.tsp /\ x = d.svc
  OBVIOUS
<1>7. IsSeq(q) /\ IsSeq(l) /\ IsSeq(r)
  BY <1>6, DoneIsSeq
<1>8. Done(p, e) = q \o more /\ r = q \o l
  BY <1>3, <1>5, <1>6 DEF Done
<1>9. q \o Append(l, x) = Append(q \o l, x)
  BY <1>7, JoinedMore
<1>10. more = Append(l, x)
  BY <1>6 DEF With
<1>11. Done(p, e) = Append(r, x)
  BY <1>8, <1>9, <1>10
<1>12. Partly(Done(p, e), T) <=> Wholly(r, T) /\ Partial(x, T[Len(r) + 1])
  BY <1>7, <1>11, PartlyMore
<1>13. \A t : OpenFits(s, d, t) <=> Partial(x, t)
  BY <1>2, <1>3, <1>6 DEF OpenFits, Partial
<1> QED
  BY <1>3, <1>6, <1>12, <1>13 DEF Fits

LEMMA ProviderHanded ==
  ASSUME NEW s, NEW d, NEW K, Local(d, K), NEW p, NEW e, Handing(s, d, p, e), NEW T,
         Caller(s) = "providers", s[Len(s)].fn = "provider",
         NEW more, more = With(d.providers, d.tsp), e = Assign(d, "providers", more)
  PROVE  Fits(s, d, T) <=> Fits(p, e, T)
<1>1. Atop(p, s, "provider")
  BY HandingParts
<1>2. ~InProvider(p) /\ ~InService(p) /\ InProvider(s) /\ ~InService(s)
  BY <1>1, Scoped
<1>3. IsData(d) /\ "providers" \in Locals
  BY DEF Local, Locals
<1>4. e.providers = more
  BY <1>3, AssignedValue
<1>5. IsSeq(d.providers) /\ (\A i \in DOMAIN d.providers : IsSeq(d.providers[i])) /\ IsSeq(d.tsp)
  BY DEF Local, ServicesHeld
<1>6. FlattenSeq(more) = FlattenSeq(d.providers) \o d.tsp
  BY <1>5, Flattened DEF With
<1>7. Done(p, e) = Done(s, d)
  BY <1>2, <1>4, <1>6 DEF Done
<1> QED
  BY <1>2, <1>7 DEF Fits

\* So a return leads from what fits to what fits, unless a text has been cut
\* off that says a key, and from there only.
LEMMA HandingFits ==
  ASSUME NEW s, NEW d, NEW K, Local(d, K), NEW p, NEW e, Handing(s, d, p, e), NEW T, Wholes(T)
  PROVE  /\ /\ s[Len(s)].fn = "text" /\ Caller(s) = "information" => Unfilled(d.svc, s[Len(s)].closing)
            /\ Fits(p, e, T)
            => Fits(s, d, T)
         /\ (Caller(s) = "identity" => P!Uri(d.text) \notin Unsaid) /\ Fits(s, d, T) => Fits(p, e, T)
<1>1. PICK closing : closing = s[Len(s)].closing
  OBVIOUS
<1>2. Links(Caller(s), closing, s[Len(s)].fn)
  BY <1>1, HandingParts
<1>3. e = P!Returned(d, s[Len(s)].fn, closing, Caller(s))
  BY <1>1 DEF Handing
<1>4. CASE /\ Caller(s) \notin {"information", "instance", "identity"} /\ s[Len(s)].fn \notin Records
           /\ e = d \/ \E x \in Outer \ {"text"} : \E v : e = Assign(d, x, v)
  BY <1>4, OuterHanded
<1>5. CASE Caller(s) = "information" /\ s[Len(s)].fn \notin Records /\ e = Assign(d, "svc", P!Filled(d, d.svc, closing))
  <2>1. PICK v : v = P!Filled(d, d.svc, closing)
    OBVIOUS
  <2>2. e = Assign(d, "svc", v)
    BY <1>5, <2>1
  <2>3. Caller(s) = "information" /\ s[Len(s)].fn \notin Records
    BY <1>5
  <2>4. /\ (s[Len(s)].fn = "text" => Unfilled(d.svc, closing)) /\ Fits(p, e, T) => Fits(s, d, T)
        /\ Fits(s, d, T) => Fits(p, e, T)
    BY <1>1, <2>1, <2>2, <2>3, PeriodHanded
  <2> QED
    BY <1>1, <2>3, <2>4
<1>6. CASE Caller(s) = "instance" /\ s[Len(s)].fn \notin Records /\ e = Assign(d, "entry", P!Filled(d, d.entry, closing))
  <2>1. PICK v : v = P!Filled(d, d.entry, closing)
    OBVIOUS
  <2>2. e = Assign(d, "entry", v)
    BY <1>6, <2>1
  <2>3. Caller(s) = "instance" /\ s[Len(s)].fn \notin Records
    BY <1>6
  <2> QED
    BY <1>1, <2>1, <2>2, <2>3, FormerHanded
<1>7. CASE Caller(s) = "identity" /\ s[Len(s)].fn = "text" /\ e = Assign(d, "certs", d.certs \cup {P!Uri(d.text)})
  <2>1. PICK key : key = P!Uri(d.text)
    OBVIOUS
  <2>2. e = Assign(d, "certs", d.certs \cup {key})
    BY <1>7, <2>1
  <2>3. Caller(s) = "identity" /\ s[Len(s)].fn = "text"
    BY <1>7
  <2>4. /\ Fits(p, e, T) => Fits(s, d, T)
        /\ key \notin Unsaid /\ Fits(s, d, T) => Fits(p, e, T)
    BY <2>1, <2>2, <2>3, KeyHanded
  <2> QED
    BY <2>1, <2>3, <2>4
<1>8. CASE Caller(s) = "history" /\ s[Len(s)].fn = "instance"
           /\ e = Assign(d, "svc", [d.svc EXCEPT !.history = Append(d.svc.history, d.entry)])
  <2>1. PICK h : h = With(d.svc.history, d.entry)
    OBVIOUS
  <2>2. PICK v : v = Grown(d.svc, h)
    OBVIOUS
  <2>3. e = Assign(d, "svc", v)
    BY <1>8, <2>1, <2>2, Zenon DEF Grown, With
  <2>4. Caller(s) = "history" /\ s[Len(s)].fn = "instance"
    BY <1>8
  <2> QED
    BY <2>1, <2>2, <2>3, <2>4, InstanceHanded
<1>9. CASE Caller(s) = "services" /\ s[Len(s)].fn = "service" /\ e = Assign(d, "tsp", Append(d.tsp, d.svc))
  <2>1. PICK more : more = With(d.tsp, d.svc)
    OBVIOUS
  <2>2. e = Assign(d, "tsp", more)
    BY <1>9, <2>1, Zenon DEF With
  <2>3. Caller(s) = "services" /\ s[Len(s)].fn = "service"
    BY <1>9
  <2>4. Fits(s, d, T) <=> Fits(p, e, T)
    BY <2>1, <2>2, <2>3, ServiceHanded
  <2> QED
    BY <2>3, <2>4
<1>10. CASE Caller(s) = "providers" /\ s[Len(s)].fn = "provider" /\ e = Assign(d, "providers", Append(d.providers, d.tsp))
  <2>1. PICK more : more = With(d.providers, d.tsp)
    OBVIOUS
  <2>2. e = Assign(d, "providers", more)
    BY <1>10, <2>1, Zenon DEF With
  <2>3. Caller(s) = "providers" /\ s[Len(s)].fn = "provider"
    BY <1>10
  <2>4. Fits(s, d, T) <=> Fits(p, e, T)
    BY <2>1, <2>2, <2>3, ProviderHanded
  <2> QED
    BY <2>3, <2>4
<1>11. HandedBack(Caller(s), closing, s[Len(s)].fn, d, e)
  BY <1>2, <1>3, HandsBack
<1> QED
  BY <1>4, <1>5, <1>6, <1>7, <1>8, <1>9, <1>10, <1>11, Zenon DEF HandedBack

----------------------------------------------------------------------------
(* From step to step.                                                      *)

\* In the outermost function it is as after it.
LEMMA LastFits ==
  ASSUME NEW s, Len(s) = 1, IsSeq(s), NEW d, NEW T
  PROVE  Fits(s, d, T) <=> Fits(<<>>, d, T)
<1>1. ~InProvider(s) /\ ~InService(s) /\ ~InProvider(<<>>) /\ ~InService(<<>>)
  BY DEF InProvider, InService, Opens, IsSeq
<1>2. Done(s, d) = Done(<<>>, d)
  BY <1>1 DEF Done
<1> QED
  BY <1>1, <1>2 DEF Fits

\* The end of the innermost function.
LEMMA BackFits ==
  ASSUME NEW s, Pile(s), s # <<>>, NEW d, NEW K, Local(d, K), NEW rest, NEW y, y = Back(rest, s, d, "none"),
         NEW T, Wholes(T)
  PROVE  /\ /\ s[Len(s)].fn = "text" /\ Caller(s) = "information" => Unfilled(d.svc, s[Len(s)].closing)
            /\ Fits(y[2], y[3], T)
            => Fits(s, d, T)
         /\ (Caller(s) = "identity" => P!Uri(d.text) \notin Unsaid) /\ Fits(s, d, T) => Fits(y[2], y[3], T)
<1>1. PICK p, e : p = y[2] /\ e = y[3]
  OBVIOUS
<1>2. CASE Len(s) = 1
  <2>1. p = <<>> /\ e = d
    BY <1>1, <1>2, BackParts
  <2>2. Fits(s, d, T) <=> Fits(p, e, T)
    BY <1>2, <2>1, LastFits DEF Pile
  <2> QED
    BY <1>1, <2>2
<1>3. CASE Len(s) # 1
  <2>1. /\ p = SubSeq(s, 1, Len(s) - 1)
        /\ e = P!Returned(d, s[Len(s)].fn, s[Len(s)].closing, Caller(s))
    BY <1>1, <1>3, BackParts
  <2>2. Handing(s, d, p, e)
    BY <1>3, <2>1 DEF Handing
  <2> QED
    BY <1>1, <2>2, HandingFits
<1> QED
  BY <1>2, <1>3

\* What a step leads to fits only if what it leads from did.
LEMMA TurnFits ==
  ASSUME NEW x, NEW K, Sound(x, K), x[2] # <<>>, Anew(x), NEW T, Wholes(T), NEW y, y = Turn(x),
         Fits(y[2], y[3], T)
  PROVE  Fits(x[2], x[3], T)
<1>1. PICK s, d : s = x[2] /\ d = x[3]
  OBVIOUS
<1>2. Pile(s) /\ s # <<>> /\ Local(d, K) /\ x[4] = "none"
  BY <1>1 DEF Sound
<1>3. x[1] # <<>> => Head(x[1]).kind \in Kinds
  BY DEF Anew
<1>4. CASE Aside(s, d, y)
  BY <1>1, <1>2, <1>4, AsideFits
<1>5. CASE Calling(s, d, y)
  BY <1>1, <1>2, <1>5, CallingFits
<1>6. CASE x[1] # <<>> /\ Taking(s, d, Head(x[1]), y)
  <2>1. s[Len(s)].fn = "text" => d.text = <<>>
    BY <1>1, <1>2, <1>6 DEF Anew, Taking
  <2> QED
    BY <1>1, <1>2, <1>6, <2>1, TakingFits
<1>7. CASE Returning(x) /\ y = Back(y[1], s, d, "none")
  <2>1. x[1] # <<>> => Head(x[1]).kind = "end"
    BY <1>7 DEF Returning
  <2>2. s[Len(s)].fn = "text" /\ Caller(s) = "information" => Unfilled(d.svc, s[Len(s)].closing)
    BY <1>1, <1>2, <2>1 DEF Anew
  <2> QED
    BY <1>1, <1>2, <1>7, <2>2, BackFits
<1>8. \/ Aside(s, d, y)
      \/ Calling(s, d, y)
      \/ x[1] # <<>> /\ Taking(s, d, Head(x[1]), y)
      \/ Returning(x) /\ y = Back(y[1], s, d, "none")
  BY <1>1, <1>2, <1>3, Moves
<1> QED
  BY <1>4, <1>5, <1>6, <1>7, <1>8

\* Of more certificates.
LEMMA LocalMore ==
  ASSUME NEW d, NEW K, Local(d, K), NEW L, K \subseteq L
  PROVE  Local(d, L)
<1>1. \A svc : ServiceHeld(svc, K) => ServiceHeld(svc, L)
  BY DEF ServiceHeld
<1>2. \A q : ServicesHeld(q, K) => ServicesHeld(q, L)
  BY <1>1 DEF ServicesHeld
<1> QED
  BY <1>1, <1>2 DEF Local

\* So all fits on the way to where it fits.
LEMMA WayFits ==
  ASSUME NEW x, NEW f, Reach(x, f), NEW K, Sound(x, K), NEW T, Wholes(T), Fits(f[2], f[3], T)
  PROVE  Fits(x[2], x[3], T)
<1>1. PICK U : /\ x \in U /\ \A z \in U : z # f => Anew(z) /\ Turn(z) \in U
               /\ \A S \in SUBSET U : (x \in S /\ \A z \in S : z # f => Turn(z) \in S) => f \in S
  BY Zenon DEF Reach
<1>2. SUFFICES ASSUME ~Fits(x[2], x[3], T) PROVE FALSE
  OBVIOUS
<1>3. PICK S : S = {z \in U : (\E L : Sound(z, L)) /\ ~Fits(z[2], z[3], T)}
  OBVIOUS
<1>4. S \in SUBSET U /\ x \in S
  BY <1>1, <1>2, <1>3
<1>5. ASSUME NEW z \in S, z # f PROVE Turn(z) \in S
  <2>1. PICK L : Sound(z, L)
    BY <1>3
  <2>2. Anew(z) /\ Turn(z) \in U
    BY <1>1, <1>3, <1>5
  <2>3. PICK M : M = L \cup {P!Uri(z[3].text)}
    OBVIOUS
  <2>4. P!Uri(z[3].text) \in M /\ L \subseteq M
    BY <2>3
  <2>5. Sound(z, M)
    BY <2>1, <2>4, LocalMore DEF Sound
  <2>6. Sound(Turn(z), M)
    BY <2>2, <2>4, <2>5, SoundTurn DEF Anew
  <2>7. ~Fits(Turn(z)[2], Turn(z)[3], T)
    <3>1. CASE z[2] = <<>>
      <4>1. Turn(z) = z
        BY <3>1 DEF Turn
      <4> QED
        BY <1>3, <4>1
    <3>2. CASE z[2] # <<>>
      BY <1>3, <2>2, <2>5, <3>2, TurnFits
    <3> QED
      BY <3>1, <3>2
  <2> QED
    BY <1>3, <2>2, <2>6, <2>7
<1>6. f \in S
  BY <1>1, <1>4, <1>5, Zenon
<1> QED
  BY <1>3, <1>6

\* What a whole document says of services.
LEMMA KeptParts ==
  ASSUME NEW svcs, AllSound(svcs), NEW layout, NEW T, T = AllKept(svcs, layout)
  PROVE  /\ DOMAIN T = DOMAIN svcs /\ Len(T) = Len(svcs) /\ Len(T) \in Nat /\ DOMAIN T = 1..Len(T) /\ Wholes(T)
         /\ \A m \in DOMAIN T :
              /\ T[m] = ServiceKept(svcs[m], layout)
              /\ Spoilt(layout) \subseteq T[m].keys /\ T[m].keys \subseteq Keys \cup Spoilt(layout)
              /\ \A n \in 1..Len(T[m].history) : T[m].history[n].keys \subseteq Keys
<1>1. PICK k \in Nat : DOMAIN svcs = 1..k /\ Len(svcs) = k
  BY LenProperties DEF AllSound
<1>2. T = [n \in 1..k |-> ServiceKept(svcs[n], layout)]
  BY <1>1 DEF AllKept
<1>3. IsSeq(T) /\ DOMAIN T = 1..k /\ Len(T) = k
  <2>1. PICK G : G = [n \in 1..k |-> ServiceKept(svcs[n], layout)]
    OBVIOUS
  <2>2. T \in Seq({G[n] : n \in 1..k}) /\ Len(T) = k
    BY <1>1, <1>2, <2>1
  <2> QED
    BY <1>2, <2>2, OfItsRange DEF IsSeq
<1>4. ASSUME NEW svc, ServiceIsSound(svc), NEW v, v = ServiceKept(svc, layout)
      PROVE  /\ IsService(v) /\ IsSeq(v.history)
             /\ Spoilt(layout) \subseteq v.keys /\ v.keys \subseteq Keys \cup Spoilt(layout)
             /\ \A n \in 1..Len(v.history) : v.history[n].keys \subseteq Keys
  <2>1. PICK h : h = EntriesKept(svc, Len(svc.history))
    OBVIOUS
  <2>2. /\ IsService(v) /\ v.history = h /\ v.keys = svc.keys \cup Spoilt(layout)
    BY <1>4, <2>1 DEF ServiceKept, WithHistory, WithSpoilt, IsService
  <2>3. PICK k2 \in Nat : DOMAIN svc.history = 1..k2 /\ Len(svc.history) = k2
    BY <1>4, LenProperties DEF ServiceIsSound
  <2>4. h = [n \in 1..k2 |-> EntryKept(svc.kind, svc.history[n])]
    BY <2>1, <2>3 DEF EntriesKept
  <2>5. IsSeq(h) /\ Len(h) = k2
    <3>1. PICK G : G = [n \in 1..k2 |-> EntryKept(svc.kind, svc.history[n])]
      OBVIOUS
    <3>2. h \in Seq({G[n] : n \in 1..k2}) /\ Len(h) = k2
      BY <2>3, <2>4, <3>1
    <3> QED
      BY <3>2, OfItsRange DEF IsSeq
  <2>6. \A n \in 1..k2 : h[n].keys \subseteq Keys
    BY <1>4, <2>3, <2>4 DEF EntryKept, ServiceIsSound, EntryIsSound
  <2>7. svc.keys \subseteq Keys
    BY <1>4 DEF ServiceIsSound
  <2> QED
    BY <2>2, <2>5, <2>6, <2>7
<1>5. \A m \in 1..k : ServiceIsSound(svcs[m])
  BY <1>1 DEF AllSound
<1>6. \A m \in 1..k : T[m] = ServiceKept(svcs[m], layout)
  BY <1>2
<1>7. Wholes(T)
  BY <1>3, <1>4, <1>5, <1>6 DEF Wholes
<1> QED
  BY <1>1, <1>3, <1>4, <1>5, <1>6, <1>7

LEMMA EndFits ==
  ASSUME NEW svcs, AllSound(svcs), NEW layout, NEW f, AsPublished(f, svcs, layout),
         NEW T, T = AllKept(svcs, layout)
  PROVE  Fits(f[2], f[3], T)
<1>1. ~InProvider(<<>>) /\ ~InService(<<>>)
  BY DEF InProvider, InService, Opens
<1>2. PICK d : d = f[3]
  OBVIOUS
<1>3. f[2] = <<>> /\ d.providers = ProvidersKept(svcs, layout)
  BY <1>2 DEF AsPublished
<1>4. Done(<<>>, d) = T
  BY <1>1, <1>3, AllSeen DEF Done
<1>5. Partly(T, T)
  <2>1. /\ IsSeq(T) /\ Len(T) \in Nat /\ DOMAIN T = 1..Len(T)
        /\ \A m \in DOMAIN T : IsSeq(T[m].history)
    BY KeptParts DEF Wholes
  <2>2. T # <<>> => Len(T) \in DOMAIN T
    BY <2>1 DEF IsSeq
  <2>3. T # <<>> => Partial(T[Len(T)], T[Len(T)])
    BY <2>1, <2>2, WholeFits
  <2> QED
    BY <2>1, <2>3 DEF Partly
<1> QED
  BY <1>1, <1>2, <1>3, <1>4, <1>5 DEF Fits

\* A certificate that does not decode is read only if the document has one
\* beside those of a service.
LEMMA GarbledIsSpoilt ==
  ASSUME NEW svcs, AllSound(svcs), NEW layout, NEW T, T = AllKept(svcs, layout),
         NEW s, Pile(s), s # <<>>, NEW d, NEW K, Local(d, K), Caller(s) = "identity",
         P!Uri(d.text) \notin Keys, NEW rest, NEW y, y = Back(rest, s, d, "none"), Fits(y[2], y[3], T)
  PROVE  Spoilt(layout) # {} /\ svcs # <<>>
<1>1. Named("identity")
  BY Zenon DEF Named
<1>2. Len(s) # 1
  BY <1>1, CallerParts
<1>3. Links(Caller(s), s[Len(s)].closing, s[Len(s)].fn)
  BY <1>2, CallerParts
<1>4. PICK p, e, key : p = y[2] /\ e = y[3] /\ key = P!Uri(d.text)
  OBVIOUS
<1>5. /\ p = SubSeq(s, 1, Len(s) - 1)
      /\ e = P!Returned(d, s[Len(s)].fn, s[Len(s)].closing, Caller(s))
  BY <1>2, <1>4, BackParts
<1>6. Handing(s, d, p, e)
  BY <1>2, <1>5 DEF Handing
<1>7. HandedBack(Caller(s), s[Len(s)].closing, s[Len(s)].fn, d, e)
  BY <1>3, <1>5, HandsBack
<1>8. e = Assign(d, "certs", d.certs \cup {key})
  BY <1>4, <1>7 DEF HandedBack
<1>9. key \in e.certs
  <2>1. IsData(d) /\ "certs" \in Locals
    BY DEF Local, Locals
  <2>2. e.certs = d.certs \cup {key}
    BY <1>8, <2>1, AssignedValue
  <2> QED
    BY <2>2
<1>10. Pile(p) /\ p # <<>> /\ p[Len(p)].fn = "identity"
  BY <1>6, HandingParts
<1>11. InService(p) /\ InIdentity(p)
  BY <1>10, TopIn
<1>12. PICK q : q = Done(p, e)
  OBVIOUS
<1>13. PICK t : t = T[Len(q) + 1]
  OBVIOUS
<1>14. Wholly(q, T) /\ OpenFits(p, e, t)
  BY <1>4, <1>11, <1>12, <1>13 DEF Fits
<1>15. Local(e, K \cup {key})
  <2>1. Local(d, K \cup {key}) /\ key \in K \cup {key}
    BY LocalMore
  <2> QED
    BY <1>3, <1>4, <1>5, <2>1, LocalReturned
<1>16. IsSeq(q) /\ IsSeq(e.svc.history)
  BY <1>12, <1>15, DoneIsSeq
<1>17. Len(q) + 1 \in DOMAIN T
  BY <1>14, <1>16, WholesNext, KeptParts
<1>18. key \in Wanted(p, e, t)
  BY <1>9, <1>11, <1>14 DEF OpenFits
<1>19. key \in t.keys \/ \E n \in 1..Len(t.history) : key \in t.history[n].keys
  <2>1. CASE InInstance(p)
    <3>1. Wholly(e.svc.history, t.history)
      BY <1>14, <2>1 DEF OpenFits, Returns
    <3>2. Len(e.svc.history) + 1 \in 1..Len(t.history)
      <4>1. Len(e.svc.history) \in Nat
        BY <1>16 DEF IsSeq
      <4>2. IsSeq(t.history)
        BY <1>13, <1>17, KeptParts DEF Wholes
      <4>3. Len(t.history) \in Nat
        BY <4>2 DEF IsSeq
      <4> QED
        BY <3>1, <4>1, <4>3 DEF Wholly
    <3> QED
      BY <1>18, <2>1, <3>2 DEF Wanted
  <2>2. CASE ~InInstance(p)
    BY <1>18, <2>2 DEF Wanted
  <2> QED
    BY <2>1, <2>2
<1>20. key \in Keys \cup Spoilt(layout)
  BY <1>13, <1>17, <1>19, KeptParts
<1>21. DOMAIN svcs # {}
  BY <1>17, KeptParts
<1> QED
  BY <1>4, <1>20, <1>21

----------------------------------------------------------------------------
(* After the transfer has ended.                                           *)

\* What is left to read then: nothing, a text cut off or a tag.
CutText == Event("text", NoName, <<"cut">>)
BrokenTag == Event("broken", NoName, <<>>)
CutInput(left, s, d) ==
  \/ left = <<>>
  \/ left = <<CutText>> /\ (s # <<>> /\ s[Len(s)].fn = "text" => d.text = <<>>)
  \/ left = <<BrokenTag>>

LEMMA CutParts ==
  /\ CutText.kind = "text" /\ CutText.val = <<"cut">> /\ BrokenTag.kind = "broken"
  /\ \A e : <<e>> # <<>> /\ Head(<<e>>) = e /\ Tail(<<e>>) = <<>>
<1>1. \A name : LET e == Event("text", name, <<"cut">>) IN e.kind = "text" /\ e.val = <<"cut">>
  BY DEF Event
<1>2. \A name : Event("broken", name, <<>>).kind = "broken"
  BY DEF Event
<1>3. CutText.kind = "text" /\ CutText.val = <<"cut">>
  BY <1>1, Zenon DEF CutText
<1>4. BrokenTag.kind = "broken"
  BY <1>2, Zenon DEF BrokenTag
<1>5. \A e : <<e>> # <<>> /\ Head(<<e>>) = e /\ Tail(<<e>>) = <<>>
  OBVIOUS
<1> QED
  BY <1>3, <1>4, <1>5

\* A text cut off is taken as it is.
LEMMA CutTextTurn ==
  ASSUME NEW s, Pile(s), s # <<>>, NEW d, NEW K, Local(d, K), s[Len(s)].fn = "text" => d.text = <<>>,
         NEW T, Fits(s, d, T), NEW y, y = Turn(At(<<CutText>>, s, d))
  PROVE  y[1] = <<>> /\ y[2] = s /\ y[4] = "none" /\ Fits(s, y[3], T) /\ Local(y[3], K)
<1>1. PICK e : e = CutText
  OBVIOUS
<1>2. e.kind = "text" /\ e.val = <<"cut">> /\ <<e>> # <<>> /\ Head(<<e>>) = e /\ Tail(<<e>>) = <<>>
  BY <1>1, CutParts
<1>3. y = OnEvent(e, <<>>, s, d, "none")
  <2>1. PICK q : q = <<e>>
    OBVIOUS
  <2>2. Turn(At(q, s, d)) = OnEvent(Head(q), Tail(q), s, d, "none")
    BY <1>2, <2>1 DEF Turn, At
  <2> QED
    BY <1>1, <1>2, <2>1, <2>2
<1>4. y = OnText(e, <<>>, s, d, "none")
  BY <1>2, <1>3 DEF OnEvent
<1>5. CASE s[Len(s)].fn \in {"text", "inside"}
  <2>1. PICK v, c : v = d.text \o e.val /\ c = Assign(d, "text", v)
    OBVIOUS
  <2>2. y = <<<<>>, s, c, "none">>
    BY <1>4, <1>5, <2>1 DEF OnText, Assign
  <2>3. y[1] = <<>> /\ y[2] = s /\ y[3] = c /\ y[4] = "none"
    BY <2>2
  <2>4. Taking(s, d, e, y)
    BY <1>2, <1>5, <2>1, <2>3 DEF Taking
  <2>5. Fits(y[2], y[3], T)
    BY <1>2, <2>4, TakingFits
  <2>6. Local(y[3], K)
    BY <2>1, <2>3, LocalOuter DEF Outer
  <2> QED
    BY <2>3, <2>5, <2>6
<1>6. CASE s[Len(s)].fn \notin {"text", "inside"}
  BY <1>4, <1>6 DEF OnText
<1> QED
  BY <1>5, <1>6

\* A tag cut off ends the call, or one that reads the type of the scheme or
\* the time of the next update.
LEMMA BrokenParts ==
  ASSUME NEW rest, NEW s, s[Len(s)].fn = "inside", NEW d,
         NEW y, y = OnBroken(rest, s, d, "none")
  PROVE  /\ y[1] = rest /\ y[2] = SubSeq(s, 1, Len(s) - 1) /\ y[4] = "none"
         /\ \E v, w : y[3] = Assign(Assign(d, "scheme_type", v), "next_update", w)
<1>1. PICK v, w, e : /\ v = IF s[Len(s)].closing = "NextUpdate" THEN d.scheme_type ELSE <<NoName>>
                     /\ w = IF s[Len(s)].closing = "NextUpdate" THEN NoTime ELSE d.next_update
                     /\ e = [d EXCEPT !.scheme_type = v, !.next_update = w]
  OBVIOUS
<1>2. y = <<rest, SubSeq(s, 1, Len(s) - 1), e, "none">>
  BY <1>1, Zenon DEF OnBroken, NoName
<1>3. y[1] = rest /\ y[2] = SubSeq(s, 1, Len(s) - 1) /\ y[4] = "none" /\ y[3] = e
  BY <1>2
<1>4. e = Assign(Assign(d, "scheme_type", v), "next_update", w)
  BY <1>1, Zenon DEF Assign
<1> QED
  BY <1>3, <1>4

LEMMA BrokenFits ==
  ASSUME NEW rest, NEW s, Pile(s), s # <<>>, s[Len(s)].fn = "inside", NEW d, NEW K, Local(d, K),
         NEW T, Fits(s, d, T), NEW y, y = OnBroken(rest, s, d, "none")
  PROVE  Fits(y[2], y[3], T) /\ Pile(y[2]) /\ y[2] # <<>> /\ Local(y[3], K)
<1>a. /\ y[2] = SubSeq(s, 1, Len(s) - 1)
      /\ \E v, w : y[3] = Assign(Assign(d, "scheme_type", v), "next_update", w)
  BY BrokenParts
<1>1. PICK p, e : p = y[2] /\ e = y[3]
  OBVIOUS
<1>2. p = SubSeq(s, 1, Len(s) - 1)
  BY <1>1, <1>a
<1>3. PICK v, w, c : c = Assign(d, "scheme_type", v) /\ e = Assign(c, "next_update", w)
  BY <1>1, <1>a
<1>4. "scheme_type" \in Outer /\ "next_update" \in Outer
  BY DEF Outer
<1>5. Local(c, K) /\ Alike(d, c)
  BY <1>3, <1>4, LocalOuter, AlikeOuter
<1>6. Local(e, K) /\ Alike(c, e)
  BY <1>3, <1>4, <1>5, LocalOuter, AlikeOuter
<1>7. Alike(d, e)
  BY <1>5, <1>6 DEF Alike
<1>8. Atop(p, s, "inside")
  BY <1>2, PoppedAtop
<1>9. Around(s, p)
  BY <1>8, Scoped DEF Scopes
<1>10. p # <<>> /\ p[Len(p)].fn = Caller(s) /\ Links(Caller(s), s[Len(s)].closing, "inside")
  <2>1. Len(s) # 1
    BY CallerParts
  <2>2. Handing(s, d, p, P!Returned(d, s[Len(s)].fn, s[Len(s)].closing, Caller(s)))
    BY <1>2, <2>1 DEF Handing
  <2> QED
    BY <2>2, HandingParts
<1>11. Caller(s) # "text"
  BY <1>10, LinksTo DEF P!Calls
<1>12. \A t : TextFits(p, e, t)
  BY <1>10, <1>11 DEF TextFits
<1>13. Fits(p, e, T)
  BY <1>7, <1>9, <1>12, FitsAlike
<1>14. Pile(p)
  BY <1>8 DEF Atop
<1> QED
  BY <1>1, <1>6, <1>10, <1>13, <1>14

LEMMA NoneUnsaid == Keys \cap Unsaid = {}
<1>1. \A k \in Unsaid : k \notin Keys
  BY TextAssumption, Zenon DEF Unsaid, NoName
<1> QED
  BY <1>1

LEMMA StartSound ==
  ASSUME NEW K
  PROVE  /\ Local(P!NoData, K)
         /\ \A left, r : Sound(<<left, <<>>, P!NoData, r>>, K)
         /\ \A left : Sound(At(left, Bottom, P!NoData), K)
<1>1. Local(P!NoData, K)
  <2>1. /\ P!NoData.providers = <<>> /\ P!NoData.tsp = <<>> /\ P!NoData.svc = P!EmptyService
        /\ P!NoData.entry = P!EmptyEntry /\ P!NoData.certs = {}
    BY DEF P!NoData
  <2>2. IsData(P!NoData)
    BY NoDataParts
  <2>3. ServiceHeld(P!EmptyService, K) /\ IsEntry(P!EmptyEntry) /\ ServicesHeld(<<>>, K)
    BY EmptyHeld
  <2>4. IsSeq(<<>>) /\ DOMAIN <<>> = {}
    BY DEF IsSeq
  <2> QED
    BY <2>1, <2>2, <2>3, <2>4 DEF Local
<1>2. Pile(<<>>)
  BY DEF Pile, IsSeq
<1>3. Pile(Bottom)
  <2>1. PICK x : x = [fn |-> "list", closing |-> NoName, depth |-> 1]
    OBVIOUS
  <2>2. DOMAIN x = {"fn", "closing", "depth"} /\ x.fn = "list"
    BY <2>1
  <2>3. IsSeq(<<x>>) /\ DOMAIN <<x>> = {1} /\ <<x>>[1] = x
    BY OneElement
  <2>4. Placed("list", 1)
    BY DEF Placed, Places
  <2>5. Named("list")
    BY Zenon DEF Named
  <2>6. Bottom = <<x>>
    BY <2>1 DEF Bottom
  <2> QED
    BY <2>2, <2>3, <2>4, <2>5, <2>6 DEF Pile
<1> QED
  BY <1>1, <1>2, <1>3 DEF Sound, At

\* Until the call ends, the rest of the input says no more than a whole
\* document would.
LEMMA CutTurn ==
  ASSUME NEW x, x[2] # <<>>, Sound(x, Keys), CutInput(x[1], x[2], x[3]), ~Garbled(x),
         NEW T, Wholes(T), Fits(x[2], x[3], T), NEW y, y = Turn(x)
  PROVE  \/ y = Refused(y[1])
         \/ /\ Sound(y, Keys) /\ CutInput(y[1], y[2], y[3]) /\ Fits(y[2], y[3], T)
            /\ y[4] # "Err" /\ (y[2] # <<>> \/ y[4] # "none")
<1>1. PICK s, d : s = x[2] /\ d = x[3]
  OBVIOUS
<1>2. Pile(s) /\ s # <<>> /\ Local(d, Keys) /\ x[4] = "none" /\ Fits(s, d, T)
  BY <1>1 DEF Sound
<1>3. CASE x[1] = <<>>
  <2>1. PICK rest : rest = <<>>
    OBVIOUS
  <2>2. y = Back(rest, s, d, "none")
    BY <1>1, <1>2, <1>3, <2>1 DEF Turn
  <2>3. Returning(x)
    BY <1>3 DEF Returning
  <2>4. Caller(s) = "identity" => P!Uri(d.text) \in Keys
    BY <1>1, <2>3 DEF Garbled
  <2>5. Sound(y, Keys)
    BY <1>2, <2>2, <2>4, BackSound
  <2>6. Fits(y[2], y[3], T)
    BY <1>2, <2>2, <2>4, BackFits, NoneUnsaid
  <2>7. y[1] = <<>>
    BY <1>2, <2>1, <2>2, BackParts
  <2>8. y[4] # "Err" /\ (y[2] # <<>> \/ y[4] # "none")
    <3>1. CASE Len(s) = 1
      BY <1>2, <2>2, <3>1, BackParts
    <3>2. CASE Len(s) # 1
      <4>1. y[2] = SubSeq(s, 1, Len(s) - 1) /\ y[4] = "none"
        BY <1>2, <2>2, <3>2, BackParts
      <4>2. PICK p : p = y[2]
        OBVIOUS
      <4>3. Len(p) = Len(s) - 1 /\ Len(s) \in Nat \ {0}
        BY <1>2, <4>1, <4>2, Popped, PileParts
      <4>4. p # <<>>
        BY <3>2, <4>3
      <4>5. y[4] = "none"
        BY <4>1
      <4> QED
        BY <4>2, <4>4, <4>5
    <3> QED
      BY <3>1, <3>2
  <2> QED
    BY <2>5, <2>6, <2>7, <2>8 DEF CutInput
<1>4. CASE x[1] = <<CutText>> /\ (s # <<>> /\ s[Len(s)].fn = "text" => d.text = <<>>)
  <2>1. y = Turn(At(<<CutText>>, s, d))
    BY <1>1, <1>2, <1>4 DEF Turn, At
  <2>2. y[1] = <<>> /\ y[2] = s /\ y[4] = "none" /\ Fits(s, y[3], T) /\ Local(y[3], Keys)
    BY <1>2, <1>4, <2>1, CutTextTurn
  <2> QED
    BY <1>2, <2>2 DEF CutInput, Sound
<1>5. CASE x[1] = <<BrokenTag>>
  <2>1. PICK rest : rest = <<>>
    OBVIOUS
  <2>2. x[1] # <<>> /\ Head(x[1]).kind = "broken" /\ Tail(x[1]) = rest
    BY <1>5, <2>1, CutParts
  <2>3. y = OnBroken(rest, s, d, "none")
    BY <1>1, <1>2, <2>2 DEF Turn, OnEvent
  <2>4. CASE s[Len(s)].fn # "inside"
    <3>1. y = Refused(rest)
      BY <2>3, <2>4, Zenon DEF OnBroken, Refused
    <3>2. y[1] = rest
      BY <3>1 DEF Refused
    <3> QED
      BY <3>1, <3>2
  <2>5. CASE s[Len(s)].fn = "inside"
    <3>1. Fits(y[2], y[3], T) /\ Pile(y[2]) /\ y[2] # <<>> /\ Local(y[3], Keys)
      BY <1>2, <2>3, <2>5, BrokenFits
    <3>2. y[1] = <<>> /\ y[4] = "none"
      BY <2>1, <2>3, <2>5, BrokenParts
    <3> QED
      BY <3>1, <3>2 DEF CutInput, Sound
  <2> QED
    BY <2>4, <2>5
<1> QED
  BY <1>1, <1>3, <1>4, <1>5 DEF CutInput

LEMMA ReturningTurns ==
  ASSUME NEW x, Returning(x)
  PROVE  \E rest : Turn(x) = Back(rest, x[2], x[3], x[4])
BY DEF Returning, Turn, OnEvent, OnEnd

----------------------------------------------------------------------------
(* From the document to its end.                                           *)

\* The parser, at c, is on its way to what the list publishes.
Heads(c, svcs, layout) == \E f : Reach(c, f) /\ AsPublished(f, svcs, layout)

\* A whole list leads there, unless a certificate of a service does not decode;
\* of a list cut short nothing has been read but what it says.
Leading ==
  IF result = "Err" THEN Spoilt(whole.layout) # {} /\ services # <<>>
  ELSE Heads(parsing, services, whole.layout)
CutShort == CutInput(input, stack, data) /\ Fits(stack, data, AllKept(services, whole.layout))

Going ==
  /\ "complete" \in DOMAIN whole
  /\ Sound(parsing, Keys)
  /\ (stack # <<>> \/ result # "none") /\ whole.complete => Leading
  /\ ~whole.complete => (stack # <<>> \/ result # "none") /\ (result # "Err" => CutShort)

\* What holds on the way to what the list publishes.
LEMMA HeadsFit ==
  ASSUME NEW x, NEW K, Sound(x, K), NEW svcs, AllSound(svcs), NEW layout, Heads(x, svcs, layout)
  PROVE  Fits(x[2], x[3], AllKept(svcs, layout))
<1>1. PICK f : Reach(x, f) /\ AsPublished(f, svcs, layout)
  BY DEF Heads
<1>2. PICK T : T = AllKept(svcs, layout)
  OBVIOUS
<1>3. Wholes(T)
  BY <1>2, KeptParts
<1>4. Fits(f[2], f[3], T)
  BY <1>1, <1>2, EndFits
<1> QED
  BY <1>1, <1>2, <1>3, <1>4, WayFits

LEMMA HeadsOn ==
  ASSUME NEW x, NEW svcs, NEW layout, Heads(x, svcs, layout), x[2] # <<>>
  PROVE  Heads(Turn(x), svcs, layout) /\ Anew(x)
<1>1. PICK f : Reach(x, f) /\ AsPublished(f, svcs, layout)
  BY DEF Heads
<1>2. f # x
  BY <1>1 DEF AsPublished
<1> QED
  BY <1>1, <1>2, ReachOn DEF Heads

LEMMA GoingStarts ==
  ASSUME ReadingInit
  PROVE  Going
<1>1. /\ stack = <<>> /\ result = "none" /\ data = P!NoData /\ "complete" \in DOMAIN whole /\ whole.complete
  BY DEF ReadingInit, P!Idle
<1>2. parsing = <<input, <<>>, P!NoData, result>>
  BY <1>1 DEF parsing
<1>3. Sound(parsing, Keys)
  BY <1>2, StartSound
<1> QED
  BY <1>1, <1>3 DEF Going

LEMMA GoingLoaded ==
  ASSUME AllSound(services), NEW layout, Load(layout)
  PROVE  Going'
<1>1. /\ services' = services /\ result' = "none"
      /\ input' = Document(services, layout) /\ data' = P!NoData
      /\ stack' = Bottom
  <2>1. P!parse_trusted_list(Document(services, layout)) /\ services' = services
    BY DEF Load, vars
  <2>2. stack' = Bottom
    BY <2>1, Zenon DEF P!parse_trusted_list, Bottom, NoName
  <2>3. result' = "none" /\ input' = Document(services, layout) /\ data' = P!NoData
    BY <2>1, Zenon DEF P!parse_trusted_list
  <2> QED
    BY <2>1, <2>2, <2>3
<1>2. whole'.layout = layout /\ "complete" \in DOMAIN whole' /\ whole'.complete
  BY DEF Load
<1>3. KeysAreSound
  BY DocumentAssumption DEF KeysAreSound
<1>4. Heads(At(Document(services, layout), Bottom, P!NoData), services, layout)
  BY <1>3, DocumentEnds DEF Heads
<1>5. parsing' = At(Document(services, layout), Bottom, P!NoData)
  BY <1>1, Zenon DEF parsing, At
<1>6. Heads(parsing', services', whole'.layout)
  BY <1>1, <1>2, <1>4, <1>5
<1>7. Sound(parsing', Keys)
  BY <1>5, StartSound
<1>8. Leading'
  BY <1>1, <1>6 DEF Leading, Heads
<1> QED
  BY <1>2, <1>7, <1>8 DEF Going, Leading

LEMMA GoingRead ==
  ASSUME Going, AllSound(services), Read
  PROVE  Going'
<1>1. P!Parse /\ services' = services /\ whole' = whole /\ stack # <<>>
  BY DEF Read, vars, P!Parse, P!ReadStart, P!ReadEmpty, P!ReadEnd, P!ReadText, P!ReadOther, P!ReadBroken,
         P!ReadEof, P!Next1, P!Running
<1>2. PICK x, y : x = parsing /\ y = parsing'
  OBVIOUS
<1>3. /\ x[1] = input /\ x[2] = stack /\ x[3] = data /\ x[4] = result
      /\ y[1] = input' /\ y[2] = stack' /\ y[3] = data' /\ y[4] = result'
  BY <1>2 DEF parsing
<1>4. Sound(x, Keys) /\ x[2] # <<>> /\ x[4] = "none"
  BY <1>1, <1>2, <1>3 DEF Going, Sound
<1>5. y = IF Garbled(x) THEN Refused(input') ELSE Turn(x)
  BY <1>1, <1>2, ParseTurns DEF parsing
<1>6. Garbled(x) => y[2] = <<>> /\ y[4] = "Err" /\ Sound(y, Keys)
  BY <1>5, StartSound DEF Refused
<1>7. PICK T : T = AllKept(services, whole.layout)
  OBVIOUS
<1>8. Wholes(T)
  BY <1>7, KeptParts
<1>9. CASE whole.complete
  <2>1. Heads(x, services, whole.layout)
    BY <1>1, <1>2, <1>3, <1>4, <1>9 DEF Going, Leading
  <2>2. Heads(Turn(x), services, whole.layout) /\ Anew(x)
    BY <1>4, <2>1, HeadsOn
  <2>3. x[1] # <<>> => Head(x[1]).kind \in Kinds
    BY <2>2 DEF Anew
  <2>4. CASE Garbled(x)
    <3>1. PICK uri : uri = P!Uri(x[3].text)
      OBVIOUS
    <3>2. Returning(x) /\ Caller(x[2]) = "identity" /\ uri \notin Keys
      BY <2>4, <3>1 DEF Garbled
    <3>3. PICK K : K = Keys \cup {uri}
      OBVIOUS
    <3>4. Sound(x, K)
      BY <1>4, <3>3, LocalMore DEF Sound
    <3>5. Sound(Turn(x), K)
      BY <2>3, <3>1, <3>3, <3>4, SoundTurn
    <3>6. Fits(Turn(x)[2], Turn(x)[3], T)
      BY <1>7, <2>2, <3>5, HeadsFit
    <3>7. PICK rest : Turn(x) = Back(rest, x[2], x[3], "none")
      BY <1>4, <3>2, ReturningTurns
    <3>8. Spoilt(whole.layout) # {} /\ services # <<>>
      BY <1>4, <1>7, <3>1, <3>2, <3>4, <3>6, <3>7, GarbledIsSpoilt DEF Sound
    <3> QED
      BY <1>1, <1>2, <1>3, <1>6, <1>9, <2>4, <3>8 DEF Going, Leading
  <2>5. CASE ~Garbled(x)
    <3>1. y = Turn(x)
      BY <1>5, <2>5
    <3>2. Sound(y, Keys)
      <4>1. Returning(x) /\ Caller(x[2]) = "identity" => P!Uri(x[3].text) \in Keys
        BY <2>5 DEF Garbled
      <4> QED
        BY <1>4, <2>3, <3>1, <4>1, SoundTurn
    <3>3. y[4] # "Err"
      <4> SUFFICES ASSUME y[4] = "Err" PROVE FALSE
        OBVIOUS
      <4>1. y[2] = <<>>
        BY <3>2 DEF Sound
      <4>2. PICK f : Reach(y, f) /\ AsPublished(f, services, whole.layout)
        BY <2>2, <3>1 DEF Heads
      <4>3. f = y
        BY <4>1, <4>2, ReachEnds
      <4> QED
        BY <4>2, <4>3 DEF AsPublished
    <3>4. Leading'
      BY <1>1, <1>2, <1>3, <2>2, <3>1, <3>3 DEF Leading, Heads
    <3> QED
      BY <1>1, <1>2, <1>9, <3>2, <3>4 DEF Going
  <2> QED
    BY <2>4, <2>5
<1>10. CASE ~whole.complete
  <2>1. CutInput(x[1], x[2], x[3]) /\ Fits(x[2], x[3], T)
    BY <1>3, <1>4, <1>7, <1>10 DEF Going, CutShort
  <2>2. CASE Garbled(x)
    BY <1>1, <1>2, <1>3, <1>6, <1>10, <2>2 DEF Going
  <2>3. CASE ~Garbled(x)
    <3>1. y = Turn(x)
      BY <1>5, <2>3
    <3>2. CASE y = Refused(y[1])
      <4>1. Sound(y, Keys) /\ y[2] = <<>> /\ y[4] = "Err"
        BY <3>2, StartSound DEF Refused
      <4> QED
        BY <1>1, <1>2, <1>3, <1>10, <4>1 DEF Going
    <3>3. CASE /\ Sound(y, Keys) /\ CutInput(y[1], y[2], y[3]) /\ Fits(y[2], y[3], T)
               /\ y[4] # "Err" /\ (y[2] # <<>> \/ y[4] # "none")
      <4>1. CutShort'
        BY <1>1, <1>3, <1>7, <3>3 DEF CutShort
      <4> QED
        BY <1>1, <1>2, <1>3, <1>10, <3>3, <4>1 DEF Going
    <3> QED
      BY <1>4, <1>8, <2>1, <2>3, <3>1, <3>2, <3>3, CutTurn
  <2> QED
    BY <2>2, <2>3
<1> QED
  BY <1>9, <1>10

\* Where the transfer ends, nothing has been read but what the list says.
LEMMA GoingCut ==
  ASSUME Going, AllSound(services), Cut
  PROVE  Going'
<1>1. /\ services' = services /\ stack' = stack /\ data' = data /\ result' = result
      /\ stack # <<>> /\ input # <<>> /\ whole.complete
      /\ "complete" \in DOMAIN whole' /\ whole'.complete = FALSE
  BY DEF Cut, P!Running, vars, Going
<1>11. whole'.layout = whole.layout
  BY DEF Cut
<1>2. PICK x : x = parsing
  OBVIOUS
<1>3. x[1] = input /\ x[2] = stack /\ x[3] = data /\ x[4] = result
  BY <1>2 DEF parsing
<1>4. Sound(x, Keys) /\ x[2] # <<>> /\ x[4] = "none"
  BY <1>1, <1>2, <1>3 DEF Going, Sound
<1>5. Heads(x, services, whole.layout)
  BY <1>1, <1>2, <1>3, <1>4 DEF Going, Leading
<1>6. Anew(x)
  BY <1>4, <1>5, HeadsOn
<1>7. Fits(stack', data', AllKept(services', whole'.layout))
  <2>1. Fits(x[2], x[3], AllKept(services, whole.layout))
    BY <1>4, <1>5, HeadsFit
  <2> QED
    BY <1>1, <1>3, <1>11, <2>1
<1>8. input' = <<>> \/ (Head(input).kind = "text" /\ input' = <<CutText>>) \/ input' = <<BrokenTag>>
  <2>1. PICK ending \in Ending(Head(input)) : input' = ending
    BY DEF Cut
  <2>2. PICK e : e = Head(input)
    OBVIOUS
  <2>3. ending = <<>> \/ (e.kind = "text" /\ ending = <<CutText>>) \/ ending = <<BrokenTag>>
    <3>1. CASE e.kind = "text"
      <4>1. ending \in {<<>>} \cup {<<CutText>>}
        BY <2>1, <2>2, <3>1, Zenon DEF Ending, CutText, NoName
      <4> QED
        BY <3>1, <4>1
    <3>2. CASE e.kind # "text"
      <4>1. ending \in {<<>>} \cup {<<BrokenTag>>}
        BY <2>1, <2>2, <3>2, Zenon DEF Ending, BrokenTag, NoName
      <4> QED
        BY <4>1
    <3> QED
      BY <3>1, <3>2
  <2> QED
    BY <2>1, <2>2, <2>3
<1>9. CutInput(input', stack', data')
  <2>1. Head(input).kind = "text" /\ stack[Len(stack)].fn = "text" => data.text = <<>>
    BY <1>1, <1>3, <1>6 DEF Anew
  <2> QED
    BY <1>1, <1>8, <2>1 DEF CutInput
<1>10. Sound(parsing', Keys)
  BY <1>1, <1>2, <1>3, <1>4 DEF Sound, parsing
<1> QED
  BY <1>1, <1>7, <1>9, <1>10 DEF Going, CutShort

LEMMA GoingStep ==
  ASSUME Going, AllSound(services), [ReadingNext]_<<vars, reading>>
  PROVE  Going'
<1>1. CASE Operate
  <2>1. /\ result = "none" /\ stack = <<>> /\ parsing' = parsing /\ whole' = whole
        /\ stack' = stack /\ result' = result
    BY <1>1 DEF Operate, reading, parsing
  <2> QED
    BY <2>1 DEF Going
<1>2. CASE \E layout \in Layouts : Load(layout)
  BY <1>2, GoingLoaded
<1>3. CASE Read
  BY <1>3, GoingRead
<1>4. CASE Cut
  BY <1>4, GoingCut
<1>5. CASE UNCHANGED <<vars, reading>>
  <2>1. /\ parsing' = parsing /\ services' = services /\ whole' = whole /\ stack' = stack /\ result' = result
        /\ input' = input /\ data' = data
    BY <1>5 DEF vars, reading, parsing
  <2> QED
    BY <2>1 DEF Going, Leading, CutShort
<1> QED
  BY <1>1, <1>2, <1>3, <1>4, <1>5 DEF ReadingNext

\* The services read are of certificates that decode.
LEMMA ReadIsHeld ==
  ASSUME NEW d, NEW K, Local(d, K), NEW q, q = FlattenSeq(d.providers)
  PROVE  IsSeq(q) /\ \A i \in DOMAIN q : ServiceHeld(q[i], K)
<1>1. IsSeq(q)
  BY DoneIsSeq
<1>2. PICK l : l = d.providers
  OBVIOUS
<1>3. IsSeq(l) /\ \A i \in DOMAIN l : ServicesHeld(l[i], K)
  BY <1>2 DEF Local
<1>4. PICK S : S = {x \in UNION {Range(l[i]) : i \in DOMAIN l} : ServiceHeld(x, K)}
  OBVIOUS
<1>5. \A i \in DOMAIN l : IsSeq(l[i]) /\ Range(l[i]) \subseteq S
  BY <1>3, <1>4 DEF ServicesHeld, Range
<1>6. Range(q) \subseteq S
  BY <1>2, <1>3, <1>5, FlattenedFrom
<1> QED
  BY <1>1, <1>4, <1>6 DEF Range

\* If one that does not decode stands beside those of a service, no service is
\* read whole.
LEMMA SpoiltIsLost ==
  ASSUME AllSound(services), NEW layout, NEW T, T = AllKept(services, layout),
         Local(data, Keys), NEW n \in DOMAIN T, NEW m \in DOMAIN Seen, Seen[m] = T[n]
  PROVE  Spoilt(layout) = {} /\ ServiceSeen(Seen[m]) = services[n]
<1>1. T[n] = ServiceKept(services[n], layout) /\ Spoilt(layout) \subseteq T[n].keys /\ n \in DOMAIN services
  BY KeptParts
<1>2. Seen[m].keys \subseteq Keys
  BY ReadIsHeld DEF Seen, ServiceHeld
<1>3. Spoilt(layout) = {}
  BY <1>1, <1>2, DocumentAssumption DEF Spoilt
<1>4. ServiceIsSound(services[n])
  BY <1>1 DEF AllSound
<1> QED
  BY <1>1, <1>3, <1>4, SeenAsSaid

\* parse.rs:18-50.  Of a list that arrives whole, and however many services it
\* has and wherever their elements stand among others, the call returns what
\* was published, and refuses it exactly if a service's certificate does not
\* decode.
THEOREM WholeListsAreRead == ReadingSpec => []PublishedIsRead
<1>1. ReadingInit => Going
  BY GoingStarts
<1>2. Going /\ AllSound(services) /\ [ReadingNext]_<<vars, reading>> => Going'
  BY GoingStep
<1>3. ReadingSpec => []AllSound(services)
  BY ReadingImplements, EditionsSound, PTL
<1>4. Going /\ AllSound(services) => PublishedIsRead
  <2> SUFFICES ASSUME Going, AllSound(services), result # "none", whole.complete
               PROVE  IF whole.layout.unreadable = "identity" /\ services # <<>> THEN result = "Err"
                      ELSE /\ result = "Ok"
                           /\ SeenServices = services
                           /\ data.territory = <<"home">> /\ data.next_update = MaxTime
    BY DEF PublishedIsRead
  <2>1. PICK x : x = parsing
    OBVIOUS
  <2>2. x[2] = stack /\ x[3] = data /\ x[4] = result
    BY <2>1 DEF parsing
  <2>3. Sound(x, Keys)
    BY <2>1 DEF Going
  <2>4. stack = <<>> /\ Local(data, Keys)
    BY <2>2, <2>3 DEF Sound
  <2>5. CASE result = "Err"
    BY <2>5 DEF Going, Leading, Spoilt
  <2>6. CASE result # "Err"
    <3>1. PICK f : Reach(x, f) /\ AsPublished(f, services, whole.layout)
      BY <2>1, <2>6 DEF Going, Leading, Heads
    <3>2. f = x
      BY <2>2, <2>4, <3>1, ReachEnds
    <3>3. /\ data.providers = ProvidersKept(services, whole.layout)
          /\ result = "Ok" /\ data.territory = <<"home">> /\ data.next_update = MaxTime
      BY <2>2, <3>1, <3>2 DEF AsPublished
    <3>4. PICK T : T = AllKept(services, whole.layout)
      OBVIOUS
    <3>5. Seen = T
      BY <3>3, <3>4, AllSeen DEF Seen
    <3>6. DOMAIN T = DOMAIN services
      BY <3>4, KeptParts
    <3>7. \A n \in DOMAIN services : Spoilt(whole.layout) = {} /\ ServiceSeen(Seen[n]) = services[n]
      BY <2>4, <3>4, <3>5, <3>6, SpoiltIsLost
    <3>8. PICK k \in Nat : DOMAIN services = 1..k /\ services = [n \in 1..k |-> services[n]]
      BY LenProperties DEF AllSound
    <3>9. SeenServices = services
      <4>1. SeenServices = [n \in 1..k |-> services[n]]
        BY <3>5, <3>6, <3>7, <3>8 DEF SeenServices
      <4> QED
        BY <3>8, <4>1
    <3>10. ~(whole.layout.unreadable = "identity" /\ services # <<>>)
      <4>1. services # <<>> => DOMAIN services # {}
        BY <3>8
      <4> QED
        BY <3>7, <4>1 DEF Spoilt
    <3> QED
      BY <3>3, <3>9, <3>10
  <2> QED
    BY <2>5, <2>6
<1> QED
  BY <1>1, <1>2, <1>3, <1>4, PTL DEF ReadingSpec

----------------------------------------------------------------------------
(* What is left of a list cut short.                                       *)

LEMMA SeenParts ==
  ASSUME NEW r, IsService(r), IsSeq(r.history), NEW w, w = ServiceSeen(r)
  PROVE  /\ w.kind = r.kind /\ w.status = r.status /\ w.start = r.start /\ w.keys = r.keys
         /\ w.qualifiers = r.qualifiers
         /\ IsSeq(w.history) /\ Len(w.history) = Len(r.history)
         /\ \A n \in 1..Len(r.history) :
              w.history[n] = EntrySeen(r.history[n]) /\ w.history[n].keys = r.history[n].keys
<1>1. PICK h, g : h = r.history /\ g = [n \in DOMAIN h |-> EntrySeen(h[n])]
  OBVIOUS
<1>2. /\ w.kind = r.kind /\ w.status = r.status /\ w.start = r.start /\ w.keys = r.keys
      /\ w.qualifiers = r.qualifiers /\ w.history = g
  BY <1>1 DEF IsService, ServiceSeen
<1>3. PICK k \in Nat : DOMAIN h = 1..k /\ Len(h) = k
  BY <1>1, LenProperties DEF IsSeq
<1>4. IsSeq(g) /\ Len(g) = k
  <2>1. PICK G : G = [n \in 1..k |-> EntrySeen(h[n])]
    OBVIOUS
  <2>2. g \in Seq({G[n] : n \in 1..k}) /\ Len(g) = k
    BY <1>1, <1>3, <2>1
  <2> QED
    BY <2>2, OfItsRange DEF IsSeq
<1>5. \A n \in 1..k : g[n] = EntrySeen(h[n])
  BY <1>1, <1>3
<1>6. \A x : EntrySeen(x).keys = x.keys
  BY DEF EntrySeen
<1> QED
  BY <1>1, <1>2, <1>3, <1>4, <1>5, <1>6

\* The last service of the list.
LEMMA LastSeen ==
  ASSUME NEW svc, ServiceIsSound(svc), NEW layout, NEW t, t = ServiceKept(svc, layout),
         NEW r, ServiceHeld(r, Keys), Partial(r, t), NEW w, w = ServiceSeen(r)
  PROVE  Partial(w, svc) /\ IsSeq(w.history)
<1>1. PICK k \in Nat : k = Len(svc.history) /\ svc.history = [n \in 1..k |-> svc.history[n]]
  BY LenProperties DEF ServiceIsSound
<1>2. PICK h : h = EntriesKept(svc, k)
  OBVIOUS
<1>3. h = [n \in 1..k |-> EntryKept(svc.kind, svc.history[n])]
  BY <1>2 DEF EntriesKept
<1>4. \A n \in 1..k : EntrySeen(h[n]) = svc.history[n] /\ h[n].keys = svc.history[n].keys
  <2>1. \A n \in 1..k : h[n] = EntryKept(svc.kind, svc.history[n])
    BY <1>3
  <2>2. \A x : EntrySeen(EntryKept(svc.kind, x)) = EntrySeen(x) /\ EntryKept(svc.kind, x).keys = x.keys
    BY DEF EntrySeen, EntryKept
  <2>3. \A n \in 1..k : svc.history[n] = EntrySeen(svc.history[n])
    <3>1. DOMAIN svc.history = 1..k
      BY <1>1
    <3> QED
      BY <3>1 DEF ServiceIsSound, EntryIsSound
  <2> QED
    BY <2>1, <2>2, <2>3
<1>5. Len(h) = k
  BY <1>3
<1>6. /\ t.kind = svc.kind /\ t.status = svc.status /\ t.start = svc.start /\ t.history = h
      /\ t.keys = svc.keys \cup Spoilt(layout)
  BY <1>1, <1>2 DEF ServiceKept, WithHistory, WithSpoilt
<1>7. IsService(r) /\ IsSeq(r.history) /\ r.keys \subseteq Keys
  BY DEF ServiceHeld
<1>8. PICK g, v : g = r.history /\ v = w.history
  OBVIOUS
<1>9. /\ w.kind = r.kind /\ w.status = r.status /\ w.start = r.start /\ w.keys = r.keys
      /\ IsSeq(v) /\ Len(v) = Len(g)
      /\ \A n \in 1..Len(g) : v[n] = EntrySeen(g[n]) /\ v[n].keys = g[n].keys
  BY <1>7, <1>8, SeenParts
<1>10. Len(g) \in Nat /\ (g = <<>> <=> Len(g) = 0) /\ (v = <<>> <=> Len(v) = 0)
  BY <1>7, <1>8, <1>9, EmptySeq DEF IsSeq
<1>11. Begun(w, svc)
  <2>1. r.keys \subseteq svc.keys
    <3>1. r.keys \subseteq svc.keys \cup Spoilt(layout)
      BY <1>6 DEF Partial, Begun
    <3>2. Keys \cap Spoilt(layout) = {}
      BY DocumentAssumption DEF Spoilt
    <3> QED
      BY <1>7, <3>1, <3>2
  <2>2. Heard(w.kind, svc.kind) /\ Heard(w.status, svc.status)
    BY <1>6, <1>9 DEF Partial, Begun
  <2>3. w.start = svc.start \/ (w.start = NoTime /\ v = <<>>)
    BY <1>6, <1>8, <1>9, <1>10 DEF Partial, Begun
  <2> QED
    BY <1>8, <1>9, <2>1, <2>2, <2>3 DEF Begun
<1>12. FormerPeriods(g, h)
  BY <1>6, <1>8 DEF Partial
<1>13. FormerPeriods(v, svc.history)
  <2>1. Len(v) <= Len(svc.history)
    BY <1>1, <1>5, <1>9, <1>12 DEF FormerPeriods
  <2>2. ASSUME NEW n \in 1..(Len(v) - 1) PROVE v[n] = svc.history[n]
    <3>1. n \in 1..Len(g) /\ n \in 1..k /\ n \in 1..(Len(g) - 1)
      BY <1>1, <1>9, <1>10, <2>1
    <3>2. g[n] = h[n]
      BY <1>12, <3>1 DEF FormerPeriods
    <3> QED
      BY <1>4, <1>9, <3>1, <3>2
  <2>3. ASSUME v # <<>> PROVE v[Len(v)].keys \subseteq svc.history[Len(v)].keys
    <3>1. Len(g) \in 1..Len(g) /\ Len(g) \in 1..k /\ g # <<>>
      BY <1>1, <1>9, <1>10, <2>1, <2>3
    <3>2. g[Len(g)].keys \subseteq h[Len(g)].keys
      BY <1>12, <3>1 DEF FormerPeriods
    <3> QED
      BY <1>4, <1>9, <3>1, <3>2
  <2> QED
    BY <2>1, <2>2, <2>3 DEF FormerPeriods
<1> QED
  BY <1>8, <1>9, <1>11, <1>13 DEF Partial

\* All services but the last are as published, and the last as far as it goes.
LEMMA SeenOfCut ==
  ASSUME AllSound(services), Local(data, Keys), NEW T, T = AllKept(services, whole.layout), Partly(Seen, T),
         NEW m, m = Len(Seen), NEW S, S = SeenServices
  PROVE  /\ m \in Nat /\ m <= Len(services) /\ DOMAIN S = 1..m /\ Len(services) \in Nat
         /\ DOMAIN services = 1..Len(services) /\ Len(services) = Len(T)
         /\ \A n \in 1..(m - 1) : S[n] = services[n]
         /\ Seen # <<>> <=> m # 0
         /\ m # 0 => Partial(S[m], services[m]) /\ IsSeq(S[m].history) /\ IsSeq(services[m].history)
<1>1. IsSeq(Seen) /\ \A i \in DOMAIN Seen : ServiceHeld(Seen[i], Keys)
  BY ReadIsHeld DEF Seen
<1>2. m \in Nat /\ DOMAIN Seen = 1..m /\ (Seen # <<>> <=> m # 0)
  BY <1>1, LenProperties, EmptySeq DEF IsSeq
<1>3. /\ DOMAIN T = DOMAIN services /\ Len(T) = Len(services) /\ Len(T) \in Nat /\ DOMAIN T = 1..Len(T)
      /\ \A i \in DOMAIN T : T[i] = ServiceKept(services[i], whole.layout)
  BY KeptParts
<1>4. m <= Len(T)
  BY DEF Partly
<1>5. DOMAIN S = 1..m /\ \A n \in 1..m : S[n] = ServiceSeen(Seen[n])
  BY <1>2 DEF SeenServices
<1>6. ASSUME NEW n \in 1..(m - 1) PROVE S[n] = services[n]
  <2>1. Seen[n] = T[n] /\ n \in DOMAIN T /\ n \in DOMAIN Seen /\ n \in 1..m
    BY <1>2, <1>3, <1>4 DEF Partly
  <2>2. ServiceSeen(Seen[n]) = services[n]
    BY <2>1, SpoiltIsLost
  <2> QED
    BY <1>5, <2>1, <2>2
<1>7. ASSUME m # 0
      PROVE  Partial(S[m], services[m]) /\ IsSeq(S[m].history) /\ IsSeq(services[m].history)
  <2>1. m \in 1..m /\ m \in DOMAIN Seen /\ m \in DOMAIN T /\ m \in DOMAIN services
    BY <1>2, <1>3, <1>4, <1>7
  <2>2. Partial(Seen[m], T[m])
    BY <1>2, <1>7 DEF Partly
  <2>3. ServiceHeld(Seen[m], Keys) /\ ServiceIsSound(services[m])
    BY <1>1, <2>1 DEF AllSound
  <2>4. T[m] = ServiceKept(services[m], whole.layout) /\ S[m] = ServiceSeen(Seen[m])
    BY <1>3, <1>5, <2>1
  <2>5. Partial(S[m], services[m]) /\ IsSeq(S[m].history)
    BY <2>2, <2>3, <2>4, LastSeen
  <2> QED
    BY <2>3, <2>5 DEF ServiceIsSound, IsSeq
<1> QED
  BY <1>2, <1>3, <1>4, <1>5, <1>6, <1>7

\* What is read of a service lists no key that the service does not.
LEMMA PartialLists ==
  ASSUME NEW r, NEW t, Partial(r, t), IsSeq(r.history), IsSeq(t.history), NEW key, Lists(r, key)
  PROVE  Lists(t, key)
<1>1. PICK h, g : h = r.history /\ g = t.history
  OBVIOUS
<1>2. /\ Len(h) \in Nat /\ DOMAIN h = 1..Len(h) /\ Len(g) \in Nat /\ DOMAIN g = 1..Len(g)
      /\ (h # <<>> <=> Len(h) # 0)
  BY <1>1, LenProperties, EmptySeq DEF IsSeq
<1>3. FormerPeriods(h, g) /\ r.keys \subseteq t.keys
  BY <1>1 DEF Partial, Begun
<1>4. CASE key \in r.keys
  BY <1>3, <1>4 DEF Lists
<1>5. ASSUME NEW n \in DOMAIN h, key \in h[n].keys PROVE key \in g[n].keys /\ n \in DOMAIN g
  <2>1. n \in DOMAIN g
    BY <1>2, <1>3 DEF FormerPeriods
  <2>2. CASE n = Len(h)
    BY <1>2, <1>3, <1>5, <2>1, <2>2 DEF FormerPeriods
  <2>3. CASE n # Len(h)
    <3>1. n \in 1..(Len(h) - 1)
      BY <1>2, <2>3
    <3> QED
      BY <1>3, <1>5, <2>1, <3>1 DEF FormerPeriods
  <2> QED
    BY <2>2, <2>3
<1> QED
  BY <1>1, <1>4, <1>5 DEF Lists

\* It is active, and issues qualified certificates, only if the service does.
LEMMA PartialStatus ==
  ASSUME IInv, NEW n \in DOMAIN services, NEW r, Partial(r, services[n])
  PROVE  /\ status_at(services[n], now) = services[n].status
         /\ status_at(r, now) = r.status
         /\ r.status \in ActiveStatuses => services[n].status = r.status
         /\ r.kind = "CA/QC" => services[n].kind = "CA/QC"
<1>1. PICK t, l : t = services[n] /\ l = log[n]
  OBVIOUS
<1>2. l # <<>> /\ l \in Seq(Range(l)) /\ t.start = l[Len(l)].start
      /\ \A i \in 1..Len(l) : l[i].start \in Int /\ l[i].start <= now
  BY <1>1 DEF IInv, Kept, Ordered
<1>3. t.start \in Int /\ t.start <= now /\ now \in Int
  <2>1. Len(l) \in 1..Len(l)
    <3>1. Len(l) \in Nat /\ Len(l) # 0
      BY <1>2, LenProperties, EmptySeq
    <3> QED
      BY <3>1
  <2> QED
    BY <1>2, <2>1 DEF IInv
<1>4. NoTime \notin Int
  BY EditionAssumption
<1>5. status_at(t, now) = t.status
  BY <1>3, <1>4 DEF status_at
<1>6. status_at(r, now) = r.status
  <2>1. CASE r.start = t.start
    BY <1>3, <1>4, <2>1 DEF status_at
  <2>2. CASE r.history = <<>>
    <3>1. DOMAIN r.history = {}
      BY <2>2
    <3> QED
      BY <3>1 DEF status_at
  <2> QED
    BY <1>1, <2>1, <2>2 DEF Partial, Begun
<1>7. \A x \in ActiveStatuses \cup {"CA/QC"} : x \notin Unsaid
  BY Zenon DEF ActiveStatuses, Unsaid, NoName
<1>8. Heard(r.status, t.status) /\ Heard(r.kind, t.kind)
  BY <1>1 DEF Partial, Begun
<1> QED
  BY <1>1, <1>5, <1>6, <1>7, <1>8 DEF Heard

\* The verdict on a chain of which one service answers.
LEMMA VerdictOf ==
  ASSUME NEW edition, NEW chain, NEW at
  PROVE  LET q == Qualification(edition, chain, at)
             svc == qualification_for(edition, chain) IN
         /\ Listed(edition, chain) = {} => q = "AdES"
         /\ Listed(edition, chain) # {} =>
              q = IF status_at(svc, at) \notin ActiveStatuses THEN "NotAdES"
                  ELSE IF svc.kind # "CA/QC" THEN "AdES"
                  ELSE IF "NoQSCD" \notin svc.qualifiers /\ "WithQSCD" \in svc.qualifiers THEN "QES"
                  ELSE "AdESqc"
BY Zenon DEF Qualification, qualify_signer

\* Finite sets of one member.
LEMMA OneMember ==
  ASSUME NEW S, NEW n \in Nat, S \subseteq 1..n, Cardinality(S) = 1, NEW x \in S
  PROVE  S = {x}
<1>1. PICK N : N = 1..n
  OBVIOUS
<1>2. IsFiniteSet(N)
  <2>1. IsFiniteSet(1..n)
    BY FS_Interval
  <2> QED
    BY <1>1, <2>1
<1>3. IsFiniteSet(S)
  <2>1. S \in SUBSET N
    BY <1>1
  <2> QED
    BY <1>2, <2>1, FS_Subset
<1>4. PICK y : S = {y}
  BY <1>3, FS_Singleton
<1> QED
  BY <1>4

\* The first of one index is that index.
LEMMA FirstOfOne ==
  ASSUME NEW x \in Nat
  PROVE  FirstOf({x}) = x
<1>1. PICK S : S = {x}
  OBVIOUS
<1>2. S \in SUBSET Nat /\ S # {}
  BY <1>1
<1>3. FirstOf(S) \in S
  BY <1>2, FirstOfIsMember
<1> QED
  BY <1>1, <1>3

\* So a signer is qualified only if the whole list qualifies it.
LEMMA VerdictConfined ==
  ASSUME IInv, NEW S, NEW m \in Nat, m <= Len(services), DOMAIN S = 1..m, Len(services) \in Nat,
         DOMAIN services = 1..Len(services),
         \A n \in 1..(m - 1) : S[n] = services[n],
         m # 0 => Partial(S[m], services[m]) /\ IsSeq(S[m].history) /\ IsSeq(services[m].history),
         NEW chain, chain \in Seq(Range(chain)),
         Cardinality(Held(chain)) = 1,
         \A i \in Held(chain) : Cardinality(Holders(chain[i].spki)) = 1,
         NEW seen, seen = Qualification(S, chain, now), seen \in {"AdESqc", "QES"},
         NEW full, full = Qualification(services, chain, now)
  PROVE  /\ full \in {"AdESqc", "QES"}
         /\ full = seen \/ \E n \in DOMAIN S : S[n].qualifiers # services[n].qualifiers
<1>1. Listed(S, chain) # {}
  BY VerdictOf
<1>2. PICK i, n : /\ i = FirstOf(Listed(S, chain)) /\ i \in DOMAIN chain
                  /\ n \in DOMAIN S /\ Lists(S[n], chain[i].spki) /\ qualification_for(S, chain) = S[n]
  <2>1. DOMAIN S \subseteq Nat
    OBVIOUS
  <2> QED
    BY <1>1, <2>1, FirstHolder
<1>3. PICK key : key = chain[i].spki
  OBVIOUS
<1>4. n \in DOMAIN services /\ (n = m \/ n \in 1..(m - 1))
  BY <1>2
<1>5. Lists(services[n], key)
  <2>1. CASE n = m
    <3>1. m # 0
      BY <1>2, <2>1
    <3> QED
      BY <1>2, <1>3, <2>1, <3>1, PartialLists
  <2>2. CASE n \in 1..(m - 1)
    BY <1>2, <1>3, <2>2
  <2> QED
    BY <1>4, <2>1, <2>2
<1>6. n \in Holders(key) /\ i \in Held(chain)
  BY <1>2, <1>3, <1>4, <1>5, ListsHolders DEF Held
<1>7. Held(chain) = {i}
  <2>1. PICK k \in Nat : DOMAIN chain = 1..k
    BY LenProperties
  <2>2. Held(chain) \subseteq 1..k
    BY <2>1 DEF Held
  <2> QED
    BY <1>6, <2>2, OneMember
<1>8. Holders(key) = {n}
  <2>1. DOMAIN log = DOMAIN services
    BY DEF IInv
  <2>2. Holders(key) \subseteq 1..Len(services)
    BY <2>1 DEF Holders
  <2>3. Cardinality(Holders(key)) = 1
    BY <1>3, <1>6
  <2> QED
    BY <1>6, <2>2, <2>3, OneMember
<1>9. FirstService(chain) = n
  <2>1. FirstOf({i}) = i /\ FirstOf({n}) = n
    <3>1. i \in Nat /\ n \in Nat
      BY <1>2, LenProperties
    <3> QED
      BY <3>1, FirstOfOne
  <2>2. FirstOf(Held(chain)) = i
    BY <1>7, <2>1
  <2> QED
    BY <1>3, <1>8, <2>1, <2>2 DEF FirstService
<1>10. Listed(services, chain) # {} /\ qualification_for(services, chain) = services[n]
  BY <1>6, <1>9, ServiceFound
<1>11. PICK r, t : r = S[n] /\ t = services[n]
  OBVIOUS
<1>12. /\ status_at(r, now) \in ActiveStatuses => status_at(t, now) \in ActiveStatuses
       /\ r.kind = "CA/QC" => t.kind = "CA/QC"
  <2>1. CASE n = m
    <3>1. Partial(r, t)
      BY <1>2, <1>11, <2>1
    <3> QED
      BY <1>4, <1>11, <3>1, PartialStatus
  <2>2. CASE n \in 1..(m - 1)
    BY <1>11, <2>2
  <2> QED
    BY <1>4, <2>1, <2>2
<1>13. /\ seen = IF status_at(r, now) \notin ActiveStatuses THEN "NotAdES"
                 ELSE IF r.kind # "CA/QC" THEN "AdES"
                 ELSE IF "NoQSCD" \notin r.qualifiers /\ "WithQSCD" \in r.qualifiers THEN "QES"
                 ELSE "AdESqc"
       /\ full = IF status_at(t, now) \notin ActiveStatuses THEN "NotAdES"
                 ELSE IF t.kind # "CA/QC" THEN "AdES"
                 ELSE IF "NoQSCD" \notin t.qualifiers /\ "WithQSCD" \in t.qualifiers THEN "QES"
                 ELSE "AdESqc"
  BY <1>1, <1>2, <1>10, <1>11, VerdictOf
<1>14. full \in {"AdESqc", "QES"} /\ (r.qualifiers = t.qualifiers => full = seen)
  BY <1>12, <1>13
<1> QED
  BY <1>2, <1>11, <1>14

\* parse.rs:34,420-475.  Whatever the list is and wherever the transfer ends,
\* what has been read is what was published but for the last service, and its
\* last period; and who is qualified by it, is by the whole list.
THEOREM CutListsAreConfined == ReadingSpec => []TruncationIsConfined
<1>1. ReadingInit => Going
  BY GoingStarts
<1>2. Going /\ AllSound(services) /\ [ReadingNext]_<<vars, reading>> => Going'
  BY GoingStep
<1>3. ReadingSpec => []AllSound(services)
  BY ReadingImplements, EditionsSound, PTL
<1>4. ReadingSpec => []IInv
  BY ReadingImplements, Invariance, PTL
<1>5. Going /\ AllSound(services) /\ IInv => TruncationIsConfined
  <2> SUFFICES ASSUME Going, AllSound(services), IInv, result = "Ok", ~whole.complete
               PROVE  TruncationIsConfined
    BY DEF TruncationIsConfined
  <2>1. Sound(parsing, Keys) /\ CutShort
    BY DEF Going
  <2>2. PICK x : x = parsing
    OBVIOUS
  <2>3. x[2] = stack /\ x[3] = data /\ x[4] = result
    BY <2>2 DEF parsing
  <2>4. stack = <<>> /\ Local(data, Keys)
    BY <2>1, <2>2, <2>3 DEF Sound
  <2>5. PICK T : T = AllKept(services, whole.layout)
    OBVIOUS
  <2>6. Partly(Seen, T)
    <3>1. ~InProvider(<<>>) /\ ~InService(<<>>)
      BY DEF InProvider, InService, Opens
    <3>2. Done(<<>>, data) = Seen
      BY <3>1 DEF Done, Seen
    <3>3. Fits(<<>>, data, T)
      BY <2>1, <2>4, <2>5 DEF CutShort
    <3> QED
      BY <3>1, <3>2, <3>3 DEF Fits
  <2>7. PICK m, S : m = Len(Seen) /\ S = SeenServices
    OBVIOUS
  <2>8. /\ m \in Nat /\ m <= Len(services) /\ DOMAIN S = 1..m /\ Len(services) \in Nat
        /\ DOMAIN services = 1..Len(services)
        /\ \A n \in 1..(m - 1) : S[n] = services[n]
        /\ Seen # <<>> <=> m # 0
        /\ m # 0 => Partial(S[m], services[m]) /\ IsSeq(S[m].history) /\ IsSeq(services[m].history)
    BY <2>4, <2>5, <2>6, <2>7, SeenOfCut
  <2>9. DOMAIN Seen = DOMAIN S
    BY <2>7 DEF SeenServices
  <2>10. ASSUME Seen # <<>>
         PROVE  LET last == S[m]
                    svc == services[m] IN
                /\ last.keys \subseteq svc.keys
                /\ Len(last.history) <= Len(svc.history)
                /\ \A n \in 1..(Len(last.history) - 1) : last.history[n] = svc.history[n]
                /\ last.history # <<>> => Last(last.history).keys \subseteq svc.history[Len(last.history)].keys
    BY <2>8, <2>10 DEF Partial, Begun, FormerPeriods, Last
  <2>11. ASSUME NEW chain \in Chains, Cardinality(Held(chain)) = 1,
                \A i \in Held(chain) : Cardinality(Holders(chain[i].spki)) = 1,
                Qualification(S, chain, now) \in {"AdESqc", "QES"}
         PROVE  /\ Qualification(services, chain, now) \in {"AdESqc", "QES"}
                /\ \/ Qualification(services, chain, now) = Qualification(S, chain, now)
                   \/ \E n \in DOMAIN S : S[n].qualifiers # services[n].qualifiers
    <3>1. chain \in Seq(Range(chain))
      BY EditionAssumption
    <3> QED
      BY <2>8, <2>11, <3>1, VerdictConfined
  <2> QED
    BY <2>7, <2>8, <2>9, <2>10, <2>11 DEF TruncationIsConfined, Held
<1> QED
  BY <1>1, <1>2, <1>3, <1>4, <1>5, PTL DEF ReadingSpec
=============================================================================
