-------------------------- MODULE AsicVerifyProofs --------------------------
(***************************************************************************)
(* Proofs about ASiC containers, for every container and every outcome of  *)
(* every signature against every data file.                                *)
(***************************************************************************)
EXTENDS AsicVerify, SequenceLemmas, FiniteSetTheorems

----------------------------------------------------------------------------
(* The inductive invariant.                                                *)

Size == Len(container.entries)

\* The entries of a kind among those before the n-th, in their order.
Sorted(q, kind, n) ==
  /\ q \in Seq(Nat)
  /\ \A x \in DOMAIN q : q[x] \in 1..(n - 1) /\ Entry(q[x]).kind = kind
  /\ \A x, y \in DOMAIN q : x < y => q[x] < q[y]
  /\ \A e \in 1..(n - 1) : Entry(e).kind = kind => \E x \in DOMAIN q : q[x] = e

\* What collect_entries has done.
Sorting ==
  /\ phase \in {"collect", "ZipError"} => tried = 0 /\ last_failure = NoFailure /\ reports = <<>>
  /\ phase = "collect" =>
       /\ next <= Size + 1
       /\ Sorted(signatures, "signature", next) /\ Sorted(data_files, "data", next)
       /\ \A e \in 1..(next - 1) : ~Unusable(e)
  /\ phase \in {"verify", "done"} =>
       /\ next <= Len(signatures) + 1
       /\ Sorted(signatures, "signature", Size + 1) /\ Sorted(data_files, "data", Size + 1)
       /\ signatures # <<>> /\ data_files # <<>>
       /\ \A e \in 1..Size : ~Unusable(e)
  /\ phase = "done" => next = Len(signatures) + 1

\* f is the failure of signature s on data file m, the last of the first t
\* for which there is one.
FailedOn(s, m, t, f) ==
  /\ f.signature = s /\ f.data = data_files[m] /\ f.status = "TotalFailedSub"
  /\ Verdict(s, data_files[m]) # <<>>
  /\ f.code = "ASIC_CADES_DISPATCH_FAILED" <=> Verdict(s, data_files[m]) = <<"Err">>
  /\ \A l \in (m + 1)..t : Verdict(s, data_files[l]) = <<>>

\* The first t data files did not match s, and f is what is known of that.
Unlucky(s, t, f) ==
  /\ \A m \in 1..t : Passing(Verdict(s, data_files[m])) = {}
  /\ IF f = NoFailure THEN \A m \in 1..t : Verdict(s, data_files[m]) = <<>>
     ELSE \E m \in 1..t : FailedOn(s, m, t, f)

Matches(s) == {d \in Entries("data") : PassingSigners(s, d) > 0}
ReportsOf(rs, s) == {n \in DOMAIN rs : rs[n].signature = s}

OwnFailure(r) ==
  (r.status = "TotalFailedSub" /\ r.data # 0) =>
    /\ Verdict(r.signature, r.data) # <<>>
    /\ \A d \in Entries("data") : d > r.data => Verdict(r.signature, d) = <<>>
    /\ r.code = "ASIC_CADES_DISPATCH_FAILED" <=> Verdict(r.signature, r.data) = <<"Err">>

\* The reports rs say of signature s what they should.
Settled(rs, s) ==
  /\ ReportsOf(rs, s) # {}
  /\ (\E n \in ReportsOf(rs, s) : rs[n].status # "TotalPassed") => Cardinality(ReportsOf(rs, s)) = 1
  /\ \A n \in ReportsOf(rs, s) : OwnFailure(rs[n])
  /\ IF Matches(s) = {} THEN \A n \in ReportsOf(rs, s) : rs[n].status = "TotalFailedSub"
     ELSE \A n \in ReportsOf(rs, s) :
            /\ rs[n].status = "TotalPassed" /\ rs[n].data \in Matches(s)
            /\ \A d \in Matches(s) : rs[n].data <= d
            /\ Cardinality(ReportsOf(rs, s)) = PassingSigners(s, rs[n].data)

Reporting ==
  /\ reports \in Seq(Range(reports))
  /\ \A n \in DOMAIN reports : \E y \in 1..(next - 1) : reports[n].signature = signatures[y]
  /\ \A y \in 1..(next - 1) : Settled(reports, signatures[y])

IInv ==
  /\ container \in Containers
  /\ phase \in {"collect", "verify", "done", "ZipError"}
  /\ next \in Nat \ {0} /\ tried \in 0..Len(data_files)
  /\ signatures \in Seq(Entries("signature")) /\ data_files \in Seq(Entries("data"))
  /\ Sorting
  /\ phase \in {"verify", "done"} => Reporting
  /\ (phase = "verify" /\ next <= Len(signatures)) => Unlucky(signatures[next], tried, last_failure)

----------------------------------------------------------------------------
(* One signature.                                                          *)

\* The outcomes of a signature and a data file are a sequence.
LEMMA VerdictShape ==
  ASSUME container \in Containers, NEW s \in Entries("signature"), NEW d \in Entries("data")
  PROVE  /\ Verdict(s, d) \in Seq(Range(Verdict(s, d))) /\ DOMAIN Verdict(s, d) = 1..Len(Verdict(s, d))
         /\ PassingSigners(s, d) \in Nat
         /\ PassingSigners(s, d) = 0 <=> Passing(Verdict(s, d)) = {}
<1>1. Verdict(s, d) \in Seq(Range(Verdict(s, d)))
  BY ContainerAssumption DEF Entries, Entry, Verdict
<1>2. DOMAIN Verdict(s, d) = 1..Len(Verdict(s, d)) /\ Len(Verdict(s, d)) \in Nat
  BY <1>1, LenProperties
<1>3. IsFiniteSet(Passing(Verdict(s, d)))
  <2>1. IsFiniteSet(1..Len(Verdict(s, d)))
    BY <1>2, FS_Interval
  <2>2. Passing(Verdict(s, d)) \in SUBSET (1..Len(Verdict(s, d)))
    BY <1>2 DEF Passing
  <2> QED
    BY <2>1, <2>2, FS_Subset
<1>4. /\ Cardinality(Passing(Verdict(s, d))) \in Nat
      /\ Cardinality(Passing(Verdict(s, d))) = 0 <=> Passing(Verdict(s, d)) = {}
  BY <1>3, FS_CardinalityType, FS_EmptySet
<1> QED
  BY <1>1, <1>2, <1>4 DEF PassingSigners

\* One more entry is sorted in.
LEMMA SortKeeps ==
  ASSUME NEW q, NEW kind, NEW n \in Nat \ {0}, Sorted(q, kind, n),
         NEW q2, q2 = IF Entry(n).kind = kind THEN Append(q, n) ELSE q
  PROVE  Sorted(q2, kind, n + 1)
<1>1. /\ q \in Seq(Nat) /\ Len(q) \in Nat /\ DOMAIN q = 1..Len(q)
      /\ \A x \in DOMAIN q : q[x] \in 1..(n - 1) /\ Entry(q[x]).kind = kind
      /\ \A x, y \in DOMAIN q : x < y => q[x] < q[y]
      /\ \A e \in 1..(n - 1) : Entry(e).kind = kind => \E x \in DOMAIN q : q[x] = e
  BY LenProperties DEF Sorted
<1>2. 1..((n + 1) - 1) = 1..(n - 1) \cup {n}
  OBVIOUS
<1>3. CASE Entry(n).kind # kind
  BY <1>1, <1>2, <1>3 DEF Sorted
<1>4. CASE Entry(n).kind = kind
  <2>1. /\ q2 \in Seq(Nat) /\ DOMAIN q2 = 1..(Len(q) + 1) /\ q2[Len(q) + 1] = n
        /\ \A x \in 1..Len(q) : q2[x] = q[x]
    BY <1>1, <1>4, AppendProperties, LenProperties
  <2>2. 1..(Len(q) + 1) = 1..Len(q) \cup {Len(q) + 1}
    BY <1>1
  <2>3. \A x \in DOMAIN q2 : q2[x] \in 1..((n + 1) - 1) /\ Entry(q2[x]).kind = kind
    BY <1>1, <1>2, <1>4, <2>1, <2>2
  <2>4. ASSUME NEW x \in DOMAIN q2, NEW y \in DOMAIN q2, x < y PROVE q2[x] < q2[y]
    <3>1. x \in 1..Len(q)
      BY <1>1, <2>1, <2>4
    <3>2. CASE y = Len(q) + 1
      BY <1>1, <2>1, <3>1, <3>2
    <3>3. CASE y \in 1..Len(q)
      BY <1>1, <2>1, <2>4, <3>1, <3>3
    <3> QED
      BY <2>1, <2>2, <3>2, <3>3
  <2>5. ASSUME NEW e \in 1..((n + 1) - 1), Entry(e).kind = kind PROVE \E x \in DOMAIN q2 : q2[x] = e
    <3>1. CASE e = n
      BY <2>1, <2>2, <3>1
    <3>2. CASE e \in 1..(n - 1)
      <4>1. PICK x \in DOMAIN q : q[x] = e
        BY <1>1, <2>5, <3>2
      <4> QED
        BY <1>1, <2>1, <2>2, <4>1
    <3> QED
      BY <1>2, <3>1, <3>2
  <2> QED
    BY <2>1, <2>3, <2>4, <2>5 DEF Sorted
<1> QED
  BY <1>3, <1>4

\* Reports of another signature leave those of s as they were.
LEMMA SettledStays ==
  ASSUME NEW rs, NEW rs2, NEW s, Settled(rs, s),
         DOMAIN rs \subseteq DOMAIN rs2, \A n \in DOMAIN rs : rs2[n] = rs[n],
         \A n \in DOMAIN rs2 \ DOMAIN rs : rs2[n].signature # s
  PROVE  Settled(rs2, s)
<1>1. ReportsOf(rs2, s) = ReportsOf(rs, s)
  BY DEF ReportsOf
<1>2. \A n \in ReportsOf(rs, s) : rs2[n] = rs[n]
  BY DEF ReportsOf
<1> QED
  BY <1>1, <1>2 DEF Settled

\* Another data file that did not match.
LEMMA UnluckyAgain ==
  ASSUME NEW s, NEW t \in Nat, NEW f, Unlucky(s, t, f),
         NEW v, v = Verdict(s, data_files[t + 1]), v \in Seq(Range(v)), Passing(v) = {},
         NEW f2, f2 = IF v = <<"Err">> THEN Report(s, data_files[t + 1], "TotalFailedSub", "ASIC_CADES_DISPATCH_FAILED")
                      ELSE IF \E n \in DOMAIN v : v[n] # "TotalPassed"
                        THEN Report(s, data_files[t + 1], "TotalFailedSub", "CADES")
                      ELSE f
  PROVE  Unlucky(s, t + 1, f2)
<1>1. 1..(t + 1) = 1..t \cup {t + 1} /\ (t + 2)..(t + 1) = {} /\ (t + 1) + 1 = t + 2
  OBVIOUS
<1>2. \A m \in 1..(t + 1) : Passing(Verdict(s, data_files[m])) = {}
  BY <1>1 DEF Unlucky
<1>3. CASE v = <<>>
  <2>1. f2 = f
    <3>1. DOMAIN v = {} /\ v # <<"Err">>
      BY <1>3, EmptySeq, LenProperties
    <3> QED
      BY <3>1
  <2>2. CASE f = NoFailure
    BY <1>1, <1>2, <1>3, <2>1, <2>2 DEF Unlucky
  <2>3. CASE f # NoFailure
    <3>1. PICK m \in 1..t : FailedOn(s, m, t, f)
      BY <2>3 DEF Unlucky
    <3>2. (m + 1)..(t + 1) = (m + 1)..t \cup {t + 1}
      OBVIOUS
    <3>3. FailedOn(s, m, t + 1, f)
      BY <1>3, <3>1, <3>2 DEF FailedOn
    <3> QED
      BY <1>1, <1>2, <2>1, <2>3, <3>3 DEF Unlucky
  <2> QED
    BY <2>2, <2>3
<1>4. CASE v # <<>>
  <2>1. \E n \in DOMAIN v : v[n] # "TotalPassed"
    <3>1. 1 \in DOMAIN v
      BY <1>4, EmptySeq, LenProperties
    <3> QED
      BY <3>1 DEF Passing
  <2>2. /\ f2.signature = s /\ f2.data = data_files[t + 1] /\ f2.status = "TotalFailedSub"
        /\ f2.code = IF v = <<"Err">> THEN "ASIC_CADES_DISPATCH_FAILED" ELSE "CADES"
    BY <2>1 DEF Report
  <2>3. f2 # NoFailure
    BY <2>2 DEF NoFailure
  <2>4. FailedOn(s, t + 1, t + 1, f2)
    BY <1>1, <1>4, <2>2 DEF FailedOn
  <2> QED
    BY <1>1, <1>2, <2>3, <2>4 DEF Unlucky
<1> QED
  BY <1>3, <1>4

\* A sequence is one over its own elements.
LEMMA OverItsRange ==
  ASSUME NEW S, NEW q \in Seq(S)
  PROVE  q \in Seq(Range(q))
<1>1. q \in [1..Len(q) -> S] /\ Len(q) \in Nat
  BY LenProperties
<1>2. q \in [1..Len(q) -> Range(q)]
  BY <1>1 DEF Range
<1> QED
  BY <1>1, <1>2, SeqDef

----------------------------------------------------------------------------
(* A signature that is done with.                                          *)

Current == phase = "verify" /\ next <= Len(signatures)

\* The signature whose turn it is has no report yet.
LEMMA Fresh ==
  ASSUME IInv, Current
  PROVE  /\ next \in DOMAIN signatures /\ signatures[next] \in Entries("signature")
         /\ \A y \in 1..(next - 1) : signatures[y] # signatures[next]
         /\ \A n \in DOMAIN reports : reports[n].signature # signatures[next]
         /\ \A d \in Entries("data") : \E m \in 1..Len(data_files) : data_files[m] = d
         /\ \A m \in 1..Len(data_files) : data_files[m] \in Entries("data")
         /\ \A m, l \in 1..Len(data_files) : m < l => data_files[m] < data_files[l]
         /\ Entries("data") \subseteq Nat
         /\ Len(signatures) \in Nat /\ Len(data_files) \in Nat /\ DOMAIN signatures = 1..Len(signatures)
<1>1. /\ Sorted(signatures, "signature", Size + 1) /\ Sorted(data_files, "data", Size + 1)
      /\ Reporting /\ container \in Containers
      /\ next \in Nat \ {0} /\ next <= Len(signatures)
      /\ signatures \in Seq(Entries("signature")) /\ data_files \in Seq(Entries("data"))
  BY DEF IInv, Sorting, Current
<1>2. /\ DOMAIN signatures = 1..Len(signatures) /\ Len(signatures) \in Nat
      /\ DOMAIN data_files = 1..Len(data_files) /\ Len(data_files) \in Nat
      /\ signatures \in [1..Len(signatures) -> Entries("signature")]
      /\ data_files \in [1..Len(data_files) -> Entries("data")]
  BY <1>1, LenProperties
<1>3. next \in DOMAIN signatures
  BY <1>1, <1>2
<1>4. \A y \in 1..(next - 1) : signatures[y] # signatures[next]
  <2> SUFFICES ASSUME NEW y \in 1..(next - 1) PROVE signatures[y] < signatures[next] /\ signatures[y] \in Int
    BY <1>1, <1>2, <1>3 DEF Sorted
  <2>1. y \in DOMAIN signatures /\ y < next
    BY <1>1, <1>2
  <2>2. signatures[y] \in Nat
    BY <2>1, <1>1, <1>2 DEF Sorted
  <2> QED
    BY <1>1, <1>3, <2>1, <2>2 DEF Sorted
<1>5. \A n \in DOMAIN reports : reports[n].signature # signatures[next]
  BY <1>1, <1>4 DEF Reporting
<1>6. DOMAIN container.entries = 1..Size /\ Size \in Nat
  BY <1>1, ContainerAssumption, LenProperties DEF Size
<1>7. \A d \in Entries("data") : \E m \in 1..Len(data_files) : data_files[m] = d
  BY <1>1, <1>2, <1>6 DEF Sorted, Entries
<1>8. Entries("data") \subseteq Nat
  BY <1>6 DEF Entries
<1>9. \A m, l \in 1..Len(data_files) : m < l => data_files[m] < data_files[l]
  BY <1>1, <1>2 DEF Sorted
<1> QED
  BY <1>2, <1>3, <1>4, <1>5, <1>7, <1>8, <1>9

\* When its reports are as they should be, it joins the others.
LEMMA OneMoreSettled ==
  ASSUME IInv, Current, NEW rs, rs \in Seq(Range(rs)),
         DOMAIN reports \subseteq DOMAIN rs, \A n \in DOMAIN reports : rs[n] = reports[n],
         \A n \in DOMAIN rs \ DOMAIN reports : rs[n].signature = signatures[next],
         Settled(rs, signatures[next])
  PROVE  /\ \A n \in DOMAIN rs : \E y \in 1..((next + 1) - 1) : rs[n].signature = signatures[y]
         /\ \A y \in 1..((next + 1) - 1) : Settled(rs, signatures[y])
<1>1. /\ next \in Nat \ {0}
      /\ \A n \in DOMAIN reports : \E y \in 1..(next - 1) : reports[n].signature = signatures[y]
      /\ \A y \in 1..(next - 1) : Settled(reports, signatures[y])
  BY DEF IInv, Reporting, Current
<1>2. 1..((next + 1) - 1) = 1..(next - 1) \cup {next}
  BY <1>1
<1>3. \A y \in 1..(next - 1) : signatures[y] # signatures[next]
  BY Fresh
<1>4. ASSUME NEW y \in 1..(next - 1) PROVE Settled(rs, signatures[y])
  <2>1. \A n \in DOMAIN rs \ DOMAIN reports : rs[n].signature # signatures[y]
    BY <1>3
  <2> QED
    BY <1>1, <2>1, SettledStays
<1>5. \A n \in DOMAIN rs : \E y \in 1..((next + 1) - 1) : rs[n].signature = signatures[y]
  BY <1>1, <1>2
<1> QED
  BY <1>2, <1>4, <1>5

\* A match settles it.
LEMMA MatchSettles ==
  ASSUME IInv, Current, tried < Len(data_files), NEW v, v = Verdict(sig_name, data_name), Passing(v) # {},
         NEW rs, rs = reports \o PassingReports(v)
  PROVE  /\ rs \in Seq(Range(rs))
         /\ DOMAIN reports \subseteq DOMAIN rs /\ \A n \in DOMAIN reports : rs[n] = reports[n]
         /\ \A n \in DOMAIN rs \ DOMAIN reports : rs[n].signature = signatures[next]
         /\ Settled(rs, signatures[next])
<1> DEFINE c == Cardinality(Passing(v))
           p == PassingReports(v)
           S == Range(reports) \cup {Report(sig_name, data_name, "TotalPassed", "CADES")}
<1>1. /\ tried \in Nat /\ tried + 1 \in 1..Len(data_files)
      /\ container \in Containers /\ reports \in Seq(Range(reports))
  BY Fresh DEF IInv, Reporting, Current
<1>2. sig_name \in Entries("signature") /\ data_name \in Entries("data")
  BY <1>1, Fresh DEF sig_name, data_name
<1>3. c \in Nat \ {0} /\ PassingSigners(sig_name, data_name) = c
  BY <1>1, <1>2, VerdictShape DEF PassingSigners
<1>4. p \in Seq(S) /\ Len(p) = c /\ \A n \in 1..c : p[n] = Report(sig_name, data_name, "TotalPassed", "CADES")
  <2>1. p = [n \in 1..c |-> Report(sig_name, data_name, "TotalPassed", "CADES")]
    BY DEF PassingReports
  <2>2. p \in [1..c -> S]
    BY <2>1
  <2> QED
    BY <1>3, <2>1, <2>2, SeqDef, LenProperties
<1>5. reports \in Seq(S) /\ DOMAIN reports = 1..Len(reports) /\ Len(reports) \in Nat
  BY <1>1, SeqMonotonic, LenProperties
<1> HIDE DEF c, p, S
<1>6. /\ rs \in Seq(S) /\ Len(rs) = Len(reports) + c
      /\ \A n \in 1..(Len(reports) + c) : rs[n] = IF n <= Len(reports) THEN reports[n] ELSE p[n - Len(reports)]
  BY <1>4, <1>5, ConcatProperties DEF p
<1>7. DOMAIN rs = 1..(Len(reports) + c)
  BY <1>3, <1>5, <1>6, LenProperties
<1>8. rs \in Seq(Range(rs))
  BY <1>6, OverItsRange
<1>9. DOMAIN reports \subseteq DOMAIN rs /\ \A n \in DOMAIN reports : rs[n] = reports[n]
  BY <1>3, <1>5, <1>6, <1>7
<1>10. \A n \in (Len(reports) + 1)..(Len(reports) + c) : rs[n] = Report(sig_name, data_name, "TotalPassed", "CADES")
  <2> SUFFICES ASSUME NEW n \in (Len(reports) + 1)..(Len(reports) + c)
               PROVE  rs[n] = Report(sig_name, data_name, "TotalPassed", "CADES")
    OBVIOUS
  <2>1. n \in 1..(Len(reports) + c) /\ ~(n <= Len(reports)) /\ n - Len(reports) \in 1..c
    BY <1>3, <1>5
  <2> QED
    BY <1>4, <1>6, <2>1
<1>11. DOMAIN rs \ DOMAIN reports = (Len(reports) + 1)..(Len(reports) + c)
  BY <1>3, <1>5, <1>7
<1>12. \A n \in DOMAIN rs \ DOMAIN reports :
         /\ rs[n].signature = signatures[next] /\ rs[n].status = "TotalPassed" /\ rs[n].data = data_name
  BY <1>10, <1>11 DEF Report, sig_name
<1>13. ReportsOf(rs, signatures[next]) = (Len(reports) + 1)..(Len(reports) + c)
  BY <1>9, <1>11, <1>12, Fresh DEF ReportsOf
<1>14. Cardinality(ReportsOf(rs, signatures[next])) = c /\ ReportsOf(rs, signatures[next]) # {}
  <2>1. Cardinality((Len(reports) + 1)..(Len(reports) + c)) = c
    BY <1>3, <1>5, FS_Interval
  <2>2. Len(reports) + 1 \in (Len(reports) + 1)..(Len(reports) + c)
    BY <1>3, <1>5
  <2> QED
    BY <1>13, <2>1, <2>2
<1>15. data_name \in Matches(sig_name)
  BY <1>2, <1>3 DEF Matches
<1>16. ASSUME NEW d \in Matches(sig_name) PROVE data_name <= d
  <2>1. PICK m \in 1..Len(data_files) : data_files[m] = d
    BY Fresh DEF Matches
  <2>2. Passing(Verdict(sig_name, d)) # {}
    <3>1. d \in Entries("data") /\ PassingSigners(sig_name, d) # 0
      BY <1>1, <1>2, VerdictShape DEF Matches
    <3> QED
      BY <1>1, <1>2, <3>1, VerdictShape
  <2>3. m > tried
    <3>1. \A l \in 1..tried : Passing(Verdict(sig_name, data_files[l])) = {}
      BY DEF IInv, Unlucky, Current, sig_name
    <3>2. m \notin 1..tried
      BY <2>1, <2>2, <3>1
    <3> QED
      BY <1>1, <3>2
  <2>4. m = tried + 1 \/ tried + 1 < m
    BY <1>1, <2>3
  <2>5. data_files[tried + 1] \in Nat /\ d \in Nat
    BY <1>1, <2>1, Fresh
  <2> QED
    BY <1>1, <2>1, <2>4, <2>5, Fresh DEF data_name
<1>17. Settled(rs, signatures[next])
  <2>1. \A n \in ReportsOf(rs, signatures[next]) :
          rs[n].status = "TotalPassed" /\ rs[n].data = data_name
    BY <1>11, <1>12, <1>13
  <2>2. \A n \in ReportsOf(rs, signatures[next]) : OwnFailure(rs[n])
    BY <2>1 DEF OwnFailure
  <2> QED
    BY <1>3, <1>14, <1>15, <1>16, <2>1, <2>2 DEF Settled, sig_name
<1> QED
  BY <1>8, <1>9, <1>12, <1>17

\* So does the failure of one that matched nothing.
LEMMA FailureSettles ==
  ASSUME IInv, Current, tried = Len(data_files),
         NEW f, f = IF last_failure # NoFailure THEN last_failure
                    ELSE Report(sig_name, 0, "TotalFailedSub", "ASIC_SIGNATURE_UNMATCHED"),
         NEW rs, rs = Append(reports, f)
  PROVE  /\ rs \in Seq(Range(rs))
         /\ DOMAIN reports \subseteq DOMAIN rs /\ \A n \in DOMAIN reports : rs[n] = reports[n]
         /\ \A n \in DOMAIN rs \ DOMAIN reports : rs[n].signature = signatures[next]
         /\ Settled(rs, signatures[next])
<1>1. container \in Containers /\ reports \in Seq(Range(reports)) /\ tried \in Nat
  BY Fresh DEF IInv, Reporting, Current
<1>2. /\ rs \in Seq(Range(rs)) /\ DOMAIN rs = DOMAIN reports \cup {Len(reports) + 1}
      /\ \A n \in DOMAIN reports : rs[n] = reports[n]
      /\ rs[Len(reports) + 1] = f
  BY <1>1, Appended
<1>3. Len(reports) + 1 \notin DOMAIN reports
  BY <1>1, LenProperties
<1>4. Unlucky(sig_name, Len(data_files), last_failure)
  BY DEF IInv, Current, sig_name
<1>5. f.signature = sig_name /\ f.status = "TotalFailedSub"
  BY <1>4 DEF Unlucky, FailedOn, Report
<1>6. OwnFailure(f)
  <2>1. CASE last_failure = NoFailure
    BY <2>1 DEF OwnFailure, Report
  <2>2. CASE last_failure # NoFailure
    <3>1. PICK m \in 1..Len(data_files) : FailedOn(sig_name, m, Len(data_files), f)
      BY <1>4, <2>2 DEF Unlucky
    <3>2. ASSUME NEW d \in Entries("data"), d > data_files[m] PROVE Verdict(sig_name, d) = <<>>
      <4>1. PICK l \in 1..Len(data_files) : data_files[l] = d
        BY Fresh
      <4>2. data_files[m] \in Nat /\ d \in Nat
        BY Fresh
      <4>3. l > m
        <5>1. l # m
          BY <3>2, <4>1, <4>2
        <5>2. ~(l < m)
          BY <3>2, <4>1, <4>2, Fresh
        <5> QED
          BY <5>1, <5>2, Fresh
      <4>4. l \in (m + 1)..Len(data_files)
        BY <4>3, Fresh
      <4> QED
        BY <3>1, <4>1, <4>4 DEF FailedOn
    <3> QED
      BY <3>1, <3>2 DEF FailedOn, OwnFailure
  <2> QED
    BY <2>1, <2>2
<1>7. Matches(sig_name) = {}
  <2> SUFFICES ASSUME NEW d \in Matches(sig_name) PROVE FALSE
    OBVIOUS
  <2>1. PICK m \in 1..Len(data_files) : data_files[m] = d
    BY Fresh DEF Matches
  <2>2. sig_name \in Entries("signature") /\ d \in Entries("data")
    BY Fresh DEF Matches, sig_name
  <2>3. PassingSigners(sig_name, d) = 0
    BY <1>1, <1>4, <2>1, <2>2, VerdictShape DEF Unlucky
  <2> QED
    BY <2>3 DEF Matches
<1>8. ReportsOf(rs, signatures[next]) = {Len(reports) + 1}
  BY <1>2, <1>3, <1>5, Fresh DEF ReportsOf, sig_name
<1>9. Cardinality({Len(reports) + 1}) = 1
  BY FS_Singleton
<1>10. Settled(rs, signatures[next])
  BY <1>2, <1>5, <1>6, <1>7, <1>8, <1>9 DEF Settled, sig_name
<1> QED
  BY <1>2, <1>5, <1>10 DEF sig_name

----------------------------------------------------------------------------
(* The invariant is inductive.                                             *)

\* At the start nothing is sorted and nothing is reported.
LEMMA InitIInv == Init => IInv
<1> SUFFICES ASSUME Init PROVE IInv
  OBVIOUS
<1>1. /\ container \in Containers /\ phase = "collect" /\ next = 1 /\ tried = 0
      /\ signatures = <<>> /\ data_files = <<>> /\ last_failure = NoFailure /\ reports = <<>>
  BY DEF Init
<1>2. Size \in Nat
  BY <1>1, ContainerAssumption, LenProperties DEF Size
<1>3. /\ \A T : <<>> \in Seq(T)
      /\ Len(<<>>) = 0 /\ DOMAIN <<>> = {}
  BY EmptySeq, LenProperties
<1>4. 1..(1 - 1) = {}
  OBVIOUS
<1>5. Sorted(<<>>, "signature", 1) /\ Sorted(<<>>, "data", 1)
  BY <1>3, <1>4 DEF Sorted
<1>6. Sorting
  BY <1>1, <1>2, <1>4, <1>5 DEF Sorting
<1> QED
  BY <1>1, <1>3, <1>6 DEF IInv

\* As long as the container and the lists stay, so does what is said of them.
LEMMA SameWords ==
  ASSUME UNCHANGED container
  PROVE  /\ Size' = Size /\ Entries("data")' = Entries("data") /\ Entries("signature")' = Entries("signature")
         /\ \A q, kind, n : Sorted(q, kind, n)' <=> Sorted(q, kind, n)
         /\ \A e : Unusable(e)' <=> Unusable(e)
         /\ \A rs, s : Settled(rs, s)' <=> Settled(rs, s)
         /\ UNCHANGED data_files => \A s, t, f : Unlucky(s, t, f)' <=> Unlucky(s, t, f)
<1> USE DEF Entry, Verdict
<1>1. Size' = Size /\ Entries("data")' = Entries("data") /\ Entries("signature")' = Entries("signature")
  BY DEF Size, Entries
<1>2. (\A q, kind, n : Sorted(q, kind, n)' <=> Sorted(q, kind, n)) /\ \A e : Unusable(e)' <=> Unusable(e)
  BY DEF Sorted, Unusable
<1>3. \A s, d : PassingSigners(s, d)' = PassingSigners(s, d)
  BY DEF PassingSigners
<1>4. \A s : Matches(s)' = Matches(s)
  BY <1>1, <1>3 DEF Matches
<1>5. \A r : OwnFailure(r)' <=> OwnFailure(r)
  BY <1>1 DEF OwnFailure
<1>6. \A rs, s : Settled(rs, s)' <=> Settled(rs, s)
  BY <1>3, <1>4, <1>5 DEF Settled, ReportsOf
<1>7. UNCHANGED data_files => \A s, t, f : Unlucky(s, t, f)' <=> Unlucky(s, t, f)
  BY DEF Unlucky, FailedOn
<1> QED
  BY <1>1, <1>2, <1>6, <1>7

\* Collecting.
LEMMA CollectIInv == IInv /\ Collect => IInv'
<1> SUFFICES ASSUME IInv, Collect PROVE IInv'
  OBVIOUS
<1>1. /\ container' = container /\ tried' = tried /\ last_failure' = last_failure /\ reports' = reports
      /\ next' = next + 1 /\ phase = "collect" /\ next <= Size
  BY DEF Collect, Size
<1>2. /\ container \in Containers /\ next \in Nat \ {0}
      /\ signatures \in Seq(Entries("signature")) /\ data_files \in Seq(Entries("data"))
      /\ tried = 0 /\ last_failure = NoFailure /\ reports = <<>>
      /\ Sorted(signatures, "signature", next) /\ Sorted(data_files, "data", next)
      /\ \A e \in 1..(next - 1) : ~Unusable(e)
  BY <1>1 DEF IInv, Sorting
<1>3. DOMAIN container.entries = 1..Size /\ Size \in Nat
  BY <1>2, ContainerAssumption, LenProperties DEF Size
<1>4. CASE Unusable(next)
  <2>1. phase' = "ZipError" /\ signatures' = signatures /\ data_files' = data_files
    BY <1>4 DEF Collect
  <2>2. Len(data_files)' \in Nat
    BY <1>2, <2>1, LenProperties
  <2>3. Sorting'
    BY <1>1, <1>2, <2>1 DEF Sorting, NoFailure
  <2> QED
    BY <1>1, <1>2, <2>1, <2>2, <2>3, SameWords DEF IInv
<1>5. CASE ~Unusable(next)
  <2>1. phase' = "collect" /\ Sort(next)
    BY <1>1, <1>5 DEF Collect
  <2>2. Sorted(signatures', "signature", next + 1) /\ Sorted(data_files', "data", next + 1)
    BY <1>2, <2>1, SortKeeps DEF Sort
  <2>3. next \in 1..Size
    BY <1>1, <1>2, <1>3
  <2>4. signatures' \in Seq(Entries("signature")) /\ data_files' \in Seq(Entries("data"))
    BY <1>2, <1>3, <2>1, <2>3, AppendProperties DEF Sort, Entries
  <2>5. Len(data_files') \in Nat
    BY <2>4, LenProperties
  <2>6. 1..((next + 1) - 1) = 1..(next - 1) \cup {next}
    BY <1>2
  <2>7. Sorting'
    BY <1>1, <1>2, <1>3, <1>5, <2>1, <2>2, <2>6, SameWords DEF Sorting, NoFailure
  <2> QED
    BY <1>1, <1>2, <2>1, <2>4, <2>5, <2>7, SameWords DEF IInv
<1> QED
  BY <1>4, <1>5

\* The lists are complete.
LEMMA CollectEndsIInv == IInv /\ CollectEnds => IInv'
<1> SUFFICES ASSUME IInv, CollectEnds PROVE IInv'
  OBVIOUS
<1>1. /\ container' = container /\ tried' = tried /\ last_failure' = last_failure /\ reports' = reports
      /\ signatures' = signatures /\ data_files' = data_files /\ next' = 1 /\ phase = "collect" /\ next > Size
      /\ phase' = IF signatures = <<>> \/ data_files = <<>> THEN "ZipError" ELSE "verify"
  BY DEF CollectEnds, Size
<1>2. /\ container \in Containers /\ next \in Nat \ {0} /\ next <= Size + 1
      /\ signatures \in Seq(Entries("signature")) /\ data_files \in Seq(Entries("data"))
      /\ tried = 0 /\ last_failure = NoFailure /\ reports = <<>>
      /\ Sorted(signatures, "signature", next) /\ Sorted(data_files, "data", next)
      /\ \A e \in 1..(next - 1) : ~Unusable(e)
  BY <1>1 DEF IInv, Sorting
<1>3. Size \in Nat /\ Len(signatures) \in Nat /\ Len(data_files) \in Nat
  BY <1>2, ContainerAssumption, LenProperties DEF Size
<1>4. next = Size + 1 /\ next - 1 = Size
  BY <1>1, <1>2, <1>3
<1>5. Sorting'
  BY <1>1, <1>2, <1>3, <1>4, SameWords DEF Sorting, NoFailure
<1>6. Reporting'
  <2>1. <<>> \in Seq(Range(<<>>)) /\ DOMAIN <<>> = {} /\ 1..(1 - 1) = {}
    BY EmptySeq, LenProperties
  <2> QED
    BY <1>1, <1>2, <2>1 DEF Reporting
<1>7. Unlucky(signatures[1], 0, NoFailure)
  BY DEF Unlucky
<1>8. Unlucky(signatures[next], tried, last_failure)'
  BY <1>1, <1>2, <1>7, SameWords
<1> QED
  BY <1>1, <1>2, <1>3, <1>5, <1>6, <1>8, SameWords DEF IInv

\* What the two ends of the inner loop have in common.
LEMMA NextSignatureIInv ==
  ASSUME IInv, Current, NextSignature, UNCHANGED <<container, phase, signatures, data_files>>,
         reports' \in Seq(Range(reports')),
         DOMAIN reports \subseteq DOMAIN reports', \A n \in DOMAIN reports : reports'[n] = reports[n],
         \A n \in DOMAIN reports' \ DOMAIN reports : reports'[n].signature = signatures[next],
         Settled(reports', signatures[next])
  PROVE  IInv'
<1>1. /\ \A n \in DOMAIN reports' : \E y \in 1..((next + 1) - 1) : reports'[n].signature = signatures[y]
      /\ \A y \in 1..((next + 1) - 1) : Settled(reports', signatures[y])
  BY OneMoreSettled
<1>2. /\ container' = container /\ phase' = phase /\ signatures' = signatures /\ data_files' = data_files
      /\ next' = next + 1 /\ tried' = 0 /\ last_failure' = NoFailure /\ phase = "verify" /\ next <= Len(signatures)
  BY DEF Current, NextSignature
<1>3. /\ container \in Containers /\ next \in Nat \ {0}
      /\ signatures \in Seq(Entries("signature")) /\ data_files \in Seq(Entries("data"))
      /\ Sorted(signatures, "signature", Size + 1) /\ Sorted(data_files, "data", Size + 1)
      /\ signatures # <<>> /\ data_files # <<>>
      /\ \A e \in 1..Size : ~Unusable(e)
  BY <1>2 DEF IInv, Sorting
<1>4. Len(signatures) \in Nat /\ Len(data_files) \in Nat
  BY <1>3, LenProperties
<1>5. next + 1 \in Nat \ {0} /\ next + 1 <= Len(signatures) + 1 /\ 0 \in 0..Len(data_files)
  BY <1>2, <1>3, <1>4
<1>6. Sorting'
  BY <1>2, <1>3, <1>5, SameWords DEF Sorting
<1>7. Reporting'
  BY <1>1, <1>2, SameWords DEF Reporting
<1>8. Unlucky(signatures[next + 1], 0, NoFailure)
  BY DEF Unlucky
<1>9. Unlucky(signatures[next], tried, last_failure)'
  BY <1>2, <1>8, SameWords DEF NoFailure
<1> QED
  BY <1>2, <1>3, <1>5, <1>6, <1>7, <1>9, SameWords DEF IInv

\* A pair is tried.
LEMMA TryPairIInv == IInv /\ TryPair => IInv'
<1> SUFFICES ASSUME IInv, TryPair PROVE IInv'
  OBVIOUS
<1> DEFINE v == Verdict(sig_name, data_name)
<1>1. Current /\ tried < Len(data_files) /\ UNCHANGED <<container, phase, signatures, data_files>>
  BY DEF TryPair, Current
<1>2. CASE Passing(v) # {}
  <2>1. reports' = reports \o PassingReports(v) /\ NextSignature
    BY <1>2 DEF TryPair
  <2> HIDE DEF v
  <2>2. /\ reports' \in Seq(Range(reports'))
        /\ DOMAIN reports \subseteq DOMAIN reports' /\ \A n \in DOMAIN reports : reports'[n] = reports[n]
        /\ \A n \in DOMAIN reports' \ DOMAIN reports : reports'[n].signature = signatures[next]
        /\ Settled(reports', signatures[next])
    BY <1>1, <1>2, <2>1, MatchSettles DEF v
  <2> QED
    BY <1>1, <2>1, <2>2, NextSignatureIInv
<1>3. CASE Passing(v) = {}
  <2>1. /\ tried' = tried + 1 /\ last_failure' = FailureOf(v, last_failure) /\ next' = next /\ reports' = reports
        /\ container' = container /\ phase' = phase /\ signatures' = signatures /\ data_files' = data_files
    BY <1>1, <1>3 DEF TryPair
  <2>2. /\ container \in Containers /\ next \in Nat \ {0} /\ tried \in Nat /\ phase = "verify"
        /\ signatures \in Seq(Entries("signature")) /\ data_files \in Seq(Entries("data"))
        /\ Unlucky(signatures[next], tried, last_failure) /\ Reporting
    BY <1>1 DEF IInv, Current
  <2>3. tried + 1 \in 1..Len(data_files) /\ tried + 1 \in 0..Len(data_files)
    BY <1>1, <2>2, Fresh
  <2>4. sig_name \in Entries("signature") /\ data_name \in Entries("data")
    BY <1>1, <2>3, Fresh DEF sig_name, data_name
  <2>5. v \in Seq(Range(v))
    BY <2>2, <2>4, VerdictShape
  <2>6. Unlucky(signatures[next], tried + 1, FailureOf(v, last_failure))
    <3> HIDE DEF v
    <3> DEFINE f == FailureOf(v, last_failure)
    <3>1. f = IF v = <<"Err">> THEN Report(signatures[next], data_files[tried + 1], "TotalFailedSub", "ASIC_CADES_DISPATCH_FAILED")
              ELSE IF \E n \in DOMAIN v : v[n] # "TotalPassed"
                THEN Report(signatures[next], data_files[tried + 1], "TotalFailedSub", "CADES")
              ELSE last_failure
      BY DEF FailureOf, sig_name, data_name
    <3>2. v = Verdict(signatures[next], data_files[tried + 1])
      BY DEF v, sig_name, data_name
    <3> HIDE DEF f
    <3>3. Unlucky(signatures[next], tried + 1, f)
      BY <1>3, <2>2, <2>5, <3>1, <3>2, UnluckyAgain
    <3> QED
      BY <3>3 DEF f
  <2> HIDE DEF v
  <2>7. Unlucky(signatures[next], tried, last_failure)'
    BY <2>1, <2>6, SameWords
  <2>8. Sorting'
    BY <2>1, <2>2, SameWords DEF IInv, Sorting
  <2>9. Reporting'
    BY <2>1, <2>2, SameWords DEF Reporting
  <2> QED
    BY <2>1, <2>2, <2>3, <2>7, <2>8, <2>9, SameWords DEF IInv
<1> QED
  BY <1>2, <1>3

\* No data file matched.
LEMMA UnmatchedIInv == IInv /\ Unmatched => IInv'
<1> SUFFICES ASSUME IInv, Unmatched PROVE IInv'
  OBVIOUS
<1>1. /\ Current /\ tried = Len(data_files) /\ UNCHANGED <<container, phase, signatures, data_files>>
      /\ NextSignature
      /\ reports' = Append(reports, IF last_failure # NoFailure THEN last_failure
                                    ELSE Report(sig_name, 0, "TotalFailedSub", "ASIC_SIGNATURE_UNMATCHED"))
  BY DEF Unmatched, Current
<1>2. /\ reports' \in Seq(Range(reports'))
      /\ DOMAIN reports \subseteq DOMAIN reports' /\ \A n \in DOMAIN reports : reports'[n] = reports[n]
      /\ \A n \in DOMAIN reports' \ DOMAIN reports : reports'[n].signature = signatures[next]
      /\ Settled(reports', signatures[next])
  BY <1>1, FailureSettles
<1> QED
  BY <1>1, <1>2, NextSignatureIInv

\* The invariant holds after every step.
LEMMA StepIInv == IInv /\ [Next]_vars => IInv'
<1> SUFFICES ASSUME IInv, [Next]_vars PROVE IInv'
  OBVIOUS
<1>1. CASE Return
  <2>1. /\ phase = "verify" /\ next > Len(signatures) /\ phase' = "done"
        /\ UNCHANGED <<container, next, signatures, data_files, tried, last_failure, reports>>
    BY <1>1 DEF Return
  <2>2. Len(signatures) \in Nat
    BY LenProperties DEF IInv
  <2>3. Sorting'
    BY <2>1, <2>2, SameWords DEF IInv, Sorting
  <2>4. Reporting'
    BY <2>1, SameWords DEF IInv, Reporting
  <2> QED
    BY <2>1, <2>3, <2>4, SameWords DEF IInv
<1>2. CASE UNCHANGED vars
  <2>1. UNCHANGED <<container, phase, next, signatures, data_files, tried, last_failure, reports>>
    BY <1>2 DEF vars
  <2>2. Sorting' /\ ((phase \in {"verify", "done"}) => Reporting')
    BY <2>1, SameWords DEF IInv, Sorting, Reporting, NoFailure
  <2> QED
    BY <2>1, <2>2, SameWords DEF IInv
<1> QED
  BY <1>1, <1>2, CollectIInv, CollectEndsIInv, TryPairIInv, UnmatchedIInv DEF Next

----------------------------------------------------------------------------
(* What follows from it.                                                   *)

\* When a result is returned every signature entry is settled.
LEMMA AllSettled ==
  ASSUME IInv, phase = "done"
  PROVE  \A s \in Entries("signature") : Settled(reports, s)
<1>1. /\ container \in Containers /\ signatures \in Seq(Entries("signature"))
      /\ Sorted(signatures, "signature", Size + 1) /\ Reporting /\ next = Len(signatures) + 1
  BY DEF IInv, Sorting
<1>2. /\ DOMAIN container.entries = 1..Size /\ Size \in Nat
      /\ Len(signatures) \in Nat /\ DOMAIN signatures = 1..Len(signatures)
  BY <1>1, ContainerAssumption, LenProperties DEF Size
<1>3. \A s \in Entries("signature") : \E y \in 1..(next - 1) : signatures[y] = s
  BY <1>1, <1>2 DEF Sorted, Entries
<1> QED
  BY <1>1, <1>3 DEF Reporting

\* The invariant holds in every reachable state.
THEOREM Invariance == Spec => []IInv
<1> QED
  BY InitIInv, StepIInv, PTL DEF Spec

\* The types; and no result comes from a container with an unreadable entry.
THEOREM TypeCorrect == Spec => []TypeOK
<1>1. IInv => TypeOK
  <2> SUFFICES ASSUME IInv PROVE TypeOK
    OBVIOUS
  <2>1. DOMAIN container.entries = 1..Size
    BY ContainerAssumption, LenProperties DEF IInv, Size
  <2> QED
    BY <2>1 DEF IInv, Sorting, TypeOK
<1> QED
  BY <1>1, Invariance, PTL

\* asic verify.rs:46-90: passing reports or a single failure, for every one.
THEOREM EveryOneReported == Spec => []EverySignatureIsReported
<1>1. IInv => EverySignatureIsReported
  BY AllSettled DEF EverySignatureIsReported, Of, Settled, ReportsOf
<1> QED
  BY <1>1, Invariance, PTL

\* asic verify.rs:49-79: the first data file that a signer passes for.
THEOREM FirstMatch == Spec => []BoundToFirstMatch
<1>1. IInv => BoundToFirstMatch
  <2> SUFFICES ASSUME IInv, phase = "done", NEW s \in Entries("signature")
               PROVE  IF Matches(s) = {} THEN \A n \in Of(s) : reports[n].status = "TotalFailedSub"
                      ELSE /\ \A n \in Of(s) :
                                /\ reports[n].status = "TotalPassed"
                                /\ reports[n].data \in Matches(s)
                                /\ \A d \in Matches(s) : reports[n].data <= d
                           /\ \A n \in Of(s) : Cardinality(Of(s)) = PassingSigners(s, reports[n].data)
    BY DEF BoundToFirstMatch, Matches
  <2>1. Settled(reports, s) /\ Of(s) = ReportsOf(reports, s)
    BY AllSettled DEF Of, ReportsOf
  <2> QED
    BY <2>1 DEF Settled
<1> QED
  BY <1>1, Invariance, PTL

\* asic verify.rs:47-88: the failure of the last data file that gave one, and
\* never that of another signature.
THEOREM OwnFailures == Spec => []FailureIsItsOwn
<1>1. IInv => FailureIsItsOwn
  <2> SUFFICES ASSUME IInv, NEW n \in DOMAIN reports PROVE OwnFailure(reports[n])
    BY DEF FailureIsItsOwn, OwnFailure
  <2>1. phase \in {"verify", "done"} => Reporting
    BY DEF IInv
  <2>2. CASE phase \in {"verify", "done"}
    <3>1. PICK y \in 1..(next - 1) : reports[n].signature = signatures[y]
      BY <2>1, <2>2 DEF Reporting
    <3>2. Settled(reports, signatures[y]) /\ n \in ReportsOf(reports, signatures[y])
      BY <2>1, <2>2, <3>1 DEF Reporting, ReportsOf
    <3> QED
      BY <3>2 DEF Settled
  <2>3. CASE phase \in {"collect", "ZipError"}
    <3>1. reports = <<>>
      BY <2>3 DEF IInv, Sorting
    <3> QED
      BY <3>1, EmptySeq, LenProperties
  <2> QED
    BY <2>2, <2>3 DEF IInv
<1> QED
  BY <1>1, Invariance, PTL
=============================================================================
