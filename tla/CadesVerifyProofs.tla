-------------------------- MODULE CadesVerifyProofs --------------------------
(***************************************************************************)
(* Proofs about the CAdES pipeline, for every CMS, every choice of time,   *)
(* every trusted list and every course of the clock.  The first part is    *)
(* about times and verdicts; the second, at EInv, extends its invariant by *)
(* the evidence behind levels and revocation records.                      *)
(***************************************************************************)
EXTENDS CadesVerify, SequenceLemmas, FiniteSetTheorems

----------------------------------------------------------------------------
(* Latest times.                                                           *)

\* The genTimes of the accepted tokens among the first n.
AcceptedTimes(q, n) == {q[j].genTime : j \in {m \in 1..n : verify_time_stamp_token(q[m])}}
Usable(token) == verify_time_stamp_token(token) \/ verify_ats_best_effort(token)
UsableTimes(q, n) == {q[j].genTime : j \in {m \in 1..n : Usable(q[m])}}

\* One more token adds its time or nothing.
LEMMA OneMoreToken ==
  ASSUME NEW q \in Seq(Token(Int)), NEW n \in Nat, n < Len(q)
  PROVE  /\ AcceptedTimes(q, n) \subseteq Int /\ UsableTimes(q, n) \subseteq Int
         /\ q[n + 1].genTime \in Int
         /\ AcceptedTimes(q, n + 1) =
              AcceptedTimes(q, n) \cup (IF verify_time_stamp_token(q[n + 1]) THEN {q[n + 1].genTime} ELSE {})
         /\ UsableTimes(q, n + 1) =
              UsableTimes(q, n) \cup (IF Usable(q[n + 1]) THEN {q[n + 1].genTime} ELSE {})
<1>1. ASSUME NEW m \in 1..Len(q) PROVE q[m].genTime \in Int
  <2>1. q[m] \in Token(Int)
    BY ElementOfSeq
  <2> QED
    BY <2>1 DEF Token
<1>2. 1..(n + 1) = (1..n) \cup {n + 1} /\ 1..(n + 1) \subseteq 1..Len(q) /\ Len(q) \in Nat
  OBVIOUS
<1> QED
  BY <1>1, <1>2 DEF AcceptedTimes, UsableTimes

\* Option::map_or(t, |cur| cur.max(t)) keeps the latest.
LEMMA LatestStep ==
  ASSUME NEW times, times \subseteq Int, NEW m \in Int \cup {NoTime}, IsLatest(m, times), NEW t \in Int
  PROVE  IsLatest(Latest(m, t), times \cup {t}) /\ Latest(m, t) \in Int
BY ClockAssumption DEF IsLatest, Latest

\* Among the first tokens of a sequence there is a latest accepted one, if one
\* is accepted at all.
LEMMA LatestExists ==
  ASSUME NEW q \in Seq(Token(Int)), NEW n \in 0..Len(q)
  PROVE  \E m \in Int \cup {NoTime} : IsLatest(m, AcceptedTimes(q, n))
<1> DEFINE Less == OpToRel(<, Nat)
           HasLatest(l) == \E m \in Int \cup {NoTime} : IsLatest(m, AcceptedTimes(q, l))
           Bad == {l \in 0..Len(q) : ~HasLatest(l)}
<1>1. Len(q) \in Nat
  BY LenProperties
<1>2. HasLatest(0)
  <2>1. AcceptedTimes(q, 0) = {}
    BY DEF AcceptedTimes
  <2> QED
    BY <2>1 DEF IsLatest
<1>3. ASSUME NEW l \in Nat, l < Len(q), HasLatest(l) PROVE HasLatest(l + 1)
  <2>1. PICK m \in Int \cup {NoTime} : IsLatest(m, AcceptedTimes(q, l))
    BY <1>3
  <2>2. CASE verify_time_stamp_token(q[l + 1])
    <3>1. AcceptedTimes(q, l + 1) = AcceptedTimes(q, l) \cup {q[l + 1].genTime}
      BY <1>3, <2>2, OneMoreToken
    <3>2. IsLatest(Latest(m, q[l + 1].genTime), AcceptedTimes(q, l + 1)) /\ Latest(m, q[l + 1].genTime) \in Int
      BY <1>3, <2>1, <3>1, OneMoreToken, LatestStep
    <3> QED
      BY <3>2
  <2>3. CASE ~verify_time_stamp_token(q[l + 1])
    <3>1. AcceptedTimes(q, l + 1) = AcceptedTimes(q, l) \cup {}
      <4>1. AcceptedTimes(q, l + 1) =
              AcceptedTimes(q, l) \cup (IF verify_time_stamp_token(q[l + 1]) THEN {q[l + 1].genTime} ELSE {})
        BY <1>3, OneMoreToken
      <4> QED
        BY <2>3, <4>1
    <3>2. AcceptedTimes(q, l + 1) = AcceptedTimes(q, l)
      BY <3>1
    <3> QED
      BY <2>1, <3>2
  <2> QED
    BY <2>2, <2>3
<1>4. Bad = {}
  <2> SUFFICES ASSUME Bad # {} PROVE FALSE
    OBVIOUS
  <2>1. \E x \in Bad : \A y \in Bad : ~(<<y, x>> \in Less)
    <3>1. IsWellFoundedOn(Less, Nat)
      BY NatLessThanWellFounded, Zenon
    <3>2. Bad \subseteq Nat
      BY <1>1
    <3> HIDE DEF Less, Bad
    <3> QED
      BY <3>1, <3>2, WFMin, Zenon
  <2>2. PICK x \in Bad : \A y \in Bad : ~(<<y, x>> \in Less)
    BY <2>1
  <2>3. x \in Nat /\ x # 0 /\ x <= Len(q) /\ ~HasLatest(x)
    <3> HIDE DEF HasLatest
    <3> QED
      BY <1>1, <1>2
  <2>4. x - 1 \notin Bad
    <3>1. ASSUME x - 1 \in Bad PROVE FALSE
      <4>1. ~(<<x - 1, x>> \in Less)
        BY <2>2, <3>1
      <4>2. x - 1 \in Nat /\ x - 1 < x
        BY <2>3
      <4> QED
        BY <4>1, <4>2, <2>3 DEF OpToRel
    <3> QED
      BY <3>1
  <2>5. HasLatest(x - 1)
    <3>1. x - 1 \in 0..Len(q)
      BY <1>1, <2>3
    <3> HIDE DEF HasLatest
    <3> QED
      BY <2>4, <3>1
  <2>6. HasLatest((x - 1) + 1)
    <3>1. x - 1 \in Nat /\ x - 1 < Len(q)
      BY <1>1, <2>3
    <3> HIDE DEF HasLatest
    <3> QED
      BY <1>3, <2>5, <3>1
  <2>7. (x - 1) + 1 = x
    BY <2>3
  <2> HIDE DEF HasLatest
  <2> QED
    BY <2>3, <2>6, <2>7
<1> HIDE DEF HasLatest
<1>5. HasLatest(n)
  BY <1>4
<1> QED
  BY <1>5 DEF HasLatest

----------------------------------------------------------------------------
(* The inductive invariant.                                                *)

\* The times at which signer s may be judged are those of its own tokens.
AllAccepted(s) == AcceptedTimes(s.tsts, Len(s.tsts))

\* The locals and the reports, with their indexes.
Shape ==
  /\ signers \in Envelopes /\ mode \in Modes /\ lists \in TrustLists
  /\ now \in 0..MaxNow
  /\ pc \in {"signer", "tst", "chain", "policy", "revocation", "ats", "done"}
  /\ k \in 1..(Len(signers) + 1) /\ i \in Nat \ {0}
  /\ pc \notin {"signer", "done"} => k <= Len(signers) /\ signer.faults = {}
  /\ pc = "tst" => i <= Len(signer.tsts) + 1
  /\ pc = "revocation" => i <= Len(signer.chain) /\ has_lt_material
  /\ pc = "ats" => i <= Len(signer.ats) + 1
  /\ reports \in Seq(Range(reports)) /\ Len(reports) = k - 1
  /\ revocation \in Seq(Range(revocation))
  /\ best \in Int \cup {NoTime}

\* What the times hold while the current signer is walked.
Times ==
  /\ pc = "tst" => IsLatest(best, AcceptedTimes(signer.tsts, i - 1))
  /\ pc \in {"chain", "policy", "revocation"} => IsLatest(best, AllAccepted(signer))
  /\ pc = "ats" => IsLatest(best, AllAccepted(signer) \cup UsableTimes(signer.ats, i - 1))
  /\ pc \in {"chain", "policy", "revocation", "ats"} => reference \in Admissible(mode, signer)

RevokedBelow(s, n, t) == \E j \in 1..(n - 1) : AnswerFor(s, j, t).status = "Revoked"

\* What has been checked of the current signer.
Checked ==
  /\ pc \in {"tst", "chain", "policy"} => revocation = <<>>
  /\ pc \in {"policy", "revocation", "ats"} => signer.from <= reference /\ reference <= signer.to
  /\ pc \in {"revocation", "ats"} => reference < signer.cutoff
  /\ pc = "revocation" => ("Revoked" \in Recorded <=> RevokedBelow(signer, i, reference))
  /\ pc = "ats" => (has_lt_material => ~RevokedBelow(signer, Len(signer.chain), reference))

SoundReport(s, r) ==
  /\ r.status \in Statuses
  /\ r.status = "TotalPassed" =>
       /\ r.reference \in Admissible(mode, s)
       /\ Merits(s, r.reference)
       /\ r.qualification = apply_qualification(s, r.reference)
       /\ IsLatest(r.best, AllAccepted(s) \cup UsableTimes(s.ats, Len(s.ats)))

ReportsSound == \A n \in DOMAIN reports : SoundReport(signers[n], reports[n])

IInv == Shape /\ Times /\ Checked /\ ReportsSound

----------------------------------------------------------------------------
(* Lemmas about one signer.                                                *)

\* A signer of the call has the fields the assumption gives it.
LEMMA SignerShape ==
  ASSUME signers \in Envelopes, NEW n \in 1..Len(signers)
  PROVE  /\ signers[n].tsts \in Seq(Token(Int)) /\ signers[n].ats \in Seq(Token(Int))
         /\ Len(signers[n].tsts) \in Nat /\ Len(signers[n].ats) \in Nat
         /\ Len(signers[n].chain) \in Nat \ {0}
         /\ Len(signers) \in Nat /\ DOMAIN signers = 1..Len(signers)
<1>1. signers \in Seq(Range(signers))
  BY EnvelopeAssumption
<1>2. DOMAIN signers = 1..Len(signers) /\ Len(signers) \in Nat
  BY <1>1, LenProperties
<1>3. signers[n] \in Range(signers)
  BY <1>1, ElementOfSeq
<1>4. /\ signers[n].tsts \in Seq(Token(Int)) /\ signers[n].ats \in Seq(Token(Int))
      /\ signers[n].chain \in Seq(Range(signers[n].chain)) /\ signers[n].chain # <<>>
  BY <1>3, EnvelopeAssumption
<1>5. Len(signers[n].tsts) \in Nat /\ Len(signers[n].ats) \in Nat /\ Len(signers[n].chain) \in Nat
  BY <1>4, LenProperties
<1>6. Len(signers[n].chain) # 0
  BY <1>4, EmptySeq
<1> QED
  BY <1>2, <1>4, <1>5, <1>6

\* The times of a signer's accepted tokens are times.
LEMMA TimesAreInt ==
  ASSUME NEW s, s.tsts \in Seq(Token(Int))
  PROVE  AllAccepted(s) \subseteq Int
<1>1. ASSUME NEW m \in 1..Len(s.tsts) PROVE s.tsts[m].genTime \in Int
  <2>1. s.tsts[m] \in Token(Int)
    BY ElementOfSeq
  <2> QED
    BY <2>1 DEF Token
<1> QED
  BY <1>1 DEF AllAccepted, AcceptedTimes

\* The tokens Admissible looks at are the accepted ones of the loop.
LEMMA SameTimes ==
  ASSUME NEW s, s.tsts \in Seq(Token(Int))
  PROVE  {token.genTime : token \in {x \in Range(s.tsts) : verify_time_stamp_token(x)}} = AllAccepted(s)
<1>1. DOMAIN s.tsts = 1..Len(s.tsts)
  BY LenProperties
<1> QED
  BY <1>1 DEF AllAccepted, AcceptedTimes, Range

\* ValidationTime::resolve gives one of the times the choice admits.
LEMMA ResolveAdmissible ==
  ASSUME NEW s, s.tsts \in Seq(Token(Int)), mode \in Modes, now \in 0..MaxNow,
         NEW b, IsLatest(b, AllAccepted(s))
  PROVE  resolve(b) \in Admissible(mode, s)
<1> DEFINE times == AllAccepted(s)
<1>1. Admissible(mode, s) =
        IF mode[1] = "At" THEN {mode[2]}
        ELSE IF mode[1] = "Now" \/ times = {} THEN 0..MaxNow
        ELSE {t \in times : IsLatest(t, times)}
  BY SameTimes, Zenon DEF Admissible
<1>2. mode[1] \in {"Now", "At", "BestSignatureTime"}
  BY ModeAssumption
<1>3. NoTime \notin times
  BY ClockAssumption, TimesAreInt
<1> HIDE DEF times
<1>4. IsLatest(b, times)
  BY DEF times
<1>5. CASE mode[1] = "At"
  <2>1. resolve(b) = mode[2]
    BY <1>5 DEF resolve
  <2>2. mode[2] \in Admissible(mode, s)
    BY <1>1, <1>5
  <2> QED
    BY <2>1, <2>2
<1>6. CASE mode[1] = "Now"
  BY <1>1, <1>6 DEF resolve
<1>7. CASE mode[1] = "BestSignatureTime"
  <2>1. CASE times = {}
    BY <1>1, <1>4, <1>7, <2>1 DEF resolve, IsLatest
  <2>2. CASE times # {}
    <3>1. b \in times /\ b # NoTime
      BY <1>3, <1>4, <2>2 DEF IsLatest
    <3>2. resolve(b) = b
      BY <1>7, <3>1 DEF resolve
    <3>3. Admissible(mode, s) = {t \in times : IsLatest(t, times)}
      BY <1>1, <1>7, <2>2
    <3> QED
      BY <1>4, <3>1, <3>2, <3>3
  <2> QED
    BY <2>1, <2>2
<1> QED
  BY <1>2, <1>5, <1>6, <1>7

\* There is always a time a signer may be judged at.
LEMMA AdmissibleExists ==
  ASSUME NEW s, s.tsts \in Seq(Token(Int)), mode \in Modes, now \in 0..MaxNow
  PROVE  \E t : t \in Admissible(mode, s)
<1>1. Len(s.tsts) \in 0..Len(s.tsts)
  BY LenProperties
<1>2. PICK b : IsLatest(b, AllAccepted(s))
  BY <1>1, LatestExists DEF AllAccepted
<1>3. resolve(b) \in Admissible(mode, s)
  BY <1>2, ResolveAdmissible
<1> QED
  BY <1>3

----------------------------------------------------------------------------
(* The invariant holds at first and is kept.                               *)

LEMMA InitIInv == Init => IInv
<1> SUFFICES ASSUME Init PROVE IInv
  OBVIOUS
<1>1. Len(signers) \in Nat
  <2>1. signers \in Seq(Range(signers))
    BY EnvelopeAssumption DEF Init
  <2> QED
    BY <2>1, LenProperties
<1>2. <<>> \in Seq(Range(<<>>)) /\ Len(<<>>) = 0 /\ DOMAIN <<>> = {}
  BY EmptySeq
<1>3. Shape
  BY <1>1, <1>2, ClockAssumption DEF Init, Shape
<1>4. Times /\ Checked
  BY DEF Init, Times, Checked
<1>5. ReportsSound
  BY <1>2 DEF Init, ReportsSound
<1> QED
  BY <1>3, <1>4, <1>5 DEF IInv

\* A report that says what it may is pushed, and the next signer begins.
LEMMA PushKeeps ==
  ASSUME IInv, k <= Len(signers), NEW r, SoundReport(signer, r), Push(r)
  PROVE  IInv'
<1>1. Len(signers) \in Nat /\ k \in Nat
  <2>1. signers \in Seq(Range(signers))
    BY EnvelopeAssumption DEF IInv, Shape
  <2> QED
    BY <2>1, LenProperties DEF IInv, Shape
<1>2. /\ reports' \in Seq(Range(reports')) /\ Len(reports') = k
      /\ DOMAIN reports' = 1..k
      /\ \A n \in 1..(k - 1) : reports'[n] = reports[n]
      /\ reports'[k] = r
  <2>1. reports \in Seq(Range(reports)) /\ Len(reports) = k - 1
    BY DEF IInv, Shape
  <2>2. DOMAIN reports = 1..(k - 1)
    BY <2>1, LenProperties
  <2>3. reports' = Append(reports, r)
    BY DEF Push
  <2> QED
    BY <1>1, <2>1, <2>2, <2>3, Appended
<1>3. UNCHANGED <<signers, mode, lists, now, revocation, best>> /\ k' = k + 1 /\ i' = 1 /\ pc' = "signer"
  BY DEF Push, call, locals
<1>4. Shape'
  BY <1>1, <1>2, <1>3 DEF IInv, Shape
<1>5. Times' /\ Checked'
  BY <1>3 DEF Times, Checked
<1>6. ReportsSound'
  <2> SUFFICES ASSUME NEW n \in 1..k PROVE SoundReport(signers[n], reports[n])'
    BY <1>2, <1>3 DEF ReportsSound
  <2>1. CASE n = k
    <3>1. reports'[n] = r /\ signers'[n] = signer
      BY <1>2, <1>3, <2>1 DEF signer
    <3> QED
      BY <1>3, <3>1 DEF SoundReport, apply_qualification
  <2>2. CASE n # k
    <3>1. reports'[n] = reports[n] /\ n \in DOMAIN reports
      <4>1. reports \in Seq(Range(reports)) /\ Len(reports) = k - 1
        BY DEF IInv, Shape
      <4>2. DOMAIN reports = 1..(k - 1)
        BY <4>1, LenProperties
      <4> QED
        BY <1>1, <1>2, <2>2, <4>2
    <3>2. SoundReport(signers[n], reports[n])
      BY <3>1 DEF IInv, ReportsSound
    <3> QED
      BY <1>3, <3>1, <3>2 DEF SoundReport, apply_qualification
  <2> QED
    BY <2>1, <2>2
<1> QED
  BY <1>4, <1>5, <1>6 DEF IInv

\* What the steps that go on with the same signer need of the rest.
LEMMA SameSigner ==
  ASSUME IInv, UNCHANGED <<call, k, reports>>
  PROVE  /\ ReportsSound'
         /\ signer' = signer /\ has_lt_material' = has_lt_material
         /\ \A t : (reference' = t => signer' = signer)
         /\ reports' \in Seq(Range(reports')) /\ Len(reports') = k' - 1
         /\ k' \in 1..(Len(signers') + 1)
         /\ signers' \in Envelopes /\ mode' \in Modes /\ lists' \in TrustLists
<1>1. UNCHANGED <<signers, mode, lists, k, reports>>
  BY DEF call
<1>2. ReportsSound'
  <2> SUFFICES ASSUME NEW n \in DOMAIN reports PROVE SoundReport(signers[n], reports[n])'
    BY <1>1 DEF ReportsSound
  <2> QED
    BY <1>1 DEF IInv, ReportsSound, SoundReport, apply_qualification
<1> QED
  BY <1>1, <1>2 DEF IInv, Shape, signer, has_lt_material

LEMMA StepIInv == IInv /\ [Next]_vars => IInv'
<1> SUFFICES ASSUME IInv, [Next]_vars PROVE IInv'
  OBVIOUS
<1>1. /\ pc \notin {"signer", "done"} => k <= Len(signers) /\ signer.faults = {}
      /\ k \in Nat \ {0} /\ i \in Nat \ {0} /\ now \in 0..MaxNow /\ mode \in Modes
      /\ best \in Int \cup {NoTime} /\ signers \in Envelopes
      /\ revocation \in Seq(Range(revocation))
  BY DEF IInv, Shape
<1>2. ASSUME k <= Len(signers)
      PROVE  /\ signer.tsts \in Seq(Token(Int)) /\ signer.ats \in Seq(Token(Int))
             /\ Len(signer.tsts) \in Nat /\ Len(signer.ats) \in Nat
             /\ Len(signer.chain) \in Nat \ {0}
             /\ k \in 1..Len(signers)
  <2>1. Len(signers) \in Nat
    <3>1. signers \in Seq(Range(signers))
      BY EnvelopeAssumption, <1>1
    <3> QED
      BY <3>1, LenProperties
  <2>2. k \in 1..Len(signers)
    BY <1>1, <1>2, <2>1
  <2> QED
    BY <1>1, <2>2, SignerShape DEF signer
<1>3. CASE RunCore
  <2>1. CASE signer.faults # {}
    <3>1. Push(Failed) /\ k <= Len(signers)
      BY <1>3, <2>1 DEF RunCore
    <3>2. SoundReport(signer, Failed)
      BY DEF SoundReport, Failed, Statuses
    <3> QED
      BY <3>1, <3>2, PushKeeps
  <2>2. CASE signer.faults = {}
    <3>1. /\ k <= Len(signers) /\ pc' = "tst" /\ i' = 1 /\ best' = NoTime /\ revocation' = <<>>
          /\ UNCHANGED <<call, now, k, reports>>
      BY <1>3, <2>2 DEF RunCore, Go
    <3>2. IsLatest(NoTime, AcceptedTimes(signer.tsts, 0))
      BY DEF IsLatest, AcceptedTimes
    <3>3. <<>> \in Seq(Range(<<>>))
      BY EmptySeq
    <3>4. Shape'
      BY <1>1, <1>2, <2>2, <3>1, <3>3, SameSigner DEF Shape, call
    <3>5. Times' /\ Checked'
      BY <3>1, <3>2, SameSigner DEF Times, Checked, call
    <3> QED
      BY <3>1, <3>4, <3>5, SameSigner DEF IInv
  <2> QED
    BY <2>1, <2>2
<1>4. CASE VerifySignatureTst
  <2> DEFINE full == verify_time_stamp_token(signer.tsts[i])
             before == AcceptedTimes(signer.tsts, i - 1)
             time == signer.tsts[i].genTime
  <2>1. /\ pc = "tst" /\ i <= Len(signer.tsts) /\ pc' = "tst" /\ i' = i + 1
        /\ UNCHANGED <<call, now, k, reports, reference, revocation>>
        /\ best' = IF full THEN Latest(best, time) ELSE best
    BY <1>4 DEF VerifySignatureTst, Go, Accept
  <2>2. k <= Len(signers) /\ signer.faults = {}
    BY <1>1, <2>1
  <2>3. /\ before \subseteq Int /\ time \in Int
        /\ AcceptedTimes(signer.tsts, i) = before \cup (IF full THEN {time} ELSE {})
    <3>1. i - 1 \in Nat /\ i - 1 < Len(signer.tsts) /\ (i - 1) + 1 = i
      BY <1>1, <1>2, <2>1, <2>2
    <3> QED
      BY <1>2, <2>2, <3>1, OneMoreToken
  <2>4. IsLatest(best, before)
    BY <2>1 DEF IInv, Times
  <2>5. IsLatest(best', AcceptedTimes(signer.tsts, i)) /\ best' \in Int \cup {NoTime}
    <3>1. CASE full
      <4>1. AcceptedTimes(signer.tsts, i) = before \cup {time} /\ best' = Latest(best, time)
        BY <2>1, <2>3, <3>1
      <4> HIDE DEF before, time
      <4>2. IsLatest(Latest(best, time), before \cup {time}) /\ Latest(best, time) \in Int
        BY <1>1, <2>3, <2>4, LatestStep
      <4> QED
        BY <4>1, <4>2
    <3>2. CASE ~full
      <4>1. AcceptedTimes(signer.tsts, i) = before /\ best' = best
        BY <2>1, <2>3, <3>2
      <4> QED
        BY <1>1, <2>4, <4>1
    <3> QED
      BY <3>1, <3>2
  <2>6. Shape'
    <3>1. /\ k' <= Len(signers') /\ signer'.faults = {} /\ i' <= Len(signer'.tsts) + 1
          /\ i' \in Nat \ {0} /\ now' \in 0..MaxNow /\ revocation' \in Seq(Range(revocation'))
          /\ pc' = "tst" /\ best' \in Int \cup {NoTime}
      BY <1>1, <1>2, <2>1, <2>2, <2>5, SameSigner DEF call
    <3>2. UNCHANGED <<call, k, reports>>
      BY <2>1
    <3> QED
      BY <3>1, <3>2, SameSigner DEF Shape
  <2>7. Times' /\ Checked'
    <3>1. i' - 1 = i /\ signer' = signer /\ revocation' = <<>>
      BY <1>1, <2>1, SameSigner DEF IInv, Checked
    <3> QED
      BY <2>1, <2>5, <3>1 DEF Times, Checked
  <2> QED
    BY <2>1, <2>6, <2>7, SameSigner DEF IInv
<1>5. CASE ResolveTime
  <2>1. /\ pc = "tst" /\ i > Len(signer.tsts) /\ pc' = "chain" /\ i' = 1 /\ reference' = resolve(best)
        /\ UNCHANGED <<call, now, k, reports, best, revocation>>
    BY <1>5 DEF ResolveTime, Go
  <2>2. k <= Len(signers) /\ signer.faults = {}
    BY <1>1, <2>1
  <2>3. i - 1 = Len(signer.tsts)
    BY <1>1, <1>2, <2>1, <2>2 DEF IInv, Shape
  <2>4. IsLatest(best, AllAccepted(signer))
    BY <2>1, <2>3 DEF IInv, Times, AllAccepted
  <2>5. reference' \in Admissible(mode, signer)
    BY <1>1, <1>2, <2>1, <2>2, <2>4, ResolveAdmissible
  <2>6. Shape'
    <3>1. /\ k' <= Len(signers') /\ signer'.faults = {} /\ i' \in Nat \ {0} /\ now' \in 0..MaxNow
          /\ revocation' \in Seq(Range(revocation')) /\ pc' = "chain" /\ best' \in Int \cup {NoTime}
      BY <1>1, <2>1, <2>2, SameSigner DEF call
    <3> QED
      BY <2>1, <3>1, SameSigner DEF Shape
  <2>7. Times' /\ Checked'
    <3>1. signer' = signer /\ mode' = mode /\ revocation' = <<>>
      BY <2>1, SameSigner DEF call, IInv, Checked
    <3> QED
      BY <2>1, <2>4, <2>5, <3>1 DEF Times, Checked
  <2> QED
    BY <2>1, <2>6, <2>7, SameSigner DEF IInv
<1>6. CASE BuildChain
  <2>1. pc = "chain" /\ k <= Len(signers) /\ signer.faults = {}
    BY <1>1, <1>6 DEF BuildChain
  <2>2. CASE ~(signer.from <= reference /\ reference <= signer.to)
    <3>1. Push(Failed)
      BY <1>6, <2>2 DEF BuildChain
    <3>2. SoundReport(signer, Failed)
      BY DEF SoundReport, Failed, Statuses
    <3> QED
      BY <2>1, <3>1, <3>2, PushKeeps
  <2>3. CASE signer.from <= reference /\ reference <= signer.to
    <3>1. pc' = "policy" /\ i' = 1 /\ UNCHANGED <<call, now, k, reports, best, reference, revocation>>
      BY <1>6, <2>3 DEF BuildChain, Go, locals
    <3>2. Shape'
      <4>1. /\ k' <= Len(signers') /\ signer'.faults = {} /\ i' \in Nat \ {0} /\ now' \in 0..MaxNow
            /\ revocation' \in Seq(Range(revocation')) /\ pc' = "policy" /\ best' \in Int \cup {NoTime}
        BY <1>1, <2>1, <3>1, SameSigner DEF call
      <4> QED
        BY <3>1, <4>1, SameSigner DEF Shape
    <3>3. Times' /\ Checked'
      <4>1. signer' = signer /\ mode' = mode
        BY <3>1, SameSigner DEF call
      <4> QED
        BY <2>1, <2>3, <3>1, <4>1 DEF IInv, Times, Checked
    <3> QED
      BY <3>1, <3>2, <3>3, SameSigner DEF IInv
  <2> QED
    BY <2>2, <2>3
<1>7. CASE ApplyPolicy
  <2>1. pc = "policy" /\ k <= Len(signers) /\ signer.faults = {}
    BY <1>1, <1>7 DEF ApplyPolicy
  <2>2. CASE ~(reference < signer.cutoff)
    <3> DEFINE report == Collected("TotalFailedSub", Unknown, "NotAdES", {<<"ALG_POLICY_REJECTED", 0>>})
    <3>1. Push(report)
      BY <1>7, <2>2 DEF ApplyPolicy
    <3>2. SoundReport(signer, report)
      BY DEF SoundReport, Collected, Statuses
    <3> QED
      BY <2>1, <3>1, <3>2, PushKeeps
  <2>3. CASE reference < signer.cutoff
    <3>1. /\ pc' = (IF has_lt_material THEN "revocation" ELSE "ats") /\ i' = 1
          /\ UNCHANGED <<call, now, k, reports, best, reference, revocation>>
      BY <1>7, <2>3 DEF ApplyPolicy, Go, locals
    <3>2. signer' = signer /\ mode' = mode /\ has_lt_material' = has_lt_material /\ revocation = <<>>
      BY <2>1, <3>1, SameSigner DEF call, IInv, Checked
    <3>3. Shape'
      <4>1. /\ k' <= Len(signers') /\ signer'.faults = {} /\ i' = 1 /\ now' \in 0..MaxNow
            /\ revocation' \in Seq(Range(revocation')) /\ best' \in Int \cup {NoTime}
            /\ 1 <= Len(signer'.chain) /\ 1 <= Len(signer'.ats) + 1
            /\ pc' \in {"revocation", "ats"} /\ (pc' = "revocation" => has_lt_material')
        BY <1>1, <1>2, <2>1, <3>1, <3>2 DEF call
      <4> QED
        BY <3>1, <4>1, SameSigner DEF Shape
    <3>4. Times'
      <4>1. UsableTimes(signer.ats, 0) = {}
        BY DEF UsableTimes
      <4>2. IsLatest(best, AllAccepted(signer) \cup UsableTimes(signer.ats, 0))
        BY <2>1, <4>1 DEF IInv, Times
      <4> QED
        BY <2>1, <3>1, <3>2, <4>2 DEF IInv, Times
    <3>5. Checked'
      <4>1. ~("Revoked" \in Recorded') /\ ~RevokedBelow(signer, 1, reference)
        BY <3>1, <3>2 DEF Recorded, RevokedBelow
      <4> QED
        BY <2>1, <2>3, <3>1, <3>2, <4>1 DEF IInv, Checked
    <3> QED
      BY <3>1, <3>3, <3>4, <3>5, SameSigner DEF IInv
  <2> QED
    BY <2>2, <2>3
<1>8. CASE CheckRevocation
  <2> DEFINE status == AnswerFor(signer, i, reference).status
  <2>1. /\ pc = "revocation" /\ i < Len(signer.chain) /\ pc' = "revocation" /\ i' = i + 1
        /\ UNCHANGED <<call, now, k, reports, best, reference>>
        /\ IF status = "none" THEN UNCHANGED revocation
           ELSE revocation' = Append(revocation, [position |-> i, status |-> status])
    BY <1>8 DEF CheckRevocation, Go
  <2>2. /\ k <= Len(signers) /\ signer.faults = {} /\ has_lt_material
        /\ signer' = signer /\ mode' = mode /\ has_lt_material' = has_lt_material
    BY <1>1, <2>1, SameSigner DEF IInv, Shape, call
  <2>3. /\ revocation' \in Seq(Range(revocation'))
        /\ Recorded' = Recorded \cup (IF status = "none" THEN {} ELSE {status})
    <3>1. CASE status = "none"
      BY <1>1, <2>1, <3>1 DEF Recorded
    <3>2. CASE status # "none"
      <4> DEFINE entry == [position |-> i, status |-> status]
      <4>1. revocation' = Append(revocation, entry) /\ entry.status = status
        BY <2>1, <3>2
      <4> HIDE DEF entry, status
      <4>2. /\ revocation' \in Seq(Range(revocation'))
            /\ DOMAIN revocation' = DOMAIN revocation \cup {Len(revocation) + 1}
            /\ \A n \in DOMAIN revocation : revocation'[n] = revocation[n]
            /\ revocation'[Len(revocation) + 1] = entry
        BY <1>1, <4>1, Appended
      <4>3. Recorded' = Recorded \cup {status}
        BY <4>1, <4>2 DEF Recorded
      <4> QED
        BY <3>2, <4>2, <4>3
    <3> QED
      BY <3>1, <3>2
  <2>4. "Revoked" \in Recorded' <=> RevokedBelow(signer, i + 1, reference)
    <3>1. "Revoked" \in Recorded <=> RevokedBelow(signer, i, reference)
      BY <2>1 DEF IInv, Checked
    <3>2. RevokedBelow(signer, i + 1, reference) <=> RevokedBelow(signer, i, reference) \/ status = "Revoked"
      <4>1. 1..((i + 1) - 1) = 1..(i - 1) \cup {i}
        BY <1>1
      <4> QED
        BY <4>1 DEF RevokedBelow
    <3> HIDE DEF status
    <3> QED
      BY <2>3, <3>1, <3>2
  <2>5. Shape'
    <3>1. /\ k' <= Len(signers') /\ signer'.faults = {} /\ i' \in Nat \ {0} /\ now' \in 0..MaxNow
          /\ revocation' \in Seq(Range(revocation')) /\ best' \in Int \cup {NoTime}
          /\ pc' = "revocation" /\ i' <= Len(signer'.chain) /\ has_lt_material'
      BY <1>1, <1>2, <2>1, <2>2, <2>3 DEF call
    <3> QED
      BY <2>1, <3>1, SameSigner DEF Shape
  <2>6. Times' /\ Checked'
    BY <2>1, <2>2, <2>4 DEF IInv, Times, Checked
  <2> QED
    BY <2>1, <2>5, <2>6, SameSigner DEF IInv
<1>9. CASE JudgeRevocation
  <2>1. /\ pc = "revocation" /\ k <= Len(signers) /\ signer.faults = {} /\ i = Len(signer.chain)
    BY <1>1, <1>9 DEF JudgeRevocation
  <2>2. CASE "Revoked" \in Recorded
    <3> DEFINE report == Collected("TotalFailedSub", level, "NotAdES", {<<"REVOCATION_REVOKED", 0>>})
    <3>1. Push(report)
      BY <1>9, <2>2 DEF JudgeRevocation
    <3>2. SoundReport(signer, report)
      BY DEF SoundReport, Collected, Statuses
    <3> QED
      BY <2>1, <3>1, <3>2, PushKeeps
  <2>3. CASE "Revoked" \notin Recorded
    <3>1. pc' = "ats" /\ i' = 1 /\ UNCHANGED <<call, now, k, reports, best, reference, revocation>>
      BY <1>9, <2>3 DEF JudgeRevocation, Go
    <3>2. signer' = signer /\ mode' = mode /\ has_lt_material' = has_lt_material
      BY <3>1, SameSigner DEF call
    <3>3. Shape'
      <4>1. /\ k' <= Len(signers') /\ signer'.faults = {} /\ i' = 1 /\ now' \in 0..MaxNow
            /\ revocation' \in Seq(Range(revocation')) /\ best' \in Int \cup {NoTime}
            /\ 1 <= Len(signer'.ats) + 1 /\ pc' = "ats"
        BY <1>1, <1>2, <2>1, <3>1, <3>2 DEF call
      <4> QED
        BY <3>1, <4>1, SameSigner DEF Shape
    <3>4. Times'
      <4>1. UsableTimes(signer.ats, 0) = {}
        BY DEF UsableTimes
      <4>2. IsLatest(best, AllAccepted(signer) \cup UsableTimes(signer.ats, 0))
        BY <2>1, <4>1 DEF IInv, Times
      <4> QED
        BY <2>1, <3>1, <3>2, <4>2 DEF IInv, Times
    <3>5. Checked'
      BY <2>1, <2>3, <3>1, <3>2 DEF IInv, Checked
    <3> QED
      BY <3>1, <3>3, <3>4, <3>5, SameSigner DEF IInv
  <2> QED
    BY <2>2, <2>3
<1>10. CASE VerifyArchiveTst
  <2> DEFINE usable == Usable(signer.ats[i])
             before == AllAccepted(signer) \cup UsableTimes(signer.ats, i - 1)
             time == signer.ats[i].genTime
  <2>1. /\ pc = "ats" /\ i <= Len(signer.ats) /\ pc' = "ats" /\ i' = i + 1
        /\ UNCHANGED <<call, now, k, reports, reference, revocation>>
        /\ best' = IF usable THEN Latest(best, time) ELSE best
    BY <1>10 DEF VerifyArchiveTst, Go, Accept, Usable
  <2>2. /\ k <= Len(signers) /\ signer.faults = {}
        /\ signer' = signer /\ mode' = mode /\ has_lt_material' = has_lt_material
    BY <1>1, <2>1, SameSigner DEF call
  <2>3. /\ before \subseteq Int /\ time \in Int
        /\ AllAccepted(signer) \cup UsableTimes(signer.ats, i) = before \cup (IF usable THEN {time} ELSE {})
    <3>1. i - 1 \in Nat /\ i - 1 < Len(signer.ats) /\ (i - 1) + 1 = i
      BY <1>1, <1>2, <2>1, <2>2
    <3>2. /\ UsableTimes(signer.ats, i - 1) \subseteq Int /\ time \in Int
          /\ UsableTimes(signer.ats, i) = UsableTimes(signer.ats, i - 1) \cup (IF usable THEN {time} ELSE {})
      BY <1>2, <2>2, <3>1, OneMoreToken
    <3>3. AllAccepted(signer) \subseteq Int
      BY <1>2, <2>2, TimesAreInt
    <3> HIDE DEF usable, time
    <3> QED
      BY <3>2, <3>3
  <2>4. IsLatest(best, before)
    BY <2>1 DEF IInv, Times
  <2>5. /\ IsLatest(best', AllAccepted(signer) \cup UsableTimes(signer.ats, i))
        /\ best' \in Int \cup {NoTime}
    <3> HIDE DEF before, time, usable
    <3>1. CASE usable
      <4>1. AllAccepted(signer) \cup UsableTimes(signer.ats, i) = before \cup {time} /\ best' = Latest(best, time)
        BY <2>1, <2>3, <3>1
      <4>2. IsLatest(Latest(best, time), before \cup {time}) /\ Latest(best, time) \in Int
        BY <1>1, <2>3, <2>4, LatestStep
      <4> QED
        BY <4>1, <4>2
    <3>2. CASE ~usable
      <4>1. AllAccepted(signer) \cup UsableTimes(signer.ats, i) = before \cup {} /\ best' = best
        BY <2>1, <2>3, <3>2
      <4>2. AllAccepted(signer) \cup UsableTimes(signer.ats, i) = before
        BY <4>1
      <4> QED
        BY <1>1, <2>4, <4>1, <4>2
    <3> QED
      BY <3>1, <3>2
  <2>6. Shape'
    <3>1. /\ k' <= Len(signers') /\ signer'.faults = {} /\ i' <= Len(signer'.ats) + 1
          /\ i' \in Nat \ {0} /\ now' \in 0..MaxNow /\ revocation' \in Seq(Range(revocation'))
          /\ pc' = "ats" /\ best' \in Int \cup {NoTime}
      BY <1>1, <1>2, <2>1, <2>2, <2>5 DEF call
    <3> QED
      BY <2>1, <3>1, SameSigner DEF Shape
  <2>7. Times' /\ Checked'
    <3>1. i' - 1 = i
      BY <1>1, <2>1
    <3> QED
      BY <2>1, <2>2, <2>5, <3>1 DEF IInv, Times, Checked
  <2> QED
    BY <2>1, <2>6, <2>7, SameSigner DEF IInv
<1>11. CASE Finish
  <2> DEFINE report == Collected("TotalPassed", level, apply_qualification(signer, reference), {})
  <2>1. pc = "ats" /\ i > Len(signer.ats) /\ Push(report) /\ k <= Len(signers) /\ signer.faults = {}
    BY <1>1, <1>11 DEF Finish
  <2> HIDE DEF report
  <2>2. i - 1 = Len(signer.ats)
    <3>1. i <= Len(signer.ats) + 1
      BY <2>1 DEF IInv, Shape
    <3> QED
      BY <1>1, <1>2, <2>1, <3>1
  <2>3. SoundReport(signer, report)
    <3>1. IsLatest(best, AllAccepted(signer) \cup UsableTimes(signer.ats, Len(signer.ats)))
      BY <2>1, <2>2 DEF IInv, Times
    <3>2. reference \in Admissible(mode, signer)
      BY <2>1 DEF IInv, Times
    <3>3. Merits(signer, reference)
      BY <2>1 DEF IInv, Checked, Merits, RevokedBelow, has_lt_material
    <3>4. /\ report.status = "TotalPassed" /\ report.reference = reference /\ report.best = best
          /\ report.qualification = apply_qualification(signer, reference)
      BY DEF Collected, report
    <3> QED
      BY <3>1, <3>2, <3>3, <3>4 DEF SoundReport, Statuses
  <2> QED
    BY <2>1, <2>3, PushKeeps
<1>12. CASE Return
  <2>1. pc' = "done" /\ UNCHANGED <<call, now, k, i, locals, reports>>
    BY <1>12 DEF Return
  <2>2. Shape'
    BY <1>1, <2>1, SameSigner DEF Shape, locals
  <2>3. Times' /\ Checked'
    BY <2>1 DEF Times, Checked
  <2> QED
    BY <2>1, <2>2, <2>3, SameSigner DEF IInv
<1>13. CASE Tick \/ UNCHANGED vars
  <2>1. /\ UNCHANGED <<call, pc, k, i, locals, reports>>
        /\ now' \in 0..MaxNow
    BY <1>1, <1>13, ClockAssumption DEF Tick, vars
  <2>2. signer' = signer /\ has_lt_material' = has_lt_material /\ mode' = mode
    BY <2>1, SameSigner DEF call
  <2>3. Shape'
    BY <2>1, <2>2, SameSigner DEF IInv, Shape, locals, call
  <2>4. Times'
    BY <2>1, <2>2 DEF IInv, Times, locals
  <2>5. Checked'
    BY <2>1, <2>2 DEF IInv, Checked, Recorded, locals
  <2> QED
    BY <2>1, <2>3, <2>4, <2>5, SameSigner DEF IInv
<1> QED
  BY <1>3, <1>4, <1>5, <1>6, <1>7, <1>8, <1>9, <1>10, <1>11, <1>12, <1>13 DEF Next, Step

----------------------------------------------------------------------------
(* What follows for every call.                                            *)

\* The inductive invariant holds throughout.
THEOREM Invariance == Spec => []IInv
<1>1. Init => IInv
  BY InitIInv
<1>2. IInv /\ [Next]_vars => IInv'
  BY StepIInv
<1> QED
  BY <1>1, <1>2, PTL DEF Spec

\* A report tells of the signer at its place.
LEMMA ReportOfSigner ==
  ASSUME IInv, NEW s \in DOMAIN reports
  PROVE  s \in 1..Len(signers) /\ SoundReport(signers[s], reports[s])
<1>1. reports \in Seq(Range(reports)) /\ Len(reports) = k - 1 /\ k \in 1..(Len(signers) + 1)
  BY DEF IInv, Shape
<1>2. DOMAIN reports = 1..(k - 1)
  BY <1>1, LenProperties
<1>3. Len(signers) \in Nat
  <2>1. signers \in Seq(Range(signers))
    BY EnvelopeAssumption DEF IInv, Shape
  <2> QED
    BY <2>1, LenProperties
<1> QED
  BY <1>1, <1>2, <1>3 DEF IInv, ReportsSound

\* verify.rs:160-198,325-326.  Chain, algorithm policy and qualification of a
\* passing report hold at its one reference time, for every CMS and clock.
THEOREM OneReferenceTime == Spec => []ChecksShareReferenceTime
<1>1. IInv => ChecksShareReferenceTime
  <2> SUFFICES ASSUME IInv, NEW s \in DOMAIN reports, Passed(s)
               PROVE  /\ signers[s].from <= reports[s].reference /\ reports[s].reference <= signers[s].to
                      /\ reports[s].reference < signers[s].cutoff
                      /\ reports[s].qualification = apply_qualification(signers[s], reports[s].reference)
    BY DEF ChecksShareReferenceTime
  <2> QED
    BY ReportOfSigner DEF SoundReport, Passed, Merits
<1> QED
  BY <1>1, Invariance, PTL

\* verify.rs:132-160,277-300.  The best signature time of a passing report is
\* the latest time of its own signer's accepted tokens, and with
\* BestSignatureTime the reference time is the latest signature timestamp.
THEOREM BestTimes == Spec => []BestTimeIsLatest
<1>1. IInv => BestTimeIsLatest
  <2> SUFFICES ASSUME IInv, NEW s \in DOMAIN reports, Passed(s)
               PROVE  /\ IsLatest(reports[s].best, TstTimes(s) \cup AtsTimes(s))
                      /\ (mode[1] = "BestSignatureTime" /\ TstTimes(s) # {}) =>
                           IsLatest(reports[s].reference, TstTimes(s))
    BY DEF BestTimeIsLatest
  <2>1. /\ s \in 1..Len(signers)
        /\ IsLatest(reports[s].best, AllAccepted(signers[s]) \cup UsableTimes(signers[s].ats, Len(signers[s].ats)))
        /\ reports[s].reference \in Admissible(mode, signers[s])
    BY ReportOfSigner DEF SoundReport, Passed
  <2>2. signers[s].tsts \in Seq(Token(Int)) /\ signers[s].ats \in Seq(Token(Int))
    BY <2>1, SignerShape DEF IInv, Shape
  <2>3. TstTimes(s) = AllAccepted(signers[s])
    <3>1. DOMAIN signers[s].tsts = 1..Len(signers[s].tsts)
      BY <2>2, LenProperties
    <3> QED
      BY <3>1 DEF TstTimes, FullTsts, AllAccepted, AcceptedTimes
  <2>4. AtsTimes(s) = UsableTimes(signers[s].ats, Len(signers[s].ats))
    <3>1. DOMAIN signers[s].ats = 1..Len(signers[s].ats)
      BY <2>2, LenProperties
    <3> QED
      BY <3>1 DEF AtsTimes, UsableAts, UsableTimes, Usable
  <2>5. ASSUME mode[1] = "BestSignatureTime", TstTimes(s) # {}
        PROVE  IsLatest(reports[s].reference, TstTimes(s))
    <3> DEFINE times == AllAccepted(signers[s])
    <3>1. Admissible(mode, signers[s]) =
            IF mode[1] = "At" THEN {mode[2]}
            ELSE IF mode[1] = "Now" \/ times = {} THEN 0..MaxNow
            ELSE {t \in times : IsLatest(t, times)}
      BY <2>2, SameTimes, Zenon DEF Admissible
    <3> HIDE DEF times
    <3>2. times = TstTimes(s)
      BY <2>3 DEF times
    <3> QED
      BY <2>1, <2>5, <3>1, <3>2
  <2> QED
    BY <2>1, <2>3, <2>4, <2>5
<1> QED
  BY <1>1, Invariance, PTL

----------------------------------------------------------------------------
(* The pipeline implements SignatureVerdicts.                              *)

\* A report pushed is the verdict of one Judge step.
LEMMA PushJudges ==
  ASSUME IInv, k <= Len(signers), NEW r, Push(r), r.status \in Statuses,
         NEW t, t \in Admissible(mode, signer),
         Merits(signer, t) => r.status = "TotalPassed" /\ r.reference = t,
         ~Merits(signer, t) => r.status = "TotalFailedSub"
  PROVE  Verdicts!Judge
<1> DEFINE v == IF r.status = "TotalPassed" THEN r.reference ELSE NoTime
           S == Range(verdicts) \cup {v}
<1>1. /\ reports \in Seq(Range(reports)) /\ Len(reports) = k - 1 /\ k \in Nat \ {0}
      /\ UNCHANGED <<signers, mode>> /\ reports' = Append(reports, r)
  BY DEF IInv, Shape, Push, call
<1>2. /\ DOMAIN reports = 1..(k - 1) /\ DOMAIN reports' = 1..k
      /\ \A n \in 1..(k - 1) : reports'[n] = reports[n]
      /\ reports'[k] = r
  BY <1>1, Appended, LenProperties
<1>3. verdicts \in [1..(k - 1) -> S] /\ verdicts' \in [1..k -> S]
  <2>1. verdicts = [n \in 1..(k - 1) |-> verdicts[n]]
    BY <1>2 DEF verdicts
  <2>2. \A n \in 1..(k - 1) : verdicts[n] \in Range(verdicts)
    BY <1>2 DEF verdicts, Range
  <2>3. verdicts' = [n \in 1..k |-> IF n = k THEN v ELSE verdicts[n]]
    BY <1>1, <1>2 DEF verdicts, Passed
  <2> HIDE DEF v
  <2> QED
    BY <1>1, <2>1, <2>2, <2>3
<1>4. verdicts \in Seq(S) /\ verdicts' \in Seq(S) /\ Len(verdicts) = k - 1 /\ Len(verdicts') = k
  BY <1>1, <1>3
<1>5. verdicts' = Append(verdicts, v)
  <2>1. \A n \in 1..(k - 1) : verdicts'[n] = verdicts[n]
    BY <1>1, <1>2 DEF verdicts, Passed
  <2>2. verdicts'[k] = v
    BY <1>1, <1>2 DEF verdicts, Passed
  <2> HIDE DEF v
  <2>3. v \in S
    OBVIOUS
  <2> HIDE DEF S
  <2>4. /\ Append(verdicts, v) \in Seq(S) /\ Len(Append(verdicts, v)) = k
        /\ \A n \in 1..(k - 1) : Append(verdicts, v)[n] = verdicts[n]
        /\ Append(verdicts, v)[k] = v
    BY <1>1, <1>4, <2>3, AppendProperties
  <2>5. \A n \in 1..k : verdicts'[n] = Append(verdicts, v)[n]
    BY <1>1, <2>1, <2>2, <2>4
  <2> QED
    BY <1>4, <2>4, <2>5, SeqEqual
<1>6. v = Verdicts!Verdict(signer, t)
  BY DEF Verdicts!Verdict, Statuses
<1>7. Len(verdicts) < Len(signers) /\ signers[Len(verdicts) + 1] = signer
  <2>1. Len(signers) \in Nat
    <3>1. signers \in Seq(Range(signers))
      BY EnvelopeAssumption DEF IInv, Shape
    <3> QED
      BY <3>1, LenProperties
  <2> QED
    BY <1>1, <1>4, <2>1 DEF signer
<1> HIDE DEF v
<1> QED
  BY <1>1, <1>5, <1>6, <1>7 DEF Verdicts!Judge

\* verify.rs:75-103,204-241.  For every CMS, clock and evidence the pipeline
\* gives each signer the verdict its own merits earn at one admissible time.
THEOREM VerdictRefinement == Spec => ImplementsVerdicts
<1>1. Init => Verdicts!VerdictInit
  <2> SUFFICES ASSUME Init PROVE verdicts = <<>>
    BY DEF Verdicts!VerdictInit
  <2>1. DOMAIN reports = {}
    BY EmptySeq DEF Init
  <2> QED
    BY <2>1 DEF verdicts
<1>2. IInv /\ [Next]_vars => [Verdicts!Judge]_<<signers, mode, verdicts>>
  <2> SUFFICES ASSUME IInv, [Next]_vars
               PROVE  Verdicts!Judge \/ UNCHANGED <<signers, mode, verdicts>>
    OBVIOUS
  <2>1. pc \notin {"signer", "done"} => k <= Len(signers)
    BY DEF IInv, Shape
  <2>2. ASSUME UNCHANGED <<call, reports>> PROVE UNCHANGED <<signers, mode, verdicts>>
    BY <2>2 DEF call, verdicts, Passed
  <2>3. ASSUME k <= Len(signers) PROVE \E t : t \in Admissible(mode, signer)
    <3>1. signer.tsts \in Seq(Token(Int))
      <4>1. k \in 1..Len(signers)
        <5>1. signers \in Seq(Range(signers))
          BY EnvelopeAssumption DEF IInv, Shape
        <5>2. Len(signers) \in Nat
          BY <5>1, LenProperties
        <5> QED
          BY <2>3, <5>2 DEF IInv, Shape
      <4> QED
        BY <4>1, SignerShape DEF IInv, Shape, signer
    <3> QED
      BY <3>1, AdmissibleExists DEF IInv, Shape
  <2>4. CASE RunCore
    <3>1. CASE signer.faults # {}
      <4>1. PICK t : t \in Admissible(mode, signer)
        BY <2>3, <2>4 DEF RunCore
      <4>2. Push(Failed) /\ k <= Len(signers) /\ Failed.status = "TotalFailedSub"
        BY <2>4, <3>1 DEF RunCore, Failed
      <4>3. ~Merits(signer, t)
        BY <3>1 DEF Merits
      <4> QED
        BY <4>1, <4>2, <4>3, PushJudges DEF Statuses
    <3>2. CASE signer.faults = {}
      BY <2>2, <2>4, <3>2 DEF RunCore, Go
    <3> QED
      BY <3>1, <3>2
  <2>5. CASE BuildChain
    <3>1. CASE signer.from <= reference /\ reference <= signer.to
      BY <2>2, <2>5, <3>1 DEF BuildChain, Go
    <3>2. CASE ~(signer.from <= reference /\ reference <= signer.to)
      <4>1. Push(Failed) /\ k <= Len(signers) /\ Failed.status = "TotalFailedSub"
        BY <2>1, <2>5, <3>2 DEF BuildChain, Failed
      <4>2. reference \in Admissible(mode, signer)
        BY <2>5 DEF IInv, Times, BuildChain
      <4>3. ~Merits(signer, reference)
        BY <3>2 DEF Merits
      <4> QED
        BY <4>1, <4>2, <4>3, PushJudges DEF Statuses
    <3> QED
      BY <3>1, <3>2
  <2>6. CASE ApplyPolicy
    <3>1. CASE reference < signer.cutoff
      BY <2>2, <2>6, <3>1 DEF ApplyPolicy, Go
    <3>2. CASE ~(reference < signer.cutoff)
      <4> DEFINE report == Collected("TotalFailedSub", Unknown, "NotAdES", {<<"ALG_POLICY_REJECTED", 0>>})
      <4>1. Push(report) /\ k <= Len(signers) /\ report.status = "TotalFailedSub"
        BY <2>1, <2>6, <3>2 DEF ApplyPolicy, Collected
      <4>2. reference \in Admissible(mode, signer)
        BY <2>6 DEF IInv, Times, ApplyPolicy
      <4>3. ~Merits(signer, reference)
        BY <3>2 DEF Merits
      <4> HIDE DEF report
      <4> QED
        BY <4>1, <4>2, <4>3, PushJudges DEF Statuses
    <3> QED
      BY <3>1, <3>2
  <2>7. CASE JudgeRevocation
    <3>1. CASE "Revoked" \notin Recorded
      BY <2>2, <2>7, <3>1 DEF JudgeRevocation, Go
    <3>2. CASE "Revoked" \in Recorded
      <4> DEFINE report == Collected("TotalFailedSub", level, "NotAdES", {<<"REVOCATION_REVOKED", 0>>})
      <4>1. Push(report) /\ k <= Len(signers) /\ report.status = "TotalFailedSub"
        BY <2>1, <2>7, <3>2 DEF JudgeRevocation, Collected
      <4>2. reference \in Admissible(mode, signer)
        BY <2>7 DEF IInv, Times, JudgeRevocation
      <4>3. ~Merits(signer, reference)
        BY <2>7, <3>2 DEF IInv, Shape, Checked, RevokedBelow, JudgeRevocation, Merits, has_lt_material
      <4> HIDE DEF report
      <4> QED
        BY <4>1, <4>2, <4>3, PushJudges DEF Statuses
    <3> QED
      BY <3>1, <3>2
  <2>8. CASE Finish
    <3> DEFINE report == Collected("TotalPassed", level, apply_qualification(signer, reference), {})
    <3>1. /\ Push(report) /\ k <= Len(signers) /\ report.status = "TotalPassed"
          /\ report.reference = reference
      BY <2>1, <2>8 DEF Finish, Collected
    <3>2. reference \in Admissible(mode, signer)
      BY <2>8 DEF IInv, Times, Finish
    <3>3. Merits(signer, reference)
      BY <2>8 DEF IInv, Shape, Checked, Merits, RevokedBelow, has_lt_material, Finish
    <3> HIDE DEF report
    <3> QED
      BY <3>1, <3>2, <3>3, PushJudges DEF Statuses
  <2>9. CASE VerifySignatureTst \/ ResolveTime \/ CheckRevocation \/ VerifyArchiveTst
    BY <2>2, <2>9 DEF VerifySignatureTst, ResolveTime, CheckRevocation, VerifyArchiveTst, Go
  <2>10. CASE Return \/ Tick \/ UNCHANGED vars
    BY <2>2, <2>10 DEF Return, Tick, vars
  <2> QED
    BY <2>4, <2>5, <2>6, <2>7, <2>8, <2>9, <2>10 DEF Next, Step
<1> QED
  BY <1>1, <1>2, Invariance, PTL DEF Spec, ImplementsVerdicts, Verdicts!VerdictSpec

----------------------------------------------------------------------------
(* What the levels and the revocation records of a report are worth.       *)

FullAmong(q, n) == \E j \in 1..n : verify_time_stamp_token(q[j])
UsableAmong(q, n) == \E j \in 1..n : Usable(q[j])
NoneBadBelow(s, n, t) == \A j \in 1..(n - 1) : AnswerFor(s, j, t).status \in {"Good", "none"}
NoEvidence(j) == <<"REVOCATION_NO_EVIDENCE", j>>
ImprintWarned(codes) == \E d \in codes : d[1] = "ATS_IMPRINT_NOT_VERIFIED"

\* An archive timestamp among the first n counted, in the way it may.
ArchiveCounted(s, n, t, codes) ==
  /\ UsableAmong(s.ats, n)
  /\ NoneBadBelow(s, Len(s.chain), t) \/ FullAmong(s.ats, n)
  /\ ImprintWarned(codes)

\* The answers recorded and the warnings given for the certificates below n.
Accounted(s, n, t, answers, codes) ==
  /\ answers \in Seq(Range(answers))
  /\ \A x \in DOMAIN answers :
       /\ answers[x].position \in 1..(n - 1)
       /\ answers[x].status = AnswerFor(s, answers[x].position, t).status
       /\ answers[x].status # "none"
       /\ \A y \in DOMAIN answers : answers[x].position = answers[y].position => x = y
  /\ \A j \in Nat : NoEvidence(j) \in codes <=> j \in 1..(n - 1) /\ AnswerFor(s, j, t).status = "none"
  /\ \A j \in 1..(n - 1) :
       AnswerFor(s, j, t).status # "none" => \E x \in DOMAIN answers : answers[x].position = j

Material(s) == s.crls # <<>> \/ s.ocsps # <<>>

EarnedLevel(s, r) ==
  /\ r.level >= BB
  /\ r.level >= BT <=> FullAmong(s.tsts, Len(s.tsts))
  /\ r.level >= BLT => Material(s)
  /\ r.level = BLT => NoneBadBelow(s, Len(s.chain), r.reference)
  /\ r.level = BLTA => ArchiveCounted(s, Len(s.ats), r.reference, r.diagnostics)

EarnedReport(s, r) ==
  /\ r.status \in Statuses /\ r.level \in Unknown..BLTA /\ r.qualification \in Qualifications
  /\ r.status = "TotalPassed" =>
       /\ EarnedLevel(s, r)
       /\ Material(s) => Accounted(s, Len(s.chain), r.reference, r.revocation, r.diagnostics)

ReportsEarned == \A n \in DOMAIN reports : EarnedReport(signers[n], reports[n])

LevelSoFar ==
  /\ level \in Unknown..BLTA
  /\ pc \in {"tst", "chain", "policy", "revocation"} => level \in {BB, BT}
  /\ pc = "tst" => (level >= BT <=> FullAmong(signer.tsts, i - 1))
  /\ pc \in {"chain", "policy", "revocation", "ats"} =>
       (level >= BT <=> FullAmong(signer.tsts, Len(signer.tsts)))
  /\ pc = "ats" =>
       /\ level >= BB
       /\ level >= BLT => has_lt_material
       /\ level = BLT => NoneBadBelow(signer, Len(signer.chain), reference)
       /\ level = BLTA => ArchiveCounted(signer, i - 1, reference, diagnostics)

EvidenceSoFar ==
  /\ pc \in {"tst", "chain", "policy"} => \A j \in Nat : NoEvidence(j) \notin diagnostics
  /\ pc = "revocation" => Accounted(signer, i, reference, revocation, diagnostics)
  /\ pc = "ats" => (has_lt_material =>
       Accounted(signer, Len(signer.chain), reference, revocation, diagnostics))

EInv == LevelSoFar /\ EvidenceSoFar /\ ReportsEarned /\ reference \in Int \cup {NoTime}

----------------------------------------------------------------------------
LEMMA QualificationType ==
  ASSUME NEW s, NEW t PROVE apply_qualification(s, t) \in Qualifications
BY DEF apply_qualification, T!qualify_signer, Qualifications

\* A report that was earned is pushed.
LEMMA PushEarned ==
  ASSUME IInv, EInv, k <= Len(signers), NEW r, EarnedReport(signer, r), Push(r)
  PROVE  EInv'
<1>1. reports \in Seq(Range(reports)) /\ Len(reports) = k - 1 /\ k \in Nat \ {0}
  BY DEF IInv, Shape
<1>2. /\ UNCHANGED <<signers, level, reference>> /\ pc' = "signer" /\ reports' = Append(reports, r)
  BY DEF Push, call, locals
<1>3. /\ DOMAIN reports = 1..(k - 1) /\ DOMAIN reports' = 1..k
      /\ \A n \in 1..(k - 1) : reports'[n] = reports[n]
      /\ reports'[k] = r
  BY <1>1, <1>2, Appended, LenProperties
<1>4. ReportsEarned'
  <2> SUFFICES ASSUME NEW n \in 1..k PROVE EarnedReport(signers[n], reports'[n])
    BY <1>2, <1>3 DEF ReportsEarned
  <2>1. CASE n = k
    BY <1>3, <2>1 DEF signer
  <2>2. CASE n # k
    <3>1. n \in 1..(k - 1)
      BY <1>1, <2>2
    <3> QED
      BY <1>3, <3>1 DEF EInv, ReportsEarned
  <2> QED
    BY <2>1, <2>2
<1>5. LevelSoFar' /\ EvidenceSoFar'
  BY <1>2 DEF EInv, LevelSoFar, EvidenceSoFar
<1> QED
  BY <1>2, <1>4, <1>5 DEF EInv

LEMMA InitEInv == Init => EInv
<1> SUFFICES ASSUME Init PROVE EInv
  OBVIOUS
<1>1. DOMAIN reports = {}
  BY EmptySeq DEF Init
<1> QED
  BY <1>1 DEF Init, EInv, LevelSoFar, EvidenceSoFar, ReportsEarned, Unknown, BLTA

\* Another certificate is looked at: its answer is recorded or a warning given.
LEMMA OneMoreCertificate ==
  ASSUME NEW s, NEW n \in Nat \ {0}, NEW t, NEW answers, NEW codes,
         Accounted(s, n, t, answers, codes),
         NEW answers2, NEW codes2,
         LET status == AnswerFor(s, n, t).status IN
         IF status = "none" THEN answers2 = answers /\ codes2 = codes \cup {NoEvidence(n)}
         ELSE answers2 = Append(answers, [position |-> n, status |-> status]) /\ codes2 = codes
  PROVE  Accounted(s, n + 1, t, answers2, codes2)
<1> DEFINE status == AnswerFor(s, n, t).status
<1>0. 1..((n + 1) - 1) = 1..(n - 1) \cup {n} /\ n \notin 1..(n - 1)
  OBVIOUS
<1>1. \A j, l : NoEvidence(j) = NoEvidence(l) => j = l
  BY DEF NoEvidence
<1>2. CASE status = "none"
  <2>1. answers2 = answers /\ codes2 = codes \cup {NoEvidence(n)}
    BY <1>2
  <2>2. \A j \in Nat :
          NoEvidence(j) \in codes2 <=> j \in 1..((n + 1) - 1) /\ AnswerFor(s, j, t).status = "none"
    BY <1>0, <1>1, <1>2, <2>1 DEF Accounted
  <2> QED
    BY <1>0, <1>2, <2>1, <2>2 DEF Accounted
<1>3. CASE status # "none"
  <2> DEFINE entry == [position |-> n, status |-> status]
  <2>1. answers2 = Append(answers, entry) /\ codes2 = codes
    BY <1>3
  <2>2. entry.position = n /\ entry.status = status
    OBVIOUS
  <2> HIDE DEF entry
  <2>3. /\ answers \in Seq(Range(answers)) /\ Len(answers) \in Nat /\ DOMAIN answers = 1..Len(answers)
    BY LenProperties DEF Accounted
  <2>4. /\ answers2 \in Seq(Range(answers2))
        /\ DOMAIN answers2 = DOMAIN answers \cup {Len(answers) + 1}
        /\ \A x \in DOMAIN answers : answers2[x] = answers[x]
        /\ answers2[Len(answers) + 1] = entry
    <3> HIDE DEF status
    <3>1. /\ Append(answers, entry) \in Seq(Range(Append(answers, entry)))
          /\ DOMAIN Append(answers, entry) = DOMAIN answers \cup {Len(answers) + 1}
          /\ \A x \in DOMAIN answers : Append(answers, entry)[x] = answers[x]
          /\ Append(answers, entry)[Len(answers) + 1] = entry
      BY <2>3, Appended
    <3> QED
      BY <2>1, <3>1, Zenon
  <2>5. \A j \in Nat :
          NoEvidence(j) \in codes2 <=> j \in 1..((n + 1) - 1) /\ AnswerFor(s, j, t).status = "none"
    BY <1>0, <1>3, <2>1 DEF Accounted
  <2>6. \A x \in DOMAIN answers :
          /\ answers[x].position \in 1..(n - 1)
          /\ answers[x].status = AnswerFor(s, answers[x].position, t).status
          /\ answers[x].status # "none"
          /\ \A y \in DOMAIN answers : answers[x].position = answers[y].position => x = y
    BY DEF Accounted
  <2>7. ASSUME NEW x \in DOMAIN answers2
        PROVE  /\ answers2[x].position \in 1..((n + 1) - 1)
               /\ answers2[x].status = AnswerFor(s, answers2[x].position, t).status
               /\ answers2[x].status # "none"
               /\ \A y \in DOMAIN answers2 : answers2[x].position = answers2[y].position => x = y
    <3>1. CASE x \in DOMAIN answers
      BY <1>0, <2>2, <2>3, <2>4, <2>6, <3>1
    <3>2. CASE x = Len(answers) + 1
      BY <1>0, <1>3, <2>2, <2>3, <2>4, <2>6, <3>2
    <3> QED
      BY <2>4, <3>1, <3>2
  <2>8. ASSUME NEW j \in 1..((n + 1) - 1), AnswerFor(s, j, t).status # "none"
        PROVE  \E x \in DOMAIN answers2 : answers2[x].position = j
    <3>1. CASE j = n
      BY <2>2, <2>4, <3>1
    <3>2. CASE j \in 1..(n - 1)
      <4>1. PICK x \in DOMAIN answers : answers[x].position = j
        BY <2>8, <3>2 DEF Accounted
      <4> QED
        BY <2>4, <4>1
    <3> QED
      BY <1>0, <3>1, <3>2
  <2> QED
    BY <2>4, <2>5, <2>7, <2>8 DEF Accounted
<1> QED
  BY <1>2, <1>3

\* A warning of another kind changes nothing of that.
LEMMA OtherWarning ==
  ASSUME NEW s, NEW n, NEW t, NEW answers, NEW codes, Accounted(s, n, t, answers, codes),
         NEW d, d[1] # "REVOCATION_NO_EVIDENCE"
  PROVE  Accounted(s, n, t, answers, codes \cup {d})
<1>1. \A j : NoEvidence(j) # d
  BY DEF NoEvidence
<1> QED
  BY <1>1 DEF Accounted

\* When every recorded answer is Good, no certificate has another one.
LEMMA AllGood ==
  ASSUME NEW s, NEW n, NEW t, NEW answers, NEW codes, Accounted(s, n, t, answers, codes),
         \A x \in DOMAIN answers : answers[x].status = "Good"
  PROVE  NoneBadBelow(s, n, t)
BY DEF Accounted, NoneBadBelow

\* What the steps that go on with the same signer leave as it is.
LEMMA SameReports ==
  ASSUME EInv, UNCHANGED <<call, k, reports>>
  PROVE  ReportsEarned' /\ signer' = signer /\ has_lt_material' = has_lt_material
<1>1. UNCHANGED <<signers, k, reports>>
  BY DEF call
<1>2. ReportsEarned'
  BY <1>1 DEF EInv, ReportsEarned
<1> QED
  BY <1>1, <1>2 DEF signer, has_lt_material

LEMMA StepEInv == IInv /\ EInv /\ [Next]_vars => EInv'
<1> SUFFICES ASSUME IInv, EInv, [Next]_vars PROVE EInv'
  OBVIOUS
<1>1. /\ pc \notin {"signer", "done"} => k <= Len(signers)
      /\ k \in Nat \ {0} /\ i \in Nat \ {0} /\ now \in 0..MaxNow /\ mode \in Modes
      /\ best \in Int \cup {NoTime} /\ signers \in Envelopes /\ Len(signers) \in Nat
      /\ reference \in Int \cup {NoTime} /\ level \in Unknown..BLTA
  <2>1. signers \in Seq(Range(signers))
    BY EnvelopeAssumption DEF IInv, Shape
  <2>2. Len(signers) \in Nat
    BY <2>1, LenProperties
  <2> QED
    BY <2>2 DEF IInv, Shape, EInv, LevelSoFar
<1>2. ASSUME k <= Len(signers)
      PROVE  /\ Len(signer.tsts) \in Nat /\ Len(signer.ats) \in Nat
             /\ Len(signer.chain) \in Nat \ {0}
  <2>1. k \in 1..Len(signers)
    BY <1>1, <1>2
  <2> QED
    BY <1>1, <2>1, SignerShape DEF signer
<1>3. CASE RunCore
  <2>1. CASE signer.faults # {}
    <3>1. Push(Failed) /\ k <= Len(signers)
      BY <1>3, <2>1 DEF RunCore
    <3>2. EarnedReport(signer, Failed)
      BY DEF EarnedReport, Failed, Statuses, Qualifications, Unknown, BLTA
    <3> QED
      BY <3>1, <3>2, PushEarned
  <2>2. CASE signer.faults = {}
    <3>1. /\ pc' = "tst" /\ i' = 1 /\ level' = BB /\ reference' = NoTime /\ diagnostics' = {}
          /\ UNCHANGED <<call, now, k, reports>>
      BY <1>3, <2>2 DEF RunCore, Go
    <3>2. ~FullAmong(signer'.tsts, i' - 1)
      BY <3>1 DEF FullAmong
    <3>3. LevelSoFar'
      BY <3>1, <3>2 DEF LevelSoFar, Unknown, BB, BT, BLTA
    <3>4. EvidenceSoFar'
      BY <3>1 DEF EvidenceSoFar
    <3> QED
      BY <3>1, <3>3, <3>4, SameReports DEF EInv
  <2> QED
    BY <2>1, <2>2
<1>4. CASE VerifySignatureTst
  <2> DEFINE full == verify_time_stamp_token(signer.tsts[i])
  <2>1. /\ pc = "tst" /\ i <= Len(signer.tsts) /\ pc' = "tst" /\ i' = i + 1
        /\ UNCHANGED <<call, k, reports, reference>>
        /\ level' = (IF full THEN BT ELSE level)
        /\ \A d \in diagnostics' : d \in diagnostics \/ d = <<"SIGNATURE_TIMESTAMP_INVALID", i>>
    BY <1>4 DEF VerifySignatureTst, Go
  <2>2. FullAmong(signer.tsts, i) <=> FullAmong(signer.tsts, i - 1) \/ full
    <3>1. 1..i = 1..(i - 1) \cup {i}
      BY <1>1
    <3> QED
      BY <3>1 DEF FullAmong
  <2>3. i' - 1 = i /\ signer' = signer
    BY <1>1, <2>1, SameReports
  <2>4. LevelSoFar'
    <3>1. level \in {BB, BT} /\ (level >= BT <=> FullAmong(signer.tsts, i - 1))
      BY <2>1 DEF EInv, LevelSoFar
    <3> HIDE DEF full
    <3>2. level' \in {BB, BT} /\ (level' >= BT <=> FullAmong(signer.tsts, i))
      BY <2>1, <2>2, <3>1 DEF BB, BT
    <3> QED
      BY <2>1, <2>3, <3>2 DEF LevelSoFar, Unknown, BB, BT, BLTA
  <2>5. EvidenceSoFar'
    <3>1. \A j \in Nat : NoEvidence(j) \notin diagnostics
      BY <2>1 DEF EInv, EvidenceSoFar
    <3>2. \A j \in Nat : NoEvidence(j) \notin diagnostics'
      BY <2>1, <3>1 DEF NoEvidence
    <3> QED
      BY <2>1, <3>2 DEF EvidenceSoFar
  <2> QED
    BY <1>1, <2>1, <2>4, <2>5, SameReports DEF EInv
<1>5. CASE ResolveTime
  <2>1. /\ pc = "tst" /\ i > Len(signer.tsts) /\ pc' = "chain" /\ reference' = resolve(best)
        /\ UNCHANGED <<call, k, reports, level, diagnostics>>
    BY <1>5 DEF ResolveTime, Go
  <2>2. resolve(best) \in Int \cup {NoTime}
    BY <1>1, ModeAssumption, ClockAssumption DEF resolve
  <2>3. i - 1 = Len(signer.tsts)
    BY <1>1, <1>2, <2>1 DEF IInv, Shape
  <2>4. LevelSoFar'
    <3>1. level \in {BB, BT} /\ (level >= BT <=> FullAmong(signer.tsts, Len(signer.tsts)))
      BY <2>1, <2>3 DEF EInv, LevelSoFar
    <3> QED
      BY <1>1, <2>1, <3>1, SameReports DEF LevelSoFar
  <2>5. EvidenceSoFar'
    BY <2>1 DEF EInv, EvidenceSoFar
  <2> QED
    BY <2>1, <2>2, <2>4, <2>5, SameReports DEF EInv
<1>6. CASE BuildChain
  <2>1. CASE ~(signer.from <= reference /\ reference <= signer.to)
    <3>1. Push(Failed) /\ k <= Len(signers)
      BY <1>1, <1>6, <2>1 DEF BuildChain
    <3>2. EarnedReport(signer, Failed)
      BY DEF EarnedReport, Failed, Statuses, Qualifications, Unknown, BLTA
    <3> QED
      BY <3>1, <3>2, PushEarned
  <2>2. CASE signer.from <= reference /\ reference <= signer.to
    <3>1. pc = "chain" /\ pc' = "policy" /\ UNCHANGED <<call, k, reports, level, reference, diagnostics>>
      BY <1>6, <2>2 DEF BuildChain, Go, locals
    <3>2. LevelSoFar' /\ EvidenceSoFar'
      BY <3>1, SameReports DEF EInv, LevelSoFar, EvidenceSoFar
    <3> QED
      BY <3>1, <3>2, SameReports DEF EInv
  <2> QED
    BY <2>1, <2>2
<1>7. CASE ApplyPolicy
  <2>1. CASE ~(reference < signer.cutoff)
    <3> DEFINE report == Collected("TotalFailedSub", Unknown, "NotAdES", {<<"ALG_POLICY_REJECTED", 0>>})
    <3>1. Push(report) /\ k <= Len(signers)
      BY <1>1, <1>7, <2>1 DEF ApplyPolicy
    <3>2. EarnedReport(signer, report)
      BY DEF EarnedReport, Collected, Statuses, Qualifications, Unknown, BLTA
    <3> QED
      BY <3>1, <3>2, PushEarned
  <2>2. CASE reference < signer.cutoff
    <3>1. /\ pc = "policy" /\ pc' = (IF has_lt_material THEN "revocation" ELSE "ats") /\ i' = 1
          /\ UNCHANGED <<call, k, reports, level, reference, revocation, diagnostics>>
      BY <1>7, <2>2 DEF ApplyPolicy, Go, locals
    <3>2. /\ level \in {BB, BT} /\ (level >= BT <=> FullAmong(signer.tsts, Len(signer.tsts)))
          /\ \A j \in Nat : NoEvidence(j) \notin diagnostics
          /\ revocation = <<>>
      BY <3>1 DEF EInv, LevelSoFar, EvidenceSoFar, IInv, Checked
    <3>3. LevelSoFar'
      BY <3>1, <3>2, SameReports DEF LevelSoFar, Unknown, BB, BT, BLT, BLTA
    <3>4. Accounted(signer, 1, reference, revocation, diagnostics)
      BY <3>2, EmptySeq DEF Accounted
    <3>5. EvidenceSoFar'
      BY <3>1, <3>4, SameReports DEF EvidenceSoFar
    <3> QED
      BY <3>1, <3>3, <3>5, SameReports DEF EInv
  <2> QED
    BY <2>1, <2>2
<1>8. CASE CheckRevocation
  <2>1. /\ pc = "revocation" /\ pc' = "revocation" /\ i' = i + 1
        /\ UNCHANGED <<call, k, reports, level, reference>>
        /\ LET status == AnswerFor(signer, i, reference).status IN
           IF status = "none" THEN revocation' = revocation /\ diagnostics' = diagnostics \cup {NoEvidence(i)}
           ELSE /\ revocation' = Append(revocation, [position |-> i, status |-> status])
                /\ diagnostics' = diagnostics
    BY <1>8 DEF CheckRevocation, Go, NoEvidence
  <2>2. Accounted(signer, i, reference, revocation, diagnostics)
    BY <2>1 DEF EInv, EvidenceSoFar
  <2>3. Accounted(signer, i + 1, reference, revocation', diagnostics')
    BY <1>1, <2>1, <2>2, OneMoreCertificate
  <2>4. EvidenceSoFar'
    BY <2>1, <2>3, SameReports DEF EvidenceSoFar
  <2>5. LevelSoFar'
    BY <2>1, SameReports DEF EInv, LevelSoFar
  <2> QED
    BY <2>1, <2>4, <2>5, SameReports DEF EInv
<1>9. CASE JudgeRevocation
  <2>1. CASE "Revoked" \in Recorded
    <3> DEFINE report == Collected("TotalFailedSub", level, "NotAdES", {<<"REVOCATION_REVOKED", 0>>})
    <3>1. Push(report) /\ k <= Len(signers)
      BY <1>1, <1>9, <2>1 DEF JudgeRevocation
    <3>2. EarnedReport(signer, report)
      BY <1>1 DEF EarnedReport, Collected, Statuses, Qualifications
    <3> QED
      BY <3>1, <3>2, PushEarned
  <2>2. CASE "Revoked" \notin Recorded
    <3> DEFINE allGood == Recorded \subseteq {"Good"}
    <3>1. /\ pc = "revocation" /\ i = Len(signer.chain) /\ pc' = "ats" /\ i' = 1
          /\ UNCHANGED <<call, k, reports, reference, revocation>>
          /\ level' = (IF allGood /\ level >= BT THEN BLT ELSE level)
          /\ \/ diagnostics' = diagnostics
             \/ diagnostics' = diagnostics \cup {<<"LT_MATERIAL_WITHOUT_TIMESTAMP", 0>>}
      BY <1>9, <2>2 DEF JudgeRevocation, Go
    <3>2. Accounted(signer, Len(signer.chain), reference, revocation, diagnostics)
      BY <3>1 DEF EInv, EvidenceSoFar
    <3>3. Accounted(signer, Len(signer.chain), reference, revocation, diagnostics')
      <4> DEFINE d == <<"LT_MATERIAL_WITHOUT_TIMESTAMP", 0>>
      <4>1. d[1] # "REVOCATION_NO_EVIDENCE" /\ diagnostics' \in {diagnostics, diagnostics \cup {d}}
        BY <3>1
      <4>2. revocation' = revocation
        BY <3>1
      <4> HIDE DEF d
      <4>3. Accounted(signer, Len(signer.chain), reference, revocation, diagnostics \cup {d})
        BY <3>2, <4>1, OtherWarning
      <4> QED
        BY <3>2, <4>1, <4>3
    <3>4. /\ level \in {BB, BT} /\ (level >= BT <=> FullAmong(signer.tsts, Len(signer.tsts)))
          /\ has_lt_material
      BY <3>1 DEF EInv, LevelSoFar, IInv, Shape
    <3>5. allGood => NoneBadBelow(signer, Len(signer.chain), reference)
      BY <3>2, AllGood DEF Recorded
    <3> HIDE DEF allGood
    <3>6. LevelSoFar'
      BY <3>1, <3>4, <3>5, SameReports DEF LevelSoFar, Unknown, BB, BT, BLT, BLTA
    <3>7. EvidenceSoFar'
      BY <3>1, <3>3, SameReports DEF EvidenceSoFar
    <3> QED
      BY <3>1, <3>6, <3>7, SameReports DEF EInv
  <2> QED
    BY <2>1, <2>2
<1>10. CASE VerifyArchiveTst
  <2> DEFINE full == verify_time_stamp_token(signer.ats[i])
             usable == Usable(signer.ats[i])
  <2>1. /\ pc = "ats" /\ i <= Len(signer.ats) /\ pc' = "ats" /\ i' = i + 1
        /\ UNCHANGED <<call, k, reports, reference, revocation>>
        /\ level' = (IF usable THEN ArchiveLevel(full) ELSE level)
        /\ diagnostics' = diagnostics \cup
             {IF usable THEN <<"ATS_IMPRINT_NOT_VERIFIED", i>> ELSE <<"ATS_INVALID", i>>}
    BY <1>10 DEF VerifyArchiveTst, Go, Usable, ArchiveDiagnostics
  <2>2. i' - 1 = i /\ signer' = signer /\ has_lt_material' = has_lt_material
    BY <1>1, <2>1, SameReports
  <2>3. 1..i = 1..(i - 1) \cup {i} /\ i \in 1..i
    BY <1>1
  <2>4. /\ level >= BT <=> FullAmong(signer.tsts, Len(signer.tsts))
        /\ level >= BB
        /\ level >= BLT => has_lt_material
        /\ level = BLT => NoneBadBelow(signer, Len(signer.chain), reference)
        /\ level = BLTA => ArchiveCounted(signer, i - 1, reference, diagnostics)
    BY <2>1 DEF EInv, LevelSoFar
  <2>5. level' = BLTA => ArchiveCounted(signer, i, reference, diagnostics')
    <3>1. CASE level = BLTA
      BY <2>1, <2>3, <2>4, <3>1 DEF ArchiveCounted, UsableAmong, FullAmong, ImprintWarned
    <3>2. CASE level' = BLTA /\ level # BLTA
      <4>1. usable /\ (level = BLT \/ full)
        BY <1>1, <2>1, <3>2 DEF ArchiveLevel, Unknown, BB, BT, BLT, BLTA
      <4>2. UsableAmong(signer.ats, i) /\ (full => FullAmong(signer.ats, i))
        BY <2>3, <4>1 DEF UsableAmong, FullAmong
      <4>3. ImprintWarned(diagnostics')
        <5>1. <<"ATS_IMPRINT_NOT_VERIFIED", i>> \in diagnostics'
          BY <2>1, <4>1
        <5> QED
          BY <5>1 DEF ImprintWarned
      <4> QED
        BY <2>4, <4>1, <4>2, <4>3 DEF ArchiveCounted
    <3> QED
      BY <3>1, <3>2
  <2>6. /\ level' \in Unknown..BLTA /\ level' >= BB
        /\ level' >= BT <=> FullAmong(signer.tsts, Len(signer.tsts))
        /\ level' >= BLT => has_lt_material
        /\ level' = BLT => NoneBadBelow(signer, Len(signer.chain), reference)
    <3> HIDE DEF full, usable
    <3> QED
      BY <1>1, <2>1, <2>4 DEF ArchiveLevel, Unknown, BB, BT, BLT, BLTA
  <2>7. LevelSoFar'
    BY <2>1, <2>2, <2>5, <2>6 DEF LevelSoFar
  <2>8. EvidenceSoFar'
    <3>1. has_lt_material => Accounted(signer, Len(signer.chain), reference, revocation, diagnostics')
      <4> DEFINE d == IF usable THEN <<"ATS_IMPRINT_NOT_VERIFIED", i>> ELSE <<"ATS_INVALID", i>>
      <4>1. d[1] # "REVOCATION_NO_EVIDENCE" /\ diagnostics' = diagnostics \cup {d}
        BY <2>1
      <4> HIDE DEF d
      <4> QED
        BY <2>1, <4>1, OtherWarning DEF EInv, EvidenceSoFar
    <3> QED
      BY <2>1, <2>2, <3>1 DEF EvidenceSoFar
  <2> QED
    BY <2>1, <2>7, <2>8, SameReports DEF EInv
<1>11. CASE Finish
  <2> DEFINE report == Collected("TotalPassed", level, apply_qualification(signer, reference), {})
  <2>1. pc = "ats" /\ i > Len(signer.ats) /\ Push(report) /\ k <= Len(signers)
    BY <1>1, <1>11 DEF Finish
  <2>2. i - 1 = Len(signer.ats)
    BY <1>1, <1>2, <2>1 DEF IInv, Shape
  <2>3. /\ report.status = "TotalPassed" /\ report.level = level /\ report.reference = reference
        /\ report.qualification = apply_qualification(signer, reference)
        /\ report.revocation = revocation /\ report.diagnostics = diagnostics
    BY DEF Collected
  <2> HIDE DEF report
  <2>4. EarnedLevel(signer, report)
    BY <2>1, <2>2, <2>3 DEF EInv, LevelSoFar, EarnedLevel, Material, has_lt_material
  <2>5. Material(signer) => Accounted(signer, Len(signer.chain), reference, revocation, diagnostics)
    BY <2>1 DEF EInv, EvidenceSoFar, Material, has_lt_material
  <2>6. EarnedReport(signer, report)
    BY <1>1, <2>3, <2>4, <2>5, QualificationType DEF EarnedReport, Statuses
  <2> QED
    BY <2>1, <2>6, PushEarned
<1>12. CASE Return
  <2>1. pc' = "done" /\ UNCHANGED <<call, k, reports, level, reference>>
    BY <1>12 DEF Return, locals
  <2>2. LevelSoFar' /\ EvidenceSoFar'
    BY <1>1, <2>1 DEF LevelSoFar, EvidenceSoFar
  <2> QED
    BY <1>1, <2>1, <2>2, SameReports DEF EInv
<1>13. CASE Tick \/ UNCHANGED vars
  <2>1. UNCHANGED <<call, pc, k, i, level, reference, revocation, diagnostics, reports>>
    BY <1>13 DEF Tick, vars, locals
  <2>2. LevelSoFar' /\ EvidenceSoFar'
    BY <2>1, SameReports DEF EInv, LevelSoFar, EvidenceSoFar
  <2> QED
    BY <2>1, <2>2, SameReports DEF EInv
<1> QED
  BY <1>3, <1>4, <1>5, <1>6, <1>7, <1>8, <1>9, <1>10, <1>11, <1>12, <1>13 DEF Next, Step

----------------------------------------------------------------------------
(* What follows for every call.                                            *)

\* Levels and evidence are as the reports say, throughout.
THEOREM EvidenceInvariance == Spec => [](IInv /\ EInv)
<1>1. Init => IInv /\ EInv
  BY InitIInv, InitEInv
<1>2. IInv /\ EInv /\ [Next]_vars => (IInv /\ EInv)'
  BY StepIInv, StepEInv
<1> QED
  BY <1>1, <1>2, PTL DEF Spec

\* A passing report was earned by the signer at its place.
LEMMA EarnedBySigner ==
  ASSUME IInv, EInv, NEW s \in DOMAIN reports
  PROVE  /\ EarnedReport(signers[s], reports[s])
         /\ DOMAIN signers[s].tsts = 1..Len(signers[s].tsts)
         /\ DOMAIN signers[s].ats = 1..Len(signers[s].ats)
<1>1. s \in 1..Len(signers)
  BY ReportOfSigner
<1>2. signers[s].tsts \in Seq(Token(Int)) /\ signers[s].ats \in Seq(Token(Int))
  BY <1>1, SignerShape DEF IInv, Shape
<1> QED
  BY <1>2, LenProperties DEF EInv, ReportsEarned

\* The values of the variables, and a report for every signer dealt with
\* (verify.rs:75-84).
THEOREM TypeCorrect == Spec => []TypeOK
<1>1. IInv /\ EInv => TypeOK
  <2> SUFFICES ASSUME IInv, EInv PROVE TypeOK
    OBVIOUS
  <2>1. \A s \in DOMAIN reports :
          /\ reports[s].status \in Statuses
          /\ reports[s].level \in Unknown..BLTA
          /\ reports[s].qualification \in Qualifications
    BY EarnedBySigner DEF EarnedReport
  <2> QED
    BY <2>1 DEF IInv, Shape, EInv, LevelSoFar, TypeOK
<1> QED
  BY <1>1, EvidenceInvariance, PTL

\* verify.rs:133-322.  The level of a passing report is earned by the evidence
\* in the signature itself, whatever that evidence is.
THEOREM LevelsAreEarned == Spec => []LevelIsEarned
<1>1. IInv /\ EInv => LevelIsEarned
  <2> SUFFICES ASSUME IInv, EInv, NEW s \in DOMAIN reports, Passed(s)
               PROVE  LET lvl == reports[s].level
                          noneBad == \A j \in NonAnchors(s) : StatusOf(s, j) \in {"Good", "none"} IN
                      /\ lvl >= BB
                      /\ lvl >= BT <=> FullTsts(s) # {}
                      /\ lvl >= BLT => HasMaterial(s)
                      /\ lvl = BLT => noneBad
                      /\ lvl = BLTA =>
                           /\ UsableAts(s) # {}
                           /\ noneBad \/ \E j \in UsableAts(s) : verify_time_stamp_token(signers[s].ats[j])
                           /\ \E d \in reports[s].diagnostics : d[1] = "ATS_IMPRINT_NOT_VERIFIED"
    BY DEF LevelIsEarned
  <2>1. /\ EarnedLevel(signers[s], reports[s])
        /\ DOMAIN signers[s].tsts = 1..Len(signers[s].tsts)
        /\ DOMAIN signers[s].ats = 1..Len(signers[s].ats)
    BY EarnedBySigner DEF EarnedReport, Passed
  <2>2. FullTsts(s) # {} <=> FullAmong(signers[s].tsts, Len(signers[s].tsts))
    BY <2>1 DEF FullTsts, FullAmong
  <2>3. (\A j \in NonAnchors(s) : StatusOf(s, j) \in {"Good", "none"})
          <=> NoneBadBelow(signers[s], Len(signers[s].chain), reports[s].reference)
    BY DEF NonAnchors, StatusOf, NoneBadBelow
  <2>4. UsableAmong(signers[s].ats, Len(signers[s].ats)) => UsableAts(s) # {}
    BY <2>1 DEF UsableAmong, Usable, UsableAts
  <2>5. FullAmong(signers[s].ats, Len(signers[s].ats)) =>
          \E j \in UsableAts(s) : verify_time_stamp_token(signers[s].ats[j])
    BY <2>1 DEF FullAmong, UsableAts
  <2> QED
    BY <2>1, <2>2, <2>3, <2>4, <2>5 DEF EarnedLevel, ArchiveCounted, ImprintWarned, HasMaterial, Material
<1> QED
  BY <1>1, EvidenceInvariance, PTL

\* verify.rs:794-830.  Where revocation material is embedded, a passing report
\* accounts for every certificate below the anchor exactly once.
THEOREM EvidenceAccounted == Spec => []EvidenceIsAccountedFor
<1>1. IInv /\ EInv => EvidenceIsAccountedFor
  <2> SUFFICES ASSUME IInv, EInv, NEW s \in DOMAIN reports, Passed(s), HasMaterial(s),
                      NEW j \in NonAnchors(s)
               PROVE  LET recorded == {n \in DOMAIN reports[s].revocation :
                                         reports[s].revocation[n].position = j} IN
                      IF StatusOf(s, j) = "none"
                        THEN recorded = {} /\ <<"REVOCATION_NO_EVIDENCE", j>> \in reports[s].diagnostics
                        ELSE /\ <<"REVOCATION_NO_EVIDENCE", j>> \notin reports[s].diagnostics
                             /\ Cardinality(recorded) = 1
                             /\ \A n \in recorded : reports[s].revocation[n].status = StatusOf(s, j)
    BY DEF EvidenceIsAccountedFor
  <2> DEFINE answers == reports[s].revocation
             recorded == {n \in DOMAIN answers : answers[n].position = j}
             status == StatusOf(s, j)
  <2>1. Accounted(signers[s], Len(signers[s].chain), reports[s].reference, answers, reports[s].diagnostics)
    BY EarnedBySigner DEF EarnedReport, Passed, HasMaterial, Material
  <2>2. j \in 1..(Len(signers[s].chain) - 1) /\ j \in Nat
    BY DEF NonAnchors
  <2>3. NoEvidence(j) \in reports[s].diagnostics <=> status = "none"
    BY <2>1, <2>2 DEF Accounted, StatusOf
  <2>4. \A n \in recorded : answers[n].status = status /\ status # "none"
    BY <2>1 DEF Accounted, StatusOf
  <2>5. ASSUME status # "none" PROVE Cardinality(recorded) = 1
    <3>1. PICK x \in DOMAIN answers : answers[x].position = j
      BY <2>1, <2>2, <2>5 DEF Accounted, StatusOf
    <3>2. \A y \in DOMAIN answers : answers[y].position = j => x = y
      BY <2>1, <3>1 DEF Accounted
    <3>3. recorded = {x}
      BY <3>1, <3>2
    <3> HIDE DEF recorded
    <3> QED
      BY <3>3, FS_Singleton
  <2> HIDE DEF answers, status
  <2> QED
    BY <2>3, <2>4, <2>5 DEF NoEvidence, answers, status
<1> QED
  BY <1>1, EvidenceInvariance, PTL
=============================================================================
