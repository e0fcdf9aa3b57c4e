---------------------------- MODULE PdfScanProofs ----------------------------
(***************************************************************************)
(* Proofs about the scan of a PDF, for every file, every length of the     *)
(* keyword and every width of usize.                                       *)
(***************************************************************************)
EXTENDS PdfScan, TLAPS, WellFoundedInduction, FiniteSetTheorems, SequenceTheorems

\* Nothing well-formed at o is lost: it was accepted, or an accepted one
\* reaches beyond it.
Covered(o) ==
  \/ \E n \in DOMAIN out : out[n] = o
  \/ \E n \in DOMAIN out : out[n] < o /\ o < pdf.ranges[out[n]][3]

\* What holds of the cursor after every turn.
CursorInv ==
  /\ cursor <= Length(pdf)
  /\ \A n \in DOMAIN out :
       /\ scan_one(pdf, out[n])
       /\ out[n] + KeywordLen <= cursor
       /\ pdf.ranges[out[n]][3] <= cursor
  /\ \A o \in Keywords(pdf) : (o < cursor /\ scan_one(pdf, o)) => Covered(o)
  /\ phase # "scan" => Hits = {}

IInv == TypeOK /\ CursorInv /\ AcceptedDoNotOverlap

----------------------------------------------------------------------------
\* A nonempty set of offsets has a least one.
LEMMA LeastIsMember ==
  ASSUME NEW S, S \subseteq Nat, S # {}
  PROVE  Least(S) \in S /\ \A y \in S : Least(S) <= y
<1> DEFINE R == OpToRel(<, Nat)
<1>1. \E x \in S : \A y \in S : ~(<<y, x>> \in R)
  <2>1. IsWellFoundedOn(R, Nat)
    BY NatLessThanWellFounded, Zenon
  <2> HIDE DEF R
  <2> QED
    BY <2>1, WFMin, Zenon
<1>2. PICK x \in S : \A y \in S : ~(<<y, x>> \in R)
  BY <1>1
<1>3. ASSUME NEW y \in S PROVE x <= y
  <2>1. ~(y < x)
    BY <1>2, Zenon DEF OpToRel
  <2> QED
    BY <2>1
<1>4. \E z \in S : \A y \in S : z <= y
  BY <1>3
<1> QED
  BY <1>4 DEF Least

\* The shape of the file being scanned.
LEMMA FileShape ==
  ASSUME TypeOK
  PROVE  /\ Length(pdf) \in Nat /\ Length(pdf) < MaxUsize
         /\ Keywords(pdf) \subseteq Nat
         /\ \A o \in Keywords(pdf) :
              /\ o + KeywordLen <= Length(pdf)
              /\ pdf.ranges[o] # <<>> => pdf.ranges[o] \in [1..4 -> 0..MaxUsize]
         /\ \A o, p \in Keywords(pdf) : o < p => o + KeywordLen <= p
<1>1. pdf \in Files
  BY DEF TypeOK
<1>2. Length(pdf) \in Nat
  BY <1>1, FileAssumption DEF Length
<1>3. Keywords(pdf) \subseteq Nat
  BY <1>2 DEF Keywords
<1>4. pdf.ranges \in [Keywords(pdf) -> {<<>>} \cup [1..4 -> 0..MaxUsize]]
  BY <1>1, FileAssumption
<1> QED
  BY <1>1, <1>2, <1>3, <1>4, FileAssumption

\* An accepted candidate has four integers, and its slices lie inside the
\* file: saturation cannot hide a sum that is too large.
LEMMA AcceptedIsInBounds ==
  ASSUME TypeOK, NEW o \in Keywords(pdf), scan_one(pdf, o)
  PROVE  LET r == pdf.ranges[o] IN
         /\ r # <<>> /\ r \in [1..4 -> 0..MaxUsize]
         /\ r[1] + r[2] < r[3] /\ r[3] + r[4] <= Length(pdf)
         /\ r[3] <= Length(pdf)
         /\ saturating_add(r[1], r[2]) = r[1] + r[2]
<1> DEFINE r == pdf.ranges[o]
<1>1. r # <<>> /\ InFile(pdf, r)
  BY DEF scan_one
<1>2. r \in [1..4 -> 0..MaxUsize]
  BY <1>1, FileShape
<1>3. r[1] \in Nat /\ r[2] \in Nat /\ r[3] \in Nat /\ r[4] \in Nat
  BY <1>2, SizeAssumption
<1>4. Length(pdf) \in Nat /\ Length(pdf) < MaxUsize /\ MaxUsize \in Nat
  BY FileShape, SizeAssumption
<1> HIDE DEF r
<1>5. /\ r[1] + r[2] < r[3] /\ r[3] + r[4] <= Length(pdf) /\ r[3] <= Length(pdf)
      /\ saturating_add(r[1], r[2]) = r[1] + r[2]
  BY <1>1, <1>3, <1>4 DEF InFile, GapStart, saturating_add
<1> QED
  BY <1>1, <1>2, <1>5 DEF r

\* Where the cursor goes after an accepted candidate: to the end of the gap
\* or, if that lies behind, past the keyword.
LEMMA NextCursorIs ==
  ASSUME TypeOK, NEW o \in Keywords(pdf), scan_one(pdf, o)
  PROVE  LET c == NextCursor(pdf.ranges[o], o) IN
         /\ c \in Nat /\ c <= Length(pdf)
         /\ c = pdf.ranges[o][3] \/ c = o + KeywordLen
         /\ c >= pdf.ranges[o][3] /\ c >= o + KeywordLen
<1> DEFINE r == pdf.ranges[o]
<1>1. /\ r \in [1..4 -> 0..MaxUsize]
      /\ r[1] + r[2] < r[3] /\ r[3] <= Length(pdf)
      /\ saturating_add(r[1], r[2]) = r[1] + r[2]
  BY AcceptedIsInBounds
<1>2. /\ r[1] \in Nat /\ r[2] \in Nat /\ r[3] \in Nat
      /\ o \in Nat /\ KeywordLen \in Nat /\ o + KeywordLen <= Length(pdf)
      /\ Length(pdf) \in Nat
  BY <1>1, FileShape, SizeAssumption
<1> HIDE DEF r
<1>3. NextCursor(r, o) = Larger(Larger(r[1] + r[2], r[3]), o + KeywordLen)
  BY <1>1 DEF NextCursor
<1>4. LET c == NextCursor(r, o) IN
      /\ c \in Nat /\ c <= Length(pdf)
      /\ c = r[3] \/ c = o + KeywordLen
      /\ c >= r[3] /\ c >= o + KeywordLen
  BY <1>1, <1>2, <1>3 DEF Larger
<1> QED
  BY <1>4 DEF r

----------------------------------------------------------------------------
(* The invariant is inductive.                                             *)

\* The scan starts at the beginning with nothing found.
LEMMA InitInv == Init => IInv
<1> SUFFICES ASSUME Init PROVE IInv
  OBVIOUS
<1>1. TypeOK
  BY DEF Init, TypeOK
<1>2. CursorInv
  <2>1. Length(pdf) \in Nat /\ Keywords(pdf) \subseteq Nat
    BY <1>1, FileShape
  <2> QED
    BY <2>1 DEF Init, CursorInv
<1>3. AcceptedDoNotOverlap
  BY DEF Init, AcceptedDoNotOverlap
<1> QED
  BY <1>1, <1>2, <1>3 DEF IInv

\* The candidate a turn looks at is the first one from the cursor on.
LEMMA FirstHit ==
  ASSUME TypeOK, Hits # {}
  PROVE  LET o == Least(Hits) IN
         /\ o \in Keywords(pdf) /\ o \in Nat /\ o >= cursor
         /\ \A p \in Keywords(pdf) : p >= cursor => o <= p
<1>1. Hits \subseteq Nat
  BY FileShape DEF Hits
<1>2. Least(Hits) \in Hits /\ \A p \in Hits : Least(Hits) <= p
  BY <1>1, LeastIsMember
<1> QED
  BY <1>1, <1>2 DEF Hits

\* A turn that accepts a candidate.
LEMMA AcceptKeepsInv ==
  ASSUME IInv, ScanNext, scan_one(pdf, Least(Hits))
  PROVE  IInv'
<1> DEFINE o == Least(Hits)
           c == NextCursor(pdf.ranges[o], o)
<1>1. /\ o \in Keywords(pdf) /\ o \in Nat /\ o >= cursor
      /\ \A p \in Keywords(pdf) : p >= cursor => o <= p
  BY FirstHit DEF IInv, ScanNext
<1>2. /\ c \in Nat /\ c <= Length(pdf)
      /\ c = pdf.ranges[o][3] \/ c = o + KeywordLen
      /\ c >= pdf.ranges[o][3] /\ c >= o + KeywordLen
  BY <1>1, NextCursorIs DEF IInv
<1>3. /\ pdf' = pdf /\ phase' = "scan" /\ cursor' = c /\ out' = Append(out, o)
      /\ index' = index /\ reports' = reports /\ phase = "scan"
  BY DEF ScanNext
<1>4. /\ out \in Seq(Keywords(pdf)) /\ cursor \in Nat /\ KeywordLen \in Nat \ {0}
      /\ Keywords(pdf) \subseteq Nat /\ Len(out) \in Nat
      /\ \A p, q \in Keywords(pdf) : p < q => p + KeywordLen <= q
  BY FileShape, SizeAssumption DEF IInv, TypeOK
<1>5. /\ DOMAIN out' = DOMAIN out \cup {Len(out) + 1}
      /\ out'[Len(out) + 1] = o
      /\ \A n \in DOMAIN out : out'[n] = out[n] /\ out[n] \in Keywords(pdf)
      /\ DOMAIN out = 1..Len(out)
  BY <1>1, <1>3, <1>4
<1> HIDE DEF o, c
<1>6. TypeOK'
  <2>1. out' \in Seq(Keywords(pdf')) /\ Len(out') = Len(out) + 1
    BY <1>1, <1>3, <1>4
  <2>2. index' \in 1..(Len(out') + 1)
    BY <1>3, <1>4, <2>1 DEF IInv, TypeOK
  <2>3. pdf' \in Files /\ cursor' \in Nat /\ phase' = "scan"
        /\ reports' \in Seq(Nat \X {"TotalPassed", "TotalFailedSub"})
    BY <1>2, <1>3 DEF IInv, TypeOK
  <2> QED
    BY <2>1, <2>2, <2>3 DEF TypeOK
<1>7. \A n \in DOMAIN out : out[n] + KeywordLen <= cursor /\ pdf.ranges[out[n]][3] <= cursor
                              /\ scan_one(pdf, out[n])
  BY DEF IInv, CursorInv
<1>8. CursorInv'
  <2>1. cursor' <= Length(pdf')
    BY <1>2, <1>3
  <2>2. ASSUME NEW n \in DOMAIN out'
        PROVE  /\ scan_one(pdf', out'[n])
               /\ out'[n] + KeywordLen <= cursor'
               /\ pdf'.ranges[out'[n]][3] <= cursor'
    <3>1. CASE n = Len(out) + 1
      BY <3>1, <1>2, <1>3, <1>5 DEF o
    <3>2. CASE n \in DOMAIN out
      <4>1. /\ out'[n] = out[n] /\ out[n] \in Nat /\ scan_one(pdf, out[n])
            /\ out[n] + KeywordLen <= cursor /\ pdf.ranges[out[n]][3] <= cursor
        BY <3>2, <1>4, <1>5, <1>7
      <4>2. pdf.ranges[out[n]][3] \in Nat
        BY <4>1, <3>2, <1>5, AcceptedIsInBounds, SizeAssumption DEF IInv
      <4>3. KeywordLen \in Nat /\ cursor <= o /\ o + KeywordLen <= c
        BY <1>1, <1>2, <1>4
      <4>4. cursor <= c
        BY <4>3, <1>1, <1>2, <1>4
      <4>5. out[n] + KeywordLen <= c
        BY <4>1, <4>3, <4>4, <1>2, <1>4
      <4>6. pdf.ranges[out[n]][3] <= c
        BY <4>1, <4>2, <4>4, <1>2, <1>4
      <4>7. scan_one(pdf', out'[n])
        BY <4>1, <1>3
      <4> QED
        BY <4>1, <4>5, <4>6, <4>7, <1>3
    <3> QED
      BY <3>1, <3>2, <1>5
  <2>3. ASSUME NEW p \in Keywords(pdf'), p < cursor', scan_one(pdf', p)
        PROVE  Covered(p)'
    <3>1. CASE p < cursor
      <4>1. Covered(p)
        BY <3>1, <2>3, <1>3 DEF IInv, CursorInv
      <4> QED
        BY <4>1, <1>3, <1>5 DEF Covered
    <3>2. CASE p = o
      BY <3>2, <1>5 DEF Covered
    <3>3. CASE p >= cursor /\ p # o
      <4>1. o < p /\ p \in Nat
        BY <3>3, <2>3, <1>1, <1>3, <1>4
      <4>2. o + KeywordLen <= p
        BY <4>1, <2>3, <1>1, <1>3, <1>4
      <4>3. p < pdf.ranges[o][3]
        BY <4>1, <4>2, <2>3, <1>1, <1>2, <1>3, <1>4
      <4> QED
        BY <4>1, <4>3, <1>3, <1>5 DEF Covered
    <3> QED
      BY <3>1, <3>2, <3>3, <2>3, <1>3, <1>4
  <2> QED
    BY <2>1, <2>2, <2>3, <1>3 DEF CursorInv
<1>9. AcceptedDoNotOverlap'
  <2> SUFFICES ASSUME NEW m \in DOMAIN out', NEW n \in DOMAIN out', m < n
               PROVE  out'[m] + KeywordLen <= out'[n] /\ pdf'.ranges[out'[m]][3] <= out'[n]
    BY DEF AcceptedDoNotOverlap
  <2>1. m \in DOMAIN out
    BY <1>4, <1>5
  <2>2. CASE n \in DOMAIN out
    BY <2>1, <2>2, <1>3, <1>5 DEF IInv, AcceptedDoNotOverlap
  <2>3. CASE n = Len(out) + 1
    <3>1. /\ out[m] + KeywordLen <= cursor /\ pdf.ranges[out[m]][3] <= cursor
          /\ out[m] \in Nat /\ out[m] \in Keywords(pdf) /\ scan_one(pdf, out[m])
      BY <2>1, <1>4, <1>5, <1>7
    <3>2. pdf.ranges[out[m]][3] \in Nat
      BY <3>1, AcceptedIsInBounds, SizeAssumption DEF IInv
    <3> QED
      BY <3>1, <3>2, <2>1, <2>3, <1>1, <1>3, <1>4, <1>5
  <2> QED
    BY <2>2, <2>3, <1>5
<1> QED
  BY <1>6, <1>8, <1>9 DEF IInv

\* A turn that rejects a candidate.
LEMMA RejectKeepsInv ==
  ASSUME IInv, ScanNext, ~scan_one(pdf, Least(Hits))
  PROVE  IInv'
<1> DEFINE o == Least(Hits)
<1>1. /\ o \in Keywords(pdf) /\ o \in Nat /\ o >= cursor
      /\ \A p \in Keywords(pdf) : p >= cursor => o <= p
  BY FirstHit DEF IInv, ScanNext
<1>2. /\ pdf' = pdf /\ phase' = "scan" /\ cursor' = o + KeywordLen /\ out' = out
      /\ index' = index /\ reports' = reports /\ phase = "scan"
  BY DEF ScanNext
<1>3. /\ cursor \in Nat /\ KeywordLen \in Nat \ {0} /\ Keywords(pdf) \subseteq Nat
      /\ o + KeywordLen <= Length(pdf) /\ Length(pdf) \in Nat
      /\ \A p, q \in Keywords(pdf) : p < q => p + KeywordLen <= q
      /\ \A n \in DOMAIN out : out[n] \in Keywords(pdf)
  BY <1>1, FileShape, SizeAssumption DEF IInv, TypeOK
<1>4. ~scan_one(pdf, o)
  OBVIOUS
<1> HIDE DEF o
<1>5. TypeOK'
  BY <1>1, <1>2, <1>3 DEF IInv, TypeOK
<1>6. CursorInv'
  <2>1. cursor' <= Length(pdf')
    BY <1>2, <1>3
  <2>2. ASSUME NEW n \in DOMAIN out'
        PROVE  /\ scan_one(pdf', out'[n])
               /\ out'[n] + KeywordLen <= cursor'
               /\ pdf'.ranges[out'[n]][3] <= cursor'
    <3>1. /\ scan_one(pdf, out[n]) /\ out[n] \in Keywords(pdf)
          /\ out[n] + KeywordLen <= cursor /\ pdf.ranges[out[n]][3] <= cursor
      BY <2>2, <1>2, <1>3 DEF IInv, CursorInv
    <3>2. pdf.ranges[out[n]][3] \in Nat /\ out[n] \in Nat
      BY <3>1, <1>3, AcceptedIsInBounds, SizeAssumption DEF IInv
    <3> QED
      BY <3>1, <3>2, <1>1, <1>2, <1>3
  <2>3. ASSUME NEW p \in Keywords(pdf'), p < cursor', scan_one(pdf', p)
        PROVE  Covered(p)'
    <3>1. p \in Keywords(pdf) /\ p \in Nat /\ p # o
      BY <2>3, <1>2, <1>3, <1>4
    <3>2. p < cursor
      BY <3>1, <2>3, <1>1, <1>2, <1>3
    <3>3. Covered(p)
      BY <3>1, <3>2, <2>3, <1>2 DEF IInv, CursorInv
    <3> QED
      BY <3>3, <1>2 DEF Covered
  <2> QED
    BY <2>1, <2>2, <2>3, <1>2 DEF CursorInv
<1>7. AcceptedDoNotOverlap'
  BY <1>2 DEF IInv, AcceptedDoNotOverlap
<1> QED
  BY <1>5, <1>6, <1>7 DEF IInv

\* Steps that leave the result of the scan alone.
LEMMA ScanUntouched ==
  ASSUME IInv, UNCHANGED <<pdf, cursor, out>>, (phase' # "scan" => Hits = {})
  PROVE  CursorInv' /\ AcceptedDoNotOverlap'
<1>1. Hits' = Hits /\ \A o : Covered(o)' = Covered(o)
  BY DEF Hits, Covered
<1> QED
  BY <1>1 DEF IInv, CursorInv, AcceptedDoNotOverlap

\* The reports a location leads to are statuses.
LEMMA ReportsOfType ==
  ASSUME TypeOK, NEW o \in Keywords(pdf)
  PROVE  ReportsOf(o) \in Seq({"TotalPassed", "TotalFailedSub"})
<1>1. pdf.cms \in [Keywords(pdf) -> {<<"Err">>} \cup Seq({"TotalPassed", "TotalFailedSub"})]
  BY FileAssumption DEF TypeOK
<1>2. pdf.cms[o] = <<"Err">> \/ pdf.cms[o] \in Seq({"TotalPassed", "TotalFailedSub"})
  BY <1>1
<1>3. <<"TotalFailedSub">> \in Seq({"TotalPassed", "TotalFailedSub"})
  OBVIOUS
<1>4. CASE ~is_supported_sub_filter(pdf.filter[o]) \/ pdf.cms[o] = <<"Err">>
  BY <1>3, <1>4, Zenon DEF ReportsOf
<1>5. CASE ~(~is_supported_sub_filter(pdf.filter[o]) \/ pdf.cms[o] = <<"Err">>)
  BY <1>2, <1>5, Zenon DEF ReportsOf
<1> QED
  BY <1>4, <1>5

\* Every step keeps the invariant.
LEMMA StepKeepsInv ==
  ASSUME IInv, [Next]_vars
  PROVE  IInv'
<1>1. CASE ScanNext
  BY <1>1, AcceptKeepsInv, RejectKeepsInv
<1>2. CASE ScanEnds
  <2>1. TypeOK'
    BY <1>2 DEF ScanEnds, IInv, TypeOK
  <2>2. CursorInv' /\ AcceptedDoNotOverlap'
    BY <1>2, ScanUntouched DEF ScanEnds
  <2> QED
    BY <2>1, <2>2 DEF IInv
<1>3. CASE Dispatch
  <2> DEFINE statuses == ReportsOf(Location)
             new == [n \in DOMAIN statuses |-> <<index, statuses[n]>>]
  <2>1. Location \in Keywords(pdf) /\ index \in Nat /\ index <= Len(out) /\ Len(out) \in Nat
    BY <1>3 DEF Dispatch, Location, IInv, TypeOK
  <2>2. statuses \in Seq({"TotalPassed", "TotalFailedSub"})
    BY <2>1, ReportsOfType DEF IInv
  <2>3. new \in Seq(Nat \X {"TotalPassed", "TotalFailedSub"})
    <3> HIDE DEF statuses
    <3>1. DOMAIN statuses = 1..Len(statuses) /\ Len(statuses) \in Nat
          /\ \A n \in DOMAIN statuses : statuses[n] \in {"TotalPassed", "TotalFailedSub"}
      BY <2>2
    <3> QED
      BY <3>1, <2>1
  <2>4. /\ reports' = reports \o new /\ index' = index + 1
        /\ phase' = phase /\ phase = "dispatch" /\ UNCHANGED <<pdf, cursor, out>>
    BY <1>3 DEF Dispatch
  <2> HIDE DEF new
  <2>5. TypeOK'
    BY <2>1, <2>3, <2>4 DEF IInv, TypeOK
  <2>6. CursorInv' /\ AcceptedDoNotOverlap'
    BY <2>4, ScanUntouched DEF IInv, CursorInv
  <2> QED
    BY <2>5, <2>6 DEF IInv
<1>4. CASE Return
  <2>1. TypeOK'
    BY <1>4 DEF Return, IInv, TypeOK
  <2>2. CursorInv' /\ AcceptedDoNotOverlap'
    BY <1>4, ScanUntouched DEF Return, IInv, CursorInv
  <2> QED
    BY <2>1, <2>2 DEF IInv
<1>5. CASE UNCHANGED vars
  <2>1. TypeOK'
    BY <1>5 DEF vars, IInv, TypeOK
  <2>2. CursorInv' /\ AcceptedDoNotOverlap'
    BY <1>5, ScanUntouched DEF vars, IInv, CursorInv
  <2> QED
    BY <2>1, <2>2 DEF IInv
<1> QED
  BY <1>1, <1>2, <1>3, <1>4, <1>5 DEF Next

\* The invariant holds throughout.
LEMMA InvHolds == Spec => []IInv
  BY InitInv, StepKeepsInv, PTL DEF Spec

----------------------------------------------------------------------------
(* What follows for every file.                                            *)

\* The variables keep their types.
THEOREM TypeCorrect == Spec => []TypeOK
<1>1. IInv => TypeOK
  BY DEF IInv
<1> QED
  BY <1>1, InvHolds, PTL

\* Whatever integers a ByteRange holds, the slices signed_bytes cuts lie in
\* the file.
THEOREM SlicesNeverLeaveTheFile == Spec => []SlicesAreInBounds
<1>1. ASSUME IInv PROVE SlicesAreInBounds
  <2>1. ASSUME NEW n \in DOMAIN out
        PROVE  out[n] \in Keywords(pdf) /\ scan_one(pdf, out[n])
    BY <1>1, <2>1 DEF IInv, TypeOK, CursorInv
  <2>2. cursor <= Length(pdf)
    BY <1>1 DEF IInv, CursorInv
  <2> QED
    BY <1>1, <2>1, <2>2, AcceptedIsInBounds DEF IInv, SlicesAreInBounds
<1> QED
  BY <1>1, InvHolds, PTL

\* The contents that are decoded as the CMS lie in the gap, so no byte of them
\* is among the signed ones.
THEOREM CmsIsNeverSignedByItself == Spec => []PlaceholderIsNotSigned
<1>1. ASSUME IInv PROVE PlaceholderIsNotSigned
  <2> SUFFICES ASSUME NEW n \in DOMAIN out
               PROVE  HexDigits(pdf, pdf.ranges[out[n]]) \cap SignedOffsets(pdf.ranges[out[n]]) = {}
    BY DEF PlaceholderIsNotSigned
  <2> DEFINE r == pdf.ranges[out[n]]
  <2>1. out[n] \in Keywords(pdf) /\ scan_one(pdf, out[n]) /\ TypeOK
    BY <1>1 DEF IInv, TypeOK, CursorInv
  <2>2. /\ r \in [1..4 -> 0..MaxUsize] /\ r[1] + r[2] < r[3]
        /\ Opening(pdf, r) # {} /\ Closing(pdf, r) # {}
    BY <2>1, AcceptedIsInBounds DEF scan_one
  <2>3. r[1] \in Nat /\ r[2] \in Nat /\ r[3] \in Nat /\ r[4] \in Nat
    BY <2>2, SizeAssumption
  <2> HIDE DEF r
  <2>4. Opening(pdf, r) \subseteq Nat /\ Closing(pdf, r) \subseteq Nat
    BY <2>3 DEF Opening, Closing, Gap, GapStart
  <2>5. Least(Opening(pdf, r)) \in Opening(pdf, r) /\ Least(Closing(pdf, r)) \in Closing(pdf, r)
    BY <2>2, <2>4, LeastIsMember
  <2>6. /\ Least(Opening(pdf, r)) \in Nat /\ Least(Opening(pdf, r)) >= r[1] + r[2]
        /\ Least(Closing(pdf, r)) \in Nat /\ Least(Closing(pdf, r)) < r[3]
    BY <2>3, <2>4, <2>5 DEF Opening, Closing, Gap, GapStart
  <2>7. HexDigits(pdf, r) \cap SignedOffsets(r) = {}
    BY <2>3, <2>6 DEF HexDigits, SignedOffsets
  <2> QED
    BY <2>7 DEF r
<1> QED
  BY <1>1, InvHolds, PTL

\* No dictionary is counted twice, none is found inside another's placeholder.
THEOREM DictionariesDoNotOverlap == Spec => []AcceptedDoNotOverlap
<1>1. IInv => AcceptedDoNotOverlap
  BY DEF IInv
<1> QED
  BY <1>1, InvHolds, PTL

\* A rejected candidate never hides a well-formed one.
THEOREM RejectedHidesNothing == Spec => []MissedOnlyBehindAccepted
<1>1. ASSUME IInv PROVE MissedOnlyBehindAccepted
  <2> SUFFICES ASSUME phase # "scan", NEW o \in Keywords(pdf), scan_one(pdf, o)
               PROVE  Covered(o)
    BY DEF MissedOnlyBehindAccepted, Covered
  <2>1. Hits = {}
    BY <1>1 DEF IInv, CursorInv
  <2>2. o \in Nat /\ cursor \in Nat
    BY <1>1, FileShape DEF IInv, TypeOK
  <2>3. o < cursor
    BY <2>1, <2>2 DEF Hits
  <2> QED
    BY <1>1, <2>3 DEF IInv, CursorInv
<1> QED
  BY <1>1, InvHolds, PTL

\* Every turn of the scan moves the cursor forward: together with the bound on
\* the cursor this is why the loop ends.
THEOREM EveryTurnAdvances == Spec => CursorAdvances
<1>1. ASSUME IInv, [Next]_vars
      PROVE  [phase = "scan" /\ phase' = "scan" => cursor' > cursor]_vars
  <2> SUFFICES ASSUME ~UNCHANGED vars, phase = "scan", phase' = "scan"
               PROVE  cursor' > cursor
    OBVIOUS
  <2>1. ScanNext
    BY <1>1 DEF Next, ScanEnds, Dispatch, Return
  <2> DEFINE o == Least(Hits)
  <2>2. o \in Keywords(pdf) /\ o \in Nat /\ o >= cursor
    BY <1>1, <2>1, FirstHit DEF IInv, ScanNext
  <2>3. cursor \in Nat /\ KeywordLen \in Nat \ {0}
    BY <1>1, SizeAssumption DEF IInv, TypeOK
  <2>4. CASE scan_one(pdf, o)
    <3>1. NextCursor(pdf.ranges[o], o) \in Nat /\ NextCursor(pdf.ranges[o], o) >= o + KeywordLen
      BY <1>1, <2>2, <2>4, NextCursorIs DEF IInv
    <3>2. cursor' = NextCursor(pdf.ranges[o], o)
      BY <2>1, <2>4 DEF ScanNext
    <3> QED
      BY <3>1, <3>2, <2>2, <2>3
  <2>5. CASE ~scan_one(pdf, o)
    <3>1. cursor' = o + KeywordLen
      BY <2>1, <2>5 DEF ScanNext
    <3> QED
      BY <3>1, <2>2, <2>3
  <2> QED
    BY <2>4, <2>5
<1> QED
  BY <1>1, InvHolds, PTL DEF Spec, CursorAdvances

----------------------------------------------------------------------------
(* The report.                                                             *)

\* The reports of location n stand together, one for each of its statuses.
Reported(rs, n) ==
  \E a \in Nat :
    /\ {m \in DOMAIN rs : rs[m][1] = n} = (a + 1)..(a + Len(ReportsOf(out[n])))
    /\ \A j \in 1..Len(ReportsOf(out[n])) : rs[a + j][2] = ReportsOf(out[n])[j]

ReportInv ==
  /\ phase \in {"scan", "NoSignatures"} => index = 1 /\ reports = <<>>
  /\ phase = "done" => index = Len(out) + 1
  /\ \A m \in DOMAIN reports : reports[m][1] \in 1..(index - 1)
  /\ \A n \in 1..(index - 1) : Reported(reports, n)

\* The statuses of a location are a sequence.
LEMMA StatusesShape ==
  ASSUME TypeOK, NEW n \in DOMAIN out
  PROVE  /\ ReportsOf(out[n]) \in Seq({"TotalPassed", "TotalFailedSub"})
         /\ DOMAIN ReportsOf(out[n]) = 1..Len(ReportsOf(out[n])) /\ Len(ReportsOf(out[n])) \in Nat
<1>1. out[n] \in Keywords(pdf)
  BY DEF TypeOK
<1>2. ReportsOf(out[n]) \in Seq({"TotalPassed", "TotalFailedSub"})
  BY <1>1, ReportsOfType
<1> QED
  BY <1>2, LenProperties

\* One location more is dealt with.
LEMMA DispatchReports ==
  ASSUME IInv, ReportInv, Dispatch
  PROVE  ReportInv'
<1> DEFINE statuses == ReportsOf(out[index])
           new == [n \in DOMAIN statuses |-> <<index, statuses[n]>>]
           S == Nat \X {"TotalPassed", "TotalFailedSub"}
<1>1. /\ phase = "dispatch" /\ reports' = reports \o new /\ index' = index + 1
      /\ pdf' = pdf /\ out' = out /\ phase' = phase /\ index <= Len(out)
  BY DEF Dispatch, Location
<1>2. index \in Nat \ {0} /\ index \in DOMAIN out /\ TypeOK /\ Len(out) \in Nat
  BY <1>1, LenProperties DEF IInv, TypeOK
<1>3. /\ statuses \in Seq({"TotalPassed", "TotalFailedSub"})
      /\ DOMAIN statuses = 1..Len(statuses) /\ Len(statuses) \in Nat
  BY <1>2, StatusesShape
<1>4. reports \in Seq(S) /\ DOMAIN reports = 1..Len(reports) /\ Len(reports) \in Nat
  BY <1>2, LenProperties DEF TypeOK
<1> HIDE DEF statuses
<1>5. new \in Seq(S) /\ Len(new) = Len(statuses) /\ \A n \in 1..Len(statuses) : new[n] = <<index, statuses[n]>>
  <2>1. \A n \in DOMAIN statuses : statuses[n] \in {"TotalPassed", "TotalFailedSub"}
    BY <1>3
  <2>2. new \in [1..Len(statuses) -> S]
    BY <1>2, <1>3, <2>1
  <2> QED
    BY <1>3, <2>2, SeqDef, LenProperties
<1> HIDE DEF new, S
<1>6. /\ reports' \in Seq(S) /\ Len(reports') = Len(reports) + Len(statuses)
      /\ \A m \in 1..(Len(reports) + Len(statuses)) :
           reports'[m] = IF m <= Len(reports) THEN reports[m] ELSE new[m - Len(reports)]
  <2>1. /\ (reports \o new) \in Seq(S) /\ Len(reports \o new) = Len(reports) + Len(new)
        /\ \A m \in 1..(Len(reports) + Len(new)) :
             (reports \o new)[m] = IF m <= Len(reports) THEN reports[m] ELSE new[m - Len(reports)]
    BY <1>4, <1>5, ConcatProperties
  <2> QED
    BY <1>1, <1>5, <2>1
<1>7. DOMAIN reports' = 1..(Len(reports) + Len(statuses))
  BY <1>3, <1>4, <1>6, LenProperties
<1>8. \A m \in DOMAIN reports : m \in DOMAIN reports' /\ reports'[m] = reports[m]
  BY <1>3, <1>4, <1>6, <1>7
<1>9. \A j \in 1..Len(statuses) : reports'[Len(reports) + j] = <<index, statuses[j]>>
  <2> SUFFICES ASSUME NEW j \in 1..Len(statuses) PROVE reports'[Len(reports) + j] = <<index, statuses[j]>>
    OBVIOUS
  <2>1. /\ Len(reports) + j \in 1..(Len(reports) + Len(statuses)) /\ ~(Len(reports) + j <= Len(reports))
        /\ (Len(reports) + j) - Len(reports) = j
    BY <1>3, <1>4
  <2> QED
    BY <1>5, <1>6, <2>1
<1>10. ASSUME NEW m \in DOMAIN reports', m \notin DOMAIN reports
       PROVE  m \in (Len(reports) + 1)..(Len(reports) + Len(statuses)) /\ reports'[m][1] = index
  <2>1. m \in (Len(reports) + 1)..(Len(reports) + Len(statuses)) /\ m - Len(reports) \in 1..Len(statuses)
        /\ Len(reports) + (m - Len(reports)) = m
    BY <1>3, <1>4, <1>7, <1>10
  <2> QED
    BY <1>9, <2>1
<1>11. \A m \in DOMAIN reports : reports[m][1] \in 1..(index - 1)
  BY DEF ReportInv
<1>12. \A m \in DOMAIN reports' : reports'[m][1] \in 1..((index + 1) - 1)
  BY <1>2, <1>8, <1>10, <1>11
<1>13. (Len(reports) + 1)..(Len(reports) + Len(statuses)) = DOMAIN reports' \ DOMAIN reports
  BY <1>3, <1>4, <1>7
<1>14. ASSUME NEW n \in 1..(index - 1) PROVE Reported(reports', n)
  <2>1. PICK a \in Nat :
          /\ {m \in DOMAIN reports : reports[m][1] = n} = (a + 1)..(a + Len(ReportsOf(out[n])))
          /\ \A j \in 1..Len(ReportsOf(out[n])) : reports[a + j][2] = ReportsOf(out[n])[j]
    BY DEF ReportInv, Reported
  <2>2. {m \in DOMAIN reports' : reports'[m][1] = n} = {m \in DOMAIN reports : reports[m][1] = n}
    BY <1>2, <1>8, <1>10
  <2>3. \A j \in 1..Len(ReportsOf(out[n])) : a + j \in DOMAIN reports
    <3>1. n \in DOMAIN out
      BY <1>1, <1>2 DEF IInv, TypeOK
    <3>2. Len(ReportsOf(out[n])) \in Nat
      BY <1>2, <3>1, StatusesShape
    <3>3. \A j \in 1..Len(ReportsOf(out[n])) : a + j \in (a + 1)..(a + Len(ReportsOf(out[n])))
      BY <3>2
    <3> QED
      BY <2>1, <3>3
  <2> QED
    BY <1>8, <2>1, <2>2, <2>3 DEF Reported
<1>15. Reported(reports', index)
  <2>1. {m \in DOMAIN reports' : reports'[m][1] = index} = (Len(reports) + 1)..(Len(reports) + Len(statuses))
    BY <1>2, <1>8, <1>10, <1>11, <1>13
  <2>2. \A j \in 1..Len(statuses) : reports'[Len(reports) + j][2] = statuses[j]
    BY <1>9
  <2> QED
    BY <1>4, <2>1, <2>2 DEF Reported, statuses
<1>16. 1..((index + 1) - 1) = 1..(index - 1) \cup {index}
  BY <1>2
<1>17. \A n \in 1..((index + 1) - 1) : Reported(reports', n)
  BY <1>14, <1>15, <1>16
<1>18. \A n \in 1..((index + 1) - 1) : Reported(reports, n)' <=> Reported(reports', n)
  BY <1>1 DEF Reported, ReportsOf
<1> QED
  BY <1>1, <1>12, <1>17, <1>18 DEF ReportInv

\* Every step keeps it.
LEMMA StepKeepsReports ==
  ASSUME IInv, ReportInv, [Next]_vars
  PROVE  ReportInv'
<1>1. ASSUME UNCHANGED <<pdf, index, reports>>, UNCHANGED out \/ index = 1
      PROVE  /\ \A m \in DOMAIN reports' : reports'[m][1] \in 1..(index' - 1)
             /\ \A n \in 1..(index' - 1) : Reported(reports, n)'
  <2>1. CASE UNCHANGED out
    BY <1>1, <2>1 DEF ReportInv, Reported, ReportsOf
  <2>2. CASE index = 1
    <3>1. 1..(1 - 1) = {}
      OBVIOUS
    <3> QED
      BY <1>1, <2>2, <3>1 DEF ReportInv
  <2> QED
    BY <1>1, <2>1, <2>2
<1>2. CASE ScanNext
  <2>1. UNCHANGED <<pdf, phase, index, reports>> /\ phase = "scan" /\ index = 1
    BY <1>2 DEF ScanNext, ReportInv
  <2> QED
    BY <1>1, <2>1 DEF ReportInv
<1>3. CASE ScanEnds
  <2>1. /\ UNCHANGED <<pdf, out, index, reports>> /\ phase' \in {"NoSignatures", "dispatch"}
        /\ index = 1 /\ reports = <<>>
    BY <1>3 DEF ScanEnds, ReportInv
  <2> QED
    BY <1>1, <2>1 DEF ReportInv
<1>4. CASE Return
  <2>1. /\ UNCHANGED <<pdf, out, index, reports>> /\ phase' = "done" /\ index > Len(out)
        /\ index \in 1..(Len(out) + 1) /\ Len(out) \in Nat
    BY <1>4, LenProperties DEF Return, IInv, TypeOK
  <2>2. index = Len(out) + 1
    BY <2>1
  <2> QED
    BY <1>1, <2>1, <2>2 DEF ReportInv
<1>5. CASE UNCHANGED vars
  <2>1. UNCHANGED <<pdf, phase, out, index, reports>>
    BY <1>5 DEF vars
  <2> QED
    BY <1>1, <2>1 DEF ReportInv
<1> QED
  BY <1>2, <1>3, <1>4, <1>5, DispatchReports DEF Next

\* It holds throughout.
LEMMA ReportsHold == Spec => [](IInv /\ ReportInv)
<1>1. Init => ReportInv
  <2>1. 1..(1 - 1) = {} /\ DOMAIN <<>> = {}
    BY EmptySeq, LenProperties
  <2> QED
    BY <2>1 DEF Init, ReportInv
<1> QED
  BY <1>1, InitInv, StepKeepsInv, StepKeepsReports, PTL DEF Spec

\* At the end each location has its reports.
LEMMA AllReported ==
  ASSUME IInv, ReportInv, phase = "done", NEW n \in DOMAIN out
  PROVE  Reported(reports, n)
<1>1. n \in 1..Len(out) /\ Len(out) \in Nat /\ index = Len(out) + 1
  BY LenProperties DEF IInv, TypeOK, ReportInv
<1> QED
  BY <1>1 DEF ReportInv

\* No dictionary is left out of the report: one failure, or as many reports as
\* its CMS has SignerInfos.
THEOREM EveryDictionaryIsReported == Spec => []EveryLocationIsReported
<1>1. ASSUME IInv, ReportInv PROVE EveryLocationIsReported
  <2> SUFFICES ASSUME phase = "done", NEW n \in DOMAIN out
               PROVE  Cardinality(Of(n)) = IF Rejected(out[n]) THEN 1 ELSE Len(pdf.cms[out[n]])
    BY DEF EveryLocationIsReported
  <2>1. PICK a \in Nat : Of(n) = (a + 1)..(a + Len(ReportsOf(out[n])))
    BY <1>1, AllReported DEF Reported, Of
  <2>2. Len(ReportsOf(out[n])) \in Nat
    BY <1>1, StatusesShape DEF IInv
  <2>3. Cardinality(Of(n)) = Len(ReportsOf(out[n]))
    <3>1. ASSUME NEW l \in Nat PROVE Cardinality((a + 1)..(a + l)) = l
      BY FS_Interval
    <3> QED
      BY <2>1, <2>2, <3>1
  <2>4. Len(<<"TotalFailedSub">>) = 1
    OBVIOUS
  <2> QED
    BY <2>3, <2>4 DEF ReportsOf, Rejected
<1> QED
  BY <1>1, ReportsHold, PTL

\* A total pass hides no dictionary and no SignerInfo that failed.
THEOREM PassIsHonest == Spec => []TotalPassIsHonest
<1>1. ASSUME IInv, ReportInv PROVE TotalPassIsHonest
  <2> SUFFICES ASSUME phase = "done", is_total_passed, NEW n \in DOMAIN out
               PROVE  /\ ~Rejected(out[n])
                      /\ \A s \in DOMAIN pdf.cms[out[n]] : pdf.cms[out[n]][s] = "TotalPassed"
    BY DEF TotalPassIsHonest
  <2>1. PICK a \in Nat :
          /\ {m \in DOMAIN reports : reports[m][1] = n} = (a + 1)..(a + Len(ReportsOf(out[n])))
          /\ \A j \in 1..Len(ReportsOf(out[n])) : reports[a + j][2] = ReportsOf(out[n])[j]
    BY <1>1, AllReported DEF Reported
  <2>2. Len(ReportsOf(out[n])) \in Nat /\ DOMAIN ReportsOf(out[n]) = 1..Len(ReportsOf(out[n]))
    BY <1>1, StatusesShape DEF IInv
  <2>3. ASSUME NEW j \in 1..Len(ReportsOf(out[n])) PROVE ReportsOf(out[n])[j] = "TotalPassed"
    <3>1. a + j \in (a + 1)..(a + Len(ReportsOf(out[n])))
      BY <2>2
    <3>2. a + j \in DOMAIN reports
      BY <2>1, <3>1
    <3> QED
      BY <2>1, <3>2 DEF is_total_passed
  <2>4. ~Rejected(out[n])
    <3> SUFFICES ASSUME Rejected(out[n]) PROVE FALSE
      OBVIOUS
    <3>1. ReportsOf(out[n]) = <<"TotalFailedSub">>
      BY DEF ReportsOf, Rejected
    <3>2. Len(<<"TotalFailedSub">>) = 1 /\ <<"TotalFailedSub">>[1] = "TotalFailedSub"
      OBVIOUS
    <3> QED
      BY <2>3, <3>1, <3>2
  <2>5. ReportsOf(out[n]) = pdf.cms[out[n]]
    BY <2>4 DEF ReportsOf, Rejected
  <2> QED
    BY <2>2, <2>3, <2>4, <2>5
<1> QED
  BY <1>1, ReportsHold, PTL
=============================================================================
