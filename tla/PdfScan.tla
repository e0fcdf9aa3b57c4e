------------------------------- MODULE PdfScan -------------------------------
(***************************************************************************)
(* eidas-pades: `find_signatures` looks for signature dictionaries in the  *)
(* bytes of a PDF, `verify_pades` hands each one to eidas-cades.           *)
(*                                                                         *)
(* A file is a record:                                                     *)
(*   text    what stands at each offset, from 1: offset o is text[o + 1].  *)
(*           "K" starts the keyword /ByteRange; "<" and ">" are themselves;*)
(*           "b" is a nonzero byte in hex, "0" a zero one; "x" is no hex   *)
(*   ranges  for the offset of a keyword, the four integers of the array   *)
(*           after it, or <<>> if there is no such array                   *)
(*   derEnd  for the offset of a keyword, where the CMS ends and the       *)
(*           padding of the placeholder begins                             *)
(*   filter  for the offset of a keyword, its SubFilter                    *)
(*   cms     for the offset of a keyword, what verify_cades returns for it:*)
(*           <<"Err">> or the statuses of its SignerInfos, maybe none      *)
(***************************************************************************)
EXTENDS Integers, Sequences, FiniteSets

CONSTANTS
  Files,      \* PDFs a caller may pass
  KeywordLen, \* length of /ByteRange
  MaxUsize    \* greatest value of usize

Length(f) == Len(f.text)
At(f, o) == f.text[o + 1]
Keywords(f) == {o \in 0..(Length(f) - 1) : At(f, o) = "K"}

ASSUME SizeAssumption == KeywordLen \in Nat \ {0} /\ MaxUsize \in Nat

\* A slice is never as long as the address space, and two occurrences of the
\* keyword never share a byte.
ASSUME FileAssumption ==
  \A f \in Files :
    /\ f.text \in Seq({"K", "<", ">", "b", "0", "x"}) /\ Length(f) < MaxUsize
    /\ f.ranges \in [Keywords(f) -> {<<>>} \cup [1..4 -> 0..MaxUsize]]
    /\ f.cms \in [Keywords(f) -> {<<"Err">>} \cup Seq({"TotalPassed", "TotalFailedSub"})]
    /\ \A o \in Keywords(f) : o + KeywordLen <= Length(f)
    /\ \A o, p \in Keywords(f) : o < p => o + KeywordLen <= p

VARIABLES
  pdf,      \* the file of this call
  phase,    \* "scan", "dispatch", "done" or "NoSignatures", the error
  cursor,   \* where the search goes on
  out,      \* offsets of the accepted keywords: byte_range_offset
  index,    \* the location dealt with next
  reports   \* <<location index, status>> of every report, in order

vars == <<pdf, phase, cursor, out, index, reports>>

----------------------------------------------------------------------------
(* One candidate.                                                          *)

Larger(x, y) == IF x >= y THEN x ELSE y
Least(S) == CHOOSE x \in S : \A y \in S : x <= y

Bad_saturating_add(x, y) == (x + y) % (MaxUsize + 1)

saturating_add(x, y) == IF x + y > MaxUsize THEN MaxUsize ELSE x + y

\* The gap between the two signed slices, and the offsets it occupies.
GapStart(r) == r[1] + r[2]

Bad_Gap(r) == r[1]..(r[3] - 1)

Gap(r) == GapStart(r)..(r[3] - 1)

\* The placeholder: the first "<" of the gap and the first ">" after it.
Opening(f, r) == {o \in Gap(r) : At(f, o) = "<"}
Closing(f, r) == {o \in Gap(r) : At(f, o) = ">" /\ o > Least(Opening(f, r))}
HexDigits(f, r) == (Least(Opening(f, r)) + 1)..(Least(Closing(f, r)) - 1)

\* Both slices lie inside the file, and a gap is left between them.
InFile(f, r) ==
  /\ saturating_add(r[1], r[2]) <= Length(f)
  /\ saturating_add(r[3], r[4]) <= Length(f)
  /\ GapStart(r) < r[3] /\ r[3] <= Length(f)

\* scan_one succeeds at keyword o.
scan_one(f, o) ==
  LET r == f.ranges[o] IN
  /\ r # <<>>
  /\ InFile(f, r)
  /\ Opening(f, r) # {} /\ Closing(f, r) # {}
  /\ \A h \in HexDigits(f, r) : At(f, h) \in {"b", "0"}

\* Padding is trimmed down to the first zero byte.
Bad_decoded_end(f, r) ==
  LET zeros == {h \in HexDigits(f, r) : At(f, h) = "0"} IN
  IF zeros = {} THEN Least(Closing(f, r)) ELSE Least(zeros)

\* Offset after the last byte decode_pdf_hex keeps: trailing zeros go.
decoded_end(f, r) ==
  LET kept == {h \in HexDigits(f, r) : At(f, h) # "0"} IN
  IF kept = {} THEN Least(HexDigits(f, r) \cup {Least(Closing(f, r))})
  ELSE 1 + CHOOSE h \in kept : \A g \in kept : g <= h

\* What signed_bytes concatenates.
SignedOffsets(r) == (r[1]..(r[1] + r[2] - 1)) \cup (r[3]..(r[3] + r[4] - 1))

Bad_NextCursor(r, o) == GapStart(r)

\* Where the search goes on after a dictionary was accepted.
NextCursor(r, o) == Larger(Larger(saturating_add(r[1], r[2]), r[3]), o + KeywordLen)

----------------------------------------------------------------------------
Init ==
  /\ pdf \in Files
  /\ phase = "scan" /\ cursor = 0 /\ out = <<>>
  /\ index = 1 /\ reports = <<>>

Hits == {o \in Keywords(pdf) : o >= cursor}

\* A rejected candidate stops the search.
Bad_ScanNext ==
  /\ phase = "scan" /\ Hits # {}
  /\ LET o == Least(Hits) IN
     IF scan_one(pdf, o)
       THEN /\ out' = Append(out, o)
            /\ cursor' = NextCursor(pdf.ranges[o], o)
       ELSE cursor' = Length(pdf) /\ UNCHANGED out
  /\ UNCHANGED <<pdf, phase, index, reports>>

\* One turn of the loop of find_signatures.
ScanNext ==
  /\ phase = "scan" /\ Hits # {}
  /\ LET o == Least(Hits) IN
     IF scan_one(pdf, o)
       THEN /\ out' = Append(out, o)
            /\ cursor' = NextCursor(pdf.ranges[o], o)
       ELSE cursor' = o + KeywordLen /\ UNCHANGED out
  /\ UNCHANGED <<pdf, phase, index, reports>>

ScanEnds ==
  /\ phase = "scan" /\ Hits = {}
  /\ phase' = IF out = <<>> THEN "NoSignatures" ELSE "dispatch"
  /\ UNCHANGED <<pdf, cursor, out, index, reports>>

is_supported_sub_filter(name) ==
  name \in {"none", "adbe.pkcs7.detached", "ETSI.CAdES.detached", "ETSI.RFC3161"}

Location == out[index]

\* Only the passing reports of a CMS are kept.
Bad_ReportsOf(o) ==
  IF ~is_supported_sub_filter(pdf.filter[o]) \/ pdf.cms[o] = <<"Err">>
    THEN <<"TotalFailedSub">> ELSE SelectSeq(pdf.cms[o], LAMBDA st : st = "TotalPassed")

\* Statuses of the reports one location leads to.
ReportsOf(o) ==
  IF ~is_supported_sub_filter(pdf.filter[o]) \/ pdf.cms[o] = <<"Err">>
    THEN <<"TotalFailedSub">> ELSE pdf.cms[o]

\* A location whose CMS could not be processed is skipped.
Bad_Dispatch ==
  /\ phase = "dispatch" /\ index <= Len(out)
  /\ LET statuses == IF pdf.cms[Location] = <<"Err">> THEN <<>> ELSE ReportsOf(Location) IN
     reports' = reports \o [n \in DOMAIN statuses |-> <<index, statuses[n]>>]
  /\ index' = index + 1
  /\ UNCHANGED <<pdf, phase, cursor, out>>

\* One turn of the loop of verify_pades.
Dispatch ==
  /\ phase = "dispatch" /\ index <= Len(out)
  /\ LET statuses == ReportsOf(Location) IN
     reports' = reports \o [n \in DOMAIN statuses |-> <<index, statuses[n]>>]
  /\ index' = index + 1
  /\ UNCHANGED <<pdf, phase, cursor, out>>

Return ==
  /\ phase = "dispatch" /\ index > Len(out)
  /\ phase' = "done"
  /\ UNCHANGED <<pdf, cursor, out, index, reports>>

Next == ScanNext \/ ScanEnds \/ Dispatch \/ Return

Spec == Init /\ [][Next]_vars

----------------------------------------------------------------------------
(* What the scan and the report are worth.                                 *)

TypeOK ==
  /\ pdf \in Files
  /\ phase \in {"scan", "dispatch", "done", "NoSignatures"}
  /\ cursor \in Nat
  /\ out \in Seq(Keywords(pdf))
  /\ index \in 1..(Len(out) + 1)
  /\ phase \in {"dispatch", "done"} => out # <<>>
  /\ reports \in Seq(Nat \X {"TotalPassed", "TotalFailedSub"})

\* scan.rs:45,91-101,133-134.  However large the integers of a ByteRange are,
\* the slices cut for an accepted one lie inside the file, they leave a gap
\* between them, and the search never goes on beyond the end of the file.
SlicesAreInBounds ==
  /\ cursor <= Length(pdf)
  /\ \A n \in DOMAIN out :
       LET r == pdf.ranges[out[n]] IN
       /\ r # <<>>
       /\ r[1] + r[2] < r[3] /\ r[3] + r[4] <= Length(pdf)

\* scan.rs:51-54,97-113.  The dictionaries accepted are found in file order and
\* each after the gap of those before it, so a signature is never counted
\* twice, nor is text inside the placeholder of an accepted one taken for a
\* dictionary.
AcceptedDoNotOverlap ==
  \A m, n \in DOMAIN out :
    m < n => /\ out[m] + KeywordLen <= out[n]
             /\ pdf.ranges[out[m]][3] <= out[n]

\* scan.rs:101-113,130-136.  The CMS is never part of the bytes it signs.
PlaceholderIsNotSigned ==
  \A n \in DOMAIN out :
    LET r == pdf.ranges[out[n]] IN
    r # <<>> =>
      HexDigits(pdf, r) \cap SignedOffsets(r) = {}

\* scan.rs:22-30.  A rejected candidate hides nothing.  Once the scan is over
\* the only well-formed dictionaries that were passed over are those that lie
\* after an accepted one and before the end of its gap.
MissedOnlyBehindAccepted ==
  phase # "scan" =>
    \A o \in Keywords(pdf) :
      scan_one(pdf, o) =>
        \/ \E n \in DOMAIN out : out[n] = o
        \/ \E n \in DOMAIN out :
             out[n] < o /\ o < pdf.ranges[out[n]][3]

\* The reports of location n.
Of(n) == {m \in DOMAIN reports : reports[m][1] = n}
Rejected(o) == pdf.cms[o] = <<"Err">> \/ ~is_supported_sub_filter(pdf.filter[o])

\* pades verify.rs:47-92.  Every dictionary found ends up in the report: by one
\* failure, or by a report for each SignerInfo of its CMS.  A CMS without a
\* SignerInfo is the only one that leaves no trace.
EveryLocationIsReported ==
  phase = "done" =>
    \A n \in DOMAIN out :
      Cardinality(Of(n)) = IF Rejected(out[n]) THEN 1 ELSE Len(pdf.cms[out[n]])

\* core report.rs:268-271
is_total_passed ==
  reports # <<>> /\ \A m \in DOMAIN reports : reports[m][2] = "TotalPassed"

\* report.rs:266-271, pades verify.rs:47-92.  A PDF that is totally passed has
\* no dictionary among those found whose CMS could not be processed, whose
\* SubFilter is unknown or one of whose SignerInfos failed.
TotalPassIsHonest ==
  (phase = "done" /\ is_total_passed) =>
    \A n \in DOMAIN out :
      /\ ~Rejected(out[n])
      /\ \A s \in DOMAIN pdf.cms[out[n]] : pdf.cms[out[n]][s] = "TotalPassed"

\* scan.rs:201-206.  Where the placeholder of a dictionary is read from its
\* start to behind its CMS, the contents lose padding and nothing else: they
\* are the CMS, but for the zero bytes it ends with itself.
TrimsOnlyZeros ==
  \A n \in DOMAIN out :
    LET r == pdf.ranges[out[n]]
        end == decoded_end(pdf, r)
        der == pdf.derEnd[out[n]] IN
    (out[n] < Least(Opening(pdf, r)) /\ der - 1 \in HexDigits(pdf, r)) =>
      /\ end <= der
      /\ \A o \in end..(der - 1) : At(pdf, o) = "0"
      /\ At(pdf, der - 1) # "0" => end = der

\* scan.rs:29-30.  Every turn of the scan moves the cursor forward.
CursorAdvances == [][phase = "scan" /\ phase' = "scan" => cursor' > cursor]_vars
=============================================================================
