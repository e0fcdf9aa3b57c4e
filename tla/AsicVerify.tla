----------------------------- MODULE AsicVerify -----------------------------
(***************************************************************************)
(* eidas-asic `verify_asic`: the entries of a ZIP container are sorted     *)
(* into signatures and data files, then each signature is tried against    *)
(* the data files, one call of verify_cades a step.                        *)
(*                                                                         *)
(* An entry is [kind, opens, readable, utf8]; kind is what its name makes  *)
(* of it: "dir", "mimetype", "signature" (META-INF/, a CAdES signature     *)
(* name), "meta" (anything else under META-INF/) or "data".  opens: the    *)
(* archive gives access to it; readable: its bytes can be read to the end; *)
(* utf8: they are UTF-8.                                                   *)
(* verdict[s, d] is what verify_cades returns for the signature and the    *)
(* data file at entries s and d: <<"Err">>, or the statuses of the         *)
(* SignerInfos.                                                            *)
(***************************************************************************)
EXTENDS Integers, Sequences, FiniteSets, Functions

CONSTANTS Containers   \* [entries, verdict]: the containers a caller may pass

ASSUME ContainerAssumption ==
  \A c \in Containers :
    /\ c.entries \in Seq(Range(c.entries))
    /\ \A s, d \in DOMAIN c.entries :
         (c.entries[s].kind = "signature" /\ c.entries[d].kind = "data") =>
           c.verdict[<<s, d>>] \in Seq(Range(c.verdict[<<s, d>>]))

VARIABLES
  container,
  phase,        \* "collect", "verify", "done" or "ZipError"
  next,         \* entry read next, then index of the current signature
  signatures,   \* entries collected as signatures
  data_files,   \* entries collected as data
  tried,        \* data files the current signature was tried against
  last_failure, \* the failure kept for the current signature, or NoFailure
  reports       \* reports pushed so far

vars == <<container, phase, next, signatures, data_files, tried, last_failure, reports>>

NoFailure == [code |-> "none"]
Entry(e) == container.entries[e]
Verdict(s, d) == container.verdict[<<s, d>>]

Report(s, d, st, c) == [signature |-> s, data |-> d, status |-> st, code |-> c]

----------------------------------------------------------------------------
Init ==
  /\ container \in Containers
  /\ phase = "collect" /\ next = 1
  /\ signatures = <<>> /\ data_files = <<>>
  /\ tried = 0 /\ last_failure = NoFailure /\ reports = <<>>

\* The lists with entry e sorted in.
Sort(e) ==
  /\ signatures' = IF Entry(e).kind = "signature" THEN Append(signatures, e) ELSE signatures
  /\ data_files' = IF Entry(e).kind = "data" THEN Append(data_files, e) ELSE data_files

\* Directories are opened and not read.
Unusable(e) ==
  \/ ~Entry(e).opens
  \/ Entry(e).kind # "dir" /\ ~Entry(e).readable
  \/ Entry(e).kind = "mimetype" /\ ~Entry(e).utf8

\* One turn of the loop of collect_entries.
Collect ==
  /\ phase = "collect" /\ next <= Len(container.entries)
  /\ next' = next + 1
  /\ IF Unusable(next)
       THEN phase' = "ZipError" /\ UNCHANGED <<signatures, data_files>>
       ELSE Sort(next) /\ UNCHANGED phase
  /\ UNCHANGED <<container, tried, last_failure, reports>>

CollectEnds ==
  /\ phase = "collect" /\ next > Len(container.entries)
  /\ phase' = IF signatures = <<>> \/ data_files = <<>> THEN "ZipError" ELSE "verify"
  /\ next' = 1
  /\ UNCHANGED <<container, signatures, data_files, tried, last_failure, reports>>

sig_name == signatures[next]
data_name == data_files[tried + 1]
Passing(v) == {n \in DOMAIN v : v[n] = "TotalPassed"}
PassingReports(v) ==
  [n \in 1..Cardinality(Passing(v)) |-> Report(sig_name, data_name, "TotalPassed", "CADES")]

\* On to the next signature.
NextSignature == next' = next + 1 /\ tried' = 0 /\ last_failure' = NoFailure

\* The first failure is kept, not the last.
Bad_FailureOf(v, kept) ==
  IF kept # NoFailure THEN kept
  ELSE IF v = <<"Err">>
    THEN Report(sig_name, data_name, "TotalFailedSub", "ASIC_CADES_DISPATCH_FAILED")
  ELSE IF \E n \in DOMAIN v : v[n] # "TotalPassed"
    THEN Report(sig_name, data_name, "TotalFailedSub", "CADES")
  ELSE kept

\* The failure kept for a pair: the last failing signer, or the error.
FailureOf(v, kept) ==
  IF v = <<"Err">> THEN Report(sig_name, data_name, "TotalFailedSub", "ASIC_CADES_DISPATCH_FAILED")
  ELSE IF \E n \in DOMAIN v : v[n] # "TotalPassed"
    THEN Report(sig_name, data_name, "TotalFailedSub", "CADES")
  ELSE kept

\* Trying goes on with the other data files after a match.
Bad_TryPair ==
  /\ phase = "verify" /\ next <= Len(signatures) /\ tried < Len(data_files)
  /\ LET v == Verdict(sig_name, data_name) IN
     /\ reports' = reports \o PassingReports(v)
     /\ tried' = tried + 1 /\ last_failure' = FailureOf(v, last_failure) /\ UNCHANGED next
  /\ UNCHANGED <<container, phase, signatures, data_files>>

\* verify_cades on one signature and one data file.  Passing signers are
\* pushed; with one of them the signature is matched and the rest dropped.
TryPair ==
  /\ phase = "verify" /\ next <= Len(signatures) /\ tried < Len(data_files)
  /\ LET v == Verdict(sig_name, data_name) IN
     IF Passing(v) # {}
       THEN reports' = reports \o PassingReports(v) /\ NextSignature
       ELSE /\ tried' = tried + 1
            /\ last_failure' = FailureOf(v, last_failure)
            /\ UNCHANGED <<next, reports>>
  /\ UNCHANGED <<container, phase, signatures, data_files>>

\* Only a failure that was kept is reported.
Bad_Unmatched ==
  /\ phase = "verify" /\ next <= Len(signatures) /\ tried = Len(data_files)
  /\ reports' = IF last_failure = NoFailure THEN reports ELSE Append(reports, last_failure)
  /\ NextSignature
  /\ UNCHANGED <<container, phase, signatures, data_files>>

\* No data file matched: the kept failure is reported, if there is one.
Unmatched ==
  /\ phase = "verify" /\ next <= Len(signatures) /\ tried = Len(data_files)
  /\ reports' = Append(reports,
       IF last_failure # NoFailure THEN last_failure
       ELSE Report(sig_name, 0, "TotalFailedSub", "ASIC_SIGNATURE_UNMATCHED"))
  /\ NextSignature
  /\ UNCHANGED <<container, phase, signatures, data_files>>

Return ==
  /\ phase = "verify" /\ next > Len(signatures)
  /\ phase' = "done"
  /\ UNCHANGED <<container, next, signatures, data_files, tried, last_failure, reports>>

Next == Collect \/ CollectEnds \/ TryPair \/ Unmatched \/ Return

Spec == Init /\ [][Next]_vars

----------------------------------------------------------------------------
Entries(kind) == {e \in DOMAIN container.entries : Entry(e).kind = kind}
Of(s) == {n \in DOMAIN reports : reports[n].signature = s}
PassingSigners(s, d) == Cardinality(Passing(Verdict(s, d)))

\* Types; and no result is returned when an entry could not be read.
TypeOK ==
  /\ container \in Containers
  /\ phase \in {"collect", "verify", "done", "ZipError"}
  /\ next \in Nat \ {0} /\ tried \in 0..Len(data_files)
  /\ signatures \in Seq(Entries("signature")) /\ data_files \in Seq(Entries("data"))
  /\ phase \in {"verify", "done"} =>
       /\ signatures # <<>> /\ data_files # <<>>
       /\ \A e \in DOMAIN container.entries : ~Unusable(e)

\* asic verify.rs:46-90.  Every signature entry of the container has reports:
\* passing ones only, or a single failure.
EverySignatureIsReported ==
  phase = "done" =>
    \A s \in Entries("signature") :
      /\ Of(s) # {}
      /\ (\E n \in Of(s) : reports[n].status # "TotalPassed") => Cardinality(Of(s)) = 1

\* asic verify.rs:20-22,49-79.  A signature is bound to one data file, the
\* first in the container that one of its signers passes for, with a report
\* for each signer that does; it fails only if none of its signers passes for
\* any data file.
BoundToFirstMatch ==
  phase = "done" =>
    \A s \in Entries("signature") :
      LET matches == {d \in Entries("data") : PassingSigners(s, d) > 0} IN
      IF matches = {}
        THEN \A n \in Of(s) : reports[n].status = "TotalFailedSub"
        ELSE /\ \A n \in Of(s) :
                  /\ reports[n].status = "TotalPassed"
                  /\ reports[n].data \in matches
                  /\ \A d \in matches : reports[n].data <= d
             /\ \A n \in Of(s) : Cardinality(Of(s)) = PassingSigners(s, reports[n].data)

\* asic verify.rs:47-88.  A failure that is reported is one of the signature
\* it is filed under: it comes from the last data file that gave one.
FailureIsItsOwn ==
  \A n \in DOMAIN reports :
    LET r == reports[n] IN
    (r.status = "TotalFailedSub" /\ r.data # 0) =>
      /\ Verdict(r.signature, r.data) # <<>>
      /\ \A d \in Entries("data") : d > r.data => Verdict(r.signature, d) = <<>>
      /\ r.code = "ASIC_CADES_DISPATCH_FAILED" <=> Verdict(r.signature, r.data) = <<"Err">>
=============================================================================
