----------------------------- MODULE CadesVerify -----------------------------
(***************************************************************************)
(* eidas-cades `verify_cades`: one report per SignerInfo of a CMS.  The    *)
(* model walks the statements of `verify_one_signer_inner` in their order, *)
(* one step per check, per token and per chain certificate, while the wall *)
(* clock runs.  A SignerInfo is the record of what those checks find:      *)
(*   faults   checks of the B-B core it does not survive                   *)
(*   tsts     signature-time-stamp tokens;  ats  archive-timestamp-v3      *)
(*   crls, ocsps   the entries of revocationValues                         *)
(*   chain    signer, ..., anchor;  from, to  the times at which it builds *)
(*   cutoff   the policy accepts the algorithm before this time            *)
(*   qcSscd   the signer certificate asserts QcSSCD                        *)
(* ChainBuilder chooses the chain without looking at the time, and the     *)
(* times it is valid at are an interval; AlgorithmPolicy accepts an        *)
(* algorithm up to a time (AcceptanceOnlyExpires).                         *)
(***************************************************************************)
EXTENDS Integers, Sequences, FiniteSets, Functions, Timestamp

CONSTANTS
  Envelopes,   \* the CMS inputs: sequences of SignerInfos
  Modes,       \* ValidationTime values: <<"Now">>, <<"At", t>>, <<"BestSignatureTime">>
  TrustLists,  \* settings of trusted_lists: {} for None, {services} for Some
  MaxNow,      \* bound: the wall clock stops here
  NoTime,      \* an absent time
  NoUpdate     \* an absent nextUpdate

R == INSTANCE Revocation
T == INSTANCE TrustService

ASSUME ClockAssumption == MaxNow \in Nat /\ NoTime \notin Int
ASSUME ModeAssumption ==
  \A m \in Modes : m[1] \in {"Now", "At", "BestSignatureTime"} /\ (m[1] = "At" => m[2] \in Int)
ASSUME EnvelopeAssumption ==
  \A e \in Envelopes :
    /\ e \in Seq(Range(e))
    /\ \A s \in Range(e) :
         /\ s.tsts \in Seq(Token(Int)) /\ s.ats \in Seq(Token(Int))
         /\ s.chain \in Seq(Range(s.chain)) /\ s.chain # <<>>

VARIABLES
  signers, mode, lists,   \* the call: SignerInfos, validation_time, trusted_lists
  now,                    \* the wall clock
  pc, k, i,               \* statement, current signer, loop index
  level, best, reference, \* locals: level, best_signature_time, reference_time
  timestamps,             \* locals: genTimes of the accepted tokens, by kind
  revocation,             \* locals: answers recorded, by chain position
  diagnostics,            \* locals: set of <<code, index>>
  reports                 \* reports pushed so far

call == <<signers, mode, lists>>
locals == <<level, best, reference, timestamps, revocation, diagnostics>>
vars == <<call, now, pc, k, i, locals, reports>>

\* Level, as the derived order compares it.
Unknown == 0
BB == 1
BT == 2
BLT == 3
BLTA == 4

CoreFaults ==
  {"unsignedAttrs", "signerCert", "signedAttrs", "messageDigest",
   "contentType", "signingCertificate", "signature", "algorithm"}

signer == signers[k]

----------------------------------------------------------------------------
(* Helpers of the pipeline.                                                *)

\* Option::map_or(t, |cur| cur.max(t))
Latest(current, t) == IF current = NoTime \/ t > current THEN t ELSE current

\* ValidationTime::resolve; the clock is read here.
resolve(bestTime) ==
  CASE mode[1] = "At" -> mode[2]
    [] mode[1] = "Now" -> now
    [] mode[1] = "BestSignatureTime" -> IF bestTime = NoTime THEN now ELSE bestTime

has_lt_material == signer.crls # <<>> \/ signer.ocsps # <<>>

\* A failed report carries none of what was collected.
Failed ==
  [status |-> "TotalFailedSub", level |-> Unknown, qualification |-> "NotAdES",
   best |-> NoTime, reference |-> NoTime, timestamps |-> <<>>,
   revocation |-> <<>>, diagnostics |-> {<<"CADES_VERIFICATION_ERROR", 0>>}]

Collected(status, lvl, qualification, codes) ==
  [status |-> status, level |-> lvl, qualification |-> qualification,
   best |-> best, reference |-> reference, timestamps |-> timestamps,
   revocation |-> revocation, diagnostics |-> diagnostics \cup codes]

\* Push a report and go on to the next signer.
Push(report) ==
  /\ reports' = Append(reports, report)
  /\ k' = k + 1 /\ i' = 1 /\ pc' = "signer"
  /\ UNCHANGED <<call, now, locals>>

Go(to, index) == pc' = to /\ i' = index /\ UNCHANGED <<call, now, k, reports>>

----------------------------------------------------------------------------
Init ==
  /\ signers \in Envelopes /\ mode \in Modes /\ lists \in TrustLists
  /\ now = 0 /\ pc = "signer" /\ k = 1 /\ i = 1
  /\ level = Unknown /\ best = NoTime /\ reference = NoTime
  /\ timestamps = <<>> /\ revocation = <<>> /\ diagnostics = {}
  /\ reports = <<>>

Tick == now < MaxNow /\ now' = now + 1 /\ UNCHANGED <<call, pc, k, i, locals, reports>>

\* The best time of the previous signer is still there.
Bad_RunCore ==
  /\ pc = "signer" /\ k <= Len(signers)
  /\ IF signer.faults # {} THEN Push(Failed)
     ELSE /\ level' = BB /\ reference' = NoTime /\ UNCHANGED best
          /\ timestamps' = <<>> /\ revocation' = <<>> /\ diagnostics' = {}
          /\ Go("tst", 1)

\* The answers recorded for the previous signer are still there.
BadLeak_RunCore ==
  /\ pc = "signer" /\ k <= Len(signers)
  /\ IF signer.faults # {} THEN Push(Failed)
     ELSE /\ level' = BB /\ best' = NoTime /\ reference' = NoTime
          /\ timestamps' = <<>> /\ UNCHANGED revocation /\ diagnostics' = {}
          /\ Go("tst", 1)

\* Unsigned attributes, signer certificate, run_bb_core.  The locals are fresh.
RunCore ==
  /\ pc = "signer" /\ k <= Len(signers)
  /\ IF signer.faults # {} THEN Push(Failed)
     ELSE /\ level' = BB /\ best' = NoTime /\ reference' = NoTime
          /\ timestamps' = <<>> /\ revocation' = <<>> /\ diagnostics' = {}
          /\ Go("tst", 1)

Accept(kind, token) ==
  /\ best' = Latest(best, token.genTime)
  /\ timestamps' = Append(timestamps, [kind |-> kind, genTime |-> token.genTime])

\* One turn of the loop over the signature-time-stamps.
VerifySignatureTst ==
  /\ pc = "tst" /\ i <= Len(signer.tsts)
  /\ IF verify_time_stamp_token(signer.tsts[i])
       THEN Accept("signature", signer.tsts[i]) /\ level' = BT /\ UNCHANGED diagnostics
       ELSE /\ diagnostics' = diagnostics \cup {<<"SIGNATURE_TIMESTAMP_INVALID", i>>}
            /\ UNCHANGED <<level, best, timestamps>>
  /\ UNCHANGED <<reference, revocation>>
  /\ Go("tst", i + 1)

ResolveTime ==
  /\ pc = "tst" /\ i > Len(signer.tsts)
  /\ reference' = resolve(best)
  /\ UNCHANGED <<level, best, timestamps, revocation, diagnostics>>
  /\ Go("chain", 1)

\* A signer whose chain does not build is skipped, not reported.
Bad_BuildChain ==
  /\ pc = "chain"
  /\ IF signer.from <= reference /\ reference <= signer.to
       THEN Go("policy", 1) /\ UNCHANGED locals
       ELSE /\ k' = k + 1 /\ i' = 1 /\ pc' = "signer"
            /\ UNCHANGED <<call, now, locals, reports>>

BuildChain ==
  /\ pc = "chain"
  /\ IF signer.from <= reference /\ reference <= signer.to
       THEN Go("policy", 1) /\ UNCHANGED locals
       ELSE Push(Failed)

\* The policy is asked about the present instead of the reference time.
Bad_ApplyPolicy ==
  /\ pc = "policy"
  /\ IF now < signer.cutoff
       THEN Go(IF has_lt_material THEN "revocation" ELSE "ats", 1) /\ UNCHANGED locals
       ELSE Push(Collected("TotalFailedSub", Unknown, "NotAdES", {<<"ALG_POLICY_REJECTED", 0>>}))

ApplyPolicy ==
  /\ pc = "policy"
  /\ IF reference < signer.cutoff
       THEN Go(IF has_lt_material THEN "revocation" ELSE "ats", 1) /\ UNCHANGED locals
       ELSE Push(Collected("TotalFailedSub", Unknown, "NotAdES", {<<"ALG_POLICY_REJECTED", 0>>}))

\* What the embedded evidence says of chain certificate j of signer s.
AnswerFor(s, j, at) == R!Answer(s.crls, s.ocsps, s.chain[j], s.chain[j + 1], at)

\* The walk stops at the first certificate without evidence.
Bad_CheckRevocation ==
  /\ pc = "revocation" /\ i < Len(signer.chain)
  /\ LET answer == AnswerFor(signer, i, reference) IN
     IF answer.status = "none"
       THEN /\ diagnostics' = diagnostics \cup {<<"REVOCATION_NO_EVIDENCE", i>>}
            /\ UNCHANGED revocation /\ Go("revocation", Len(signer.chain))
       ELSE /\ revocation' = Append(revocation, [position |-> i, status |-> answer.status])
            /\ UNCHANGED diagnostics /\ Go("revocation", i + 1)
  /\ UNCHANGED <<level, best, reference, timestamps>>

\* One turn of the loop of apply_embedded_revocation; freshness is not read.
CheckRevocation ==
  /\ pc = "revocation" /\ i < Len(signer.chain)
  /\ LET answer == AnswerFor(signer, i, reference) IN
     IF answer.status = "none"
       THEN /\ diagnostics' = diagnostics \cup {<<"REVOCATION_NO_EVIDENCE", i>>}
            /\ UNCHANGED revocation
       ELSE /\ revocation' = Append(revocation, [position |-> i, status |-> answer.status])
            /\ UNCHANGED diagnostics
  /\ UNCHANGED <<level, best, reference, timestamps>>
  /\ Go("revocation", i + 1)

Recorded == {revocation[j].status : j \in DOMAIN revocation}

\* Embedded material lifts to B-LT whatever it says.
BadLift_JudgeRevocation ==
  /\ pc = "revocation" /\ i = Len(signer.chain)
  /\ IF "Revoked" \in Recorded
       THEN Push(Collected("TotalFailedSub", level, "NotAdES", {<<"REVOCATION_REVOKED", 0>>}))
       ELSE /\ level' = IF level >= BT THEN BLT ELSE level
            /\ UNCHANGED <<best, reference, timestamps, revocation, diagnostics>>
            /\ Go("ats", 1)

JudgeRevocation ==
  /\ pc = "revocation" /\ i = Len(signer.chain)
  /\ IF "Revoked" \in Recorded
       THEN Push(Collected("TotalFailedSub", level, "NotAdES", {<<"REVOCATION_REVOKED", 0>>}))
       ELSE /\ LET allGood == Recorded \subseteq {"Good"} IN
               /\ level' = IF allGood /\ level >= BT THEN BLT ELSE level
               /\ diagnostics' = IF allGood /\ level < BT
                                   THEN diagnostics \cup {<<"LT_MATERIAL_WITHOUT_TIMESTAMP", 0>>}
                                   ELSE diagnostics
            /\ UNCHANGED <<best, reference, timestamps, revocation>>
            /\ Go("ats", 1)

\* The level after an accepted archive timestamp; full: its imprint matched.
ArchiveLevel(full) ==
  IF level >= BLT \/ (full /\ level >= BT /\ has_lt_material) THEN BLTA ELSE level

ArchiveDiagnostics(full) == {<<"ATS_IMPRINT_NOT_VERIFIED", i>>}

\* A token that fails both checks is looked at again and again.
Bad_VerifyArchiveTst ==
  /\ pc = "ats" /\ i <= Len(signer.ats)
  /\ LET token == signer.ats[i]
         full == verify_time_stamp_token(token) IN
     /\ full \/ verify_ats_best_effort(token)
     /\ Accept("archive-v3", token)
     /\ level' = ArchiveLevel(full)
     /\ diagnostics' = diagnostics \cup ArchiveDiagnostics(full)
  /\ UNCHANGED <<reference, revocation>>
  /\ Go("ats", i + 1)

\* One turn of the loop over the archive timestamps: the full check against
\* the raw signature value, then the reduced one.
VerifyArchiveTst ==
  /\ pc = "ats" /\ i <= Len(signer.ats)
  /\ LET token == signer.ats[i]
         full == verify_time_stamp_token(token) IN
     IF full \/ verify_ats_best_effort(token)
       THEN /\ Accept("archive-v3", token)
            /\ level' = ArchiveLevel(full)
            /\ diagnostics' = diagnostics \cup ArchiveDiagnostics(full)
       ELSE /\ diagnostics' = diagnostics \cup {<<"ATS_INVALID", i>>}
            /\ UNCHANGED <<level, best, timestamps>>
  /\ UNCHANGED <<reference, revocation>>
  /\ Go("ats", i + 1)

\* AdES without trusted lists, else what the engine says at the given time.
apply_qualification(s, at) ==
  IF lists = {} THEN "AdES"
  ELSE T!qualify_signer(CHOOSE l \in lists : TRUE, s.chain, s.qcSscd, at, "AdES")

Finish ==
  /\ pc = "ats" /\ i > Len(signer.ats)
  /\ Push(Collected("TotalPassed", level, apply_qualification(signer, reference), {}))

Return ==
  /\ pc = "signer" /\ k > Len(signers)
  /\ pc' = "done"
  /\ UNCHANGED <<call, now, k, i, locals, reports>>

Step ==
  \/ RunCore \/ VerifySignatureTst \/ ResolveTime \/ BuildChain \/ ApplyPolicy
  \/ CheckRevocation \/ JudgeRevocation \/ VerifyArchiveTst \/ Finish \/ Return

Next == Step \/ Tick

\* One thread runs the call to its end; the clock need not advance.
Spec == Init /\ [][Next]_vars /\ WF_vars(Step)

----------------------------------------------------------------------------
(* What a report is worth.                                                 *)

Statuses == {"TotalPassed", "TotalFailedSub"}
Qualifications == {"NotAdES", "AdES", "AdESqc", "QES"}

\* Types, and the bookkeeping of the loop of verify_cades (verify.rs:75-84):
\* every signer dealt with so far has a report.
TypeOK ==
  /\ mode \in Modes
  /\ now \in 0..MaxNow
  /\ pc \in {"signer", "tst", "chain", "policy", "revocation", "ats", "done"}
  /\ k \in 1..(Len(signers) + 1) /\ i \in Nat \ {0}
  /\ pc \notin {"signer", "done"} => k <= Len(signers)
  /\ level \in Unknown..BLTA
  /\ best \in Int \cup {NoTime} /\ reference \in Int \cup {NoTime}
  /\ Len(reports) = k - 1
  /\ \A s \in DOMAIN reports :
       /\ reports[s].status \in Statuses
       /\ reports[s].level \in Unknown..BLTA
       /\ reports[s].qualification \in Qualifications

Passed(s) == reports[s].status = "TotalPassed"
NonAnchors(s) == 1..(Len(signers[s].chain) - 1)
HasMaterial(s) == signers[s].crls # <<>> \/ signers[s].ocsps # <<>>
FullTsts(s) == {j \in DOMAIN signers[s].tsts : verify_time_stamp_token(signers[s].tsts[j])}
UsableAts(s) ==
  {j \in DOMAIN signers[s].ats :
     verify_time_stamp_token(signers[s].ats[j]) \/ verify_ats_best_effort(signers[s].ats[j])}
StatusOf(s, j) == AnswerFor(signers[s], j, reports[s].reference).status

\* verify.rs:133-322, docs/05-verification-levels.md:14-36.  The level of a
\* passing report is earned by the evidence in the signature itself: B-T by a
\* signature timestamp that passed every check, B-LT by revocation material
\* none of whose answers is other than Good, B-LTA by an archive timestamp on
\* top of that, or of material whose answers left a certificate unknown.  And
\* a B-LTA report always says that the imprint of an archive timestamp was not
\* recomputed (docs/08-security-model.md:129-130).
LevelIsEarned ==
  \A s \in DOMAIN reports : Passed(s) =>
    LET lvl == reports[s].level
        noneBad == \A j \in NonAnchors(s) : StatusOf(s, j) \in {"Good", "none"} IN
    /\ lvl >= BB
    /\ lvl >= BT <=> FullTsts(s) # {}
    /\ lvl >= BLT => HasMaterial(s)
    /\ lvl = BLT => noneBad
    /\ lvl = BLTA =>
         /\ UsableAts(s) # {}
         /\ noneBad \/ \E j \in UsableAts(s) : verify_time_stamp_token(signers[s].ats[j])
         /\ \E d \in reports[s].diagnostics : d[1] = "ATS_IMPRINT_NOT_VERIFIED"

\* verify.rs:794-830.  Where revocation material is embedded, a passing report
\* accounts for every certificate below the anchor exactly once: by the answer
\* found for it or by a REVOCATION_NO_EVIDENCE warning.
EvidenceIsAccountedFor ==
  \A s \in DOMAIN reports : (Passed(s) /\ HasMaterial(s)) =>
    \A j \in NonAnchors(s) :
      LET recorded == {n \in DOMAIN reports[s].revocation : reports[s].revocation[n].position = j} IN
      IF StatusOf(s, j) = "none"
        THEN recorded = {} /\ <<"REVOCATION_NO_EVIDENCE", j>> \in reports[s].diagnostics
        ELSE /\ <<"REVOCATION_NO_EVIDENCE", j>> \notin reports[s].diagnostics
             /\ Cardinality(recorded) = 1
             /\ \A n \in recorded : reports[s].revocation[n].status = StatusOf(s, j)

\* Whether m is the greatest of times, or NoTime if there are none.
IsLatest(m, times) ==
  IF times = {} THEN m = NoTime ELSE m \in times /\ \A t \in times : t <= m

TstTimes(s) == {signers[s].tsts[j].genTime : j \in FullTsts(s)}
AtsTimes(s) == {signers[s].ats[j].genTime : j \in UsableAts(s)}

\* verify.rs:132-160,277-300, docs/05-verification-levels.md:94.  The best
\* signature time of a passing report is the latest time of this signer's
\* accepted tokens, of no other signer's, and with BestSignatureTime the
\* reference time is the latest of the signature timestamps.
BestTimeIsLatest ==
  \A s \in DOMAIN reports : Passed(s) =>
    /\ IsLatest(reports[s].best, TstTimes(s) \cup AtsTimes(s))
    /\ (mode[1] = "BestSignatureTime" /\ TstTimes(s) # {}) =>
         IsLatest(reports[s].reference, TstTimes(s))

\* verify.rs:160-198,325-326, docs/08-security-model.md:64-71,79-83.  Chain,
\* algorithm policy and qualification of a passing report all hold at its one
\* reference time, however far the clock moved meanwhile.
ChecksShareReferenceTime ==
  \A s \in DOMAIN reports : Passed(s) =>
    LET at == reports[s].reference IN
    /\ signers[s].from <= at /\ at <= signers[s].to
    /\ at < signers[s].cutoff
    /\ reports[s].qualification = apply_qualification(signers[s], at)

\* The times the caller's choice admits for signer s: the clock is read some
\* time during the call, and the best time is that of its own tokens.
Admissible(choice, s) ==
  LET times == {token.genTime : token \in {x \in Range(s.tsts) : verify_time_stamp_token(x)}} IN
  IF choice[1] = "At" THEN {choice[2]}
  ELSE IF choice[1] = "Now" \/ times = {} THEN 0..MaxNow
  ELSE {t \in times : IsLatest(t, times)}

\* What entitles a signer to pass at a time, whatever the other signers are.
Merits(s, t) ==
  /\ s.faults = {}
  /\ s.from <= t /\ t <= s.to /\ t < s.cutoff
  /\ (s.crls # <<>> \/ s.ocsps # <<>>) =>
       \A j \in 1..(Len(s.chain) - 1) : AnswerFor(s, j, t).status # "Revoked"

verdicts == [s \in DOMAIN reports |-> IF Passed(s) THEN reports[s].reference ELSE NoTime]
Verdicts == INSTANCE SignatureVerdicts WITH Entitled <- Merits

\* verify.rs:75-103,204-241.  The pipeline implements SignatureVerdicts: a
\* signer passes on its own merits at one time the caller's choice admits,
\* never over a Revoked answer, the signers before it neither help nor harm
\* it, and a report once pushed stays as it is.
ImplementsVerdicts == Verdicts!VerdictSpec

\* Every call returns.
CallReturns == <>(pc = "done")

----------------------------------------------------------------------------
(* Statements of the documentation, as it makes them.                      *)

\* docs/05-verification-levels.md:131-133: B-LT requires evidence that proves
\* non-revocation of every non-anchor chain certificate.
DocBltCoversEveryCertificate ==
  \A s \in DOMAIN reports : (Passed(s) /\ reports[s].level = BLT) =>
    \A j \in NonAnchors(s) : StatusOf(s, j) = "Good"

\* docs/08-security-model.md:72: in a passing report no revocation evidence
\* shows revocation.
DocNoEvidenceShowsRevocation ==
  \A s \in DOMAIN reports : Passed(s) =>
    \A j \in NonAnchors(s), n \in DOMAIN signers[s].crls :
      R!CrlAccepted(signers[s].crls[n], signers[s].chain[j + 1]) =>
        signers[s].chain[j].serial \notin signers[s].crls[n].revoked
=============================================================================
