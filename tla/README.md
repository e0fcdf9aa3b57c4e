# A verification project for eidas-verify

eidas-verify is a family of Rust crates that validate eIDAS signatures: CAdES,
PAdES, ASiC, JAdES and XAdES, with embedded timestamps, revocation evidence and
EU trusted lists. It is a library of sequential pipelines: nothing runs in
parallel, nothing is stored and nothing is fetched. What is hard about it is
*order*: which evidence is looked at first, at which time it is judged, which
of several candidates is taken, and what a failing part does to the rest.

This directory holds TLA+ modules translated from `src/crates/`, TLC runs that
check them on small instances, and TLAPS proofs of what holds for every
instance. Paths below are relative to `src/crates/`.

## Inventory

| Part | State | Operations | Talks to | What makes it correct |
|---|---|---|---|---|
| Chain builder, `eidas-x509/src/chain.rs` | anchor and intermediate pools; within `build` the path, the used set, diagnostics | `push_anchor`, `push_intermediate`, `build` | called by every format and by the timestamp check | a returned path is linked, in its validity at the time, bounded, ends at an anchor; the call returns on any pool |
| Algorithm policy, `eidas-core/src/algorithm.rs` | three maps (permitted, forbidden, sunsets), four minimum strengths | `permit`, `forbid`, `sunset`, field writes, `evaluate` | every format, the ETSI table | one rule per algorithm whatever the order of calls; tightening accepts nothing new |
| ETSI table, `eidas-policy` | none | a fixed policy | the facade's default | RSA of 2048 bits ends with 2028, in every format |
| CAdES pipeline, `eidas-cades` | locals of a signer: level, best time, reference time, timestamps, answers, diagnostics; the reports | `verify_cades` | all parts below | a level is earned, signers are independent, checks share one time, a verdict follows from the signer's own evidence |
| Revocation, `eidas-revocation` | none | `verify_crl`, `verify_ocsp` | CAdES | an answer comes from an authorised issuer and is about the certificate asked for |
| Timestamps, `eidas-timestamp` | none | `verify_time_stamp_token` | CAdES, chain builder | only an intact token of a TSA counts |
| Trusted-list parser, `eidas-trust/src/parse.rs` | the pile of parse functions with their locals | `parse_trusted_list` | qualification | a list is read as published, or refused; a cut one does little harm |
| Trusted lists and qualification, `eidas-trust`, `eidas-qualify` | the parsed lists | `status_at`, `qualification_for`, `qualify_signer` | CAdES | the status of the past is the one that was in force |
| CMS helpers, `eidas-cms` | none | `verify_cades_bb`, digest, attribute and signature checks | CAdES, timestamps, PAdES | the second copy of the B-B checks agrees with the first |
| PAdES, `eidas-pades` | cursor and signatures found | `find_signatures`, `scan_one`, `verify_pades` | CAdES | every slice is in the file, no signature is hidden by a rejected hit, none goes unreported |
| ASiC, `eidas-asic` | entries, kept failure, reports | `verify_asic` | CAdES | a signature is bound to one file, every one is reported with its own failure |
| JAdES, `eidas-jades` | one signature at a time | `verify_jades` | chain builder, policy | what passes was signed as it is, under a chain of configured or embedded certificates |
| XAdES and canonicalisation, `eidas-xades` | one signature at a time; stack of rendered namespaces | `parse_xml_signature`, `canonicalise_*`, `verify_xades` | chain builder, policy | three readings of one document speak of the same signature |
| Facade, `eidas-verify` | a built `Verifier`, its certificates held twice | builder calls, `build`, `verify` | all formats | each input reaches its pipeline with the same trust and time; calls leave no trace |

They interact by calls and by two kinds of shared values: the reference time
(`ValidationTime::resolve`) and the list of reports. The clock is the only
thing that changes by itself.

The hard behaviours, each listed under `hazards` in `PROJECT.json` at its line:
evidence and candidates of which the first is taken; times resolved before all
timestamps were read, once per signer; a level raised in three stages; greedy
path building over pools with cycles; sums of offsets taken from a file; a
cursor that jumps; failures of one signer, token, entry or pairing among
several; status histories in any order; two copies of one sequence of checks
and of one list of certificates; certificates a signature brings along; one XML
document read in three ways; a list whose transfer ends early.

## Modules

| Module | Models | How its state and actions correspond |
|---|---|---|
| `ChainBuilder` | `chain.rs` | pools as sequences; `build` starts a call, `Iterate` is one turn of the loop: `ReachAnchor`, `ExtendByIntermediate`, `ExtendByAnchor` or `NoIssuer`, each with the checks of `Link` in their order |
| `AlgorithmPolicy` | `algorithm.rs` | the maps and floors; one action per setter, `evaluate` an operator |
| `PolicyRules` | what the policy promises | one rule per algorithm: the last of permit and forbid, and the sunset set since |
| `Revocation`, `Timestamp`, `TrustService` | `crl.rs`, `ocsp.rs`, `tst.rs`, `model.rs`, `qualify.rs`, `engine.rs` | pure operators over evidence, tokens and services |
| `CadesVerify` | `eidas-cades/src/verify.rs` | composes the three above; `pc` is the statement, one action per check, token and chain certificate; `Tick` is the clock |
| `SignatureVerdicts` | what `verify_cades` promises | signers judged one after the other, each at one admissible time; it passes exactly if it is entitled to then |
| `TrustHistory` | editions of the trusted lists | the operator changes status, certificates, type or qualifiers of a service (`Publish`, external); the log kept beside the list is what `status_at` should answer |
| `TslParser` | `eidas-trust/src/parse.rs` | `stack` is the pile of functions called, `data` their locals; one action per kind of event |
| `TslReading` | a relying party that loads an edition | composes `TrustHistory` and `TslParser`; `Document` writes an edition as XML (external), `Cut` ends the transfer |
| `CmsBaseline` | `eidas-cms/src/cades.rs`, `signature_verify.rs` and `run_bb_core` | both pipelines walk their checks over one signer |
| `PdfScan` | `scan.rs`, `eidas-pades/src/verify.rs` | a file of symbols with offsets; `ScanNext` is one turn of the loop, `Dispatch` one call of `verify_cades` |
| `AsicVerify` | `eidas-asic/src/verify.rs` | `Collect` reads an entry, `TryPair` is one call of `verify_cades`, `Unmatched` the end of the inner loop |
| `XmlSignature` | `eidas-xades/src/parse.rs`, `c14n.rs`, `find_tag` of `verify.rs` | operators over a document's events, CDATA, comments, instructions and tags spelled in raw text (`spells`) included; the Recommendation's canonical form (`Canonical`) beside the code's; `Narrow` is where the two agree and `CutIsParsed` where the SignedInfo cut out is the one parsed |
| `Verifier` | `eidas-verify`, `eidas-policy`, `eidas-jades`, `verify.rs` of `eidas-xades` | builder calls and `build`, then any number of calls of `verify`; `pc` is the statement of the call |
| `MC...` | instances for TLC | constants only |
| `...Proofs` | theorems | one each for `ChainBuilder`, `PdfScan`, `CadesVerify`, `TrustHistory` with the parser, `AsicVerify` and `Verifier`; `AlgorithmProofs` for `AlgorithmPolicy` and `CmsBaseline`; `SequenceLemmas` has what they share |

An operator whose name begins with `Bad` stands beside the definition it is a
plausible slip of. Nothing else refers to it: it replaces that definition when
one wants to see that a property really depends on the code.

**What composes what.** `Verifier` instantiates `ChainBuilder` on the pools of
the call and `AlgorithmPolicy` on the verifier's maps: chains are built there
step by step, embedded certificates included, and never assumed. Of the CMS
formats it has the path of one signer without evidence. `CadesVerify` has the
rest, and uses chain and policy as facts of a signer: a chain with the interval
of times at which it is valid, and a time up to which the policy accepts.
`chain.rs` picks issuers without looking at the time, which justifies the first;
`AcceptanceExpiresOnce` (proved in `AlgorithmProofs`) the second.
`PdfScan` and `AsicVerify` see `verify_cades` as the list of statuses it
returns, or an error: `SignatureVerdicts`, which `CadesVerify` implements, is
that list. `CmsBaseline` opens what `CadesVerify` calls `faults`. `TslReading`
runs the parser on what `TrustHistory` publishes and gives the result to the
operators of `TrustService`.

**Abstractions.** Certificates, tokens, CRLs and OCSP responses are records of
the fields the code compares. A signature is a term, key, method and what was
signed, and verifies if the terms are equal; a digest likewise. DER, base64,
JSON and ZIP decoding, names and texts are left out; where a decoding error
changes control it is a value of a field. An XML document is the sequence of
events its reader makes, each with the namespaces it declares and the one
attribute a rule reads; `spells` holds the tags that stand in the raw text of a
comment, instruction, CDATA section or attribute, where the byte search of
`find_tag` meets them like any others. Times are small integers.

## Runs

| Run | Question | States |
|---|---|---|
| `chain` | what does a returned chain look like, is a dead end justified, does every call return | 84 000 |
| `policy` | do the maps implement one rule per algorithm, in any order of calls | 14 000 |
| `cades` | are level, verdict and times of each report right for every mixture of evidence, do two signers stay apart while the clock runs, is `SignatureVerdicts` implemented | 276 000 |
| `verifier` | is what passes justified and does what should pass, in every format and on every call, does every call return | 333 000 |
| `trust_history` | is a list read as published, is the status of the past the one that was in force, what of a verdict on the past may a later edition change, what does a cut list change | 249 000 |
| `cms_baseline` | do the two copies of the B-B checks agree, does anything pass that has no SHA-2 signature | 139 000 |
| `pdf_scan` | is anything read outside the file, missed or left unreported | 1 500 |
| `asic` | is each signature bound to its file and reported with its own failure | 5 900 |

Bounds, and why they are enough:

- `chain`: at most 2 anchors and 3 intermediates out of 9 certificates, paths
  of at most 3. The pool holds an anchor known by two certificates, a
  cross-certified root, an anchor and a CA of one name and two keys, two CAs of
  one name, one that expires, one that is no
  CA and a cycle of two: each of the loop's decisions needs at most two
  competing candidates, and the limit is met by the cycle.
- `policy`: three algorithms on either side of each minimum, three instants.
  A rule concerns one algorithm, and `evaluate` compares one sunset.
- `cades`: a chain of three (two certificates to answer for), up to two
  tokens of each kind, up to two CRLs and OCSP responses, ordered so that a
  bad one comes first; a clock of three instants. One signer has every
  combination of these; two signers have every pair of the cases in which a
  local of the first could reach the second. The loops carry only a maximum, a
  level and the list of answers, so two elements show their orders.
- `verifier`: up to three calls on the builder and two of `verify`
  (`MaxBuilderCalls`, `MaxCalls`): the first call is the only one that can
  spoil the second. Nine certificates: a root and its earlier edition, two that
  share a name, one known only to the signature, one named like its issuer;
  twenty-nine documents in every format; `End2028` is the one tick of the clock.
  Of the XML ones, some have comments, CDATA or an interrupted value, one quotes
  its SignedInfo in a comment, one was countersigned, and three are genuine and
  outside `Narrow`.
- `trust_history`: two editions after the first, three instants, two services
  that can take over each other's keys and be put under each other's type and
  qualifiers: enough for a history of three with two periods that begin
  together. Editions with at most one change are also loaded and read
  (`MaxLoaded`): services of one provider or one each, an undecodable
  certificate at a pointer or in a service, the qualifiers of a service, and the
  document cut off after every event, within every text and within every tag.
  A provider of two services is read with success.
- `pdf_scan`: files of 11 to 16 symbols with one to three keywords and zero
  bytes within, behind and at the end of a CMS; `MaxUsize`
  is 17, so that sums of offsets overflow. Nine byte ranges, right, shifted,
  empty, reversed, too long and at the end of the range.
- `asic`: two signatures, two data files, up to two signers each.
- `cms_baseline`: no bound on time; a sound signer with up to two facts changed,
  and the full product of signature OIDs, keys, digests and policies.

CHECK_DEADLOCK is off where a call returns and the model ends; `chain` and
`policy` go on for ever and are checked for deadlock.

**Fairness.** `ChainBuilder` and `CadesVerify` assume weak fairness of the next
step of the loop, `Verifier` of the next step of a call (`Step`), `TslReading`
of the parser's (`Read`): sequential code that is not descheduled for ever.
Nobody need call, publish or cut anything, and the clock need not move. The
other modules state no liveness: `CursorAdvances` gives the end of the PDF
scan, and the two loops of ASiC are over finite lists.

### What the properties of the facade leave out

- `PassIsJustified` says of a passing document that it says what was signed. For
  JWS and CMS there is one reading of it. For XML it is claimed only where the
  SignedInfo found in the bytes is the one the parser reads (`CutIsParsed`);
  `doc_signed_info_cut` shows that this is not every document of the profile.
  What the document says is its canonical form: comments, instructions and other
  Signature elements are no part of it. For CMS the policy is asked about the
  digest algorithm, as the code does, whatever hash the signature was made with.
- `GenuinePasses` is about documents that are `Plain`: for XML, those on which
  the Recommendation and the code's three readings agree (`Narrow`, worked out
  from the document's events) and which follow the profile with one certificate.
  The genuine documents outside it are in the instance too, and fail there.
- `FormatsAgree` compares two `Plain` documents that bring no issuers: one
  verdict, and one chain when they pass. A CMS rejected by the policy reports
  its chain, a JWS or XML document none.
- `PastIsStable` says that a later edition neither refuses a signer for the past
  nor clears one, and keeps the whole verdict if the service that answers keeps
  its type and qualifiers. It excludes chains whose key gets a new holder.

### Where code and documentation differ

Four runs expect a violation, and show it; `PROJECT.json` quotes the sentences:

- `doc_blt_coverage`: B-LT with an answer for only some certificates.
- `doc_revocation_shown`: a CRL that revokes is not consulted after an OCSP
  answer.
- `doc_xades_profile`: a genuine XAdES signature fails if it is written with a
  prefix, inherits its namespace, brings its chain, has a declaration that the
  canonical form does not need (`c14n.rs:158-187` writes all), a processing
  instruction inside the root (`c14n.rs:117` drops it) or text around the root.
- `doc_signed_info_cut`: the SignedInfo found in the bytes need not be the one
  the parser reads, though `verify.rs:207-209` takes it to be.

Met while translating, without a run of their own:

- `eidas-core/src/time.rs:14`: under `Now` the clock is read once per signer.
- `docs/05-verification-levels.md:118`: archive timestamps feed the best time
  after the reduced check of `verify.rs:294` too.
- `eidas-core/src/time.rs:20`: archive timestamps are read after the reference
  time is resolved, so `BestSignatureTime` does not include them.
- `eidas-revocation/src/crl.rs:19`: the caller (`verify.rs:841`) drops `fresh`
  and gives no warning.
- `docs/08-security-model.md:73`: OCSP `unknown` is neither Good nor flagged.
- `docs/08-security-model.md:175`: a CMS without SignerInfos yields no report.
- `docs/04-types.md:270`: eidas-cades reports a digest mismatch as
  `CADES_VERIFICATION_ERROR`; only eidas-cms gives the code of its own.
- `docs/03-data-flow.md:178`: an unmatched ASiC signature is reported with the
  kept failure if there is one; and signers that fail beside one that passes
  are dropped, so `is_total_passed` does not see them.
- `eidas-qualify/src/lib.rs:24`: a withdrawn service gives NotAdES, not the
  qualification before.
- `eidas-x509/src/chain.rs:6`: the anchor put in place of its twin at the end
  of the path is not checked to be a CA.
- `eidas-core/src/algorithm.rs:109`: explicit permits are said to override
  sunsets; a sunset set after a permit counts.
- `eidas-verify/src/verifier.rs:82`: the list of supported inputs is short by
  PAdES, ASiC, JAdES and XAdES.
- `eidas-xades/src/lib.rs:14`: "exactly one Reference" is not enforced; the
  first counts, whatever its URI.
- `eidas-xades/src/c14n.rs`: every Signature element is stripped, not only the
  one being verified.
- `eidas-x509/src/chain.rs:254-257`: the comment says that an EKU is recorded
  only if it has no anyExtendedKeyUsage; any that is not empty is.
- `eidas-cades/src/verify.rs:184`: a signature rejected by the policy reports the
  chain it had built, where JAdES (`verify.rs:102`) and XAdES (`verify.rs:162`)
  report none. `FormatsAgree` compares chains of passing results only.
- `eidas-qualify/src/engine.rs:89-90,113`: type and qualifiers of a service are
  those of the present edition, so an edition that changes them changes verdicts
  on signatures made before (`PastIsStable` excepts it).
  `docs/06-qualification.md:155-158` calls the engine "correct for historical
  validation of long-term signatures"; its scope limits (line 186) defer the
  qualifiers, and the type of a history instance is parsed (`parse.rs:305`) and
  never looked at.
- `eidas-cms/src/cades.rs:444`, `eidas-cades/src/verify.rs:528`: the policy is
  asked about the digest algorithm, while the signature is verified with the
  hash of its OID. With sha224WithRSA and a digest algorithm of SHA-256 it is
  asked about SHA-256 only; `docs/08-security-model.md:70-71` lists "signature
  algorithm + hash + key size" (`NoSha1SignaturePasses` is about the digest
  algorithm, and the instance of `cms_baseline` has such signers).
- `eidas-pades/src/scan.rs:201-206`: "exactly the DER-encoded CMS" is left after
  trimming only if the CMS does not end in zero bytes (`TrimsOnlyZeros`).
- `eidas-trust/src/parse.rs`: a truncated list is read without an error. What
  `TruncationIsConfined` allows it to change is the verdict about an earlier
  time and about chains with several listed keys, and AdESqc for QES or the
  reverse if the cut loses a qualifier.
- `eidas-timestamp/src/tst.rs:50-51`: the policy OID is said to be kept
  losslessly; `checked_shl` (169-199) loses bits of arcs beyond 64.

## Proofs

All constants are arbitrary within the named assumptions: `PoolAssumption` and
`BoundAssumption` (pools are sets of certificates, times are integers),
`AlgorithmAssumption`, `SizeAssumption` and `FileAssumption` (a file is shorter
than the address space, and a keyword does not overlap itself),
`ClockAssumption`, `ModeAssumption` and `EnvelopeAssumption` (the three
validation times; sequences are sequences, and a chain has its signer),
`EditionAssumption` (the first edition's histories are in the past and ordered)
and `DocumentAssumption` (its certificates decode, they and the qualifiers are finitely many,
and of a former period it has what the engine sees), `TextAssumption` (a text that
is empty or cut off is no certificate),
`ContainerAssumption`, and of the facade `ConstantsAssumption` and
`DocumentsAssumption`. The last says what a proof cannot find out about
signatures: what verifies was made by the key it verifies under, over the
algorithm it names, and a document of which there is one reading (`ReadOnce`)
says what was signed (`AsSigned`). Of an XML document whose SignedInfo is cut out
elsewhere than it is parsed no such thing is assumed, and none follows: the
signature is then good for one digest and the document is compared with another.
TLC evaluates the assumption for the documents of the instance, edited,
countersigned and malformed ones among them, with the checks of the code. That
the own checks of a document succeed which was made as its pipeline asks for
(`Plain`) and not touched is `PlainVerifies`: it is not assumed but the
hypothesis of the two theorems that need it, and true of the instance.

- `ChainBuilderProofs`: type correctness, `ChainIsLinked`, `EndsAtAnchor`,
  `WalkIsBounded`, `CaOddityIsReported`, `CompleteWhenUnambiguous` and
  `LoopAdvances`, for pools and limits of any size. The
  inductive invariant adds to the types what the loop knows of an unfinished
  path (`LoopInv`: every link of it satisfies the four checks), what is true
  between calls and what a result carries. The delicate step is `ReachAnchor`,
  which exchanges the last certificate: subject and key stay, so the link does.
  `SearchIsComplete` takes a shortest acceptable path from the signer, which
  visits no certificate twice and meets no anchor before its end
  (`SimplePathExists`), and shows that the loop walks along it: where issuers
  are unambiguous its next certificate is the only candidate, and is not spent
  yet because spent ones are in the chain (`SearchInv`). So a search that fails
  has no such path. `Turn` is the loop as a function of pools, time and state,
  and `Leads` what it reaches: two searches from one state give one answer, and
  certificates that are nobody's issuer make no difference. The facade's
  theorems rest on these.
- `AlgorithmProofs`, policy: type correctness, `RulesAreExclusive`,
  `EvaluateFollowsRules`, `TighteningIsSafe`, `AcceptanceOnlyExpires`, and
  `ImplementsRules`: the refinement mapping sends the three maps to one rule
  per algorithm. `RulesAreExclusive` is what makes it inductive. Of these the run
  `policy` checks `EvaluateFollowsRules` and `ImplementsRules`; the others hold of
  every constant by proof and need no run.
- `PdfScanProofs`: type correctness, `SlicesAreInBounds`,
  `PlaceholderIsNotSigned`, `AcceptedDoNotOverlap`, `MissedOnlyBehindAccepted`,
  `CursorAdvances`, `EveryLocationIsReported`, `TotalPassIsHonest`, for every
  file and every byte range. The invariant ties the cursor to the end of the
  last accepted dictionary (`CursorInv`), and the reports of a location to a
  stretch of the list as long as its statuses (`ReportInv`).
- `CadesVerifyProofs`: `ChecksShareReferenceTime`, `BestTimeIsLatest` and the
  refinement `ImplementsVerdicts`. The invariant says what the times hold at
  each statement (`Times`: the best time is the latest of the tokens read so
  far), what the checks already passed have shown of the current signer
  (`Checked`) and what every finished report shows (`ReportsSound`). The
  mapping sends a report to the time it passed at; only the step that pushes
  one is a step of `SignatureVerdicts`, the others stutter. For a signer that
  fails, some admissible time has to be named: the latest of its tokens, whose
  existence is shown by a least counterexample.
  Its second part extends that invariant by what the level and the
  recorded answers rest on while the lifts are under way (`LevelSoFar`,
  `EvidenceSoFar`), and in the reports (`ReportsEarned`): `TypeOK`,
  `LevelIsEarned`, `EvidenceIsAccountedFor`.
- `TrustHistoryProofs`: `StatusFollowsLog`, `QualifiedByAnActiveService`,
  `PastIsStable`, for histories of any length. The last says that an edition
  refuses no signer for the past who was not refused, and clears none; the
  verdict as a whole is kept if the service that answers keeps type and
  qualifiers (`SameTerms`). The invariant is about each
  service and its log: periods are in order, the first history entry of a time
  is the last period that began then, and the keys of the past are kept. That
  is what makes the code's search, which takes the latest start and of equal
  ones the first, find the period in force. `ReadingImplements` shows that the
  composed `ReadingSpec` implements `TrustHistory`, so all of it holds there.
  Of the parser, on any input and one that changes while it is read:
  `RecursionIsBounded` (a function calls only functions of a higher `Level`, of
  which there are nine), `ParseAdvances`, and `CountsStayPositive`. The last
  needs the reader's names of open elements (`open`): the element that
  read_text_inside reads is open as deep as it counts (`Deepest`), so at a depth
  of one only its own end tag can come.
  `WholeListsAreRead` is `PublishedIsRead` and `CutListsAreConfined` is
  `TruncationIsConfined`, for lists of any length and wherever the transfer
  ends. The parser is taken as a function (`Turn`) of what is left to read, the
  pile, the variables and the result, and `Reach(c, f)` says that it gets from c
  to f. A piece of a document then has one lemma, whatever is read before and
  after it (`Reads`: it takes the variables from d to e), and the pieces are put
  together as the document is, element by element, by rules for elements that
  are taken, looked into, skipped and counted. Repeated elements go by the
  number read so far, which is an index and needs no induction over data. A
  certificate that does not decode is first read as one more key
  (`ServiceKept`); that the call ends there, and only there, follows because a
  key outside `Keys` is never kept (`Sound`).
  The invariant of the run is `Going`: the parser calls its functions in the
  order of the grammar and its variables have their types (`Sound`); of a list
  still whole it is on its way to what was published (`Heads`); of a list cut
  short, what it has read fits what was published (`CutShort`). `Fits` says
  this between any two events: of the services all but the last are as
  published, of the last the periods but one, and certificates, texts and the
  period being read are part of the one whose turn it is. It is not shown along
  the document but backwards: what has been read is never taken back
  (`HeadsFit`), so what fits at the end of the way fitted before each step. From
  the cut on it is carried forwards (`CutTurn`). `AllSound` adds that every
  edition is one a document can say, from `DocumentAssumption` on. What a signer
  is worth by a cut list then needs the invariant of the lookups again
  (`VerdictConfined`): `ActiveStatuses` holds no empty and no broken text.
- `VerifierProofs`: type correctness, `PassIsJustified`, `GenuinePasses`,
  `FormatsAgree`, `CallsAreIndependent`, `CallAdvances`, for any certificates,
  documents, policies and number of calls. The invariant says what the builder
  made (`ConfigInv`), what the call has read and asked so far (`CallInv`), which
  pools its chain builder holds (`PoolInv`), where the loop comes from and leads
  to (`WalkInv`), all that is proved of a chain builder (`ChainInv`, from
  `ChainBuilderProofs`), and of every result what it is worth (`Worth`).
  Agreement of formats and independence of calls are not about single steps:
  they follow because a result is tied to where the loop leads from its signer
  (`Determined`, `Foretold`), and that is one answer. `TypeOK` is what makes
  the formats see the same pools.
- `AsicVerifyProofs`: type correctness, `EverySignatureIsReported`,
  `BoundToFirstMatch`, `FailureIsItsOwn`, for containers of any size. The
  invariant says that the lists are the entries of their kind in order, what
  is known of the current signature from the data files tried (`Unlucky`), and
  that the signatures before it are `Settled`; a signature occurs once, so
  later reports do not touch those.
- `AlgorithmProofs`, B-B checks: `PipelinesAgree`, `NoSha1SignaturePasses`,
  `VerifiedIsClassified`, for every signer and without assumptions. The
  invariant says that all checks before the present one passed and what the
  outcome says of it (`Found`); agreement follows by placing the first fault of
  one order in the other.

`RulesAreExclusive`, `AcceptanceOnlyExpires`, `CallsAreIndependent`, the
statements that loops advance (`LoopAdvances`, `CallAdvances`, `ParseAdvances`),
`RecursionIsBounded`, `CountsStayPositive` and the type invariants of four
modules are proved and no run repeats them.

Three things came out of the proofs. The instance of `verifier` now shows the
first two (`jwsRoot`, `jwsSelf`, `cmsSelf`): the anchor's own copy replaces a chain of one certificate, so a passing chain
need not begin with the certificate that signed; a CMS puts its signer's
certificate among the candidates for issuers, so one that is named like its
issuer fails as no CA where the same signer passes as a JWS (`BringsNothing`
excludes it from `FormatsAgree`); and the end of 2028 is set for RSA keys of
exactly 2048 bits, so that keys a little longer, short of 3072, never expire
(`DefaultPolicyExpires` has that hypothesis).

Only model-checked: liveness (`BuildReturns`, `CallReturns`,
`EveryCallReturns`, `ParseReturns`), which the prover cannot do. For three of
these four the proved half is that each step brings the end nearer; what is
left to TLC is that a step can be taken.

## Not modelled

- DER, base64, JSON and ZIP decoding, hashing and signature primitives, report
  texts, `qcstatements.rs`, the decoding of unsigned attributes and of TSTInfo
  with its time conversion, `classify_algorithm`: pure functions on bytes,
  better tested with vectors.
- Of XML: attributes no rule reads and the order of attributes, escapes and
  entity references, CRLF, unbalanced documents.
- The test corpus, the fuzz targets and the tools.
- DSA signatures: the ETSI table forbids them, and no pipeline verifies one.

## Plan

Done: chain builder, policy, CAdES with its evidence and its abstract promise,
PAdES, ASiC, trust history with the parser before it, the B-B copies, the
facade with JAdES, XAdES and the ETSI table; proofs of all of them but the
canonicalisation. Left:

1. Proofs of the pure operators: what `verify_crl`, `locate_responder` and
   `exc_c14n_with_envelope_strip` promise, for all arguments.
2. `TstInfo`: generalised-time conversion and policy OIDs over small widths,
   as functions checked against a reference.
3. The safety half of `CallReturns`: a measure of what is left of a call of
   `verify_cades`, over its signers, tokens and certificates.
4. Unsigned attributes: repeated and foreign ones, and which of them reach
   `CadesVerify`.
5. Attributes in `XmlSignature`, with the order c14n gives them, and escapes.
