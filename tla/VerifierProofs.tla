--------------------------- MODULE VerifierProofs ----------------------------
(***************************************************************************)
(* Proofs about the facade and its pipelines, for every set of             *)
(* certificates and documents, any policy and any sequence of calls.  What *)
(* the chain builder does is taken from its own proofs.                    *)
(***************************************************************************)
EXTENDS Verifier, SequenceLemmas

CB == INSTANCE ChainBuilderProofs WITH
  Name <- ValuesOf("subject") \cup ValuesOf("issuer"), Key <- ValuesOf("spki"),
  KeyId <- (ValuesOf("ski") \cup ValuesOf("aki")) \ {NoKeyId},
  AnchorPool <- Range(Certs), IntermediatePool <- Range(Certs), SignerPool <- Range(Certs),
  EvaluationTime <- Int, MaxAnchors <- 0, MaxIntermediates <- 0

----------------------------------------------------------------------------
(* The chain builder as the verifier names it, and as its proofs do.       *)

LEMMA PoolsAreTyped == MaxDepth \in Nat \ {0} /\ Range(Certs) \subseteq CB!Certificate
<1>1. \A n \in DOMAIN Certs : Certs[n] \in CB!Certificate
  BY ConstantsAssumption DEF C!Certificate, CB!Certificate
<1> QED
  BY <1>1, ConstantsAssumption DEF Range

LEMMA IterateIsTheSame == C!Iterate <=> CB!Iterate
BY DEF C!Iterate, C!ReachAnchor, C!ExtendByIntermediate, C!ExtendByAnchor, C!NoIssuer, C!Searching,
       C!Link, C!Return, C!FreeIssuers, C!AnchorIssuers, C!match_anchor, C!First, C!tail, C!pool,
       C!validate_link_time, C!validate_issuer_ca_capability, C!ca_diagnostics, C!SameAsAnchor,
       C!issuer_matches,
       CB!Iterate, CB!ReachAnchor, CB!ExtendByIntermediate, CB!ExtendByAnchor, CB!NoIssuer, CB!Searching,
       CB!Link, CB!Return, CB!FreeIssuers, CB!AnchorIssuers, CB!match_anchor, CB!First, CB!tail, CB!pool,
       CB!validate_link_time, CB!validate_issuer_ca_capability, CB!ca_diagnostics, CB!SameAsAnchor,
       CB!issuer_matches

LEMMA BuildIsTheSame == ASSUME NEW c, NEW t PROVE C!build(c, t) <=> CB!build(c, t)
BY DEF C!build, C!Return, C!pool, CB!build, CB!Return, CB!pool

LEMMA LinksAreTheSame ==
  /\ \A c, d : C!issuer_matches(c, d) <=> CB!issuer_matches(c, d)
  /\ \A c, d : C!SameAsAnchor(c, d) <=> CB!SameAsAnchor(c, d)
  /\ \A c, t : C!validate_link_time(c, t) <=> CB!validate_link_time(c, t)
  /\ \A c, d, t : C!ValidLink(c, d, t) <=> CB!ValidLink(c, d, t)
BY DEF C!issuer_matches, C!SameAsAnchor, C!validate_link_time, C!ValidLink,
       C!validate_issuer_ca_capability,
       CB!issuer_matches, CB!SameAsAnchor, CB!validate_link_time, CB!ValidLink,
       CB!validate_issuer_ca_capability

LEMMA PathsAreTheSame ==
  ASSUME NEW certs, NEW trust, NEW t, NEW c
  PROVE  /\ C!UnambiguousWithin(certs, c) <=> CB!UnambiguousWithin(certs, c)
         /\ C!PathWithin(certs, trust, t, c) <=> CB!PathWithin(certs, trust, t, c)
BY DEF C!UnambiguousWithin, C!PathWithin, C!IsPath, C!issuer_matches, C!SameAsAnchor,
       C!validate_link_time, C!ValidLink, C!validate_issuer_ca_capability,
       CB!UnambiguousWithin, CB!PathWithin, CB!IsPath, CB!issuer_matches, CB!SameAsAnchor,
       CB!validate_link_time, CB!ValidLink, CB!validate_issuer_ca_capability

----------------------------------------------------------------------------
(* The invariant.                                                          *)

\* What the result of the call in progress will be about.
pending == [input |-> input, reference |-> reference]

BuilderType ==
  [anchors : Seq(Range(Certs)), intermediates : Seq(Range(Certs)),
   policy : {<<>>} \cup {<<p>> : p \in Policies}, time : {<<>>} \cup {<<m>> : m \in Modes},
   calls : Nat]

\* The verifier is what `build` made of the builder, whatever was called since.
ConfigInv ==
  /\ builder \in BuilderType
  /\ pc \in {"configure", "refused"} => verifier = <<>> /\ results = <<>>
  /\ pc \notin {"configure", "refused"} => verifier = NewVerifier /\ builder.anchors # <<>>
  /\ now \in 0..MaxNow /\ reference \in Int
  /\ results \in Seq(Range(results)) /\ Len(results) <= MaxCalls

Reading == {"unsupported", "jws", "xml", "cms"}
Judging == {"policy", "cmsPolicy", "rejected", "embed", "build", "walk"}

\* From the moment its own checks succeed, the call is about what was read
\* from the document; and the policy has been asked where the call has passed it.
CallInv ==
  /\ pc \in {"configure", "refused", "idle"} \cup Reading \cup Judging
  /\ pc \in Reading \cup Judging => input \in DOMAIN Documents /\ Len(results) < MaxCalls
  /\ pc \in Reading => pc = Pipeline(Documents[input].form)
  /\ pc \in Judging => Accepts(input) /\ extracted = ReadFrom(input)
  /\ pc = "policy" => extracted.form # "cms"
  /\ pc = "cmsPolicy" => extracted.form = "cms"
  /\ pc \in {"embed", "build", "walk"} /\ extracted.form # "cms" => AcceptedBy(pending)
  /\ pc = "rejected" => ~AcceptedBy(pending)

\* A chain builder at rest, or in a call about the signer of the document with
\* the caller's certificates and those the document brings.
\* A CMS that is rejected has its chain by then.
HasChain == pc = "cmsPolicy" \/ (pc = "rejected" /\ extracted.form = "cms")
Walked == pc = "walk" \/ HasChain
PoolInv ==
  /\ pc \notin {"walk", "cmsPolicy", "rejected"} => phase = "configure" /\ used = {}
  /\ pc = "build" \/ Walked =>
       /\ \A n \in Range(Facts(pending).embedded) : Decodes(n)
       /\ anchors = builder.anchors
       /\ intermediates = builder.intermediates \o Decoded(Facts(pending).embedded)
  /\ Walked => phase \in {"build", "done"} /\ at = reference
  /\ HasChain => phase = "done" /\ outcome = "Ok"

\* The loop goes on from the signer, and ends there unless it found an anchor.
Started == [phase |-> "build", chain |-> <<Signer(pending)>>, used |-> {}, outcome |-> "pending"]
WalkInv ==
  Walked =>
    /\ phase = "done" => outcome \in {"Ok"} \cup CB!Errors
    /\ outcome # "Ok" => chain[1] = Signer(pending)
    /\ outcome = "Ok" =>
         /\ C!validate_link_time(Signer(pending), reference)
         /\ IF Len(chain) > 1 THEN chain[1] = Signer(pending)
            ELSE C!SameAsAnchor(Signer(pending), chain[1]) /\ Len(chain) = 1
    /\ CB!Leads(anchors, intermediates, reference, Started, CB!loop)
    /\ BringsNothing(pending) =>
         CB!Leads(builder.anchors, builder.intermediates, reference, Started, CB!loop)

ChainInv == CB!IInv /\ CB!SearchInv /\ CB!CompleteWhenUnambiguous

\* A result of a call about a document that brings no issuers is determined by
\* the caller's certificates: by the policy, or by where the loop leads.
StartOf(r) == [phase |-> "build", chain |-> <<Signer(r)>>, used |-> {}, outcome |-> "pending"]
Determined(r) ==
  \/ ~AcceptedBy(r) /\ r.status = "TotalFailedSub"
  \/ /\ AcceptedBy(r)
     /\ \E s : /\ s.phase = "done"
               /\ CB!Leads(builder.anchors, builder.intermediates, r.reference, StartOf(r), s)
               /\ r.status = IF s.outcome = "Ok" THEN "TotalPassed" ELSE "TotalFailedSub"
               /\ r.chain = IF s.outcome = "Ok" THEN s.chain ELSE <<>>

\* And every result is determined by the builder, the document and the time.
Refusal(d) ==
  LET form == Pipeline(Documents[d].form) IN
  IF \/ form = "unsupported"
     \/ form = "jws" /\ ~Documents[d].jws.wellFormed
     \/ form = "xml" /\ Findings[d].code = "Xml"
    THEN "Err" ELSE "TotalFailedSub"
Undecodable(r) == \E n \in Range(Facts(r).embedded) : ~Decodes(n)
\* JAdES and XAdES ask the policy before they look for a chain, CAdES after.
Chained(r) == ~Undecodable(r) /\ (AcceptedBy(r) \/ ReadFrom(r.input).form = "cms")
Foretold(r) ==
  \/ ~Accepts(r.input) /\ r.status = Refusal(r.input) /\ r.chain = <<>>
  \/ /\ Accepts(r.input) /\ ~Chained(r)
     /\ r.status = "TotalFailedSub" /\ r.chain = <<>>
  \/ /\ Accepts(r.input) /\ Chained(r)
     /\ \E s : /\ s.phase = "done"
               /\ CB!Leads(builder.anchors, builder.intermediates \o Decoded(Facts(r).embedded),
                           r.reference, StartOf(r), s)
               /\ r.status = IF s.outcome = "Ok" /\ AcceptedBy(r) THEN "TotalPassed" ELSE "TotalFailedSub"
               /\ r.chain = IF s.outcome = "Ok" THEN s.chain ELSE <<>>

Claimed(r) == PlainVerifies /\ Facts(r).untouched /\ Plain(r.input)

Worth(r) ==
  /\ r.status \in {"TotalPassed", "TotalFailedSub", "Err"}
  /\ r.status = "TotalPassed" => Justified(r)
  /\ Claimed(r) /\ Deserves(r) => r.status = "TotalPassed"
  /\ Claimed(r) /\ BringsNothing(r) => Determined(r)
  /\ Foretold(r)

ResultsInv == \A r \in Range(results) : Worth(r)

IInv == ConfigInv /\ CallInv /\ PoolInv /\ WalkInv /\ ChainInv /\ ResultsInv

----------------------------------------------------------------------------
(* What a call knows.                                                      *)

\* What was read from an accepted document is what its facts say.
LEMMA ReadingIsTrue ==
  ASSUME CallInv, pc \in Judging
  PROVE  /\ extracted.form \in {"jws", "cms", "xml"}
         /\ extracted.signer = Facts(pending).signer
         /\ extracted.method = Facts(pending).method
         /\ extracted.hash = Facts(pending).hash
         /\ extracted.embedded = Facts(pending).embedded
         /\ input \in Faithful
         /\ Facts(pending).signer \in DOMAIN Certs
         /\ Algorithm(pending).hash \in HashAlgorithm
         /\ Facts(pending).embedded \in Seq(Range(Facts(pending).embedded))
         /\ extracted.form = "cms" => \A n \in Range(Facts(pending).embedded) : Decodes(n)
         /\ Algorithm(pending) \in AlgorithmIds
<1>1. /\ input \in DOMAIN Documents /\ Accepts(input) /\ extracted = ReadFrom(input)
      /\ Facts(pending) = Documents[input].facts
  BY DEF CallInv, Judging, Facts, pending
<1>2. extracted.form \in {"jws", "cms", "xml"}
  BY <1>1 DEF Accepts, ReadFrom, Contents
<1>3. input \in Faithful
  BY <1>1, DocumentsAssumption DEF Faithful
<1>4. Algorithm(pending).hash = Facts(pending).hash
  BY DEF Algorithm, AlgorithmOf
<1> QED
  BY <1>1, <1>2, <1>3, <1>4, DocumentsAssumption DEF Decodes, Algorithm

\* The policy the verifier asks is the one the caller chose.
LEMMA PolicyIsChosen ==
  ASSUME ConfigInv, CallInv, pc \in Judging, NEW t
  PROVE  PolicyAccepts(t) <=> Chosen!is_accepted_at(Algorithm(pending), t)
<1>1. verifier.policy = ChosenPolicy
  BY DEF ConfigInv, Judging, NewVerifier, ChosenPolicy
<1>2. AlgorithmOf(extracted.method, extracted.hash, KeyOf(extracted.signer)) = Algorithm(pending)
  BY ReadingIsTrue DEF Algorithm
<1> DEFINE a == Algorithm(pending)
<1> HIDE DEF a
<1>3. Configured!is_accepted_at(a, t) <=> Chosen!is_accepted_at(a, t)
  BY <1>1 DEF Configured!is_accepted_at, Configured!evaluate, Configured!Past,
              Configured!evaluate_fallback, Configured!output_bits,
              Chosen!is_accepted_at, Chosen!evaluate, Chosen!Past,
              Chosen!evaluate_fallback, Chosen!output_bits
<1> QED
  BY <1>2, <1>3 DEF PolicyAccepts, a

\* By default RSA of 2048 bits is accepted before 2029 only.
LEMMA DefaultPolicyExpires ==
  ASSUME builder.policy = <<>>, NEW a \in AlgorithmIds, NEW t \in Int,
         a.signature = "RsaPkcs1v15", a.hash \in HashAlgorithm, a.key_bits = 2048,
         Chosen!is_accepted_at(a, t)
  PROVE  t < End2028
<1>1. a.hash \in Sha2or3
  <2>1. SUFFICES ASSUME a.hash \in {"Sha1", "Md5"} PROVE FALSE
    BY DEF HashAlgorithm
  <2>2. /\ a \notin ChosenPolicy.forbidden /\ a \notin ChosenPolicy.permitted
        /\ ChosenPolicy.sunsets[a] = NoSunset /\ ~ChosenPolicy.floors.sha1
    BY <2>1 DEF ChosenPolicy, UnwrapOr, etsi_119_312_2023, Sha2or3
  <2>3. ~Chosen!evaluate_fallback(a) /\ ~Chosen!Past(a, t)
    BY <2>1, <2>2 DEF Chosen!evaluate_fallback, Chosen!Past
  <2>4. Chosen!evaluate(a, t) = "Reject"
    BY <2>2, <2>3 DEF Chosen!evaluate
  <2> QED
    BY <2>4 DEF Chosen!is_accepted_at
<1>2. ChosenPolicy.sunsets[a] = End2028 /\ End2028 # NoSunset /\ End2028 \in Int
  BY <1>1, ConstantsAssumption DEF ChosenPolicy, UnwrapOr, etsi_119_312_2023
<1>3. ASSUME t >= End2028 PROVE FALSE
  <2>1. Chosen!Past(a, t)
    BY <1>2, <1>3 DEF Chosen!Past
  <2>2. Chosen!evaluate(a, t) \in {"Reject", "Sunset"}
    BY <2>1 DEF Chosen!evaluate
  <2> QED
    BY <1>2, <1>3, <2>2 DEF Chosen!is_accepted_at
<1> QED
  BY <1>2, <1>3

\* What a result is worth is decided by the builder as the caller left it.
LEMMA BuilderDecides ==
  ASSUME builder' = builder, NEW r
  PROVE  /\ AcceptedBy(r)' <=> AcceptedBy(r)
         /\ BringsNothing(r)' <=> BringsNothing(r)
         /\ Worth(r)' <=> Worth(r)
<1>1. /\ Available(r)' = Available(r)
      /\ ChosenPolicy' = ChosenPolicy
  BY DEF Available, ChosenPolicy
<1>2. AcceptedBy(r)' <=> AcceptedBy(r)
  BY <1>1 DEF AcceptedBy, Chosen!is_accepted_at, Chosen!evaluate, Chosen!Past,
              Chosen!evaluate_fallback, Chosen!output_bits
<1>3. BringsNothing(r)' <=> BringsNothing(r)
  BY <1>1 DEF BringsNothing
<1>4. Deserves(r)' <=> Deserves(r)
  BY <1>1, <1>2 DEF Deserves
<1>5. Justified(r)' <=> Justified(r)
  <2>1. /\ Brought(r)' = Brought(r) /\ Signer(r)' = Signer(r) /\ Facts(r)' = Facts(r)
        /\ Algorithm(r)' = Algorithm(r)
    BY DEF Brought, Signer, Facts, Algorithm
  <2>2. /\ Range(builder.intermediates)' = Range(builder.intermediates)
        /\ Range(builder.anchors)' = Range(builder.anchors)
    BY DEF Range
  <2> DEFINE length == Len(r.chain)
             top == r.chain[length]
             Starts == /\ C!validate_link_time(Signer(r), r.reference)
                       /\ IF length > 1 THEN r.chain[1] = Signer(r) ELSE C!SameAsAnchor(Signer(r), top)
             Linked == \A n \in 1..(length - 2) : C!ValidLink(r.chain[n], r.chain[n + 1], r.reference)
             Supplied == \A n \in 2..(length - 1) : r.chain[n] \in Range(builder.intermediates) \cup Brought(r)
             Ends == length > 1 =>
               \E c \in Available(r) : C!SameAsAnchor(c, top) /\ C!ValidLink(r.chain[length - 1], c, r.reference)
             Default == (builder.policy = <<>> /\ Algorithm(r).signature = "RsaPkcs1v15"
                                              /\ Algorithm(r).key_bits = 2048) => r.reference < End2028
             All == /\ r.input \in Faithful /\ Starts /\ Linked /\ Supplied /\ Ends
                    /\ top \in Range(builder.anchors) /\ AcceptedBy(r) /\ Default
  <2>3. (Justified(r) <=> All) /\ (Justified(r)' <=> All')
    BY DEF Justified
  <2>4. Starts' <=> Starts
    BY <2>1
  <2>5. Linked' <=> Linked
    OBVIOUS
  <2>6. Supplied' <=> Supplied
    BY <2>1, <2>2
  <2>7. Ends' <=> Ends
    BY <1>1
  <2>8. Default' <=> Default
    BY <2>1
  <2> HIDE DEF Starts, Linked, Supplied, Ends, Default
  <2>9. All' <=> All
    BY <1>2, <2>1, <2>2, <2>4, <2>5, <2>6, <2>7, <2>8
  <2> QED
    BY <2>3, <2>9
<1>6. Determined(r)' <=> Determined(r)
  BY <1>2 DEF Determined, StartOf
<1>7. Foretold(r)' <=> Foretold(r)
  <2>1. Facts(r)' = Facts(r) /\ StartOf(r)' = StartOf(r)
    BY DEF Facts, StartOf, Signer
  <2>2. Decoded(Facts(r).embedded)' = Decoded(Facts(r).embedded)
    BY DEF Decoded, Facts
  <2> QED
    BY <1>2, <2>1, <2>2 DEF Foretold, Chained, Undecodable
<1> QED
  BY <1>2, <1>3, <1>4, <1>5, <1>6, <1>7 DEF Worth, Claimed

\* The result of the call in progress is about its document and its time.
LEMMA ResultOfTheCall ==
  ASSUME NEW r, r.input = input, r.reference = reference
  PROVE  /\ Facts(r) = Facts(pending) /\ Signer(r) = Signer(pending) /\ Brought(r) = Brought(pending)
         /\ Available(r) = Available(pending) /\ Algorithm(r) = Algorithm(pending)
         /\ AcceptedBy(r) <=> AcceptedBy(pending)
         /\ Deserves(r) <=> Deserves(pending)
         /\ BringsNothing(r) <=> BringsNothing(pending)
         /\ StartOf(r) = Started
<1>1. r.input = pending.input /\ r.reference = pending.reference
  BY DEF pending
<1>2. /\ Facts(r) = Facts(pending) /\ Signer(r) = Signer(pending) /\ Brought(r) = Brought(pending)
      /\ Available(r) = Available(pending) /\ Algorithm(r) = Algorithm(pending)
  BY <1>1 DEF Facts, Signer, Brought, Available, Algorithm
<1>3. AcceptedBy(r) <=> AcceptedBy(pending)
  BY <1>1, <1>2 DEF AcceptedBy
<1> QED
  BY <1>1, <1>2, <1>3 DEF Deserves, BringsNothing, StartOf, Started

----------------------------------------------------------------------------
(* Every step keeps the invariant.                                         *)

\* A chain builder between calls.
AtRest ==
  /\ anchors \in Seq(Range(Certs)) /\ intermediates \in Seq(Range(Certs)) /\ at \in Int
  /\ phase = "configure" /\ chain = <<>> /\ used = {} /\ diagnostics = {} /\ outcome = "pending"

LEMMA RestIsSound == AtRest => ChainInv
<1> SUFFICES ASSUME AtRest PROVE ChainInv
  OBVIOUS
<1>1. CB!TypeOK
  BY DEF AtRest, CB!TypeOK
<1> QED
  BY <1>1 DEF AtRest, ChainInv, CB!IInv, CB!LoopInv, CB!IdleInv, CB!ResultInv, CB!ChainIsLinked,
              CB!EndsAtAnchor, CB!CaOddityIsReported, CB!SearchInv, CB!CompleteWhenUnambiguous, CB!Errors

LEMMA RestIsSoundNext == AtRest' => ChainInv'
BY RestIsSound, PTL

\* What answering a call leaves behind.
Returned ==
  /\ pc' = "idle" /\ reference' = 0 /\ anchors' = <<>> /\ intermediates' = <<>>
  /\ phase' = "configure" /\ at' = 0 /\ chain' = <<>> /\ used' = {} /\ diagnostics' = {}
  /\ outcome' = "pending" /\ UNCHANGED <<builder, verifier, now, input>>

LEMMA AnswerKeepsInv ==
  ASSUME IInv, pc \in Reading \cup Judging, Returned,
         NEW r, results' = Append(results, r), Worth(r)
  PROVE  IInv'
<1>1. /\ Len(results') = Len(results) + 1 /\ results' \in Seq(Range(results'))
      /\ \A q \in Range(results') : q \in Range(results) \/ q = r
  <2>1. results \in Seq(Range(results))
    BY DEF IInv, ConfigInv
  <2>2. /\ Append(results, r) \in Seq(Range(Append(results, r)))
        /\ Len(Append(results, r)) = Len(results) + 1
        /\ DOMAIN Append(results, r) = DOMAIN results \cup {Len(results) + 1}
        /\ \A n \in DOMAIN results : Append(results, r)[n] = results[n]
        /\ Append(results, r)[Len(results) + 1] = r
    BY <2>1, Appended
  <2> QED
    BY <2>2 DEF Range
<1>2. ConfigInv'
  <2>1. Len(results) < MaxCalls /\ Len(results) \in Nat /\ MaxCalls \in Nat
    BY ConstantsAssumption DEF IInv, ConfigInv, CallInv
  <2>2. NewVerifier' = NewVerifier
    BY DEF Returned, NewVerifier
  <2>3. verifier = NewVerifier /\ builder.anchors # <<>>
    BY DEF IInv, ConfigInv, CallInv, Reading, Judging
  <2> QED
    BY <1>1, <2>1, <2>2, <2>3 DEF Returned, IInv, ConfigInv
<1>3. CallInv' /\ PoolInv' /\ WalkInv'
  BY DEF Returned, CallInv, PoolInv, WalkInv, Walked, HasChain, Reading, Judging
<1>4. ChainInv'
  <2>1. <<>> \in Seq(Range(Certs))
    OBVIOUS
  <2> QED
    BY <2>1, RestIsSoundNext DEF Returned, AtRest
<1>5. ResultsInv'
  <2>1. ASSUME NEW q, q \in Range(results') PROVE Worth(q)'
    <3>1. Worth(q)
      BY <1>1, <2>1 DEF IInv, ResultsInv
    <3>2. builder' = builder
      BY DEF Returned
    <3> QED
      BY <3>1, <3>2, BuilderDecides
  <2> QED
    BY <2>1 DEF ResultsInv
<1> QED
  BY <1>2, <1>3, <1>4, <1>5 DEF IInv

\* A call that answers, with a result worth what every result is.
LEMMA AnsweredKeepsInv ==
  ASSUME IInv, pc \in Reading \cup Judging, NEW status, NEW code, NEW path,
         Answer(status, code, path),
         \A r : (/\ r.input = input /\ r.reference = reference
                 /\ r.status = status /\ r.chain = path) => Worth(r)
  PROVE  IInv'
<1>1. PICK r : r = [input |-> input, reference |-> reference, status |-> status,
                    code |-> code, chain |-> path, diagnostics |-> diagnostics]
  OBVIOUS
<1>2. Worth(r)
  BY <1>1
<1>3. Returned /\ results' = Append(results, r)
  BY <1>1 DEF Answer, Returned, NoCall
<1> QED
  BY <1>2, <1>3, AnswerKeepsInv

\* The chain builder keeps its own invariant, in a call or at rest.
LEMMA ChainStep ==
  ASSUME ChainInv, [CB!Next]_(CB!vars)
  PROVE  ChainInv'
<1>1. CB!IInv'
  BY PoolsAreTyped, CB!StepKeepsInv DEF ChainInv
<1>2. CB!SearchInv' /\ CB!CompleteWhenUnambiguous'
  BY PoolsAreTyped, CB!StepKeepsCompleteness DEF ChainInv
<1> QED
  BY <1>1, <1>2 DEF ChainInv

LEMMA WalkUntouched ==
  ASSUME ChainInv, UNCHANGED walk
  PROVE  ChainInv'
<1>1. UNCHANGED CB!vars
  BY DEF walk, CB!vars
<1> QED
  BY <1>1, ChainStep

\* The results of earlier calls stay worth what they are.
LEMMA ResultsUntouched ==
  ASSUME ResultsInv, results' = results, builder' = builder \/ results = <<>>
  PROVE  ResultsInv'
<1>1. CASE builder' = builder
  <2>1. ASSUME NEW q, q \in Range(results') PROVE Worth(q)'
    <3>1. Worth(q)
      BY <2>1 DEF ResultsInv, Range
    <3> QED
      BY <1>1, <3>1, BuilderDecides
  <2> QED
    BY <2>1 DEF ResultsInv
<1>2. CASE results = <<>>
  <2>1. Range(results)' = {}
    BY <1>2 DEF Range
  <2> QED
    BY <2>1 DEF ResultsInv
<1> QED
  BY <1>1, <1>2

\* A step within a call leaves what the call is about.
LEMMA SameCall ==
  ASSUME builder' = builder, input' = input, reference' = reference
  PROVE  /\ AcceptedBy(pending)' <=> AcceptedBy(pending)
         /\ BringsNothing(pending)' <=> BringsNothing(pending)
         /\ Facts(pending)' = Facts(pending) /\ Signer(pending)' = Signer(pending)
         /\ Started' = Started
<1>1. ChosenPolicy' = ChosenPolicy
  BY DEF ChosenPolicy
<1>2. /\ Facts(pending)' = Facts(pending) /\ Signer(pending)' = Signer(pending)
      /\ Brought(pending)' = Brought(pending) /\ Available(pending)' = Available(pending)
      /\ Algorithm(pending)' = Algorithm(pending) /\ pending'.reference = pending.reference
  BY DEF Facts, Signer, Brought, Available, Algorithm, pending
<1>3. AcceptedBy(pending)' <=> AcceptedBy(pending)
  BY <1>1, <1>2 DEF AcceptedBy, Chosen!is_accepted_at, Chosen!evaluate, Chosen!Past,
                    Chosen!evaluate_fallback, Chosen!output_bits
<1>4. BringsNothing(pending)' <=> BringsNothing(pending)
  BY <1>2 DEF BringsNothing
<1> QED
  BY <1>2, <1>3, <1>4 DEF Started

\* Names that decode give a list of certificates.
LEMMA DecodedIsTyped ==
  ASSUME NEW names \in Seq(DOMAIN Certs)
  PROVE  /\ Decoded(names) \in Seq(Range(Certs))
         /\ Range(Decoded(names)) = {Certs[n] : n \in Range(names)}
         /\ DOMAIN Decoded(names) = DOMAIN names
<1>1. \A n \in DOMAIN names : names[n] \in DOMAIN Certs /\ Certs[names[n]] \in Range(Certs)
  BY DEF Range
<1>2. Len(names) \in Nat /\ DOMAIN names = 1..Len(names)
  OBVIOUS
<1>3. Decoded(names) \in [1..Len(names) -> Range(Certs)]
  BY <1>1, <1>2 DEF Decoded
<1>4. Decoded(names) \in Seq(Range(Certs))
  BY <1>2, <1>3, SeqDef
<1>5. Range(Decoded(names)) = {Certs[n] : n \in Range(names)}
  BY DEF Decoded, Range
<1> QED
  BY <1>4, <1>5 DEF Decoded

\* A call on the builder.
LEMMA CallKeepsInv ==
  ASSUME IInv, NEW b \in BuilderType, Call(b)
  PROVE  IInv'
<1>1. /\ pc = "configure" /\ pc' = pc /\ builder' = [b EXCEPT !.calls = @ + 1]
      /\ UNCHANGED <<verifier, now, input, extracted, reference, walk, results>>
  BY DEF Call
<1>2. ConfigInv'
  <2>1. builder' \in BuilderType
    BY <1>1 DEF BuilderType
  <2> QED
    BY <1>1, <2>1 DEF IInv, ConfigInv
<1>3. CallInv' /\ PoolInv' /\ WalkInv'
  BY <1>1 DEF IInv, CallInv, PoolInv, WalkInv, Walked, HasChain, Reading, Judging, walk
<1>4. ChainInv' /\ ResultsInv'
  BY <1>1, WalkUntouched, ResultsUntouched DEF IInv, ConfigInv
<1> QED
  BY <1>2, <1>3, <1>4 DEF IInv

LEMMA BuilderKeepsInv ==
  ASSUME IInv
  PROVE  /\ \A names \in AnchorCalls : trust_anchors(names) => IInv'
         /\ \A names \in IntermediateCalls : intermediate_certificates(names) => IInv'
         /\ \A p \in Policies : policy(p) => IInv'
         /\ \A mode \in Modes : validation_time(mode) => IInv'
<1>1. builder \in BuilderType
  BY DEF IInv, ConfigInv
<1>2. ASSUME NEW names \in AnchorCalls, trust_anchors(names) PROVE IInv'
  <2>1. Decoded(names) \in Seq(Range(Certs))
    BY ConstantsAssumption, DecodedIsTyped
  <2>2. PICK b : b = [builder EXCEPT !.anchors = @ \o Decoded(names)]
    OBVIOUS
  <2>3. b \in BuilderType
    <3>1. builder.anchors \o Decoded(names) \in Seq(Range(Certs))
      BY <1>1, <2>1 DEF BuilderType
    <3> QED
      BY <1>1, <2>2, <3>1 DEF BuilderType
  <2> QED
    BY <1>2, <2>2, <2>3, CallKeepsInv DEF trust_anchors
<1>3. ASSUME NEW names \in IntermediateCalls, intermediate_certificates(names) PROVE IInv'
  <2>1. Decoded(names) \in Seq(Range(Certs))
    BY ConstantsAssumption, DecodedIsTyped
  <2>2. PICK b : b = [builder EXCEPT !.intermediates = @ \o Decoded(names)]
    OBVIOUS
  <2>3. b \in BuilderType
    <3>1. builder.intermediates \o Decoded(names) \in Seq(Range(Certs))
      BY <1>1, <2>1 DEF BuilderType
    <3> QED
      BY <1>1, <2>2, <3>1 DEF BuilderType
  <2> QED
    BY <1>3, <2>2, <2>3, CallKeepsInv DEF intermediate_certificates
<1>4. ASSUME NEW p \in Policies, policy(p) PROVE IInv'
  <2>1. PICK b : b = [builder EXCEPT !.policy = <<p>>]
    OBVIOUS
  <2>2. b \in BuilderType
    BY <1>1, <2>1 DEF BuilderType
  <2> QED
    BY <1>4, <2>1, <2>2, CallKeepsInv DEF policy
<1>5. ASSUME NEW mode \in Modes, validation_time(mode) PROVE IInv'
  <2>1. PICK b : b = [builder EXCEPT !.time = <<mode>>]
    OBVIOUS
  <2>2. b \in BuilderType
    BY <1>1, <2>1 DEF BuilderType
  <2> QED
    BY <1>5, <2>1, <2>2, CallKeepsInv DEF validation_time
<1> QED
  BY <1>2, <1>3, <1>4, <1>5

LEMMA MakeKeepsInv ==
  ASSUME IInv, build
  PROVE  IInv'
<1>1. /\ pc = "configure" /\ pc' \in {"refused", "idle"}
      /\ UNCHANGED <<builder, now, input, extracted, reference, walk, results>>
  BY DEF build
<1>2. ConfigInv'
  <2>1. verifier = <<>> /\ results = <<>>
    BY <1>1 DEF IInv, ConfigInv
  <2>2. NewVerifier' = NewVerifier
    BY <1>1 DEF NewVerifier
  <2>3. IF builder.anchors = <<>> THEN pc' = "refused" /\ verifier' = verifier
        ELSE pc' = "idle" /\ verifier' = NewVerifier
    BY DEF build
  <2> HIDE DEF NewVerifier
  <2> QED
    BY <1>1, <2>1, <2>2, <2>3 DEF IInv, ConfigInv
<1>3. CallInv' /\ PoolInv' /\ WalkInv'
  BY <1>1 DEF IInv, CallInv, PoolInv, WalkInv, Walked, HasChain, Reading, Judging, walk
<1>4. ChainInv' /\ ResultsInv'
  BY <1>1, WalkUntouched, ResultsUntouched DEF IInv
<1> QED
  BY <1>2, <1>3, <1>4 DEF IInv

LEMMA TickKeepsInv ==
  ASSUME IInv, Tick
  PROVE  IInv'
<1>1. /\ now < MaxNow /\ now' = now + 1
      /\ UNCHANGED <<pc, builder, verifier, input, extracted, reference, walk, results>>
  BY DEF Tick
<1>2. ConfigInv'
  <2>1. NewVerifier' = NewVerifier
    BY <1>1 DEF NewVerifier
  <2>2. now' \in 0..MaxNow
    BY <1>1, ConstantsAssumption DEF IInv, ConfigInv
  <2> QED
    BY <1>1, <2>1, <2>2 DEF IInv, ConfigInv
<1>3. CallInv'
  BY <1>1, SameCall DEF IInv, CallInv
<1>4. PoolInv'
  BY <1>1, SameCall DEF IInv, PoolInv, Walked, HasChain, walk
<1>5. WalkInv'
  <2>1. CB!loop' = CB!loop
    BY <1>1 DEF walk, CB!loop
  <2> QED
    BY <1>1, <2>1, SameCall DEF IInv, WalkInv, Walked, HasChain, walk
<1>6. ChainInv' /\ ResultsInv'
  BY <1>1, WalkUntouched, ResultsUntouched DEF IInv
<1> QED
  BY <1>2, <1>3, <1>4, <1>5, <1>6 DEF IInv

LEMMA VerifyKeepsInv ==
  ASSUME IInv, NEW d \in DOMAIN Documents, verify(d)
  PROVE  IInv'
<1>1. /\ pc = "idle" /\ Len(results) < MaxCalls /\ input' = d /\ pc' = Pipeline(Documents[d].form)
      /\ UNCHANGED <<builder, verifier, now, extracted, reference, walk, results>>
  BY DEF verify
<1>2. pc' \in Reading
  BY <1>1 DEF Pipeline, Reading
<1>3. ConfigInv'
  <2>1. NewVerifier' = NewVerifier
    BY <1>1 DEF NewVerifier
  <2> QED
    BY <1>1, <1>2, <2>1 DEF IInv, ConfigInv, Reading
<1>4. CallInv'
  BY <1>1, <1>2 DEF CallInv, Reading, Judging
<1>5. PoolInv' /\ WalkInv'
  BY <1>1, <1>2 DEF IInv, PoolInv, WalkInv, Walked, HasChain, Reading, walk
<1>6. ChainInv' /\ ResultsInv'
  BY <1>1, WalkUntouched, ResultsUntouched DEF IInv
<1> QED
  BY <1>3, <1>4, <1>5, <1>6 DEF IInv

\* Nothing is promised of a document whose own checks fail.
LEMMA UnreadIsWorth ==
  ASSUME input \in DOMAIN Documents, ~Accepts(input),
         NEW r, r.input = input, r.status = Refusal(input), r.chain = <<>>
  PROVE  Worth(r)
<1>1. ~Claimed(r)
  BY DEF Claimed, PlainVerifies, Facts
<1>2. r.status \in {"TotalFailedSub", "Err"}
  BY DEF Refusal
<1>3. Foretold(r)
  BY DEF Foretold
<1> QED
  BY <1>1, <1>2, <1>3 DEF Worth

\* The document's own checks, in each format, are those of Accepts.
LEMMA UnreadKeepsInv ==
  ASSUME IInv, pc \in Reading, ~Accepts(input), NEW status, status = Refusal(input), NEW code,
         Answer(status, code, <<>>)
  PROVE  IInv'
<1>1. input \in DOMAIN Documents
  BY DEF IInv, CallInv
<1>2. \A r : (r.input = input /\ r.status = status /\ r.chain = <<>>) => Worth(r)
  BY <1>1, UnreadIsWorth
<1>3. PICK path : path = <<>>
  OBVIOUS
<1> QED
  BY <1>2, <1>3, AnsweredKeepsInv

LEMMA UnsupportedKeepsInv ==
  ASSUME IInv, Unsupported
  PROVE  IInv'
<1>1. pc \in Reading /\ ~Accepts(input) /\ Refusal(input) = "Err"
  BY DEF Unsupported, IInv, CallInv, Reading, Accepts, Refusal
<1> QED
  BY <1>1, UnreadKeepsInv DEF Unsupported

\* A document whose checks succeed is read, and the policy comes next.
LEMMA VerifiedKeepsInv ==
  ASSUME IInv, pc \in Reading, Accepts(input),
         NEW form \in {"jws", "xml"}, NEW signer, NEW method, NEW embedded,
         ReadFrom(input) = Contents(form, signer, method, Methods[method].hash, embedded),
         Verified(form, signer, method, embedded)
  PROVE  IInv'
<1>1. /\ pc' = "policy" /\ extracted' = ReadFrom(input) /\ extracted'.form = form
      /\ UNCHANGED <<builder, verifier, now, input, reference, walk, results>>
  BY DEF Verified, NoCall, Contents
<1>2. ConfigInv'
  <2>1. NewVerifier' = NewVerifier
    BY <1>1 DEF NewVerifier
  <2> QED
    BY <1>1, <2>1 DEF IInv, ConfigInv, Reading
<1>3. CallInv'
  BY <1>1 DEF IInv, CallInv, Reading, Judging
<1>4. PoolInv' /\ WalkInv'
  BY <1>1 DEF IInv, PoolInv, WalkInv, Walked, HasChain, Reading, walk
<1>5. ChainInv' /\ ResultsInv'
  BY <1>1, WalkUntouched, ResultsUntouched DEF IInv
<1> QED
  BY <1>2, <1>3, <1>4, <1>5 DEF IInv

LEMMA CheckJwsKeepsInv ==
  ASSUME IInv, CheckJws
  PROVE  IInv'
<1>1. /\ pc = "jws" /\ pc \in Reading /\ verify_jws(Documents[input].jws)
      /\ Pipeline(Documents[input].form) = "jws"
  BY DEF CheckJws, doc, IInv, CallInv, Reading
<1> DEFINE jws == Documents[input].jws
<1>2. /\ Accepts(input) <=> (jws.wellFormed /\ JwsVerifies(jws))
      /\ ReadFrom(input) = Contents("jws", jws.header.x5c[1], jws.header.alg,
                                  Methods[jws.header.alg].hash, Tail(jws.header.x5c))
  BY <1>1 DEF Accepts, ReadFrom
<1> HIDE DEF jws
<1>3. CASE ~Accepts(input)
  <2>1. Refusal(input) = IF jws.wellFormed THEN "TotalFailedSub" ELSE "Err"
    BY <1>1 DEF Refusal, jws
  <2>2. \/ ~jws.wellFormed /\ Answer("Err", "Json", <<>>)
        \/ jws.wellFormed /\ Answer("TotalFailedSub", "JADES_VERIFICATION_ERROR", <<>>)
    BY <1>1, <1>2, <1>3 DEF verify_jws, Failed, jws
  <2> QED
    BY <1>1, <1>3, <2>1, <2>2, UnreadKeepsInv
<1>4. CASE Accepts(input)
  <2>1. Verified("jws", jws.header.x5c[1], jws.header.alg, Tail(jws.header.x5c))
    BY <1>1, <1>2, <1>4 DEF verify_jws, jws
  <2>2. PICK signer, method, embedded :
          signer = jws.header.x5c[1] /\ method = jws.header.alg /\ embedded = Tail(jws.header.x5c)
    OBVIOUS
  <2> QED
    BY <1>1, <1>2, <1>4, <2>1, <2>2, VerifiedKeepsInv
<1> QED
  BY <1>3, <1>4

LEMMA CheckXmlKeepsInv ==
  ASSUME IInv, CheckXml
  PROVE  IInv'
<1> DEFINE found == Findings[input]
<1> HIDE DEF found
<1>1. /\ pc = "xml" /\ pc \in Reading /\ verify_xml(found)
      /\ Pipeline(Documents[input].form) = "xml"
  BY DEF CheckXml, IInv, CallInv, Reading, found
<1>2. /\ Accepts(input) <=> found.code = "verified"
      /\ ReadFrom(input) = Contents("xml", found.signer, found.method, Methods[found.method].hash, <<>>)
  BY <1>1 DEF Accepts, ReadFrom, found
<1>3. CASE ~Accepts(input)
  <2>1. PICK code : code = found.code
    OBVIOUS
  <2>2. \/ code = "Xml" /\ Answer("Err", "Xml", <<>>)
        \/ code # "Xml" /\ Answer("TotalFailedSub", code, <<>>)
    BY <1>1, <1>2, <1>3, <2>1 DEF verify_xml, Failed
  <2>3. Refusal(input) = IF code = "Xml" THEN "Err" ELSE "TotalFailedSub"
    BY <1>1, <2>1 DEF Refusal, found
  <2> QED
    BY <1>1, <1>3, <2>2, <2>3, UnreadKeepsInv
<1>4. CASE Accepts(input)
  <2>1. PICK signer, method, embedded :
          signer = found.signer /\ method = found.method /\ embedded = <<>>
    OBVIOUS
  <2>2. Verified("xml", signer, method, embedded)
    BY <1>1, <1>2, <1>4, <2>1 DEF verify_xml
  <2> QED
    BY <1>1, <1>2, <1>4, <2>1, <2>2, VerifiedKeepsInv
<1> QED
  BY <1>3, <1>4

\* The time is read off the mode, or the clock.
LEMMA ResolveIsTyped ==
  ASSUME ConfigInv, pc \in Reading \cup Judging
  PROVE  resolve \in Int
<1>1. verifier.time = UnwrapOr(builder.time, <<"Now">>)
  BY DEF ConfigInv, Reading, Judging, NewVerifier
<1>2. builder.time = <<>> \/ \E m \in Modes : builder.time = <<m>>
  BY DEF ConfigInv, BuilderType
<1>3. verifier.time = <<"Now">> \/ verifier.time \in Modes
  <2>1. CASE builder.time = <<>>
    BY <1>1, <2>1 DEF UnwrapOr
  <2>2. CASE \E m \in Modes : builder.time = <<m>>
    <3>1. PICK m \in Modes : builder.time = <<m>>
      BY <2>2
    <3>2. <<m>> # <<>> /\ <<m>>[1] = m
      OBVIOUS
    <3> QED
      BY <1>1, <3>1, <3>2 DEF UnwrapOr
  <2> QED
    BY <1>2, <2>1, <2>2
<1>4. verifier.time[1] = "At" => verifier.time[2] \in Int
  BY <1>3, ConstantsAssumption
<1>5. now \in Int
  BY ConstantsAssumption DEF ConfigInv
<1> QED
  BY <1>4, <1>5 DEF resolve

LEMMA CheckCmsKeepsInv ==
  ASSUME IInv, CheckCms
  PROVE  IInv'
<1> DEFINE cms == Documents[input].cms
<1> HIDE DEF cms
<1>1. /\ pc = "cms" /\ pc \in Reading /\ verify_cades(cms)
      /\ Pipeline(Documents[input].form) = "cms"
  BY DEF CheckCms, doc, IInv, CallInv, Reading, cms
<1>2. /\ Accepts(input) <=> cms.faults = {}
      /\ ReadFrom(input) = Contents("cms", cms.signer, cms.method, cms.digestAlg, cms.certs)
  BY <1>1 DEF Accepts, ReadFrom, cms
<1>3. CASE ~Accepts(input)
  <2>1. Refusal(input) = "TotalFailedSub"
    BY <1>1 DEF Refusal
  <2> QED
    BY <1>1, <1>2, <1>3, <2>1, UnreadKeepsInv DEF verify_cades, Failed
<1>4. CASE Accepts(input)
  <2>1. /\ pc' = "embed" /\ extracted' = ReadFrom(input) /\ extracted'.form = "cms"
        /\ reference' = resolve
        /\ UNCHANGED <<builder, verifier, now, input, walk, results>>
    BY <1>1, <1>2, <1>4 DEF verify_cades, NoCall, Contents
  <2>2. ConfigInv'
    <3>1. NewVerifier' = NewVerifier
      BY <2>1 DEF NewVerifier
    <3>2. resolve \in Int
      BY <1>1, ResolveIsTyped DEF IInv
    <3> QED
      BY <1>1, <2>1, <3>1, <3>2 DEF IInv, ConfigInv
  <2>3. CallInv'
    BY <1>1, <1>4, <2>1 DEF IInv, CallInv, Reading, Judging
  <2>4. PoolInv' /\ WalkInv'
    BY <1>1, <2>1 DEF IInv, PoolInv, WalkInv, Walked, HasChain, Reading, walk
  <2>5. ChainInv' /\ ResultsInv'
    BY <2>1, WalkUntouched, ResultsUntouched DEF IInv
  <2> QED
    BY <2>2, <2>3, <2>4, <2>5 DEF IInv
<1> QED
  BY <1>3, <1>4

\* JAdES and XAdES ask the policy about the time they have just resolved.
LEMMA ApplyPolicyKeepsInv ==
  ASSUME IInv, ApplyPolicy
  PROVE  IInv'
<1>1. /\ pc = "policy" /\ pc \in Judging /\ reference' = resolve
      /\ pc' = IF PolicyAccepts(resolve) THEN "embed" ELSE "rejected"
      /\ UNCHANGED <<builder, verifier, now, input, extracted, walk, results>>
  BY DEF ApplyPolicy, Judging, Keep, NoCall
<1>2. PICK t : t = resolve
  OBVIOUS
<1>3. AcceptedBy(pending)' <=> PolicyAccepts(resolve)
  <2>1. PolicyAccepts(t) <=> Chosen!is_accepted_at(Algorithm(pending), t)
    BY <1>1, PolicyIsChosen DEF IInv
  <2>2. /\ Algorithm(pending)' = Algorithm(pending) /\ ChosenPolicy' = ChosenPolicy
        /\ pending'.reference = t
    BY <1>1, <1>2 DEF Algorithm, Facts, pending, ChosenPolicy
  <2>3. AcceptedBy(pending)' <=> Chosen!is_accepted_at(Algorithm(pending), t)
    BY <2>2 DEF AcceptedBy, Chosen!is_accepted_at, Chosen!evaluate, Chosen!Past,
                Chosen!evaluate_fallback, Chosen!output_bits
  <2> QED
    BY <1>2, <2>1, <2>3
<1>4. ConfigInv'
  <2>1. NewVerifier' = NewVerifier
    BY <1>1 DEF NewVerifier
  <2>2. resolve \in Int
    BY <1>1, ResolveIsTyped DEF IInv
  <2> QED
    BY <1>1, <2>1, <2>2 DEF IInv, ConfigInv
<1>5. CallInv'
  BY <1>1, <1>3 DEF IInv, CallInv, Reading, Judging
<1>6. PoolInv' /\ WalkInv'
  <2>1. extracted'.form # "cms"
    BY <1>1 DEF IInv, CallInv
  <2> QED
    BY <1>1, <2>1 DEF IInv, PoolInv, WalkInv, Walked, HasChain, walk
<1>7. ChainInv' /\ ResultsInv'
  BY <1>1, WalkUntouched, ResultsUntouched DEF IInv
<1> QED
  BY <1>4, <1>5, <1>6, <1>7 DEF IInv

\* The certificates a call builds its chain from are those at hand.
LEMMA PoolsAreAtHand ==
  ASSUME IInv, pc = "build" \/ Walked
  PROVE  /\ Range(intermediates) = Range(builder.intermediates) \cup Brought(pending)
         /\ Range(anchors) = Range(builder.anchors)
         /\ CB!PoolCertificates = Available(pending)
         /\ Decoded(Facts(pending).embedded) \in Seq(Range(Certs))
         /\ Range(Decoded(Facts(pending).embedded)) = Brought(pending)
<1> DEFINE names == Facts(pending).embedded
<1>1. names \in Seq(DOMAIN Certs)
  <2>1. names \in Seq(Range(names)) /\ \A n \in Range(names) : n \in DOMAIN Certs
    BY ReadingIsTrue DEF IInv, PoolInv, Walked, HasChain, Decodes, Judging
  <2> QED
    BY <2>1
<1>2. /\ Decoded(names) \in Seq(Range(Certs)) /\ Range(Decoded(names)) = {Certs[n] : n \in Range(names)}
  BY <1>1, DecodedIsTyped
<1>3. Brought(pending) = Range(Decoded(names))
  <2>1. \A n \in Range(names) : Decodes(n)
    BY DEF IInv, PoolInv
  <2> QED
    BY <1>2, <2>1 DEF Brought
<1> HIDE DEF names
<1>4. builder.intermediates \in Seq(Range(Certs))
  BY DEF IInv, ConfigInv, BuilderType
<1>5. Range(builder.intermediates \o Decoded(names)) = Range(builder.intermediates) \cup Range(Decoded(names))
  <2> DEFINE a == builder.intermediates
             b == Decoded(names)
  <2>1. a \in Seq(Range(Certs)) /\ b \in Seq(Range(Certs))
    BY <1>2, <1>4
  <2> HIDE DEF a, b
  <2>2. Range(a \o b) = Range(a) \cup Range(b)
    BY <2>1, RangeConcatenation
  <2> QED
    BY <2>2 DEF a, b
<1>6. anchors = builder.anchors /\ intermediates = builder.intermediates \o Decoded(names)
  BY DEF IInv, PoolInv, names
<1>7. CB!PoolCertificates = Range(intermediates) \cup Range(anchors)
  BY DEF CB!PoolCertificates, CB!Range, Range
<1> QED
  BY <1>2, <1>3, <1>5, <1>6, <1>7 DEF Available, names

\* A chain that reached an anchor, under a policy that accepts the algorithm,
\* makes a pass that is justified.
LEMMA PassIsWorth ==
  ASSUME IInv, pc \in {"walk", "cmsPolicy"}, phase = "done", outcome = "Ok", AcceptedBy(pending),
         NEW r, r.input = input, r.reference = reference, r.status = "TotalPassed", r.chain = chain
  PROVE  Worth(r)
<1> DEFINE length == Len(chain)
           top == chain[length]
<1>1. pc \in Judging /\ Walked /\ ConfigInv /\ CallInv /\ PoolInv /\ WalkInv
  BY DEF Judging, Walked, HasChain, IInv
<1>2. length \in Nat /\ length > 0
  <2>1. chain \in Seq(CB!Certificate)
    BY DEF IInv, ChainInv, CB!IInv, CB!TypeOK
  <2>2. length = 0 => ~(length > 1) /\ length # 1
    OBVIOUS
  <2> QED
    BY <1>1, <2>1, <2>2 DEF WalkInv
<1>3. /\ C!validate_link_time(Signer(pending), reference)
      /\ IF length > 1 THEN chain[1] = Signer(pending) ELSE C!SameAsAnchor(Signer(pending), top)
  BY <1>1 DEF WalkInv
<1>4. /\ at = reference
      /\ \A n \in 1..(length - 2) : C!ValidLink(chain[n], chain[n + 1], reference)
  <2>1. at = reference
    BY <1>1 DEF PoolInv
  <2>2. CB!ChainIsLinked
    BY DEF IInv, ChainInv, CB!IInv, CB!ResultInv
  <2> QED
    BY <2>1, <2>2, LinksAreTheSame DEF CB!ChainIsLinked
<1>5. /\ Range(intermediates) = Range(builder.intermediates) \cup Brought(pending)
      /\ Range(anchors) = Range(builder.anchors) /\ CB!PoolCertificates = Available(pending)
  BY <1>1, PoolsAreAtHand
<1>6. \A n \in 2..(length - 1) : chain[n] \in Range(builder.intermediates) \cup Brought(pending)
  <2>1. CB!SearchInv
    BY DEF IInv, ChainInv
  <2> QED
    BY <1>5, <2>1 DEF CB!SearchInv, CB!Range, Range
<1>7. /\ top \in Range(builder.anchors)
      /\ length > 1 =>
           \E c \in Available(pending) :
             C!SameAsAnchor(c, top) /\ C!ValidLink(chain[length - 1], c, reference)
  <2>1. CB!EndsAtAnchor
    BY DEF IInv, ChainInv, CB!IInv, CB!ResultInv
  <2>2. top \in Range(anchors)
    BY <2>1 DEF CB!EndsAtAnchor, Range
  <2>3. ASSUME length > 1
        PROVE  \E c \in CB!PoolCertificates : CB!SameAsAnchor(c, top) /\ CB!ValidLink(chain[length - 1], c, at)
    BY <2>1, <2>3 DEF CB!EndsAtAnchor, CB!PoolCertificates
  <2> HIDE DEF length, top
  <2> QED
    BY <1>4, <1>5, <2>2, <2>3, LinksAreTheSame
<1>8. (builder.policy = <<>> /\ Algorithm(pending).signature = "RsaPkcs1v15"
                            /\ Algorithm(pending).key_bits = 2048) => reference < End2028
  <2>1. Algorithm(pending) \in AlgorithmIds /\ Algorithm(pending).hash \in HashAlgorithm
    BY <1>1, ReadingIsTrue
  <2>2. reference \in Int /\ Chosen!is_accepted_at(Algorithm(pending), reference)
    BY <1>1 DEF ConfigInv, AcceptedBy, pending
  <2> QED
    BY <2>1, <2>2, DefaultPolicyExpires
<1>9. r.input \in Faithful
  BY <1>1, ReadingIsTrue
<1>10. /\ Facts(r) = Facts(pending) /\ Signer(r) = Signer(pending) /\ Brought(r) = Brought(pending)
       /\ Available(r) = Available(pending) /\ Algorithm(r) = Algorithm(pending)
       /\ AcceptedBy(r) /\ StartOf(r) = Started
       /\ BringsNothing(r) <=> BringsNothing(pending)
  BY ResultOfTheCall
<1>11. Justified(r)
  BY <1>3, <1>4, <1>6, <1>7, <1>8, <1>9, <1>10 DEF Justified
<1>12. BringsNothing(r) => Determined(r)
  <2>1. PICK s : s = CB!loop
    OBVIOUS
  <2>2. s.phase = "done" /\ s.outcome = "Ok" /\ s.chain = chain
    BY <2>1 DEF CB!loop
  <2>3. BringsNothing(pending) =>
          CB!Leads(builder.anchors, builder.intermediates, r.reference, StartOf(r), s)
    BY <1>1, <1>10, <2>1 DEF WalkInv
  <2> QED
    BY <1>10, <2>2, <2>3 DEF Determined
<1>13. Foretold(r)
  <2>1. PICK s : s = CB!loop
    OBVIOUS
  <2>2. s.phase = "done" /\ s.outcome = "Ok" /\ s.chain = chain
    BY <2>1 DEF CB!loop
  <2>3. CB!Leads(builder.anchors, builder.intermediates \o Decoded(Facts(r).embedded),
                 r.reference, StartOf(r), s)
    BY <1>1, <1>10, <2>1 DEF WalkInv, PoolInv
  <2>4. Accepts(r.input) /\ Chained(r)
    BY <1>1, <1>10 DEF CallInv, PoolInv, Chained, Undecodable
  <2> QED
    BY <1>10, <2>2, <2>3, <2>4 DEF Foretold
<1> QED
  BY <1>11, <1>12, <1>13 DEF Worth

\* Nothing else than a failure is promised where the policy rejects: before a
\* chain is looked for, or with the chain that was found.
LEMMA RefusalIsWorth ==
  ASSUME IInv, pc = "rejected",
         NEW r, r.input = input, r.reference = reference, r.status = "TotalFailedSub",
         r.chain = IF extracted.form = "cms" THEN chain ELSE <<>>
  PROVE  Worth(r)
<1>1. /\ ~AcceptedBy(pending) /\ Accepts(input) /\ extracted = ReadFrom(r.input)
      /\ CallInv /\ PoolInv /\ WalkInv
  BY DEF IInv, CallInv, Judging
<1>2. ~AcceptedBy(r) /\ Facts(r) = Facts(pending) /\ StartOf(r) = Started
  BY <1>1, ResultOfTheCall
<1>3. Foretold(r)
  <2>1. CASE extracted.form # "cms"
    BY <1>1, <1>2, <2>1 DEF Foretold, Chained
  <2>2. CASE extracted.form = "cms"
    <3>1. Walked /\ HasChain
      BY <2>2 DEF Walked, HasChain
    <3>2. PICK s : s = CB!loop
      OBVIOUS
    <3>3. s.phase = "done" /\ s.outcome = "Ok" /\ s.chain = chain
      BY <1>1, <3>1, <3>2 DEF CB!loop, PoolInv
    <3>4. CB!Leads(builder.anchors, builder.intermediates \o Decoded(Facts(r).embedded),
                   r.reference, StartOf(r), s)
      BY <1>1, <1>2, <3>1, <3>2 DEF WalkInv, PoolInv
    <3>5. Chained(r)
      BY <1>1, <1>2, <2>2, <3>1 DEF PoolInv, Chained, Undecodable
    <3> QED
      BY <1>1, <1>2, <2>2, <3>3, <3>4, <3>5 DEF Foretold
  <2> QED
    BY <2>1, <2>2
<1> QED
  BY <1>2, <1>3 DEF Worth, Deserves, Determined

\* A document as its format asks for embeds nothing that does not decode.
LEMMA BadEmbeddingIsWorth ==
  ASSUME IInv, pc = "embed", \E n \in Range(extracted.embedded) : ~Decodes(n),
         NEW r, r.input = input, r.status = "TotalFailedSub", r.chain = <<>>
  PROVE  Worth(r)
<1>1. /\ extracted.embedded = Facts(pending).embedded /\ input \in DOMAIN Documents
      /\ Facts(pending) = Documents[input].facts /\ Facts(r) = Documents[input].facts
  BY ReadingIsTrue DEF IInv, CallInv, Judging, Facts, pending
<1>2. ~Claimed(r)
  BY <1>1 DEF Claimed, PlainVerifies
<1>3. Foretold(r)
  BY <1>1 DEF IInv, CallInv, Judging, Foretold, Chained, Undecodable
<1> QED
  BY <1>2, <1>3 DEF Worth

\* Where the walk fails no single path of certificates leads to an anchor.
LEMMA ChainFailureIsWorth ==
  ASSUME IInv, pc = "walk", phase = "done", outcome # "Ok",
         NEW r, r.input = input, r.reference = reference,
         r.status = "TotalFailedSub", r.chain = <<>>
  PROVE  Worth(r)
<1>1. /\ Walked /\ outcome \in CB!Errors /\ chain[1] = Signer(pending) /\ at = reference
      /\ CB!CompleteWhenUnambiguous
  BY DEF IInv, Walked, WalkInv, PoolInv, ChainInv
<1>2. CB!PoolCertificates = Available(pending) /\ Range(anchors) = Range(builder.anchors)
  BY <1>1, PoolsAreAtHand
<1>3. /\ Available(r) = Available(pending) /\ Signer(r) = Signer(pending)
      /\ AcceptedBy(r) <=> AcceptedBy(pending)
      /\ BringsNothing(r) <=> BringsNothing(pending)
      /\ StartOf(r) = Started
  BY ResultOfTheCall
<1>4. ~Deserves(r)
  <2>1. SUFFICES ASSUME CB!UnambiguousWithin(Available(r), Signer(r)),
                        CB!PathWithin(Available(r), Range(builder.anchors), r.reference, Signer(r))
                 PROVE  FALSE
    BY PathsAreTheSame DEF Deserves
  <2>2. CB!Range(anchors) = Range(anchors)
    BY DEF CB!Range, Range
  <2>3. CB!Unambiguous(chain[1]) /\ CB!PathExists(chain[1])
    BY <1>1, <1>2, <1>3, <2>1, <2>2 DEF CB!Unambiguous, CB!PathExists
  <2> QED
    BY <1>1, <2>3 DEF CB!CompleteWhenUnambiguous
<1>5. BringsNothing(r) => Determined(r)
  <2>1. PICK s : s = CB!loop
    OBVIOUS
  <2>2. s.phase = "done" /\ s.outcome # "Ok"
    BY <2>1 DEF CB!loop
  <2>3. BringsNothing(pending) =>
          CB!Leads(builder.anchors, builder.intermediates, r.reference, StartOf(r), s)
    BY <1>1, <1>3, <2>1 DEF IInv, WalkInv
  <2> QED
    BY <1>3, <2>2, <2>3 DEF Determined
<1>6. Foretold(r)
  <2>1. PICK s : s = CB!loop
    OBVIOUS
  <2>2. s.phase = "done" /\ s.outcome # "Ok"
    BY <2>1 DEF CB!loop
  <2>3. CB!Leads(builder.anchors, builder.intermediates \o Decoded(Facts(r).embedded),
                 r.reference, StartOf(r), s)
    BY <1>1, <1>3, <2>1, ResultOfTheCall DEF IInv, WalkInv, PoolInv
  <2>4. Accepts(r.input) /\ Chained(r)
    BY <1>1, <1>3, ResultOfTheCall DEF IInv, CallInv, PoolInv, Judging, Chained, Undecodable
  <2> QED
    BY <2>2, <2>3, <2>4 DEF Foretold
<1> QED
  BY <1>4, <1>5, <1>6 DEF Worth

LEMMA RejectedKeepsInv ==
  ASSUME IInv, Rejected
  PROVE  IInv'
<1>1. PICK path : path = IF extracted.form = "cms" THEN chain ELSE <<>>
  OBVIOUS
<1>2. /\ pc = "rejected" /\ pc \in Judging
      /\ Answer("TotalFailedSub", "ALG_POLICY_REJECTED", path)
  BY <1>1 DEF Rejected, Judging
<1>3. \A r : (/\ r.input = input /\ r.reference = reference
              /\ r.status = "TotalFailedSub" /\ r.chain = path) => Worth(r)
  BY <1>1, <1>2, RefusalIsWorth
<1> QED
  BY <1>2, <1>3, AnsweredKeepsInv

\* CAdES asks the policy about the time its chain was built for.
LEMMA ApplyPolicyToChainKeepsInv ==
  ASSUME IInv, ApplyPolicyToChain
  PROVE  IInv'
<1>1. /\ pc = "cmsPolicy" /\ pc \in Judging
      /\ IF PolicyAccepts(reference) THEN Answer("TotalPassed", "", chain) ELSE Go("rejected")
  BY DEF ApplyPolicyToChain, Judging
<1>2. PolicyAccepts(reference) <=> AcceptedBy(pending)
  <2>1. PICK t : t = reference
    OBVIOUS
  <2>2. PolicyAccepts(t) <=> Chosen!is_accepted_at(Algorithm(pending), t)
    BY <1>1, PolicyIsChosen DEF IInv
  <2> QED
    BY <2>1, <2>2 DEF AcceptedBy, pending
<1>3. CASE AcceptedBy(pending)
  <2>1. PICK path : path = chain
    OBVIOUS
  <2>2. phase = "done" /\ outcome = "Ok"
    BY <1>1 DEF IInv, PoolInv, HasChain
  <2>3. \A r : (/\ r.input = input /\ r.reference = reference
                /\ r.status = "TotalPassed" /\ r.chain = path) => Worth(r)
    BY <1>1, <1>3, <2>1, <2>2, PassIsWorth
  <2>4. Answer("TotalPassed", "", path)
    BY <1>1, <1>2, <1>3, <2>1
  <2> QED
    BY <1>1, <2>3, <2>4, AnsweredKeepsInv
<1>4. CASE ~AcceptedBy(pending)
  <2>1. /\ pc' = "rejected"
        /\ UNCHANGED <<builder, verifier, now, input, extracted, reference, walk, results>>
    BY <1>1, <1>2, <1>4 DEF Go, Keep, NoCall
  <2>2. ConfigInv'
    <3>1. NewVerifier' = NewVerifier
      BY <2>1 DEF NewVerifier
    <3> QED
      BY <1>1, <2>1, <3>1 DEF IInv, ConfigInv
  <2>3. CallInv'
    BY <1>1, <1>4, <2>1, SameCall DEF IInv, CallInv, Reading, Judging
  <2>4. PoolInv'
    <3>1. Facts(pending)' = Facts(pending) /\ Decoded(Facts(pending).embedded)' = Decoded(Facts(pending).embedded)
      BY <2>1, SameCall DEF Decoded
    <3> QED
      BY <1>1, <2>1, <3>1 DEF IInv, PoolInv, Walked, HasChain, walk
  <2>5. WalkInv'
    <3>1. CB!loop' = CB!loop
      BY <2>1 DEF walk, CB!loop
    <3> QED
      BY <1>1, <2>1, <3>1, SameCall DEF IInv, WalkInv, Walked, HasChain, walk
  <2>6. ChainInv' /\ ResultsInv'
    BY <2>1, WalkUntouched, ResultsUntouched DEF IInv
  <2> QED
    BY <2>2, <2>3, <2>4, <2>5, <2>6 DEF IInv
<1> QED
  BY <1>3, <1>4

\* Filling the pools of a chain builder that has not been called.
LEMMA FillingIsSound ==
  ASSUME ChainInv, phase = "configure", used = {}, UNCHANGED <<phase, at, chain, used, diagnostics, outcome>>,
         anchors' \in Seq(Range(Certs)), intermediates' \in Seq(Range(Certs))
  PROVE  ChainInv'
<1>1. /\ CB!TypeOK /\ chain = <<>> /\ outcome = "pending"
  BY DEF ChainInv, CB!IInv, CB!IdleInv
<1>2. CB!TypeOK'
  BY <1>1 DEF CB!TypeOK
<1> QED
  BY <1>1, <1>2 DEF ChainInv, CB!IInv, CB!LoopInv, CB!IdleInv, CB!ResultInv, CB!ChainIsLinked,
              CB!EndsAtAnchor, CB!CaOddityIsReported, CB!SearchInv, CB!CompleteWhenUnambiguous, CB!Errors

\* Whichever copy a format fills its chain builder from, it gets the caller's
\* certificates and what the document brings.
LEMMA EmbedKeepsInv ==
  ASSUME IInv, Embed
  PROVE  IInv'
<1>1. pc = "embed" /\ pc \in Judging
  BY DEF Embed, Judging
<1>2. CASE \E n \in Range(extracted.embedded) : ~Decodes(n)
  <2>1. Answer("TotalFailedSub", "JADES_VERIFICATION_ERROR", <<>>)
    BY <1>2 DEF Embed, Failed
  <2>2. \A r : (/\ r.input = input /\ r.reference = reference
                /\ r.status = "TotalFailedSub" /\ r.chain = <<>>) => Worth(r)
    BY <1>1, <1>2, BadEmbeddingIsWorth
  <2> QED
    BY <1>1, <2>1, <2>2, AnsweredKeepsInv
<1>3. CASE \A n \in Range(extracted.embedded) : Decodes(n)
  <2> DEFINE names == Facts(pending).embedded
  <2>1. /\ extracted.embedded = names /\ names \in Seq(Range(names))
        /\ \A n \in Range(names) : n \in DOMAIN Certs
    BY <1>1, <1>3, ReadingIsTrue DEF IInv, Decodes
  <2>2. /\ verifier.chain_builder.anchors = builder.anchors
        /\ verifier.chain_builder.intermediates = builder.intermediates
        /\ verifier.anchor_certs = builder.anchors
        /\ verifier.intermediate_certs = builder.intermediates
    BY <1>1 DEF IInv, ConfigInv, NewVerifier
  <2>3. /\ pc' = "build" /\ anchors' = builder.anchors
        /\ intermediates' = builder.intermediates \o Decoded(names)
        /\ UNCHANGED <<builder, verifier, now, input, extracted, reference, results,
                       phase, at, chain, used, diagnostics, outcome>>
    BY <1>1, <1>3, <2>1, <2>2 DEF Embed, cades_trust_material, Keep, NoCall
  <2> HIDE DEF names
  <2>4. ConfigInv'
    <3>1. NewVerifier' = NewVerifier
      BY <2>3 DEF NewVerifier
    <3> QED
      BY <1>1, <2>3, <3>1 DEF IInv, ConfigInv
  <2>5. CallInv'
    BY <1>1, <2>3, SameCall DEF IInv, CallInv, Reading, Judging
  <2>6. PoolInv' /\ WalkInv'
    <3>1. Facts(pending)' = Facts(pending)
      BY <2>3, SameCall
    <3>2. names' = names /\ Decoded(names)' = Decoded(names)
      BY <3>1 DEF names, Decoded
    <3>3. \A n \in Range(names) : Decodes(n)
      BY <2>1 DEF Decodes
    <3>4. phase = "configure" /\ used = {}
      BY <1>1 DEF IInv, PoolInv
    <3>5. /\ \A n \in Range(Facts(pending).embedded)' : Decodes(n)
          /\ anchors' = builder'.anchors
          /\ intermediates' = builder'.intermediates \o Decoded(Facts(pending).embedded)'
      BY <2>3, <3>2, <3>3 DEF names
    <3> QED
      BY <2>3, <3>4, <3>5 DEF PoolInv, WalkInv, Walked, HasChain
  <2>7. ChainInv'
    <3>1. builder.anchors \in Seq(Range(Certs)) /\ builder.intermediates \in Seq(Range(Certs))
      BY DEF IInv, ConfigInv, BuilderType
    <3>2. Decoded(names) \in Seq(Range(Certs))
      <4>1. names \in Seq(DOMAIN Certs)
        BY <2>1
      <4> QED
        BY <4>1, DecodedIsTyped
    <3>3. builder.intermediates \o Decoded(names) \in Seq(Range(Certs))
      BY <3>1, <3>2
    <3>4. phase = "configure" /\ used = {}
      BY <1>1 DEF IInv, PoolInv
    <3> QED
      BY <2>3, <3>1, <3>3, <3>4, FillingIsSound DEF IInv
  <2>8. ResultsInv'
    BY <2>3, ResultsUntouched DEF IInv
  <2> QED
    BY <2>4, <2>5, <2>6, <2>7, <2>8 DEF IInv
<1> QED
  BY <1>2, <1>3

\* The call of `build` asks about the signer, at the time of the call.
LEMMA BuildChainKeepsInv ==
  ASSUME IInv, BuildChain
  PROVE  IInv'
<1>1. /\ pc = "build" /\ pc \in Judging /\ pc' = "walk" /\ C!build(Certs[extracted.signer], reference)
      /\ UNCHANGED <<builder, verifier, now, input, extracted, reference, results>>
  BY DEF BuildChain, Keep, NoCall, Judging
<1>2. extracted.signer = Facts(pending).signer /\ Facts(pending).signer \in DOMAIN Certs
  BY <1>1, ReadingIsTrue DEF IInv
<1>3. PICK c, t : c = Signer(pending) /\ t = reference
  OBVIOUS
<1>4. c \in Range(Certs) /\ t \in Int /\ CB!build(c, t)
  <2>1. c \in Range(Certs) /\ Certs[extracted.signer] = c
    BY <1>2, <1>3 DEF Signer, Range
  <2>2. C!build(c, t)
    BY <1>1, <1>3, <2>1
  <2>3. t \in Int
    BY <1>3 DEF IInv, ConfigInv
  <2> QED
    BY <2>1, <2>2, <2>3, BuildIsTheSame
<1>5. anchors = builder.anchors /\ anchors # <<>>
  BY <1>1 DEF IInv, PoolInv, ConfigInv
<1>6. /\ phase' = "build" /\ at' = t /\ chain' = <<c>> /\ used' = {} /\ outcome' = "pending"
      /\ UNCHANGED <<anchors, intermediates>>
  BY <1>4, <1>5 DEF CB!build, CB!pool
<1>7. ConfigInv'
  <2>1. NewVerifier' = NewVerifier
    BY <1>1 DEF NewVerifier
  <2> QED
    BY <1>1, <2>1 DEF IInv, ConfigInv
<1>8. CallInv'
  BY <1>1, SameCall DEF IInv, CallInv, Reading, Judging
<1>9. PoolInv'
  <2>1. Facts(pending)' = Facts(pending) /\ Decoded(Facts(pending).embedded)' = Decoded(Facts(pending).embedded)
    BY <1>1, SameCall DEF Decoded
  <2> QED
    BY <1>1, <1>3, <1>6, <2>1 DEF IInv, PoolInv, Walked, HasChain
<1>10. WalkInv'
  <2>1. Signer(pending)' = Signer(pending) /\ Started' = Started
    BY <1>1, SameCall
  <2>2. CB!loop' = Started
    BY <1>3, <1>6 DEF CB!loop, Started
  <2>3. (<<c>>)[1] = c
    OBVIOUS
  <2>4. PICK A, I, s : A = builder.anchors /\ I = builder.intermediates /\ s = Started
    OBVIOUS
  <2>5. CB!Leads(A, I, t, s, s)
    BY PoolsAreTyped, CB!LeadsNowhere
  <2>6. CB!Leads(builder'.anchors, builder'.intermediates, reference', Started', CB!loop')
    BY <1>1, <1>3, <2>1, <2>2, <2>4, <2>5
  <2>7. CB!Leads(anchors', intermediates', reference', Started', CB!loop')
    <3>1. PICK B, J : B = anchors /\ J = intermediates
      OBVIOUS
    <3>2. CB!Leads(B, J, t, s, s)
      BY PoolsAreTyped, CB!LeadsNowhere
    <3> QED
      BY <1>1, <1>3, <1>6, <2>1, <2>2, <2>4, <3>1, <3>2
  <2> QED
    BY <1>1, <1>3, <1>6, <2>1, <2>3, <2>6, <2>7 DEF WalkInv, Walked, HasChain
<1>11. ChainInv'
  BY <1>4, ChainStep DEF IInv, CB!Next
<1>12. ResultsInv'
  BY <1>1, ResultsUntouched DEF IInv
<1> QED
  BY <1>7, <1>8, <1>9, <1>10, <1>11, <1>12 DEF IInv

LEMMA ChainBuiltKeepsInv ==
  ASSUME IInv, ChainBuilt
  PROVE  IInv'
<1>1. pc = "walk" /\ phase = "done" /\ pc \in Judging
  BY DEF ChainBuilt, Judging
<1>2. CASE outcome # "Ok"
  <2>1. PICK code : code = ErrorCode
    OBVIOUS
  <2>2. Answer("TotalFailedSub", code, <<>>)
    BY <1>2, <2>1 DEF ChainBuilt, Failed
  <2>3. \A r : (/\ r.input = input /\ r.reference = reference
                /\ r.status = "TotalFailedSub" /\ r.chain = <<>>) => Worth(r)
    BY <1>1, <1>2, ChainFailureIsWorth
  <2> QED
    BY <1>1, <2>2, <2>3, AnsweredKeepsInv
<1>3. CASE outcome = "Ok" /\ extracted.form = "cms"
  <2>1. /\ pc' = "cmsPolicy"
        /\ UNCHANGED <<builder, verifier, now, input, extracted, reference, walk, results>>
    BY <1>3 DEF ChainBuilt, Go, Keep, NoCall
  <2>2. ConfigInv'
    <3>1. NewVerifier' = NewVerifier
      BY <2>1 DEF NewVerifier
    <3> QED
      BY <1>1, <2>1, <3>1 DEF IInv, ConfigInv
  <2>3. CallInv'
    BY <1>1, <1>3, <2>1, SameCall DEF IInv, CallInv, Reading, Judging
  <2>4. PoolInv'
    <3>1. Facts(pending)' = Facts(pending) /\ Decoded(Facts(pending).embedded)' = Decoded(Facts(pending).embedded)
      BY <2>1, SameCall DEF Decoded
    <3> QED
      BY <1>1, <1>3, <2>1, <3>1 DEF IInv, PoolInv, Walked, HasChain, walk
  <2>5. WalkInv'
    <3>1. CB!loop' = CB!loop
      BY <2>1 DEF walk, CB!loop
    <3> QED
      BY <1>1, <2>1, <3>1, SameCall DEF IInv, WalkInv, Walked, HasChain, walk
  <2>6. ChainInv' /\ ResultsInv'
    BY <2>1, WalkUntouched, ResultsUntouched DEF IInv
  <2> QED
    BY <2>2, <2>3, <2>4, <2>5, <2>6 DEF IInv
<1>4. CASE outcome = "Ok" /\ extracted.form # "cms"
  <2>1. PICK path : path = chain
    OBVIOUS
  <2>2. AcceptedBy(pending)
    BY <1>1, <1>4 DEF IInv, CallInv
  <2>3. \A r : (/\ r.input = input /\ r.reference = reference
                /\ r.status = "TotalPassed" /\ r.chain = path) => Worth(r)
    BY <1>1, <1>4, <2>1, <2>2, PassIsWorth
  <2>4. Answer("TotalPassed", "", path)
    BY <1>4, <2>1 DEF ChainBuilt
  <2> QED
    BY <1>1, <2>3, <2>4, AnsweredKeepsInv
<1> QED
  BY <1>2, <1>3, <1>4

\* Where nothing but the signer's certificate is embedded, an iteration does
\* what it would do with the caller's certificates alone.
LEMMA IterationOfTheCaller ==
  ASSUME IInv, pc = "walk", CB!Iterate, BringsNothing(pending)
  PROVE  CB!loop' = CB!Turn(builder.anchors, builder.intermediates, reference, CB!loop)
<1> DEFINE names == Facts(pending).embedded
           others == Decoded(names)
<1>1. pc \in Judging /\ CallInv /\ ConfigInv
  BY DEF Judging, IInv
<1>2. /\ anchors = builder.anchors /\ intermediates = builder.intermediates \o others
      /\ at = reference /\ others \in Seq(Range(Certs)) /\ CB!PoolCertificates = Available(pending)
  BY PoolsAreAtHand DEF IInv, PoolInv, Walked
<1>3. phase = "build"
  BY DEF CB!Iterate, CB!ReachAnchor, CB!ExtendByIntermediate, CB!ExtendByAnchor, CB!NoIssuer, CB!Searching
<1>4. /\ chain \in Seq(CB!Certificate) /\ chain # <<>> /\ outcome = "pending"
      /\ \A i \in 2..Len(chain) : chain[i] \in CB!PoolCertificates
  BY <1>3 DEF IInv, ChainInv, CB!IInv, CB!TypeOK, CB!LoopInv
<1>5. chain[1] = Signer(pending)
  BY <1>4 DEF IInv, WalkInv, Walked
<1>6. chain[Len(chain)] \in Available(pending) \cup {Signer(pending)}
  <2>1. Len(chain) \in Nat \ {0}
    BY <1>4
  <2>2. Len(chain) = 1 \/ Len(chain) \in 2..Len(chain)
    BY <2>1
  <2> QED
    BY <1>2, <1>4, <1>5, <2>2
<1>7. \A i \in DOMAIN others : others[i] = Signer(pending)
  <2>1. \A n \in Range(names) : n = Facts(pending).signer
    BY DEF BringsNothing
  <2>2. \A i \in DOMAIN names : names[i] \in Range(names)
    BY DEF Range
  <2> QED
    BY <2>1, <2>2 DEF Decoded, Signer
<1> HIDE DEF names, others
<1>8. \A i \in DOMAIN others : ~CB!issuer_matches(others[i], chain[Len(chain)])
  <2>1. ~C!issuer_matches(Signer(pending), chain[Len(chain)])
    BY <1>6 DEF BringsNothing
  <2> QED
    BY <1>7, <2>1, LinksAreTheSame
<1>9. PICK A, I, o, t, s : /\ A = builder.anchors /\ I = builder.intermediates /\ o = others
                           /\ t = reference /\ s = CB!loop
  OBVIOUS
<1>10. I \in Seq(Range(Certs)) /\ o \in Seq(Range(Certs))
  BY <1>1, <1>2, <1>9 DEF ConfigInv, BuilderType
<1>11. s.chain = chain
  BY <1>9 DEF CB!loop
<1>12. CB!Turn(A, I \o o, t, s) = CB!Turn(A, I, t, s)
  <2>1. \A i \in DOMAIN o : ~CB!issuer_matches(o[i], s.chain[Len(s.chain)])
    BY <1>8, <1>9, <1>11
  <2> QED
    BY <1>10, <2>1, PoolsAreTyped, CB!TurnIgnoresOthers
<1>13. CB!loop' = CB!Turn(anchors, intermediates, at, CB!loop)
  BY PoolsAreTyped, CB!IterateIsTurn
<1> QED
  BY <1>2, <1>9, <1>12, <1>13

LEMMA WalkKeepsInv ==
  ASSUME IInv, Walk
  PROVE  IInv'
<1>1. /\ pc = "walk" /\ pc \in Judging /\ CB!Iterate
      /\ UNCHANGED <<pc, builder, verifier, now, input, extracted, reference, results>>
  BY IterateIsTheSame DEF Walk, Keep, NoCall, Judging
<1>2. phase = "build"
  BY <1>1 DEF CB!Iterate, CB!ReachAnchor, CB!ExtendByIntermediate, CB!ExtendByAnchor, CB!NoIssuer, CB!Searching
<1>3. CB!TypeOK /\ CB!LoopInv /\ CB!SearchInv /\ outcome = "pending"
  BY <1>2 DEF IInv, ChainInv, CB!IInv, CB!LoopInv
<1>4. chain[1] = Signer(pending) /\ at = reference
  BY <1>1, <1>3 DEF IInv, WalkInv, PoolInv, Walked
<1>5. /\ UNCHANGED <<anchors, intermediates, at>>
      /\ outcome' # "Ok" => chain'[1] = chain[1]
  BY <1>1, <1>3, PoolsAreTyped, CB!IterateKeepsSearch
<1>6. /\ phase' = "build" => outcome' = "pending" /\ chain'[1] = chain[1]
      /\ phase' # "build" => phase' = "done" /\ outcome' \in {"Ok"} \cup CB!Errors
      /\ outcome' = "Ok" =>
           /\ CB!validate_link_time(chain[1], at)
           /\ IF Len(chain') > 1 THEN chain'[1] = chain[1]
              ELSE CB!SameAsAnchor(chain[1], chain'[1]) /\ Len(chain') = 1
  BY <1>1, <1>3, PoolsAreTyped, CB!IterateAnswers
<1>7. ConfigInv'
  <2>1. NewVerifier' = NewVerifier
    BY <1>1 DEF NewVerifier
  <2> QED
    BY <1>1, <2>1 DEF IInv, ConfigInv
<1>8. CallInv'
  BY <1>1, SameCall DEF IInv, CallInv, Reading, Judging
<1>9. PoolInv'
  <2>1. Facts(pending)' = Facts(pending) /\ Decoded(Facts(pending).embedded)' = Decoded(Facts(pending).embedded)
    BY <1>1, SameCall DEF Decoded
  <2> QED
    BY <1>1, <1>5, <1>6, <2>1 DEF IInv, PoolInv, Walked, HasChain
<1>10. WalkInv'
  <2>1. /\ Signer(pending)' = Signer(pending) /\ Started' = Started
        /\ BringsNothing(pending)' <=> BringsNothing(pending)
    BY <1>1, SameCall
  <2>2. ASSUME BringsNothing(pending)
        PROVE  CB!Leads(builder.anchors, builder.intermediates, reference, Started, CB!loop')
    <3>1. PICK A, I, t, from, s : /\ A = builder.anchors /\ I = builder.intermediates
                                  /\ t = reference /\ from = Started /\ s = CB!loop
      OBVIOUS
    <3>2. CB!loop' = CB!Turn(A, I, t, s)
      BY <1>1, <2>2, <3>1, IterationOfTheCaller
    <3>3. CB!Leads(A, I, t, from, s)
      BY <1>1, <2>2, <3>1 DEF IInv, WalkInv, Walked
    <3>4. CB!Leads(A, I, t, from, CB!Turn(A, I, t, s))
      BY <3>3, PoolsAreTyped, CB!LeadsOn
    <3> QED
      BY <3>1, <3>2, <3>4
  <2>3. BringsNothing(pending)' =>
          CB!Leads(builder'.anchors, builder'.intermediates, reference', Started', CB!loop')
    BY <1>1, <2>1, <2>2
  <2>4. outcome' = "Ok" =>
          /\ C!validate_link_time(Signer(pending), reference)
          /\ IF Len(chain') > 1 THEN chain'[1] = Signer(pending)
             ELSE C!SameAsAnchor(Signer(pending), chain'[1]) /\ Len(chain') = 1
    BY <1>4, <1>6, LinksAreTheSame
  <2>5. /\ phase' = "done" => outcome' \in {"Ok"} \cup CB!Errors
        /\ outcome' # "Ok" => chain'[1] = Signer(pending)
    BY <1>4, <1>5, <1>6
  <2>6. outcome' = "Ok" =>
          /\ C!validate_link_time(Signer(pending), reference)'
          /\ (IF Len(chain) > 1 THEN chain[1] = Signer(pending)
              ELSE C!SameAsAnchor(Signer(pending), chain[1]) /\ Len(chain) = 1)'
    BY <1>1, <2>1, <2>4 DEF C!validate_link_time, C!SameAsAnchor
  <2>7. CB!Leads(anchors', intermediates', reference', Started', CB!loop')
    <3>1. PICK A, I, t, from, s : /\ A = anchors /\ I = intermediates
                                  /\ t = reference /\ from = Started /\ s = CB!loop
      OBVIOUS
    <3>2. CB!loop' = CB!Turn(A, I, t, s)
      <4>1. CB!loop' = CB!Turn(anchors, intermediates, at, CB!loop)
        BY <1>1, PoolsAreTyped, CB!IterateIsTurn
      <4> QED
        BY <1>4, <3>1, <4>1
    <3>3. CB!Leads(A, I, t, from, s)
      BY <1>1, <3>1 DEF IInv, WalkInv, Walked
    <3>4. CB!Leads(A, I, t, from, CB!Turn(A, I, t, s))
      BY <3>3, PoolsAreTyped, CB!LeadsOn
    <3> QED
      BY <1>1, <1>5, <2>1, <3>1, <3>2, <3>4
  <2> QED
    BY <2>1, <2>3, <2>5, <2>6, <2>7 DEF WalkInv
<1>11. ChainInv'
  BY <1>1, ChainStep DEF IInv, CB!Next
<1>12. ResultsInv'
  BY <1>1, ResultsUntouched DEF IInv
<1> QED
  BY <1>7, <1>8, <1>9, <1>10, <1>11, <1>12 DEF IInv

LEMMA StepKeepsInv ==
  ASSUME IInv, [Next]_vars
  PROVE  IInv'
<1>1. CASE \/ \E names \in AnchorCalls : trust_anchors(names)
           \/ \E names \in IntermediateCalls : intermediate_certificates(names)
           \/ \E p \in Policies : policy(p)
           \/ \E mode \in Modes : validation_time(mode)
  BY <1>1, BuilderKeepsInv
<1>2. CASE build \/ Tick
  BY <1>2, MakeKeepsInv, TickKeepsInv
<1>3. CASE \E d \in DOMAIN Documents : verify(d)
  BY <1>3, VerifyKeepsInv
<1>4. CASE Step
  BY <1>4, UnsupportedKeepsInv, CheckJwsKeepsInv, CheckXmlKeepsInv, CheckCmsKeepsInv,
     ApplyPolicyKeepsInv, ApplyPolicyToChainKeepsInv, RejectedKeepsInv, EmbedKeepsInv,
     BuildChainKeepsInv, WalkKeepsInv, ChainBuiltKeepsInv DEF Step
<1>5. CASE UNCHANGED vars
  <2>1. UNCHANGED <<pc, builder, verifier, now, input, extracted, reference, walk, results>>
    BY <1>5 DEF vars
  <2>2. ConfigInv'
    <3>1. NewVerifier' = NewVerifier
      BY <2>1 DEF NewVerifier
    <3> QED
      BY <2>1, <3>1 DEF IInv, ConfigInv
  <2>3. CallInv'
    BY <2>1, SameCall DEF IInv, CallInv
  <2>4. PoolInv'
    <3>1. Facts(pending)' = Facts(pending) /\ Decoded(Facts(pending).embedded)' = Decoded(Facts(pending).embedded)
      BY <2>1, SameCall DEF Decoded
    <3> QED
      BY <2>1, <3>1 DEF IInv, PoolInv, Walked, HasChain, walk
  <2>5. WalkInv'
    <3>1. CB!loop' = CB!loop
      BY <2>1 DEF walk, CB!loop
    <3> QED
      BY <2>1, <3>1, SameCall DEF IInv, WalkInv, Walked, HasChain, walk
  <2>6. ChainInv' /\ ResultsInv'
    BY <2>1, WalkUntouched, ResultsUntouched DEF IInv
  <2> QED
    BY <2>2, <2>3, <2>4, <2>5, <2>6 DEF IInv
<1> QED
  BY <1>1, <1>2, <1>3, <1>4, <1>5 DEF Next

LEMMA InitInv == Init => IInv
<1> SUFFICES ASSUME Init PROVE IInv
  OBVIOUS
<1>1. /\ pc = "configure" /\ verifier = <<>> /\ now = 0 /\ reference = 0 /\ results = <<>>
      /\ builder = [anchors |-> <<>>, intermediates |-> <<>>, policy |-> <<>>, time |-> <<>>, calls |-> 0]
      /\ anchors = <<>> /\ intermediates = <<>> /\ phase = "configure" /\ at = 0
      /\ chain = <<>> /\ used = {} /\ diagnostics = {} /\ outcome = "pending"
  BY DEF Init
<1>2. <<>> \in Seq(Range(Certs)) /\ <<>> \in Seq(Range(<<>>)) /\ Len(<<>>) = 0
  OBVIOUS
<1>3. ConfigInv
  <2>1. builder \in BuilderType
    BY <1>1, <1>2 DEF BuilderType
  <2>2. now \in 0..MaxNow /\ Len(results) <= MaxCalls
    BY <1>1, <1>2, ConstantsAssumption
  <2> QED
    BY <1>1, <1>2, <2>1, <2>2 DEF ConfigInv
<1>4. CallInv /\ PoolInv /\ WalkInv
  BY <1>1 DEF CallInv, PoolInv, WalkInv, Walked, HasChain, Reading, Judging
<1>5. ChainInv
  BY <1>1, <1>2, RestIsSound DEF AtRest
<1>6. ResultsInv
  <2>1. Range(results) = {}
    BY <1>1 DEF Range
  <2> QED
    BY <2>1 DEF ResultsInv
<1> QED
  BY <1>3, <1>4, <1>5, <1>6 DEF IInv

LEMMA InvHolds == Spec => []IInv
BY InitInv, StepKeepsInv, PTL DEF Spec

----------------------------------------------------------------------------
(* What follows for the caller.                                            *)

\* VerifierBuilder::build: there is no verifier without an anchor, its two
\* copies of the certificates never come apart, whatever is called and in
\* whatever order, and every result has one of the statuses the code gives.
THEOREM VerifierTypeCorrect == Spec => []TypeOK
<1>1. IInv => TypeOK
  <2> SUFFICES ASSUME IInv PROVE TypeOK
    OBVIOUS
  <2>1. \A r \in Range(results) : r.status \in {"TotalPassed", "TotalFailedSub", "Err"}
    BY DEF IInv, ResultsInv, Worth
  <2>2. verifier # <<>> =>
          /\ verifier.anchor_certs # <<>>
          /\ verifier.chain_builder = [anchors |-> verifier.anchor_certs,
                                       intermediates |-> verifier.intermediate_certs]
    BY DEF IInv, ConfigInv, NewVerifier
  <2> QED
    BY <2>1, <2>2 DEF IInv, ConfigInv, CallInv, TypeOK, Reading, Judging
<1> QED
  BY <1>1, InvHolds, PTL

\* Every pass, of any format, is of a document whose own checks succeed and
\* which says what was signed -- of XML, where the SignedInfo that is verified
\* is the one the digest is read from, which the code does not ensure -- over
\* a chain of the caller's and the document's certificates that holds at the
\* reference time and ends at an anchor of the caller's, with an algorithm
\* that the policy the caller chose accepts then.
THEOREM EveryPassIsJustified == Spec => []PassIsJustified
<1>1. IInv => PassIsJustified
  BY DEF IInv, ResultsInv, Worth, PassIsJustified, Passed
<1> QED
  BY <1>1, InvHolds, PTL

\* A document that was made as its pipeline asks for and not touched, whose
\* algorithm is accepted and whose certificates make one path to an anchor,
\* passes: neither the search for the chain nor the order of calls loses it.
THEOREM GenuineDocumentsPass == Spec => [](PlainVerifies => GenuinePasses)
<1>1. IInv => (PlainVerifies => GenuinePasses)
  BY DEF IInv, ResultsInv, Worth, Claimed, GenuinePasses, Passed
<1> QED
  BY <1>1, InvHolds, PTL

\* Two results that are determined by the caller's certificates, about one
\* signer, algorithm and time, are the same.
LEMMA DeterminedAlike ==
  ASSUME NEW r, NEW q, Determined(r), Determined(q),
         Facts(r).signer = Facts(q).signer, Algorithm(r) = Algorithm(q),
         r.reference = q.reference
  PROVE  r.status = q.status /\ (r.status = "TotalPassed" => r.chain = q.chain)
<1>1. StartOf(r) = StartOf(q)
  BY DEF StartOf, Signer
<1>2. AcceptedBy(r) <=> AcceptedBy(q)
  BY DEF AcceptedBy
<1>3. CASE ~AcceptedBy(r)
  BY <1>2, <1>3 DEF Determined
<1>4. CASE AcceptedBy(r)
  <2>1. PICK A, I, t, from : /\ A = builder.anchors /\ I = builder.intermediates
                             /\ t = r.reference /\ from = StartOf(r)
    OBVIOUS
  <2>2. PICK a : /\ a.phase = "done" /\ CB!Leads(A, I, t, from, a)
                 /\ r.status = IF a.outcome = "Ok" THEN "TotalPassed" ELSE "TotalFailedSub"
                 /\ r.chain = IF a.outcome = "Ok" THEN a.chain ELSE <<>>
    BY <1>4, <2>1 DEF Determined
  <2>3. PICK b : /\ b.phase = "done" /\ CB!Leads(A, I, t, from, b)
                 /\ q.status = IF b.outcome = "Ok" THEN "TotalPassed" ELSE "TotalFailedSub"
                 /\ q.chain = IF b.outcome = "Ok" THEN b.chain ELSE <<>>
    BY <1>1, <1>2, <1>4, <2>1 DEF Determined
  <2>4. a = b
    BY <2>2, <2>3, PoolsAreTyped, CB!LeadsToOneAnswer
  <2> QED
    BY <2>2, <2>3, <2>4
<1> QED
  BY <1>3, <1>4

\* The format makes no difference to trust: where a document brings no issuer
\* of its own, the verdict and the chain of a pass are a function of the
\* signer, the algorithm, the time and the builder.
THEOREM FormatsAgreeOnTrust == Spec => [](PlainVerifies => FormatsAgree)
<1>1. IInv => (PlainVerifies => FormatsAgree)
  <2> SUFFICES ASSUME IInv, PlainVerifies,
                      NEW r \in Range(results), NEW q \in Range(results),
                      Facts(r).untouched, Plain(r.input), BringsNothing(r),
                      Facts(q).untouched, Plain(q.input), BringsNothing(q),
                      Facts(r).signer = Facts(q).signer, Algorithm(r) = Algorithm(q),
                      r.reference = q.reference
               PROVE  r.status = q.status /\ (r.status = "TotalPassed" => r.chain = q.chain)
    BY DEF FormatsAgree
  <2>1. Determined(r) /\ Determined(q)
    BY DEF IInv, ResultsInv, Worth, Claimed
  <2> QED
    BY <2>1, DeterminedAlike
<1> QED
  BY <1>1, InvHolds, PTL

\* No call leaves anything behind for the next: one document gets one verdict
\* and one chain at one time, whatever was verified in between.
THEOREM CallsDoNotInterfere == Spec => []CallsAreIndependent
<1>1. IInv => CallsAreIndependent
  <2> SUFFICES ASSUME IInv, NEW r \in Range(results), NEW q \in Range(results),
                      r.input = q.input, r.reference = q.reference
               PROVE  r.status = q.status /\ r.chain = q.chain
    BY DEF CallsAreIndependent
  <2>1. Foretold(r) /\ Foretold(q)
    BY DEF IInv, ResultsInv, Worth
  <2>2. /\ Facts(r) = Facts(q) /\ StartOf(r) = StartOf(q)
        /\ Chained(r) <=> Chained(q)
        /\ AcceptedBy(r) <=> AcceptedBy(q)
    BY DEF Facts, StartOf, Signer, Chained, Undecodable, AcceptedBy, Algorithm
  <2>3. CASE ~Accepts(r.input) \/ ~Chained(r)
    BY <2>1, <2>2, <2>3 DEF Foretold
  <2>4. CASE Accepts(r.input) /\ Chained(r)
    <3>1. PICK A, I, t, from : /\ A = builder.anchors /\ t = r.reference /\ from = StartOf(r)
                               /\ I = builder.intermediates \o Decoded(Facts(r).embedded)
      OBVIOUS
    <3>2. PICK a : /\ a.phase = "done" /\ CB!Leads(A, I, t, from, a)
                   /\ r.status = IF a.outcome = "Ok" /\ AcceptedBy(r) THEN "TotalPassed" ELSE "TotalFailedSub"
                   /\ r.chain = IF a.outcome = "Ok" THEN a.chain ELSE <<>>
      BY <2>1, <2>4, <3>1 DEF Foretold
    <3>3. PICK b : /\ b.phase = "done" /\ CB!Leads(A, I, t, from, b)
                   /\ q.status = IF b.outcome = "Ok" /\ AcceptedBy(q) THEN "TotalPassed" ELSE "TotalFailedSub"
                   /\ q.chain = IF b.outcome = "Ok" THEN b.chain ELSE <<>>
      BY <2>1, <2>2, <2>4, <3>1 DEF Foretold
    <3>4. a = b
      BY <3>2, <3>3, PoolsAreTyped, CB!LeadsToOneAnswer
    <3> QED
      BY <2>2, <3>2, <3>3, <3>4
  <2> QED
    BY <2>3, <2>4
<1> QED
  BY <1>1, InvHolds, PTL

----------------------------------------------------------------------------
(* A call ends.                                                            *)

\* Outside the walk the steps left depend on pc alone.
Ahead(to) ==
  CASE to \in {"jws", "xml", "cms"} -> MaxDepth + 8
    [] to = "policy" -> MaxDepth + 7
    [] to = "embed" -> MaxDepth + 6
    [] to = "build" -> MaxDepth + 5
    [] to = "cmsPolicy" -> 2
    [] to \in {"rejected", "unsupported"} -> 1
    [] OTHER -> 0

LEMMA AheadOfPc ==
  /\ pc # "walk" => StepsLeft = Ahead(pc)
  /\ pc = "walk" => StepsLeft = IF phase = "build" THEN MaxDepth + 4 - Len(chain) ELSE 3
BY DEF StepsLeft, Ahead

LEMMA AheadOfPcNext ==
  /\ pc' # "walk" => StepsLeft' = Ahead(pc')
  /\ pc' = "walk" => StepsLeft' = IF phase' = "build" THEN MaxDepth + 4 - Len(chain') ELSE 3
BY DEF StepsLeft, Ahead

\* Where a step that is not of the walk may lead.
LEMMA StepLeads ==
  ASSUME Step, ~Walk
  PROVE  \/ pc \in {"jws", "xml"} /\ pc' \in {"idle", "policy"}
         \/ pc = "cms" /\ pc' \in {"idle", "embed"}
         \/ pc = "policy" /\ pc' \in {"embed", "rejected"}
         \/ pc = "embed" /\ pc' \in {"idle", "build"}
         \/ pc = "build" /\ BuildChain
         \/ pc = "walk" /\ phase = "done" /\ pc' \in {"idle", "cmsPolicy"}
         \/ pc = "cmsPolicy" /\ pc' \in {"idle", "rejected"}
         \/ pc \in {"rejected", "unsupported"} /\ pc' = "idle"
<1>1. CASE CheckJws
  BY <1>1 DEF CheckJws, verify_jws, Answer, Failed, Verified
<1>2. CASE CheckXml
  BY <1>2 DEF CheckXml, verify_xml, Answer, Failed, Verified
<1>3. CASE CheckCms
  BY <1>3 DEF CheckCms, verify_cades, Answer, Failed
<1>4. CASE ApplyPolicy
  BY <1>4 DEF ApplyPolicy
<1>5. CASE Embed
  BY <1>5 DEF Embed, Answer, Failed
<1>6. CASE BuildChain
  BY <1>6 DEF BuildChain
<1>7. CASE ChainBuilt
  BY <1>7 DEF ChainBuilt, Answer, Failed, Go
<1>8. CASE ApplyPolicyToChain
  BY <1>8 DEF ApplyPolicyToChain, Answer, Go
<1>9. CASE Rejected \/ Unsupported
  BY <1>9 DEF Rejected, Unsupported, Answer, Failed
<1> QED
  BY <1>1, <1>2, <1>3, <1>4, <1>5, <1>6, <1>7, <1>8, <1>9 DEF Step

LEMMA StepAdvances ==
  ASSUME IInv, Step
  PROVE  StepsLeft' \in Nat /\ StepsLeft' < StepsLeft
<1>1. MaxDepth \in Nat \ {0}
  BY PoolsAreTyped
<1>2. CASE Walk
  <2>1. /\ pc = "walk" /\ pc' = "walk" /\ CB!Iterate
    BY <1>2, IterateIsTheSame DEF Walk
  <2>2. phase = "build" /\ chain \in Seq(CB!Certificate) /\ chain # <<>>
    BY <2>1
    DEF IInv, ChainInv, CB!IInv, CB!TypeOK, CB!Iterate, CB!ReachAnchor, CB!ExtendByIntermediate,
        CB!ExtendByAnchor, CB!NoIssuer, CB!Searching
  <2>3. \/ phase' = "done"
        \/ phase' = "build" /\ Len(chain') = Len(chain) + 1 /\ Len(chain') <= MaxDepth
    BY <2>1, PoolsAreTyped, CB!TurnAdvances DEF IInv, ChainInv, CB!IInv
  <2>4. Len(chain) \in Nat \ {0} /\ Len(chain) <= MaxDepth
    BY <2>2 DEF IInv, ChainInv, CB!IInv, CB!LoopInv
  <2>5. /\ StepsLeft = MaxDepth + 4 - Len(chain)
        /\ StepsLeft' = IF phase' = "build" THEN MaxDepth + 4 - Len(chain') ELSE 3
    BY <2>1, <2>2, AheadOfPc, AheadOfPcNext
  <2> QED
    BY <1>1, <2>3, <2>4, <2>5
<1>3. CASE BuildChain
  <2>1. pc = "build" /\ pc' = "walk" /\ Len(chain') = 1
    BY <1>3 DEF BuildChain, C!build
  <2>2. StepsLeft = MaxDepth + 5 /\ StepsLeft' \in {MaxDepth + 4 - 1, 3}
    BY <2>1, AheadOfPc, AheadOfPcNext DEF Ahead
  <2> QED
    BY <1>1, <2>2
<1>4. CASE ~Walk /\ pc = "walk"
  <2>1. phase = "done" /\ pc' \in {"idle", "cmsPolicy"}
    BY <1>4, StepLeads DEF BuildChain
  <2>2. StepsLeft = 3 /\ StepsLeft' \in {0, 2}
    BY <1>4, <2>1, AheadOfPc, AheadOfPcNext DEF Ahead
  <2> QED
    BY <2>2
<1>5. CASE ~Walk /\ ~BuildChain /\ pc # "walk"
  <2>1. /\ pc' # "walk"
        /\ Ahead(pc') \in Nat /\ Ahead(pc') < Ahead(pc)
    BY <1>1, <1>5, StepLeads DEF Ahead
  <2> QED
    BY <1>5, <2>1, AheadOfPc, AheadOfPcNext
<1> QED
  BY <1>2, <1>3, <1>4, <1>5

\* Whatever a document brings along and however its certificates name each
\* other, each step of a call leaves fewer before it.
THEOREM EveryStepCounts == Spec => CallAdvances
<1>1. IInv => (Step => StepsLeft' \in Nat /\ StepsLeft' < StepsLeft)
  BY StepAdvances
<1> QED
  BY <1>1, InvHolds, PTL DEF CallAdvances
=============================================================================
