------------------------------ MODULE Verifier -------------------------------
(***************************************************************************)
(* The facade of eidas-verify and the B-B pipelines behind it: one builder *)
(* is filled and turned into a verifier, whose `verify` is then called any *)
(* number of times, on any format, while the clock runs.  The verifier     *)
(* holds its certificates twice, as a ChainBuilder for JAdES and XAdES and *)
(* as two lists from which the CMS formats build one of their own.         *)
(*                                                                         *)
(* eidas-jades and eidas-xades are modelled whole; of `verify_cades`,      *)
(* which PAdES and ASiC call too, the path of one signer without evidence  *)
(* (CadesVerify has the rest).  Chains are built by ChainBuilder and       *)
(* algorithms judged by AlgorithmPolicy, not assumed.                      *)
(***************************************************************************)
EXTENDS Integers, Sequences, FiniteSets, Functions, SequencesExt

CONSTANTS
  Certs,             \* name |-> certificate; other names do not decode
  NoKeyId,           \* an absent key identifier
  KeyAlgorithm,      \* key |-> [signature, key_bits]
  Documents,         \* name |-> input document
  AnchorCalls, IntermediateCalls, Policies, Modes,   \* arguments of the builder calls
  AlgorithmIds,      \* the algorithms the documents use
  End2028, NoSunset, \* 2029-01-01; no entry
  MaxDepth,          \* longest chain (16 in the code)
  MaxNow,            \* bound: the wall clock stops here
  MaxBuilderCalls,   \* bound: calls on the builder
  MaxCalls           \* bound: calls of verify

X == INSTANCE XmlSignature

VARIABLES
  pc,           \* "configure", "refused", "idle", or the statement of the call
  builder,      \* VerifierBuilder
  verifier,     \* Verifier
  now,          \* the wall clock
  input,        \* the document of the call
  extracted,    \* local: what was read from it, once the signature is verified
  reference,    \* local: reference_time
  anchors, intermediates,   \* the pools of the chain builder the call uses
  phase, at, chain, used, diagnostics, outcome,   \* the call of ChainBuilder.build
  results       \* what the calls returned

walk == <<anchors, intermediates, phase, at, chain, used, diagnostics, outcome>>
vars == <<pc, builder, verifier, now, input, extracted, reference, walk, results>>

ValuesOf(field) == {Certs[n][field] : n \in DOMAIN Certs}
C == INSTANCE ChainBuilder WITH
  Name <- ValuesOf("subject") \cup ValuesOf("issuer"), Key <- ValuesOf("spki"),
  KeyId <- (ValuesOf("ski") \cup ValuesOf("aki")) \ {NoKeyId},
  AnchorPool <- Range(Certs), IntermediatePool <- Range(Certs), SignerPool <- Range(Certs),
  EvaluationTime <- Int, MaxAnchors <- 0, MaxIntermediates <- 0

Decoded(names) == [n \in DOMAIN names |-> Certs[names[n]]]
doc == Documents[input]

----------------------------------------------------------------------------
(* The policy.                                                             *)

Sha2or3 == {"Sha224", "Sha256", "Sha384", "Sha512", "Sha3_256", "Sha3_384", "Sha3_512"}
HashAlgorithm == Sha2or3 \cup {"Sha1", "Md5"}

\* eidas-policy: RSA of 2048 bits up to the end of 2028, no DSA.
etsi_119_312_2023 ==
  [permitted |-> {},
   forbidden |-> {a \in AlgorithmIds : a.signature = "Dsa" /\ a.key_bits \in {2048, 3072}
                                        /\ a.hash \in {"Sha224", "Sha256", "Sha384", "Sha512"}},
   sunsets |-> [a \in AlgorithmIds |->
     IF a.signature \in {"RsaPkcs1v15", "RsaPss"} /\ a.hash \in Sha2or3 /\ a.key_bits = 2048
       THEN End2028 ELSE NoSunset],
   floors |-> [rsa |-> 2048, ecc |-> 224, hash |-> 224, sha1 |-> FALSE]]

\* The policy the verifier holds.
Configured == INSTANCE AlgorithmPolicy WITH
  permitted <- verifier.policy.permitted, forbidden <- verifier.policy.forbidden,
  sunsets <- verifier.policy.sunsets, floors <- verifier.policy.floors,
  Instant <- Int, Floors <- {}

----------------------------------------------------------------------------
(* The builder.  Each call takes the builder and returns it.               *)

Init ==
  /\ pc = "configure"
  /\ builder = [anchors |-> <<>>, intermediates |-> <<>>, policy |-> <<>>, time |-> <<>>, calls |-> 0]
  /\ verifier = <<>>
  /\ now = 0 /\ input = "" /\ extracted = <<>> /\ reference = 0 /\ results = <<>>
  /\ anchors = <<>> /\ intermediates = <<>> /\ phase = "configure" /\ at = 0
  /\ chain = <<>> /\ used = {} /\ diagnostics = {} /\ outcome = "pending"

Call(b) ==
  /\ pc = "configure" /\ builder.calls < MaxBuilderCalls
  /\ builder' = [b EXCEPT !.calls = @ + 1]
  /\ UNCHANGED <<pc, verifier, now, input, extracted, reference, walk, results>>

trust_anchors(names) == Call([builder EXCEPT !.anchors = @ \o Decoded(names)])
intermediate_certificates(names) == Call([builder EXCEPT !.intermediates = @ \o Decoded(names)])
policy(p) == Call([builder EXCEPT !.policy = <<p>>])
validation_time(mode) == Call([builder EXCEPT !.time = <<mode>>])

UnwrapOr(option, default) == IF option = <<>> THEN default ELSE option[1]

NewVerifier ==
  [chain_builder |-> [anchors |-> builder.anchors, intermediates |-> builder.intermediates],
   anchor_certs |-> builder.anchors,
   intermediate_certs |-> builder.intermediates,
   policy |-> UnwrapOr(builder.policy, etsi_119_312_2023),
   time |-> UnwrapOr(builder.time, <<"Now">>)]

\* Anchors are not asked for.
Bad_build ==
  /\ pc = "configure"
  /\ pc' = "idle" /\ verifier' = NewVerifier
  /\ UNCHANGED <<builder, now, input, extracted, reference, walk, results>>

build ==
  /\ pc = "configure"
  /\ IF builder.anchors = <<>>
       THEN pc' = "refused" /\ UNCHANGED verifier
       ELSE pc' = "idle" /\ verifier' = NewVerifier
  /\ UNCHANGED <<builder, now, input, extracted, reference, walk, results>>

Tick ==
  /\ now < MaxNow /\ now' = now + 1
  /\ UNCHANGED <<pc, builder, verifier, input, extracted, reference, walk, results>>

----------------------------------------------------------------------------
(* Steps of a call.                                                        *)

\* ValidationTime::resolve(None)
resolve == IF verifier.time[1] = "At" THEN verifier.time[2] ELSE now

NoCall == UNCHANGED <<builder, verifier, now, input>>
Keep == NoCall /\ UNCHANGED extracted
Go(to) == pc' = to /\ Keep /\ UNCHANGED <<reference, walk, results>>

\* The call returns; the chain builder it used is gone.
Answer(status, code, path) ==
  /\ results' = Append(results, [input |-> input, reference |-> reference, status |-> status,
                                 code |-> code, chain |-> path, diagnostics |-> diagnostics])
  /\ pc' = "idle" /\ extracted' = <<>> /\ reference' = 0
  /\ anchors' = <<>> /\ intermediates' = <<>> /\ phase' = "configure" /\ at' = 0
  /\ chain' = <<>> /\ used' = {} /\ diagnostics' = {} /\ outcome' = "pending"
  /\ NoCall

Failed(code) == Answer("TotalFailedSub", code, <<>>)

CmsForms == {"CadesDetached", "Bare", "Pdf", "Asic"}
Pipeline(form) ==
  CASE form \in CmsForms -> "cms"
    [] form \in {"JadesCompact", "JadesJson"} -> "jws"
    [] form = "XadesEnveloped" -> "xml"
    [] OTHER -> "unsupported"

verify(d) ==
  /\ pc = "idle" /\ Len(results) < MaxCalls
  /\ input' = d /\ pc' = Pipeline(Documents[d].form)
  /\ UNCHANGED <<builder, verifier, now, extracted, reference, walk, results>>

Unsupported == pc = "unsupported" /\ Answer("Err", "Unsupported", <<>>)

\* The algorithms of verify_jws_signature and verify_xmldsig_signature, under
\* the names XML Signature gives them; ECDSA is tied to one curve by the hash.
Methods ==
  [m \in {"rsa-sha256", "rsa-sha384", "rsa-sha512", "ecdsa-sha256", "ecdsa-sha384"} |->
     CASE m = "rsa-sha256" -> [signature |-> "RsaPkcs1v15", hash |-> "Sha256"]
       [] m = "rsa-sha384" -> [signature |-> "RsaPkcs1v15", hash |-> "Sha384"]
       [] m = "rsa-sha512" -> [signature |-> "RsaPkcs1v15", hash |-> "Sha512"]
       [] m = "ecdsa-sha256" -> [signature |-> "Ecdsa", hash |-> "Sha256"]
       [] m = "ecdsa-sha384" -> [signature |-> "Ecdsa", hash |-> "Sha384"]]

FitsCurve(m, bits) == (m = "ecdsa-sha256" => bits = 256) /\ (m = "ecdsa-sha384" => bits = 384)

\* What the policy is asked about: a hash stands beside the method because CMS
\* names one of its own, the digest algorithm.
AlgorithmOf(m, hash, key) ==
  [signature |-> Methods[m].signature, hash |-> hash, key_bits |-> KeyAlgorithm[key].key_bits]

Fits(key, m) ==
  /\ m \in DOMAIN Methods
  /\ KeyAlgorithm[key].signature = Methods[m].signature /\ FitsCurve(m, KeyAlgorithm[key].key_bits)

\* A signature is a term; verify_*_signature accepts it under key and method.
Verifies(key, m, signed, value) == Fits(key, m) /\ value = <<"signature", key, m, signed>>

Decodes(name) == name \in DOMAIN Certs
KeyOf(name) == Certs[name].spki

\* A payload left out of flattened JSON is signed over as the empty one.
signing_input(jws) == <<jws.header, jws.payload>>

\* What is read from an accepted signature.  It brings along: of a JWS the
\* certificates after the first, of a CMS all certificates, of KeyInfo nothing.
Contents(form, signer, method, hash, embedded) ==
  [form |-> form, signer |-> signer, method |-> method, hash |-> hash, embedded |-> embedded]

Verified(form, signer, method, embedded) ==
  /\ extracted' = Contents(form, signer, method, Methods[method].hash, embedded)
  /\ pc' = "policy" /\ NoCall /\ UNCHANGED <<reference, walk, results>>

\* The thumbprint names the certificate it is the hash of.
enforce_x5t_s256(header, cert) == header.x5t = cert

\* verify_one_inner down to the policy: signer, thumbprint, signature.
JwsVerifies(jws) ==
  LET h == jws.header IN
  /\ h.x5c # <<>> /\ Decodes(h.x5c[1])
  /\ enforce_x5t_s256(h, h.x5c[1])
  /\ Verifies(KeyOf(h.x5c[1]), h.alg, signing_input(jws), jws.signature)

verify_jws(jws) ==
  IF ~jws.wellFormed THEN Answer("Err", "Json", <<>>)
  ELSE IF ~JwsVerifies(jws) THEN Failed("JADES_VERIFICATION_ERROR")
  ELSE Verified("jws", jws.header.x5c[1], jws.header.alg, Tail(jws.header.x5c))

CheckJws == pc = "jws" /\ verify_jws(doc.jws)

Exclusive == <<"exc-c14n">>
Enveloped == <<"enveloped-signature">>
DigestMethods == {<<"sha256">>, <<"sha384">>, <<"sha512">>}

\* The text of an X509Certificate is the name of a certificate.
CertificateText(value) == Len(value) = 1 /\ Decodes(value[1])
SignerName(sig) == sig.signer_cert[1]

InProfile(sig) ==
  /\ sig.canonicalization_method = Exclusive
  /\ sig.reference_transforms \subseteq {Enveloped, Exclusive}
  /\ sig.signer_cert # X!Missing
  /\ sig.reference_digest_method \in DigestMethods

digest_bytes(sig, xml) ==
  <<"digest", sig.reference_digest_method,
    X!exc_c14n_with_envelope_strip(xml, Enveloped \in sig.reference_transforms)>>

XmlVerifies(sig, xml) ==
  LET signed == X!canonicalise_signed_info(xml) IN
  signed # X!NotFound
    /\ Verifies(KeyOf(SignerName(sig)), sig.signature_method[1], signed, sig.signature_value)

\* parse_x509_data: every certificate in KeyInfo is decoded, and one that does
\* not ends the call with an error, whichever becomes the signer's.
CertificatesDecode(xml) ==
  \A k \in X!X509Certificates(xml, X!Earliest(X!Signatures(xml))) : CertificateText(X!read_text(xml, k))

\* verify_one_inner of eidas-xades down to the policy: what is found first.
finding(sig, xml) ==
  IF ~InProfile(sig) THEN "XADES_VERIFICATION_ERROR"
  ELSE IF digest_bytes(sig, xml) # sig.reference_digest_value THEN "REFERENCE_DIGEST_MISMATCH"
  ELSE IF ~XmlVerifies(sig, xml) THEN "XADES_VERIFICATION_ERROR"
  ELSE "verified"

found_in(sig, xml) ==
  [code |-> finding(sig, xml), signer |-> SignerName(sig), method |-> sig.signature_method[1]]

\* The errors of parse_xml_signature, Xml and Asn1, are not told apart.
XmlFinding(xml) ==
  IF X!Parses(xml) /\ CertificatesDecode(xml) THEN found_in(X!parse_xml_signature(xml), xml)
  ELSE [code |-> "Xml"]

\* Depends on the document alone; a function, so that it is computed once.
Findings ==
  [d \in {n \in DOMAIN Documents : Documents[n].form = "XadesEnveloped"} |-> XmlFinding(Documents[d].xml)]

verify_xml(found) ==
  CASE found.code = "Xml" -> Answer("Err", "Xml", <<>>)
    [] found.code = "verified" -> Verified("xml", found.signer, found.method, <<>>)
    [] OTHER -> Failed(found.code)

CheckXml == pc = "xml" /\ verify_xml(Findings[input])

\* run_bb_core of verify_cades; the time is resolved before chain and policy.
\* classify_algorithm takes the hash from the digest algorithm, not from the
\* method the signature is verified with.
verify_cades(cms) ==
  IF cms.faults # {} THEN Failed("CADES_VERIFICATION_ERROR")
  ELSE /\ extracted' = Contents("cms", cms.signer, cms.method, cms.digestAlg, cms.certs)
       /\ reference' = resolve /\ pc' = "embed" /\ NoCall /\ UNCHANGED <<walk, results>>

CheckCms == pc = "cms" /\ verify_cades(doc.cms)

PolicyAccepts(t) ==
  Configured!is_accepted_at(AlgorithmOf(extracted.method, extracted.hash, KeyOf(extracted.signer)), t)

\* JAdES and XAdES: the time is resolved and the policy asked before the chain.
ApplyPolicy ==
  /\ pc = "policy"
  /\ reference' = resolve
  /\ IF PolicyAccepts(resolve) THEN pc' = "embed" ELSE pc' = "rejected"
  /\ Keep /\ UNCHANGED <<walk, results>>

\* CAdES asks it about the chain it has built.
ApplyPolicyToChain ==
  /\ pc = "cmsPolicy"
  /\ IF PolicyAccepts(reference) THEN Answer("TotalPassed", "", chain) ELSE Go("rejected")

\* A rejected algorithm is tried again with a new reading of the time.
Bad_Rejected == pc = "rejected" /\ Go(IF extracted.form = "cms" THEN "cmsPolicy" ELSE "policy")

\* CAdES reports the chain it has built.
Rejected ==
  /\ pc = "rejected"
  /\ Answer("TotalFailedSub", "ALG_POLICY_REJECTED", IF extracted.form = "cms" THEN chain ELSE <<>>)

\* The intermediates are forgotten in the second copy.
Bad_cades_trust_material ==
  [trust_anchors |-> verifier.anchor_certs, intermediates |-> <<>>]

cades_trust_material ==
  [trust_anchors |-> verifier.anchor_certs, intermediates |-> verifier.intermediate_certs]

\* Embedded certificates are pushed on the verifier's own chain builder.
Bad_Embed ==
  /\ pc = "embed"
  /\ LET base == IF extracted.form = "cms"
                   THEN [anchors |-> cades_trust_material.trust_anchors,
                         intermediates |-> cades_trust_material.intermediates]
                   ELSE verifier.chain_builder IN
     IF \E c \in Range(extracted.embedded) : ~Decodes(c) THEN Failed("JADES_VERIFICATION_ERROR")
     ELSE /\ anchors' = base.anchors
          /\ intermediates' = base.intermediates \o Decoded(extracted.embedded)
          /\ verifier' = [verifier EXCEPT !.chain_builder.intermediates = intermediates']
          /\ pc' = "build"
          /\ UNCHANGED <<builder, now, input, extracted, reference, phase, at, chain, used,
                         diagnostics, outcome, results>>

\* A chain builder for this call: a clone of the verifier's with what the
\* signature embeds, or for CMS one filled from the two lists.
Embed ==
  /\ pc = "embed"
  /\ LET base == IF extracted.form = "cms"
                   THEN [anchors |-> cades_trust_material.trust_anchors,
                         intermediates |-> cades_trust_material.intermediates]
                   ELSE verifier.chain_builder IN
     IF \E c \in Range(extracted.embedded) : ~Decodes(c) THEN Failed("JADES_VERIFICATION_ERROR")
     ELSE /\ anchors' = base.anchors
          /\ intermediates' = base.intermediates \o Decoded(extracted.embedded)
          /\ pc' = "build"
          /\ Keep /\ UNCHANGED <<reference, phase, at, chain, used, diagnostics, outcome, results>>

BuildChain ==
  /\ pc = "build"
  /\ C!build(Certs[extracted.signer], reference)
  /\ pc' = "walk" /\ Keep /\ UNCHANGED <<reference, results>>

\* A step of the loop of ChainBuilder.build.
Walk == pc = "walk" /\ C!Iterate /\ Keep /\ UNCHANGED <<pc, reference, results>>

ErrorCode == CASE extracted.form = "cms" -> "CADES_VERIFICATION_ERROR"
               [] extracted.form = "jws" -> "JADES_VERIFICATION_ERROR"
               [] extracted.form = "xml" -> "XADES_VERIFICATION_ERROR"

ChainBuilt ==
  /\ pc = "walk" /\ phase = "done"
  /\ IF outcome # "Ok" THEN Failed(ErrorCode)
     ELSE IF extracted.form = "cms" THEN Go("cmsPolicy")
     ELSE Answer("TotalPassed", "", chain)

Step ==
  \/ Unsupported \/ CheckJws \/ CheckXml \/ CheckCms \/ ApplyPolicy \/ ApplyPolicyToChain
  \/ Rejected \/ Embed \/ BuildChain \/ Walk \/ ChainBuilt

Next ==
  \/ \E names \in AnchorCalls : trust_anchors(names)
  \/ \E names \in IntermediateCalls : intermediate_certificates(names)
  \/ \E p \in Policies : policy(p)
  \/ \E mode \in Modes : validation_time(mode)
  \/ build
  \/ \E d \in DOMAIN Documents : verify(d)
  \/ Step
  \/ Tick

\* A call once made runs to its end; nobody need make one, nor the clock move.
Spec == Init /\ [][Next]_vars /\ WF_vars(Step)

----------------------------------------------------------------------------
(* The documents.  `facts` says what happened to one: who signed it and     *)
(* how, what it brings along, what was signed (`signed`: the signing input  *)
(* of a JWS, the content of a CMS, of XML the octets the Reference digest   *)
(* is taken of) and whether it arrives as it was made (`untouched`).        *)

\* The document's own checks succeed, and what is then read from it.
Accepts(d) ==
  CASE Pipeline(Documents[d].form) = "jws" -> Documents[d].jws.wellFormed /\ JwsVerifies(Documents[d].jws)
    [] Pipeline(Documents[d].form) = "cms" -> Documents[d].cms.faults = {}
    [] Pipeline(Documents[d].form) = "xml" -> Findings[d].code = "verified"
    [] OTHER -> FALSE

ReadFrom(d) ==
  CASE Pipeline(Documents[d].form) = "jws" ->
         Contents("jws", Documents[d].jws.header.x5c[1], Documents[d].jws.header.alg,
                  Methods[Documents[d].jws.header.alg].hash, Tail(Documents[d].jws.header.x5c))
    [] Pipeline(Documents[d].form) = "cms" ->
         Contents("cms", Documents[d].cms.signer, Documents[d].cms.method, Documents[d].cms.digestAlg,
                  Documents[d].cms.certs)
    [] Pipeline(Documents[d].form) = "xml" ->
         Contents("xml", Findings[d].signer, Findings[d].method, Methods[Findings[d].method].hash, <<>>)

\* The document says what was signed: signing input, content, or, of XML, the
\* document without comments, instructions and elements called Signature.
AsSigned(d) ==
  CASE Pipeline(Documents[d].form) = "jws" -> signing_input(Documents[d].jws) = Documents[d].facts.signed
    [] Pipeline(Documents[d].form) = "cms" -> Documents[d].cms.content = Documents[d].facts.signed
    [] Pipeline(Documents[d].form) = "xml" ->
         X!exc_c14n_with_envelope_strip(Documents[d].xml,
             Enveloped \in X!parse_xml_signature(Documents[d].xml).reference_transforms)
           = Documents[d].facts.signed
    [] OTHER -> FALSE

\* The SignedInfo whose signature is verified is the one the digest is read
\* from; of the other formats there is one reading.
ReadOnce(d) == Pipeline(Documents[d].form) = "xml" => X!CutIsParsed(Documents[d].xml)

\* The accepted documents without which a pass would be worth nothing: a set,
\* like PlainDocuments below, because it depends on the documents alone.
Faithful == {d \in DOMAIN Documents : Accepts(d) /\ (ReadOnce(d) => AsSigned(d))}

\* Signatures and digests cannot be made up: what verifies was signed by the
\* key it verifies under, and a CMS that parses has certificates that do.
\* That the digest was signed follows where ReadOnce holds, and only there:
\* find_tag may cut out another SignedInfo than the parser reads.
ASSUME DocumentsAssumption ==
  \A d \in DOMAIN Documents : Accepts(d) =>
    /\ ReadOnce(d) => AsSigned(d)
    /\ Documents[d].facts.signer = ReadFrom(d).signer
    /\ Documents[d].facts.method = ReadFrom(d).method
    /\ Documents[d].facts.hash = ReadFrom(d).hash
    /\ Documents[d].facts.embedded = ReadFrom(d).embedded
    /\ Decodes(ReadFrom(d).signer) /\ ReadFrom(d).embedded \in Seq(Range(ReadFrom(d).embedded))
    /\ ReadFrom(d).form = "cms" => \A n \in Range(ReadFrom(d).embedded) : Decodes(n)
    /\ ReadFrom(d).method \in DOMAIN Methods /\ ReadFrom(d).hash \in HashAlgorithm
    /\ AlgorithmOf(ReadFrom(d).method, ReadFrom(d).hash, KeyOf(ReadFrom(d).signer)) \in AlgorithmIds

\* Made the way the pipelines ask for.  A JWS: attached payload, the thumbprint
\* that of the first certificate, all of x5c decodable.  XML: what Narrow says,
\* and the profile of lib.rs:9-18 with one certificate.  A CMS needs no more
\* than a signer without faults.
PlainJws(jws) ==
  LET h == jws.header IN
  /\ jws.wellFormed /\ h.x5c # <<>> /\ \A n \in DOMAIN h.x5c : Decodes(h.x5c[n])
  /\ h.x5t = h.x5c[1] /\ jws.payload # ""
  /\ Fits(KeyOf(h.x5c[1]), h.alg)

PlainXml(xml) ==
  /\ X!Parses(xml) /\ X!Narrow(xml) /\ CertificatesDecode(xml)
  /\ LET sig == X!parse_xml_signature(xml) IN
     /\ InProfile(sig) /\ Enveloped \in sig.reference_transforms /\ sig.reference_uri = <<"">>
     /\ Fits(KeyOf(SignerName(sig)), sig.signature_method[1])
  /\ Cardinality(X!X509Certificates(xml, X!Earliest(X!Signatures(xml)))) = 1

PlainDocuments ==
  {d \in DOMAIN Documents :
     CASE Pipeline(Documents[d].form) = "jws" -> PlainJws(Documents[d].jws)
       [] Pipeline(Documents[d].form) = "cms" -> TRUE
       [] Pipeline(Documents[d].form) = "xml" -> PlainXml(Documents[d].xml)
       [] OTHER -> FALSE}
Plain(d) == d \in PlainDocuments

\* And what was made so, and not touched, verifies.
PlainVerifies ==
  \A d \in DOMAIN Documents : (Documents[d].facts.untouched /\ Plain(d)) =>
    Accepts(d) /\ \A n \in Range(Documents[d].facts.embedded) : Decodes(n)

ASSUME ConstantsAssumption ==
  /\ \A n \in DOMAIN Certs : Certs[n] \in C!Certificate
  /\ AnchorCalls \subseteq Seq(DOMAIN Certs) /\ IntermediateCalls \subseteq Seq(DOMAIN Certs)
  /\ \A mode \in Modes : mode[1] = "At" => mode[2] \in Int
  /\ End2028 \in Int /\ NoSunset \notin Int
  /\ MaxDepth \in Nat \ {0} /\ MaxNow \in Nat /\ MaxBuilderCalls \in Nat /\ MaxCalls \in Nat

----------------------------------------------------------------------------
(* What the results are worth.  The reference is the builder, as the caller *)
(* filled it, and the documents; never the verifier.                       *)

\* VerifierBuilder::build: a verifier is never without an anchor, and its two
\* copies of the certificates stay the same.
TypeOK ==
  /\ pc \in {"configure", "refused", "idle", "unsupported", "jws", "xml", "cms", "policy",
             "cmsPolicy", "rejected", "embed", "build", "walk"}
  /\ pc \in {"configure", "refused"} => verifier = <<>> /\ results = <<>>
  /\ verifier # <<>> =>
       /\ verifier.anchor_certs # <<>>
       /\ verifier.chain_builder = [anchors |-> verifier.anchor_certs,
                                    intermediates |-> verifier.intermediate_certs]
  /\ now \in 0..MaxNow /\ reference \in Int
  /\ Len(results) <= MaxCalls
  /\ \A r \in Range(results) : r.status \in {"TotalPassed", "TotalFailedSub", "Err"}

Passed == {r \in Range(results) : r.status = "TotalPassed"}

\* Who signed a document and how, and what it brings along.
Facts(r) == Documents[r.input].facts
Signer(r) == Certs[Facts(r).signer]
Brought(r) == {Certs[n] : n \in {m \in Range(Facts(r).embedded) : Decodes(m)}}
Available(r) == Range(builder.anchors) \cup Range(builder.intermediates) \cup Brought(r)

\* The policy the caller chose.
ChosenPolicy == UnwrapOr(builder.policy, etsi_119_312_2023)
Chosen == INSTANCE AlgorithmPolicy WITH
  permitted <- ChosenPolicy.permitted, forbidden <- ChosenPolicy.forbidden,
  sunsets <- ChosenPolicy.sunsets, floors <- ChosenPolicy.floors,
  Instant <- Int, Floors <- {}
Algorithm(r) == AlgorithmOf(Facts(r).method, Facts(r).hash, KeyOf(Facts(r).signer))
AcceptedBy(r) == Chosen!is_accepted_at(Algorithm(r), r.reference)

\* The result of a pass: the document says what was signed, but for XML whose
\* SignedInfo is not the one that was verified.  Its chain goes from the
\* signer, whose certificate covers the reference time, over configured or
\* embedded certificates, each able to issue the one below then, to an anchor
\* the caller gave, which may stand for a signer or an issuer of its name and
\* key.
Justified(r) ==
  LET length == Len(r.chain)
      top == r.chain[length] IN
  /\ r.input \in Faithful
  /\ C!validate_link_time(Signer(r), r.reference)
  /\ IF length > 1 THEN r.chain[1] = Signer(r) ELSE C!SameAsAnchor(Signer(r), top)
  /\ \A n \in 1..(length - 2) : C!ValidLink(r.chain[n], r.chain[n + 1], r.reference)
  /\ \A n \in 2..(length - 1) : r.chain[n] \in Range(builder.intermediates) \cup Brought(r)
  /\ length > 1 =>
       \E c \in Available(r) : C!SameAsAnchor(c, top) /\ C!ValidLink(r.chain[length - 1], c, r.reference)
  /\ top \in Range(builder.anchors)
  /\ AcceptedBy(r)
  /\ (builder.policy = <<>> /\ Algorithm(r).signature = "RsaPkcs1v15"
                            /\ Algorithm(r).key_bits = 2048) => r.reference < End2028

\* docs/08-security-model.md:60-79, eidas-policy lib.rs:26-30.  Whatever the
\* format, a passing result is about a document that says what was signed (of
\* XML: wherever the piece find_tag cuts out is the SignedInfo the parser
\* reads, which DocCutIsParsed shows to fail; comments, instructions and other
\* Signature elements are no part of it), over a chain that holds at the
\* reference time; the algorithm is accepted then, for CMS with the hash of
\* the digest algorithm, and with the policy left to the default RSA of 2048
\* bits only before 2029.
PassIsJustified == \A r \in Passed : Justified(r)

\* The algorithm is accepted and the certificates at hand make one path.
Deserves(r) ==
  /\ AcceptedBy(r)
  /\ C!UnambiguousWithin(Available(r), Signer(r))
  /\ C!PathWithin(Available(r), Range(builder.anchors), r.reference, Signer(r))

\* lib.rs:9-20 of eidas-xades, docs/08-security-model.md:60-79.  A document that
\* was made the way its pipeline asks for and not touched since passes when
\* its algorithm is accepted and one path of its certificates leads to an
\* anchor, wherever comments and CDATA stand, empty tags are used, and in
\* whatever order the calls come.  Of XML this is claimed of what Narrow
\* admits: the code fails genuine documents with a superfluous declaration
\* (c14n.rs:158-187), an instruction (c14n.rs:117), text around the root, a
\* prefix, an inherited namespace or a second `<SignedInfo`.
GenuinePasses ==
  \A r \in Range(results) : (Facts(r).untouched /\ Plain(r.input) /\ Deserves(r)) => r \in Passed

\* A CMS brings its signer's certificate along, which is then a candidate for
\* the loop like any other: it must not be taken for an issuer.
BringsNothing(r) ==
  /\ Range(Facts(r).embedded) \subseteq {Facts(r).signer}
  /\ \A c \in Available(r) \cup {Signer(r)} : ~C!issuer_matches(Signer(r), c)

\* verifier.rs:83-188.  The caller's trust reaches every format: two signatures
\* of one signer with one algorithm, made as their formats ask for and not
\* touched, that bring no issuers of their own get the same verdict at the
\* same time, and pass over the same chain.  A rejection differs: CAdES reports
\* the chain it had built by then (eidas-cades verify.rs:184).
FormatsAgree ==
  \A r, q \in Range(results) :
    (/\ Facts(r).untouched /\ Plain(r.input) /\ BringsNothing(r)
     /\ Facts(q).untouched /\ Plain(q.input) /\ BringsNothing(q)
     /\ Facts(r).signer = Facts(q).signer /\ Algorithm(r) = Algorithm(q)
     /\ r.reference = q.reference) =>
       r.status = q.status /\ (r.status = "TotalPassed" => r.chain = q.chain)

\* verifier.rs:91, `verify(&self, ...)`.  However many calls came before, and
\* whatever certificates their documents brought along: the same document at
\* the same time gets the same verdict over the same chain.
CallsAreIndependent ==
  \A r, q \in Range(results) :
    (r.input = q.input /\ r.reference = q.reference) => r.status = q.status /\ r.chain = q.chain

\* The steps a call has before it at most.
StepsLeft ==
  CASE pc \in {"jws", "xml", "cms"} -> MaxDepth + 8
    [] pc = "policy" -> MaxDepth + 7
    [] pc = "embed" -> MaxDepth + 6
    [] pc = "build" -> MaxDepth + 5
    [] pc = "walk" -> IF phase = "build" THEN MaxDepth + 4 - Len(chain) ELSE 3
    [] pc = "cmsPolicy" -> 2
    [] pc \in {"rejected", "unsupported"} -> 1
    [] OTHER -> 0

\* verifier.rs:83-188.  No step of a call is taken twice but the turns of the
\* chain builder's loop, and these are counted by the chain: whatever the
\* document and the pool, a call takes at most MaxDepth + 8 steps.
CallAdvances == [][Step => StepsLeft' \in Nat /\ StepsLeft' < StepsLeft]_vars

\* Every call returns.
EveryCallReturns == (pc \notin {"configure", "refused", "idle"}) ~> (pc = "idle")

----------------------------------------------------------------------------
\* eidas-xades lib.rs:9-18: the verifier handles enveloped signatures with
\* <ds:Reference> and <ds:KeyInfo>, Exclusive C14N and one certificate in
\* X509Data, so a genuine one passes whichever way its namespace is declared
\* and whatever else Exclusive C14N allows around it.
DocProfilePasses ==
  \A r \in Range(results) :
    (Facts(r).untouched /\ Documents[r.input].form = "XadesEnveloped" /\ Deserves(r)) => r \in Passed

\* eidas-xades verify.rs:207-209: the byte scan finds the SignedInfo of the
\* signature, because it is "a top-level child of `<Signature>` with no CDATA
\* that could embed the tag"; so every document in the profile is read once.
DocCutIsParsed ==
  \A r \in Range(results) :
    (/\ Documents[r.input].form = "XadesEnveloped" /\ X!Parses(Documents[r.input].xml)
     /\ InProfile(X!parse_xml_signature(Documents[r.input].xml))) => ReadOnce(r.input)
=============================================================================
