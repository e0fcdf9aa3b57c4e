----------------------------- MODULE MCVerifier ------------------------------
(* A root and its last edition, an intermediate, another of the same name,  *)
(* a CA that is not configured, an end entity named like its issuer, and    *)
(* signatures in every format under them: as the formats ask for, with and  *)
(* without certificates, edited, detached and malformed.                    *)
EXTENDS Verifier

Certificate(s, i, key, ski_, aki_, to, bc_) ==
  [subject |-> s, issuer |-> i, spki |-> key, ski |-> ski_, aki |-> aki_, notBefore |-> 0,
   notAfter |-> to, bc |-> bc_, ku |-> IF bc_ = "CA" THEN "certSign" ELSE "absent", eku |-> "absent"]
MCCerts ==
  [R |-> Certificate("R", "R", "kR", "r", "none", 9, "CA"),
   I |-> Certificate("I", "R", "kI", "i", "r", 9, "CA"),
   I2 |-> Certificate("I", "R", "kI2", "i2", "r", 0, "CA"),
   X |-> Certificate("X", "R", "kX", "x", "r", 9, "CA"),
   S |-> Certificate("S", "I", "kS", "none", "i", 9, "absent"),
   E |-> Certificate("E", "I", "kE", "none", "none", 9, "absent"),
   Q |-> Certificate("Q", "X", "kQ", "none", "none", 9, "absent"),
   R0 |-> Certificate("R", "R", "kR", "r", "r", 8, "CA"),
   Z |-> Certificate("R", "R", "kZ", "none", "none", 9, "absent")]
Rsa(bits) == [signature |-> "RsaPkcs1v15", key_bits |-> bits]
MCKeyAlgorithm ==
  [k \in {"kR", "kI", "kI2", "kX", "kS", "kE", "kQ", "kZ"} |->
     IF k = "kE" THEN [signature |-> "Ecdsa", key_bits |-> 256]
     ELSE IF k = "kS" THEN Rsa(2048) ELSE Rsa(3072)]
MCAlgorithmIds ==
  {[signature |-> "RsaPkcs1v15", hash |-> "Sha256", key_bits |-> b] : b \in {2048, 3072}}
    \cup {[signature |-> "Ecdsa", hash |-> "Sha256", key_bits |-> 256]}
MCPolicies ==
  {[permitted |-> {}, forbidden |-> {}, sunsets |-> [a \in MCAlgorithmIds |-> NoSunset],
    floors |-> [rsa |-> 3072, ecc |-> 224, hash |-> 224, sha1 |-> FALSE]]}

facts(s, m, h, e, what, u) ==
  [signer |-> s, method |-> m, hash |-> h, embedded |-> e, signed |-> what, untouched |-> u]
Signed(s, m, what) == <<"signature", KeyOf(s), m, what>>

\* x5t: the certificate whose thumbprint is given; sent: the payload received.
Jws(form, s, m, tail, x5t, sent) ==
  LET header == [alg |-> m, x5c |-> <<s>> \o tail, x5t |-> x5t] IN
  [form |-> form,
   jws |-> [wellFormed |-> TRUE, header |-> header, payload |-> sent,
            signature |-> Signed(s, m, <<header, "text">>)],
   facts |-> facts(s, m, Methods[m].hash, tail, <<header, "text">>, sent # "edited")]

\* h: the digest algorithm.
CmsWith(form, s, m, h, certs_, f) ==
  [form |-> form,
   cms |-> [signer |-> s, method |-> m, digestAlg |-> h, certs |-> <<s>> \o certs_, faults |-> f,
            content |-> IF f = {} THEN "text" ELSE "edited"],
   facts |-> facts(s, m, h, <<s>> \o certs_, "text", f = {})]
Cms(form, s, m, certs_, f) == CmsWith(form, s, m, Methods[m].hash, certs_, f)

event(k, p, n, ns_, v, raw) ==
  <<[kind |-> k, pfx |-> p, name |-> n, ns |-> ns_, val |-> v, path |-> <<>>, spells |-> raw]>>
text(v) == event("text", "", "", {}, v, <<>>)
comment(raw) == event("comment", "", "", {}, <<"remark">>, raw)
Inside(name, events) == [n \in DOMAIN events |-> [events[n] EXCEPT !.path = <<name>> \o @]]

\* An element without content is written as one tag.
element(p, n, ns_, v, content) ==
  IF content = <<>> THEN event("empty", p, n, ns_, v, <<>>)
  ELSE event("start", p, n, ns_, v, <<>>) \o Inside(n, content) \o event("end", p, n, {}, <<>>, <<>>)

\* A signature element; f.prefix: its prefix; f.own: SignedInfo declares its
\* namespace; f.split: a comment interrupts the signature value.
SignatureElement(f, digest, value) ==
  LET ds == {<<f.prefix, "xmldsig">>}
      one(n, v, content) == element(f.prefix, n, {}, v, content) IN
  element(f.prefix, "Signature", ds, <<>>,
    element(f.prefix, "SignedInfo", IF f.own THEN ds ELSE {}, <<>>,
      one("CanonicalizationMethod", <<"exc-c14n">>, <<>>)
        \o one("SignatureMethod", <<f.method>>, <<>>)
        \o one("Reference", <<"">>,
             one("Transforms", <<>>, FlattenSeq([n \in DOMAIN f.transforms |-> one("Transform", f.transforms[n], <<>>)]))
               \o one("DigestMethod", <<"sha256">>, <<>>)
               \o one("DigestValue", <<>>, text(digest))))
      \o one("SignatureValue", <<>>,
           IF f.split THEN text(SubSeq(value, 1, 1)) \o comment(<<>>) \o text(Tail(value)) ELSE text(value))
      \o one("KeyInfo", <<>>, one("X509Data", <<>>,
           FlattenSeq([n \in DOMAIN f.certs |-> one("X509Certificate", <<>>, text(<<f.certs[n]>>))]))))

\* A document with a field and its signature: f.before and f.behind stand on
\* either side of the signature, f.outside behind the root.
Document(f, content, digest, value) ==
  element("", "Doc", f.ns, <<>>,
    content \o element("", "Field", {}, <<>>, <<>>) \o f.before \o SignatureElement(f, digest, value) \o f.behind)
  \o f.outside

\* The signer goes by the Recommendation; the text may be another when received.
unset == <<"none">>
OctetsToSign(f) == X!Canonical(Document(f, f.content, unset, unset), 1, TRUE)
Digest(f) == <<"digest", <<"sha256">>, OctetsToSign(f)>>
Info(made) == CHOOSE n \in DOMAIN made : made[n].name = "SignedInfo" /\ made[n].kind = "start"
CanonicalInfo(made) == X!Canonical(made, Info(made), FALSE)
Value(f) == Signed(f.signer, f.method, CanonicalInfo(Document(f, f.content, Digest(f), unset)))

\* What was made, what is received in its place, and whether its signature
\* value is no base64.
AsMade(f) == [made |-> f, received |-> f, garbled |-> FALSE]
Becomes(f, more) == [made |-> f, received |-> more, garbled |-> FALSE]
Garbled(f) == [made |-> f, received |-> f, garbled |-> TRUE]
Received(sent) ==
  [form |-> "XadesEnveloped",
   xml |-> Document(sent.received, sent.received.content, Digest(sent.made),
                    IF sent.garbled THEN X!NotBase64 ELSE Value(sent.made)),
   facts |-> facts(sent.made.signer, sent.made.method, Methods[sent.made.method].hash, <<>>,
                   OctetsToSign(sent.made), sent.received = sent.made /\ ~sent.garbled)]
Xml(cases) == [n \in DOMAIN cases |-> Received(cases[n])]

rs == "rsa-sha256"
es == "ecdsa-sha256"
Base == [signer |-> "S", method |-> rs, prefix |-> "", own |-> TRUE, transforms |-> <<Enveloped>>,
         certs |-> <<"S">>, split |-> FALSE, ns |-> {<<"", "doc">>}, content |-> text(<<"text">>),
         before |-> <<>>, behind |-> <<>>, outside |-> <<>>]
\* Comments, CDATA and an interrupted value, which change nothing.
Interrupted ==
  [Base EXCEPT !.signer = "E", !.method = es, !.certs = <<"E">>, !.transforms = <<Enveloped, Exclusive>>,
               !.split = TRUE, !.before = comment(<<>>),
               !.content = text(<<"te">>) \o comment(<<>>) \o event("cdata", "", "", {}, <<"xt">>, <<>>)]

\* The SignedInfo of the signature, word for word in a comment before it.
InfoOf(made) == SubSeq(made, Info(made), X!Closing(made, Info(made)))
Quoting ==
  [Base EXCEPT !.before = comment(InfoOf(Document(Base, Base.content, Digest(Base), unset)))]

\* Another signature, by another signer, added behind the first.
Countersigned ==
  [Base EXCEPT !.behind = SignatureElement(Interrupted, Digest(Interrupted), Value(Interrupted))]

JwsAndCms ==
  [jws |-> Jws("JadesCompact", "S", rs, <<>>, "S", "text"),
   jwsTail |-> Jws("JadesCompact", "Q", rs, <<"X">>, "Q", "text"),
   jwsAlone |-> Jws("JadesCompact", "Q", rs, <<>>, "Q", "text"),
   jwsGarbage |-> Jws("JadesJson", "S", rs, <<"garbage">>, "S", "text"),
   jwsEdited |-> Jws("JadesCompact", "S", rs, <<>>, "S", "edited"),
   jwsDetached |-> Jws("JadesJson", "S", rs, <<>>, "S", ""),
   jwsOtherPrint |-> Jws("JadesCompact", "S", rs, <<>>, "I", "text"),
   jwsCurve |-> Jws("JadesJson", "E", es, <<>>, "E", "text"),
   jwsRoot |-> Jws("JadesCompact", "R0", rs, <<>>, "R0", "text"),
   jwsSelf |-> Jws("JadesCompact", "Z", rs, <<>>, "Z", "text"),
   malformed |-> [Jws("JadesJson", "S", rs, <<>>, "S", "text") EXCEPT !.jws.wellFormed = FALSE],
   cmsSelf |-> Cms("CadesDetached", "Z", rs, <<>>, {}),
   cms |-> Cms("Bare", "S", rs, <<>>, {}),
   cmsTwoHashes |-> CmsWith("CadesDetached", "S", "rsa-sha512", "Sha256", <<>>, {}),
   pdfTail |-> Cms("Pdf", "Q", rs, <<"X">>, {}),
   asicCurve |-> Cms("Asic", "E", es, <<>>, {}),
   cmsEdited |-> Cms("CadesDetached", "S", rs, <<>>, {"messageDigest"})]

SignedXml ==
  [xml |-> AsMade(Base),
   xmlInterrupted |-> AsMade(Interrupted),
   xmlQuoting |-> AsMade(Quoting),
   xmlCountersigned |-> Becomes(Base, Countersigned),
   xmlEdited |-> Becomes(Base, [Base EXCEPT !.content = text(<<"edited">>)]),
   xmlBadValue |-> Garbled(Base),
   xmlGarbage |-> AsMade([Base EXCEPT !.certs = <<"garbage", "S">>])]

OtherXml ==
  [xmlUnsigned |-> [form |-> "XadesEnveloped", xml |-> element("", "Doc", {}, <<>>, text(<<"text">>)),
                    facts |-> facts("S", rs, "Sha256", <<>>, <<>>, FALSE)],
   xmlDetached |-> [form |-> "XadesDetached", facts |-> facts("S", rs, "Sha256", <<>>, <<>>, FALSE)]]

\* Genuine XML signatures the code does not pass: with a declaration more than
\* needed, an instruction, a line end behind the root; with the namespace
\* declared the other two ways, and with the certificates of the chain.
NotPlain ==
  [declared |-> AsMade([Base EXCEPT !.ns = @ \cup {<<"x", "unused">>}, !.transforms = <<Enveloped, Exclusive>>]),
   instructed |-> AsMade([Base EXCEPT !.before = event("pi", "", "", {}, <<"style">>, <<>>)]),
   ended |-> AsMade([Base EXCEPT !.outside = text(<<"line end">>)])]
OutsideProfile ==
  NotPlain @@ [prefixed |-> AsMade([Base EXCEPT !.prefix = "ds"]),
               inherited |-> AsMade([Base EXCEPT !.own = FALSE]),
               chained |-> AsMade([Base EXCEPT !.certs = <<"S", "I">>])]

\* A genuine one whose application has an element of this name, too.
Cut == [named |-> AsMade([Base EXCEPT !.before = element("", "SignedInfo", {}, <<>>, text(<<"remark">>))])]

\* Named once more, so that TLC computes them once.
AnyXml == OtherXml @@ Xml(SignedXml @@ NotPlain)
GenuineXml == Xml(OutsideProfile)
CutXml == Xml(Cut)
MCDocuments == JwsAndCms @@ AnyXml
DocDocuments == GenuineXml
CutDocuments == CutXml
MCAnchorCalls == {<<"R">>}
MCIntermediateCalls == {<<"I">>, <<"I2", "I">>}
MCModes == {<<"At", 1>>, <<"BestSignatureTime">>}
=============================================================================
