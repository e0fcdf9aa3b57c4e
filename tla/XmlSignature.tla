---------------------------- MODULE XmlSignature -----------------------------
(***************************************************************************)
(* The three views eidas-xades takes of one XML document: the elements     *)
(* parse.rs picks out of the signature, the canonical form c14n.rs makes   *)
(* of the document, and the piece of text verify.rs cuts out as SignedInfo *)
(* and canonicalises by itself.                                            *)
(*                                                                         *)
(* A document is the sequence of events a reader makes of it, each         *)
(* [kind, pfx, name, ns, val, path, spells].  kind is "start", "end",      *)
(* "empty" (an element written as one tag), "text", "cdata", "comment" or  *)
(* "pi"; path holds the local names of the elements open around it; ns is  *)
(* the set of <<prefix, uri>> an element declares; val is the attribute    *)
(* that matters (Algorithm or URI), or the text, as a tuple of its pieces; *)
(* spells holds the events that the raw text of a comment, instruction,    *)
(* CDATA section or attribute would be if it stood by itself.              *)
(***************************************************************************)
EXTENDS Integers, Sequences, SequencesExt

Opens(t) == t.kind \in {"start", "empty"}
Where(doc, Test(_)) == {n \in DOMAIN doc : Test(doc[n])}
Earliest(indices) == CHOOSE n \in indices : \A k \in indices : n <= k
Latest(indices) == CHOOSE n \in indices : \A k \in indices : k <= n
FirstOf(indices) == IF indices = {} THEN {} ELSE {Earliest(indices)}

\* The end tag of the element at n, itself if it is one tag; the events between.
Closing(doc, n) ==
  IF doc[n].kind = "empty" THEN n
  ELSE Earliest({k \in DOMAIN doc : k > n /\ doc[k].kind = "end" /\ doc[k].path = doc[n].path})
Block(doc, n) == (n + 1)..(Closing(doc, n) - 1)

----------------------------------------------------------------------------
(* parse.rs: what is picked out of the first Signature.                    *)

\* The elements called name at a path below the element at n.
Below(doc, n, path, name) ==
  {k \in Block(doc, n) : /\ Opens(doc[k]) /\ doc[k].name = name
                         /\ doc[k].path = doc[n].path \o <<doc[n].name>> \o path}
Written(doc, elements) == {k \in elements : doc[k].kind = "start"}

\* All text and CDATA below an element, whatever stands in between.
read_text(doc, n) ==
  LET pieces == SelectSeq(SubSeq(doc, n, Closing(doc, n)), LAMBDA t : t.kind \in {"text", "cdata"}) IN
  FlattenSeq([k \in DOMAIN pieces |-> pieces[k].val])

Missing == <<"missing">>
NotBase64 == <<"?">>
LastAttribute(doc, elements) == IF elements = {} THEN Missing ELSE doc[Latest(elements)].val
LastText(doc, elements) == IF elements = {} THEN Missing ELSE read_text(doc, Latest(elements))

Signatures(doc) == Where(doc, LAMBDA t : t.kind = "start" /\ t.name = "Signature")

\* In KeyInfo nothing is skipped: a certificate counts at any depth.
X509Certificates(doc, signature) ==
  LET within == Len(doc[signature].path) + 1 IN
  {k \in Block(doc, signature) :
     /\ doc[k].kind = "start" /\ doc[k].name = "X509Certificate"
     /\ doc[k].path[within + 1] = "KeyInfo"
     /\ \E l \in (within + 2)..Len(doc[k].path) : doc[k].path[l] = "X509Data"}

\* Repeated elements overwrite each other, but the first Reference counts; of
\* the elements read as text only DigestValue may be an empty tag.
parse_xml_signature(doc) ==
  LET signature == Earliest(Signatures(doc))
      info(name) == Below(doc, signature, <<"SignedInfo">>, name)
      inReference(path, name) ==
        UNION {Below(doc, r, path, name) : r \in FirstOf(info("Reference"))} IN
  [canonicalization_method |-> LastAttribute(doc, info("CanonicalizationMethod")),
   signature_method |-> LastAttribute(doc, info("SignatureMethod")),
   reference_uri |-> LastAttribute(doc, FirstOf(info("Reference"))),
   reference_digest_method |-> LastAttribute(doc, inReference(<<>>, "DigestMethod")),
   reference_digest_value |-> LastText(doc, inReference(<<>>, "DigestValue")),
   reference_transforms |-> {doc[k].val : k \in inReference(<<"Transforms">>, "Transform")},
   signature_value |-> LastText(doc, Written(doc, Below(doc, signature, <<>>, "SignatureValue"))),
   signer_cert |-> LastText(doc, X509Certificates(doc, signature))]

\* The elements of the first Signature whose text decode_b64 is given.
Base64Elements(doc, signature) ==
  Written(doc, Below(doc, signature, <<>>, "SignatureValue"))
    \cup UNION {Written(doc, Below(doc, r, <<>>, "DigestValue")) :
                  r \in FirstOf(Below(doc, signature, <<"SignedInfo">>, "Reference"))}
    \cup X509Certificates(doc, signature)

\* The call itself fails where base64 does not decode, also in an element that
\* is overwritten later, and without one of these (Sig::finalize).
Parses(doc) ==
  /\ Signatures(doc) # {}
  /\ \A k \in Base64Elements(doc, Earliest(Signatures(doc))) : read_text(doc, k) # NotBase64
  /\ \A field \in {"canonicalization_method", "signature_method", "reference_digest_method",
                   "reference_digest_value", "signature_value"} :
       parse_xml_signature(doc)[field] # Missing

----------------------------------------------------------------------------
(* c14n.rs.                                                                *)

StartTag(t, ns) == <<"start", t.pfx, t.name, ns, t.val>>
EndTag(t) == <<"end", t.pfx, t.name>>

\* Piece by piece: where a text is interrupted does not show.
Characters(t) == [n \in DOMAIN t.val |-> <<"text", t.val[n]>>]

\* Comments are written out.
Bad_emit(t) ==
  CASE t.kind = "start" -> <<StartTag(t, t.ns)>>
    [] t.kind = "empty" -> <<StartTag(t, t.ns), EndTag(t)>>
    [] t.kind = "end" -> <<EndTag(t)>>
    [] t.kind \in {"text", "cdata", "comment"} -> Characters(t)
    [] t.kind = "pi" -> <<>>

\* An empty element becomes a pair of tags and a CDATA section text; comments
\* and processing instructions are dropped, inside the root and outside.
emit(t) ==
  CASE t.kind = "start" -> <<StartTag(t, t.ns)>>
    [] t.kind = "empty" -> <<StartTag(t, t.ns), EndTag(t)>>
    [] t.kind = "end" -> <<EndTag(t)>>
    [] t.kind \in {"text", "cdata"} -> Characters(t)
    [] t.kind \in {"comment", "pi"} -> <<>>

\* should_strip: elements with this local name, in whatever namespace.
Stripped(t) == t.name = "Signature" \/ "Signature" \in Range(t.path)

\* Declarations are written where they stand.
exc_c14n_with_envelope_strip(doc, strip) ==
  LET kept == SelectSeq(doc, LAMBDA t : ~(strip /\ Stripped(t))) IN
  FlattenSeq([n \in DOMAIN kept |-> emit(kept[n])])

----------------------------------------------------------------------------
(* verify.rs: SignedInfo is looked for in the bytes, by its unprefixed     *)
(* name.                                                                   *)

\* Where the bytes of such a tag stand: <<n, 0>> is event n itself, <<n, k>> the
\* k-th of those its raw text spells.
find_tag(doc, kinds, name) ==
  LET hit(t) == t.kind \in kinds /\ t.name = name /\ t.pfx = "" IN
  {<<n, 0>> : n \in Where(doc, hit)}
    \cup UNION {{<<n, k>> : k \in Where(doc[n].spells, hit)} : n \in DOMAIN doc}

Precedes(a, b) == a[1] < b[1] \/ (a[1] = b[1] /\ a[2] < b[2])
FirstPlace(places) == CHOOSE p \in places : \A q \in places : p = q \/ Precedes(p, q)

NotFound == <<"not found">>
\* What is left of a comment, instruction, section or tag that is cut open.
Remainder == [kind |-> "text", pfx |-> "", name |-> "", ns |-> {}, val |-> <<"remainder">>,
              path |-> <<>>, spells |-> <<>>]

\* The bytes from the first opening tag to the first closing tag after it, as a
\* document of its own.  It cannot be read when it ends within an event it
\* does not begin in, and is never what a signer signed where its tags do not
\* match: both ways the signature is not verified.
canonicalise_signed_info(doc) ==
  LET openers == find_tag(doc, {"start", "empty"}, "SignedInfo")
      from == FirstPlace(openers)
      closers == {p \in find_tag(doc, {"end"}, "SignedInfo") : openers # {} /\ Precedes(from, p)}
      to == FirstPlace(closers)
      spelled(last) == SubSeq(doc[from[1]].spells, from[2], last)
      cut == IF from[2] = 0 THEN SubSeq(doc, from[1], to[1])
             ELSE spelled(Len(doc[from[1]].spells)) \o <<Remainder>> \o SubSeq(doc, from[1] + 1, to[1]) IN
  IF closers = {} THEN NotFound
  ELSE IF to[2] = 0 THEN exc_c14n_with_envelope_strip(cut, FALSE)
  ELSE IF from[2] # 0 /\ from[1] = to[1] THEN exc_c14n_with_envelope_strip(spelled(to[2]), FALSE)
  ELSE NotFound

\* The SignedInfo elements parse.rs reads.
SignedInfos(doc) == Written(doc, Below(doc, Earliest(Signatures(doc)), <<>>, "SignedInfo"))

\* What is cut out says, octet for octet, what is parsed.
CutIsParsed(doc) ==
  \E info \in SignedInfos(doc) :
    /\ SignedInfos(doc) = {info}
    /\ canonicalise_signed_info(doc) =
         exc_c14n_with_envelope_strip(SubSeq(doc, info, Closing(doc, info)), FALSE)

----------------------------------------------------------------------------
(* Exclusive XML Canonicalization as the Recommendation has it: what a     *)
(* signer signs.  An element is written with the declaration its prefix    *)
(* needs, unless an element written around it and nearest with that prefix *)
(* means the same by it.  Of what stands outside the root only             *)
(* instructions are written, which Canonical leaves to Narrow.             *)

\* The start tags around event n, innermost the largest.
Around(doc, n) ==
  {Latest({j \in 1..(n - 1) : doc[j].kind = "start" /\ Len(doc[j].path) = l}) :
     l \in 0..(Len(doc[n].path) - 1)}

\* What a prefix means at element n, as a set of at most one declaration.
Meaning(doc, n, pfx) ==
  LET declaring == {k \in Around(doc, n) \cup {n} : \E d \in doc[k].ns : d[1] = pfx} IN
  IF declaring = {} THEN {} ELSE {d \in doc[Latest(declaring)].ns : d[1] = pfx}

Needed(doc, n, from) ==
  LET same == {k \in Around(doc, n) : k >= from /\ doc[k].pfx = doc[n].pfx}
      meaning == Meaning(doc, n, doc[n].pfx) IN
  IF same # {} /\ Meaning(doc, Latest(same), doc[n].pfx) = meaning THEN {} ELSE meaning

\* The element that starts at event from.
Canonical(doc, from, strip) ==
  LET to == Closing(doc, from)
      written(n) == ~(strip /\ Stripped(doc[n])) IN
  FlattenSeq([n \in 1..(to - from + 1) |->
    LET k == from + n - 1 IN
    (IF written(k) /\ Opens(doc[k]) THEN <<StartTag(doc[k], Needed(doc, k, from))>> ELSE <<>>)
      \o (IF written(k) /\ doc[k].kind \in {"text", "cdata"} THEN Characters(doc[k]) ELSE <<>>)
      \o (IF written(k) /\ doc[k].kind = "pi" THEN <<<<"pi", doc[k].val>>>> ELSE <<>>)
      \o (IF written(k) /\ doc[k].kind \in {"end", "empty"} THEN <<EndTag(doc[k])>> ELSE <<>>)])

\* The documents on which the three readings and the Recommendation agree: one
\* Signature, inside the root, whose SignedInfo bears no prefix and is the only
\* one the bytes spell; no instructions and no text around the root (a line
\* end counts); every declaration where the Recommendation writes it.
Narrow(doc) ==
  \E signature \in Signatures(doc), info \in DOMAIN doc :
    /\ Where(doc, LAMBDA t : Opens(t) /\ t.name = "Signature") = {signature}
    /\ doc[signature].path # <<>>
    /\ Below(doc, signature, <<>>, "SignedInfo") = {info} /\ doc[info].kind = "start"
    /\ find_tag(doc, {"start", "empty"}, "SignedInfo") = {<<info, 0>>}
    /\ find_tag(doc, {"end"}, "SignedInfo") = {<<Closing(doc, info), 0>>}
    /\ \A k \in DOMAIN doc : doc[k].kind # "pi" /\ (doc[k].kind = "text" => doc[k].path # <<>>)
    /\ \A k \in DOMAIN doc : Opens(doc[k]) /\ ~Stripped(doc[k]) => doc[k].ns = Needed(doc, k, 1)
    /\ \A k \in {info} \cup Block(doc, info) : Opens(doc[k]) => doc[k].ns = Needed(doc, k, info)
=============================================================================
