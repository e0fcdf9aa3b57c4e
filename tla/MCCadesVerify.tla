--------------------------- MODULE MCCadesVerify ---------------------------
(* Signatures of a signer under one intermediate and an anchor, with every   *)
(* combination of good, failing and misleading evidence from small sets.     *)
EXTENDS CadesVerify

certificate(s, i_, n, key, isCa) ==
  [subject |-> s, issuer |-> i_, serial |-> n, spki |-> key,
   ca |-> isCa, crlSign |-> isCa, ocspSigning |-> FALSE]
leaf == certificate("S", "I", 1, "kS", FALSE)
inter == certificate("I", "R", 2, "kI", TRUE)
anchor == certificate("R", "R", 3, "kR", TRUE)
delegate == [certificate("D", "I", 4, "kD", FALSE) EXCEPT !.ocspSigning = TRUE]
other == certificate("D", "I", 4, "kD", FALSE)

token(t, f) == [genTime |-> t, faults |-> f]
crl(by, key, serials, this, next) ==
  [issuer |-> by, signedWith |-> key, revoked |-> serials, thisUpdate |-> this, nextUpdate |-> next]
single(by, key, n, st) ==
  [issuerName |-> by, issuerKey |-> key, serial |-> n, status |-> st,
   thisUpdate |-> 0, nextUpdate |-> NoUpdate]
ocsp(named, who, certs_, key, entries) ==
  [byName |-> named, responder |-> who, certs |-> certs_, signedWith |-> key, singles |-> entries]

crlI == crl("I", "kI", {}, 0, 9)
crlIrevoked == crl("I", "kI", {1}, 0, NoUpdate)
crlIforged == crl("I", "kX", {}, 0, 9)
crlIexpired == crl("I", "kI", {}, 0, 1)
crlR == crl("R", "kR", {}, 0, 9)
crlRrevoked == crl("R", "kR", {2}, 0, 9)
ocspDirect(st) == ocsp(TRUE, "I", <<>>, "kI", <<single("I", "kI", 9, "Revoked"), single("I", "kI", 1, st)>>)
ocspDelegated(st) == ocsp(FALSE, "kD", <<delegate>>, "kD", <<single("I", "kI", 1, st)>>)
ocspUndelegated == ocsp(TRUE, "D", <<other>>, "kD", <<single("I", "kI", 1, "Good")>>)

CrlChoices == {<<>>, <<crlI, crlR>>, <<crlR>>, <<crlIforged, crlIrevoked>>, <<crlRrevoked, crlI>>}
OcspChoices == {<<>>, <<ocspDirect("Good")>>, <<ocspUndelegated, ocspDelegated("Revoked")>>,
                <<ocspDelegated("Unknown")>>}
TstChoices == {<<>>, <<token(1, {"imprint"})>>, <<token(3, {}), token(1, {})>>,
               <<token(3, {"chain"}), token(2, {})>>}
AtsChoices == {<<>>, <<token(4, {"imprint", "eku"})>>, <<token(4, {"signature"}), token(2, {})>>}

info(f, tsts_, ats_, crls_, ocsps_, b, e, c) ==
  [faults |-> f, tsts |-> tsts_, ats |-> ats_, crls |-> crls_, ocsps |-> ocsps_,
   chain |-> <<leaf, inter, anchor>>, from |-> b, to |-> e, cutoff |-> c, qcSscd |-> TRUE]

\* One signer, every combination of evidence.
OneSigner ==
  {<<info({}, t, a, c, o, 0, 9, 9)>> :
     t \in TstChoices, a \in AtsChoices, c \in CrlChoices, o \in OcspChoices}
    \cup {<<info(f, t, a, <<crlI>>, <<>>, b, e, x)>> :
            f \in {{}, {"messageDigest"}}, t \in TstChoices, a \in AtsChoices,
            b \in {0, 2}, e \in {2, 9}, x \in {2, 9}}

\* Two signers of one CMS, the second judged after the first was.
TwoSigners ==
  LET sound == {info({}, t, a, c, <<>>, 0, 9, 9) :
                  t \in {<<>>, <<token(2, {})>>},
                  a \in {<<>>, <<token(1, {"imprint"}), token(5, {"signature"})>>},
                  c \in {<<>>, <<crlIrevoked>>, <<crlI>>}}
      faulty == {info(f, t, <<>>, <<crlI>>, <<>>, 0, e, 9) :
                  f \in {{}, {"signature"}}, t \in {<<>>, <<token(2, {})>>}, e \in {1, 9}}
      infos == sound \cup faulty
  IN {<<x, y>> : x \in infos, y \in infos}

MCEnvelopes == OneSigner \cup TwoSigners

\* The signatures on which code and documentation part ways.
DocCases ==
  {<<info({}, t, a, c, o, 0, 9, 9)>> :
     t \in {<<>>, <<token(2, {})>>},
     a \in {<<>>, <<token(4, {"imprint", "eku"})>>},
     c \in {<<>>, <<crlI>>, <<crlIrevoked>>, <<crlIexpired, crlR>>},
     o \in {<<>>, <<ocspDirect("Good")>>, <<ocspDelegated("Unknown")>>}}
    \cup {<<x, x>> : x \in {info({}, <<>>, <<>>, <<>>, <<>>, 0, 9, 9)}}

service(key, st, h) ==
  [kind |-> "CA/QC", status |-> st, start |-> 3, keys |-> {key}, history |-> h, qualifiers |-> {}]
granted == [status |-> "granted", start |-> 1, keys |-> {"kI"}]
before == [status |-> "undersupervision", start |-> 0, keys |-> {"kI"}]
AllModes == {<<"Now">>, <<"At", 1>>, <<"At", 3>>, <<"BestSignatureTime">>}
WithdrawnLater == {{}, {<<service("kI", "withdrawn", <<before, granted>>)>>}}
NoLists == {{}}
=============================================================================
