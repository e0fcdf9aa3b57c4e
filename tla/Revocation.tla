----------------------------- MODULE Revocation -----------------------------
(***************************************************************************)
(* eidas-revocation: what one CRL or one OCSP response says about one      *)
(* certificate, and the order in which eidas-cades consults the evidence   *)
(* embedded in a signature.                                                *)
(*                                                                         *)
(* A certificate here is a record with the fields subject, issuer, serial, *)
(* spki, ca, crlSign and ocspSigning.  A signature is the key it was made  *)
(* with: it verifies under a certificate that holds that key.              *)
(*   CRL   [issuer, signedWith, revoked, thisUpdate, nextUpdate]           *)
(*   OCSP  [byName, responder, certs, signedWith, singles]                 *)
(*   single response [issuerName, issuerKey, serial, status,               *)
(*                    thisUpdate, nextUpdate]                              *)
(***************************************************************************)
EXTENDS Integers, Sequences

CONSTANT NoUpdate   \* nextUpdate is absent

Statuses == {"Good", "Revoked", "Unknown"}

Earliest(S) == CHOOSE i \in S : \A j \in S : i <= j

\* What a lookup yields: no answer, or a status with its source and freshness.
NoAnswer == [status |-> "none", source |-> "none", fresh |-> FALSE]

Fresh(update, at) ==
  /\ at >= update.thisUpdate
  /\ update.nextUpdate # NoUpdate => at < update.nextUpdate

----------------------------------------------------------------------------
(* crl.rs                                                                  *)

verify_crl_issuer_capability(issuer) == issuer.ca /\ issuer.crlSign

CrlAccepted(crl, issuer) ==
  /\ crl.issuer = issuer.subject
  /\ verify_crl_issuer_capability(issuer)
  /\ crl.signedWith = issuer.spki

\* The answer of a CRL that was accepted; an empty list means Good.
verify_crl(crl, serial, at) ==
  [status |-> IF serial \in crl.revoked THEN "Revoked" ELSE "Good",
   source |-> "CRL", fresh |-> Fresh(crl, at)]

----------------------------------------------------------------------------
(* ocsp.rs                                                                 *)

NamesResponder(ocsp, cert) ==
  IF ocsp.byName THEN cert.subject = ocsp.responder ELSE cert.spki = ocsp.responder

\* The responder certificate: the first embedded one with the responder's
\* name or key, else the issuer itself; the empty set if there is neither.
locate_responder(ocsp, issuer) ==
  LET embedded == {i \in DOMAIN ocsp.certs : NamesResponder(ocsp, ocsp.certs[i])} IN
  IF embedded # {} THEN {ocsp.certs[Earliest(embedded)]}
  ELSE {c \in {issuer} : NamesResponder(ocsp, c)}

verify_responder_delegation(responder, issuer) ==
  \/ responder.subject = issuer.subject /\ responder.spki = issuer.spki
  \/ responder.issuer = issuer.subject /\ responder.ocspSigning

\* Indexes of the single responses whose CertID names (issuer, serial).
match_single_response(ocsp, issuer, serial) ==
  {i \in DOMAIN ocsp.singles :
     /\ ocsp.singles[i].serial = serial
     /\ ocsp.singles[i].issuerName = issuer.subject
     /\ ocsp.singles[i].issuerKey = issuer.spki}

OcspAccepted(ocsp, target, issuer) ==
  /\ \E r \in locate_responder(ocsp, issuer) :
       verify_responder_delegation(r, issuer) /\ ocsp.signedWith = r.spki
  /\ match_single_response(ocsp, issuer, target.serial) # {}

\* The answer of a response that was accepted: its first matching entry.
verify_ocsp(ocsp, target, issuer, at) ==
  LET single == ocsp.singles[Earliest(match_single_response(ocsp, issuer, target.serial))] IN
  [status |-> single.status, source |-> "OCSP", fresh |-> Fresh(single, at)]

----------------------------------------------------------------------------
(* eidas-cades verify.rs: the first piece of evidence that verifies answers. *)

try_crl(crls, target, issuer, at) ==
  LET usable == {i \in DOMAIN crls : CrlAccepted(crls[i], issuer)} IN
  IF usable = {} THEN NoAnswer ELSE verify_crl(crls[Earliest(usable)], target.serial, at)

try_ocsp(ocsps, target, issuer, at) ==
  LET usable == {i \in DOMAIN ocsps : OcspAccepted(ocsps[i], target, issuer)} IN
  IF usable = {} THEN NoAnswer ELSE verify_ocsp(ocsps[Earliest(usable)], target, issuer, at)

\* OCSP first; a CRL only if no OCSP response answers at all.
Answer(crls, ocsps, target, issuer, at) ==
  LET ocsp == try_ocsp(ocsps, target, issuer, at) IN
  IF ocsp.status # "none" THEN ocsp ELSE try_crl(crls, target, issuer, at)
=============================================================================
