----------------------------- MODULE CmsBaseline -----------------------------
(***************************************************************************)
(* The B-B checks of one SignerInfo exist twice: in eidas-cms              *)
(* (`verify_cades_bb`, called "bb") and in eidas-cades (`run_bb_core` and  *)
(* the steps around it, "cades").  Both are run over the same signer here, *)
(* a check a step, until the first fault.                                  *)
(*                                                                         *)
(* What the checks read is a record of facts about the signer:             *)
(*   cert         "embedded", "certValues" (in the unsigned attribute      *)
(*                only) or "absent"                                        *)
(*   unsigned     "none", "readable" or "malformed"                        *)
(*   signedAttrs  present                                                  *)
(*   digestAlg    a hash name, or "other"                                  *)
(*   claimed      the messageDigest attribute: "matches", "differs" or     *)
(*                "unreadable" (missing, several values, not decodable)    *)
(*   contentType  "data", "other" or "unreadable"                          *)
(*   ess          the signing-certificate attribute: "v2", "v2differs",    *)
(*                "v2untagged" (a SEQUENCE under another tag), "v1", "none"*)
(*   sigAlg       [family, hash]: the OID; hash "hint" where the OID has   *)
(*                none and the digest algorithm is used                    *)
(*   key          "RSA", "P256", "P384", "P521", "curve" or "other"        *)
(*   madeWith     the hash under which the signature verifies, or "none"   *)
(*   rejects      hashes the policy rejects at the reference time          *)
(*   chain        for each pipeline whether its ChainBuilder finds a chain *)
(*                (their pools differ)                                     *)
(***************************************************************************)
EXTENDS Integers, Sequences

CONSTANT Signers

VARIABLES
  signer,
  at,      \* for each pipeline the check made next
  outcome  \* for each pipeline "running", "TotalPassed" or the check that failed

vars == <<signer, at, outcome>>

Pipelines == {"bb", "cades"}

\* The checks of verify_one_signer_inner in eidas-cms, in their order.
BbChecks == <<"cert", "signedAttrs", "digestAlg", "claimed", "contentType", "ess",
              "signature", "classify", "policy", "chain">>

\* The checks of run_bb_core and the steps before and after it.
CadesChecks == <<"unsigned", "cert", "signedAttrs", "digestAlg", "claimed", "contentType",
                 "ess", "signature", "classify", "chain", "policy">>

Checks(p) == IF p = "bb" THEN BbChecks ELSE CadesChecks

Sha2 == {"SHA224", "SHA256", "SHA384", "SHA512"}
hash_from_oid == Sha2 \cup {"SHA1"}   \* the digest OIDs that are known
EcKeys == {"P256", "P384", "P521", "curve"}

----------------------------------------------------------------------------
\* The hash a signature is verified with.
resolve_sig_alg(s) == IF s.sigAlg.hash = "hint" THEN s.digestAlg ELSE s.sigAlg.hash

\* A signature with any known hash verifies.
Bad_verify_cms_signature(s) ==
  /\ \/ s.sigAlg.family = "RSA" /\ s.key = "RSA"
     \/ s.sigAlg.family = "ECDSA" /\ s.key \in {"P256", "P384"}
  /\ resolve_sig_alg(s) \in hash_from_oid
  /\ resolve_sig_alg(s) = s.madeWith

\* The signature verifies under the key: PKCS#1 v1.5 or ECDSA over P-256 or
\* P-384, with a SHA-2 hash.
verify_cms_signature(s) ==
  /\ \/ s.sigAlg.family = "RSA" /\ s.key = "RSA"
     \/ s.sigAlg.family = "ECDSA" /\ s.key \in {"P256", "P384"}
  /\ resolve_sig_alg(s) \in Sha2
  /\ resolve_sig_alg(s) = s.madeWith

\* The digest algorithm must be known and the OID name a hash.
Bad_classify_algorithm(s) ==
  LET inferred == s.sigAlg.hash \in Sha2 /\ <<s.sigAlg.family, s.sigAlg.hash>> # <<"ECDSA", "SHA224">> IN
  IF \/ ~(s.digestAlg \in hash_from_oid /\ inferred)
     \/ s.sigAlg.family \in {"RSA", "PSS"} /\ s.key # "RSA"
     \/ s.sigAlg.family = "ECDSA" /\ s.key \notin EcKeys
     \/ s.sigAlg.family = "other"
    THEN "unclassified"
  ELSE s.digestAlg

\* The hash is the digest algorithm, or else the one most OIDs name; there is
\* none for other OIDs, unknown families and keys of another family.
classify_algorithm(s) ==
  LET inferred == s.sigAlg.hash \in Sha2 /\ <<s.sigAlg.family, s.sigAlg.hash>> # <<"ECDSA", "SHA224">> IN
  IF \/ ~(s.digestAlg \in hash_from_oid \/ inferred)
     \/ s.sigAlg.family \in {"RSA", "PSS"} /\ s.key # "RSA"
     \/ s.sigAlg.family = "ECDSA" /\ s.key \notin EcKeys
     \/ s.sigAlg.family = "other"
    THEN "unclassified"
  ELSE IF s.digestAlg \in hash_from_oid THEN s.digestAlg ELSE s.sigAlg.hash

\* The pipeline finds the signer's certificate: eidas-cades also looks among
\* the certificates of the unsigned attribute.
locate_signer_cert(p, s) ==
  s.cert = "embedded" \/ (p = "cades" /\ s.cert = "certValues" /\ s.unsigned = "readable")

\* The attribute commits to the signer's certificate.  Only eidas-cms looks
\* at the tags; neither accepts the SHA-1 one.
verify_signing_certificate_ref(p, s) == s.ess = "v2" \/ (p = "cades" /\ s.ess = "v2untagged")

\* eidas-cades has no check of the message digest.
Bad_Passes(p, s, check) ==
  CASE check = "unsigned"    -> s.unsigned # "malformed"
    [] check = "cert"        -> locate_signer_cert(p, s)
    [] check = "signedAttrs" -> s.signedAttrs
    [] check = "digestAlg"   -> s.digestAlg \in hash_from_oid
    [] check = "claimed"     -> IF p = "bb" THEN s.claimed = "matches" ELSE s.claimed # "unreadable"
    [] check = "contentType" -> s.contentType # "unreadable"
    [] check = "ess"         -> verify_signing_certificate_ref(p, s)
    [] check = "signature"   -> verify_cms_signature(s)
    [] check = "classify"    -> classify_algorithm(s) # "unclassified"
    [] check = "policy"      -> classify_algorithm(s) \notin s.rejects
    [] check = "chain"       -> s.chain[p]

Passes(p, s, check) ==
  CASE check = "unsigned"    -> s.unsigned # "malformed"
    [] check = "cert"        -> locate_signer_cert(p, s)
    [] check = "signedAttrs" -> s.signedAttrs
    [] check = "digestAlg"   -> s.digestAlg \in hash_from_oid
    [] check = "claimed"     -> s.claimed = "matches"
    [] check = "contentType" -> s.contentType # "unreadable"
    [] check = "ess"         -> verify_signing_certificate_ref(p, s)
    [] check = "signature"   -> verify_cms_signature(s)
    [] check = "classify"    -> classify_algorithm(s) # "unclassified"
    [] check = "policy"      -> classify_algorithm(s) \notin s.rejects
    [] check = "chain"       -> s.chain[p]

----------------------------------------------------------------------------
Init ==
  /\ signer \in Signers
  /\ at = [p \in Pipelines |-> 1]
  /\ outcome = [p \in Pipelines |-> "running"]

\* One check of a pipeline; the report is the first fault.
Check(p) ==
  LET check == Checks(p)[at[p]]
      last == at[p] = Len(Checks(p)) IN
  /\ outcome[p] = "running"
  /\ IF ~Passes(p, signer, check)
       THEN outcome' = [outcome EXCEPT ![p] = check] /\ UNCHANGED at
     ELSE IF last
       THEN outcome' = [outcome EXCEPT ![p] = "TotalPassed"] /\ UNCHANGED at
     ELSE at' = [at EXCEPT ![p] = @ + 1] /\ UNCHANGED outcome
  /\ UNCHANGED signer

Next == \E p \in Pipelines : Check(p)

Spec == Init /\ [][Next]_vars

----------------------------------------------------------------------------
BothDone == \A p \in Pipelines : outcome[p] # "running"

\* What the two copies are known to read differently.
SameFacts ==
  /\ signer.unsigned # "malformed" /\ signer.cert # "certValues"
  /\ signer.ess # "v2untagged"
  /\ signer.chain["bb"] = signer.chain["cades"]

\* eidas-cades verify.rs:386-447, eidas-cms cades.rs:144-243.  Where the two
\* see the same facts they come to the same verdict and name the same fault,
\* unless both chain and policy fail, which they look at in opposite order.
PipelinesAgree ==
  (BothDone /\ SameFacts) =>
    \/ outcome["bb"] = outcome["cades"]
    \/ outcome["bb"] = "policy" /\ outcome["cades"] = "chain"

\* eidas-cms digest.rs:28-32, signature_verify.rs:115,193,231.  SHA-1 is known as
\* a digest, yet no signature made with it passes, whatever the OIDs say and
\* however lenient the policy; a digest algorithm the policy rejects does not
\* either.  It is the only hash the policy is asked about (cades.rs:444): where
\* the signature was made with another, that one may be rejected and pass.
NoSha1SignaturePasses ==
  \A p \in Pipelines : outcome[p] = "TotalPassed" =>
    signer.madeWith \in Sha2 /\ signer.digestAlg \notin signer.rejects

\* eidas-cms cades.rs:198-202,440-483.  What one part can verify the other can
\* name: a signature that verified never fails for want of a classification.
VerifiedIsClassified == \A p \in Pipelines : outcome[p] # "classify"
=============================================================================
