--------------------------- MODULE AlgorithmPolicy ---------------------------
(***************************************************************************)
(* eidas-core `AlgorithmPolicy`: three maps of explicit rules, the minimum *)
(* strengths that decide when no rule matches, the calls that change them, *)
(* and `evaluate`.  Reasons are not modelled, so `forbidden` is a set.     *)
(***************************************************************************)
EXTENDS Integers

CONSTANTS
  AlgorithmIds,   \* the algorithms a caller names: members of AlgorithmId
  Instant,        \* instants used as sunsets and as evaluation times
  NoSunset,       \* "sunsets has no entry"
  Floors          \* settings of the public minimum-strength fields

Hashes == {"Md5", "Sha1", "Sha224", "Sha256", "Sha384", "Sha512",
           "Sha3_256", "Sha3_384", "Sha3_512"}
Signatures == {"RsaPkcs1v15", "RsaPss", "Ecdsa", "EdDsa", "Dsa"}
AlgorithmId == [signature : Signatures, hash : Hashes, key_bits : Nat]
FloorType == [rsa : Nat, ecc : Nat, hash : Nat, sha1 : BOOLEAN]

ASSUME AlgorithmAssumption ==
  /\ AlgorithmIds \subseteq AlgorithmId
  /\ Instant \subseteq Int
  /\ NoSunset \notin Int
  /\ Floors \subseteq FloorType

VARIABLES
  permitted,  \* keys of the map `permitted`
  forbidden,  \* keys of the map `forbidden`
  sunsets,    \* function: the entry of `sunsets`, or NoSunset
  floors      \* min_rsa_bits, min_ecc_bits, min_hash_bits, allow_sha1

policyVars == <<permitted, forbidden, sunsets, floors>>

output_bits(hash) ==
  CASE hash = "Md5" -> 128
    [] hash = "Sha1" -> 160
    [] hash = "Sha224" -> 224
    [] hash \in {"Sha256", "Sha3_256"} -> 256
    [] hash \in {"Sha384", "Sha3_384"} -> 384
    [] hash \in {"Sha512", "Sha3_512"} -> 512

\* Whether evaluate_fallback accepts.
evaluate_fallback(a) ==
  /\ a.hash # "Md5"
  /\ a.hash = "Sha1" => floors.sha1
  /\ output_bits(a.hash) >= floors.hash
  /\ \/ a.signature \in {"RsaPkcs1v15", "RsaPss"} /\ a.key_bits >= floors.rsa
     \/ a.signature \in {"Ecdsa", "EdDsa"} /\ a.key_bits >= floors.ecc

Past(a, at) == sunsets[a] # NoSunset /\ at >= sunsets[a]

\* The permit is looked up before the sunset.
Bad_evaluate(a, at) ==
  CASE a \in forbidden -> "Reject"
    [] a \in permitted \ forbidden -> "Accept"
    [] a \notin permitted \cup forbidden /\ Past(a, at) -> "Sunset"
    [] OTHER -> IF evaluate_fallback(a) THEN "Accept" ELSE "Reject"

evaluate(a, at) ==
  CASE a \in forbidden -> "Reject"
    [] a \notin forbidden /\ Past(a, at) -> "Sunset"
    [] a \in permitted \ forbidden /\ ~Past(a, at) -> "Accept"
    [] OTHER -> IF evaluate_fallback(a) THEN "Accept" ELSE "Reject"

\* PolicyDecision::is_accepted_at of what evaluate returned for the same time.
is_accepted_at(a, at) ==
  \/ evaluate(a, at) = "Accept"
  \/ evaluate(a, at) = "Sunset" /\ at < sunsets[a]

----------------------------------------------------------------------------
\* AlgorithmPolicy::new
PolicyInit ==
  /\ permitted = {} /\ forbidden = {}
  /\ sunsets = [a \in AlgorithmIds |-> NoSunset]
  /\ floors = [rsa |-> 2048, ecc |-> 224, hash |-> 224, sha1 |-> FALSE]

\* The sunset outlives the permit.
BadKeep_permit(a) ==
  /\ forbidden' = forbidden \ {a}
  /\ permitted' = permitted \cup {a}
  /\ UNCHANGED <<sunsets, floors>>

permit(a) ==
  /\ forbidden' = forbidden \ {a}
  /\ sunsets' = [sunsets EXCEPT ![a] = NoSunset]
  /\ permitted' = permitted \cup {a}
  /\ UNCHANGED floors

forbid(a) ==
  /\ permitted' = permitted \ {a}
  /\ forbidden' = forbidden \cup {a}
  /\ UNCHANGED <<sunsets, floors>>

sunset(a, t) ==
  /\ sunsets' = [sunsets EXCEPT ![a] = t]
  /\ UNCHANGED <<permitted, forbidden, floors>>

\* The minimum strengths are public fields: the caller assigns them.
SetFloors(f) == floors' = f /\ UNCHANGED <<permitted, forbidden, sunsets>>

PolicyNext ==
  \/ \E a \in AlgorithmIds : permit(a) \/ forbid(a)
  \/ \E a \in AlgorithmIds, t \in Instant : sunset(a, t)
  \/ \E f \in Floors : SetFloors(f)

PolicySpec == PolicyInit /\ [][PolicyNext]_policyVars

----------------------------------------------------------------------------
TypeOK ==
  /\ permitted \subseteq AlgorithmIds
  /\ forbidden \subseteq AlgorithmIds
  /\ sunsets \in [AlgorithmIds -> Instant \cup {NoSunset}]
  /\ floors \in FloorType

\* algorithm.rs:138-150.  No algorithm is permitted and forbidden at once.
RulesAreExclusive == permitted \cap forbidden = {}

Verdict(a) ==
  IF a \in permitted THEN "permit" ELSE IF a \in forbidden THEN "forbid" ELSE "default"
Rules == INSTANCE PolicyRules
  WITH rule <- [a \in AlgorithmIds |-> [verdict |-> Verdict(a), sunset |-> sunsets[a]]]

\* algorithm.rs:138-156.  The three maps implement one rule per algorithm,
\* the last word of permit / forbid together with the sunset set since.
ImplementsRules == Rules!RulesSpec

\* algorithm.rs:160-179.  However the rules came about, evaluate decides as the
\* rule per algorithm says, and by the minimum strengths where no rule does.
EvaluateFollowsRules ==
  \A a \in AlgorithmIds, at \in Instant :
    evaluate(a, at) = Rules!Decision(a, at, IF evaluate_fallback(a) THEN "Accept" ELSE "Reject")

\* algorithm.rs:94-100,166-176.  Acceptance is lost once: what is accepted at
\* some time is accepted at every earlier time, under the same rules.
AcceptanceOnlyExpires ==
  \A a \in AlgorithmIds, early, late \in Instant :
    (early <= late /\ is_accepted_at(a, late)) => is_accepted_at(a, early)

Accepted == {p \in AlgorithmIds \X Instant : is_accepted_at(p[1], p[2])}

\* A call that can only tighten: forbid, a sunset no later than the one in
\* force, minimum strengths none of which is lowered.
Tightening ==
  \/ \E a \in AlgorithmIds : forbid(a)
  \/ \E a \in AlgorithmIds, t \in Instant :
       sunset(a, t) /\ (sunsets[a] = NoSunset \/ t <= sunsets[a])
  \/ \E f \in Floors :
       /\ SetFloors(f)
       /\ f.rsa >= floors.rsa /\ f.ecc >= floors.ecc /\ f.hash >= floors.hash
       /\ f.sha1 => floors.sha1

\* eidas-policy lib.rs:9-10, docs/07-features-and-extension.md:52-53.
\* Tightening a policy accepts nothing that was not accepted before.
TighteningIsSafe == [][Tightening => Accepted' \subseteq Accepted]_policyVars
=============================================================================
