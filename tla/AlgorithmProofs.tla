-------------------------- MODULE AlgorithmProofs ---------------------------
(***************************************************************************)
(* Proofs about algorithms: about the policy that judges them, for every   *)
(* set of algorithms, every set of instants and every setting of the       *)
(* minimum strengths; and about the two B-B pipelines, which ask a policy  *)
(* about the algorithm they have verified and classified, for every signer.*)
(***************************************************************************)
EXTENDS AlgorithmPolicy, CmsBaseline, TLAPS

----------------------------------------------------------------------------
(* The policy.                                                             *)


\* What the calls keep between them.
PolicyInv == TypeOK /\ RulesAreExclusive

\* A new policy has no rules.
LEMMA PolicyInitInv == PolicyInit => PolicyInv
<1> SUFFICES ASSUME PolicyInit PROVE PolicyInv
  OBVIOUS
<1>1. floors \in FloorType
  BY DEF PolicyInit, FloorType
<1> QED
  BY <1>1 DEF PolicyInit, PolicyInv, TypeOK, RulesAreExclusive

\* Every call keeps the maps apart.
LEMMA PolicyStepKeepsInv ==
  ASSUME PolicyInv, [PolicyNext]_policyVars
  PROVE  PolicyInv'
<1> USE DEF PolicyInv, TypeOK, RulesAreExclusive
<1>1. ASSUME NEW a \in AlgorithmIds, permit(a) PROVE PolicyInv'
  BY <1>1 DEF permit
<1>2. ASSUME NEW a \in AlgorithmIds, forbid(a) PROVE PolicyInv'
  BY <1>2 DEF forbid
<1>3. ASSUME NEW a \in AlgorithmIds, NEW t \in Instant, sunset(a, t) PROVE PolicyInv'
  BY <1>3 DEF sunset
<1>4. ASSUME NEW f \in Floors, SetFloors(f) PROVE PolicyInv'
  BY <1>4, AlgorithmAssumption DEF SetFloors
<1>5. CASE UNCHANGED policyVars
  BY <1>5 DEF policyVars
<1> QED
  BY <1>1, <1>2, <1>3, <1>4, <1>5 DEF PolicyNext

\* The invariant holds throughout.
LEMMA PolicyInvHolds == PolicySpec => []PolicyInv
  BY PolicyInitInv, PolicyStepKeepsInv, PTL DEF PolicySpec

\* The maps hold known algorithms, the sunsets known instants.
THEOREM RulesTypeCorrect == PolicySpec => []TypeOK
<1>1. PolicyInv => TypeOK
  BY DEF PolicyInv
<1> QED
  BY <1>1, PolicyInvHolds, PTL

\* permit and forbid take each other back: no algorithm is under both.
THEOREM PermitAndForbidExclude == PolicySpec => []RulesAreExclusive
<1>1. PolicyInv => RulesAreExclusive
  BY DEF PolicyInv
<1> QED
  BY <1>1, PolicyInvHolds, PTL

----------------------------------------------------------------------------
\* However the rules came about, evaluate decides as the rule per algorithm
\* says, the minimum strengths where there is none.
THEOREM EvaluateIsRuleDecision == PolicySpec => []EvaluateFollowsRules
<1>1. ASSUME PolicyInv PROVE EvaluateFollowsRules
  <2> SUFFICES ASSUME NEW a \in AlgorithmIds, NEW when \in Instant
               PROVE  evaluate(a, when)
                        = Rules!Decision(a, when, IF evaluate_fallback(a) THEN "Accept" ELSE "Reject")
    BY DEF EvaluateFollowsRules
  <2> DEFINE fallback == IF evaluate_fallback(a) THEN "Accept" ELSE "Reject"
  <2> HIDE DEF fallback
  <2>1. ~(a \in permitted /\ a \in forbidden)
    BY <1>1 DEF PolicyInv, RulesAreExclusive
  <2>2. /\ (Verdict(a) = "forbid") = (a \in forbidden)
        /\ (Verdict(a) = "permit") = (a \in permitted)
    BY <2>1 DEF Verdict
  <2>3. Rules!Decision(a, when, fallback)
          = CASE Verdict(a) = "forbid" -> "Reject"
              [] Verdict(a) # "forbid" /\ Past(a, when) -> "Sunset"
              [] Verdict(a) = "permit" /\ ~Past(a, when) -> "Accept"
              [] OTHER -> fallback
    BY DEF Rules!Decision, Past
  <2>4. evaluate(a, when)
          = CASE a \in forbidden -> "Reject"
              [] a \notin forbidden /\ Past(a, when) -> "Sunset"
              [] a \in permitted \ forbidden /\ ~Past(a, when) -> "Accept"
              [] OTHER -> fallback
    BY Zenon DEF evaluate, fallback
  <2>5. evaluate(a, when) = Rules!Decision(a, when, fallback)
    BY <2>1, <2>2, <2>3, <2>4
  <2> QED
    BY <2>5 DEF fallback
<1>2. PolicyInv => EvaluateFollowsRules
  BY <1>1
<1> QED
  BY <1>2, PolicyInvHolds, PTL

\* Time only takes acceptance away: what is accepted at a time was accepted
\* at every earlier one.
THEOREM AcceptanceExpiresOnce == PolicySpec => []AcceptanceOnlyExpires
<1>1. ASSUME TypeOK PROVE AcceptanceOnlyExpires
  <2> SUFFICES ASSUME NEW a \in AlgorithmIds, NEW early \in Instant, NEW late \in Instant,
                      early <= late, is_accepted_at(a, late)
               PROVE  is_accepted_at(a, early)
    BY DEF AcceptanceOnlyExpires
  <2>1. early \in Int /\ late \in Int /\ (sunsets[a] # NoSunset => sunsets[a] \in Int)
    BY <1>1, AlgorithmAssumption DEF TypeOK
  <2>2. Past(a, early) => Past(a, late)
    BY <2>1 DEF Past
  <2>3. ~Past(a, late)
    BY <2>1 DEF is_accepted_at, evaluate, Past
  <2> HIDE DEF Past
  <2>4. evaluate(a, early) = evaluate(a, late)
    BY <2>2, <2>3 DEF evaluate
  <2>5. evaluate(a, late) = "Accept"
    BY <2>3 DEF is_accepted_at, evaluate
  <2> QED
    BY <2>4, <2>5 DEF is_accepted_at
<1>2. TypeOK => AcceptanceOnlyExpires
  BY <1>1
<1> QED
  BY <1>2, RulesTypeCorrect, PTL

----------------------------------------------------------------------------
\* The three maps implement one rule per algorithm: the last word of permit
\* and forbid, and the sunset set since.
THEOREM MapsImplementRules == PolicySpec => ImplementsRules
<1> USE DEF Rules!Rule
<1>1. PolicyInit => Rules!RulesInit
  BY DEF PolicyInit, Rules!RulesInit, Verdict
<1>2. ASSUME PolicyInv, [PolicyNext]_policyVars
      PROVE  [Rules!RulesNext]_<<[a \in AlgorithmIds |-> [verdict |-> Verdict(a), sunset |-> sunsets[a]]], floors>>
  <2> DEFINE rule == [a \in AlgorithmIds |-> [verdict |-> Verdict(a), sunset |-> sunsets[a]]]
  <2>1. ASSUME NEW a \in AlgorithmIds, permit(a) PROVE Rules!Permit(a)
    BY <1>2, <2>1 DEF PolicyInv, TypeOK, permit, Rules!Permit, Verdict
  <2>2. ASSUME NEW a \in AlgorithmIds, forbid(a) PROVE Rules!Forbid(a)
    BY <1>2, <2>2 DEF PolicyInv, TypeOK, forbid, Rules!Forbid, Verdict
  <2>3. ASSUME NEW a \in AlgorithmIds, NEW t \in Instant, sunset(a, t) PROVE Rules!Sunset(a, t)
    BY <1>2, <2>3 DEF PolicyInv, TypeOK, sunset, Rules!Sunset, Verdict
  <2>4. ASSUME NEW f \in Floors, SetFloors(f) PROVE Rules!SetFloors
    BY <2>4 DEF SetFloors, Rules!SetFloors, Verdict
  <2>5. ASSUME UNCHANGED policyVars PROVE UNCHANGED <<rule, floors>>
    BY <2>5 DEF policyVars, Verdict
  <2> QED
    BY <1>2, <2>1, <2>2, <2>3, <2>4, <2>5 DEF PolicyNext, Rules!RulesNext
<1> QED
  BY <1>1, <1>2, PolicyInvHolds, PTL DEF PolicySpec, ImplementsRules, Rules!RulesSpec

----------------------------------------------------------------------------
(* Tightening.                                                             *)

\* Acceptance spelled out: not forbidden, no sunset behind, and either
\* permitted or strong enough.
AcceptanceSpelledOut ==
  \A a \in AlgorithmIds, when \in Instant :
    is_accepted_at(a, when) <=>
      /\ a \notin forbidden
      /\ ~Past(a, when)
      /\ a \in permitted \/ evaluate_fallback(a)

LEMMA AcceptedWhen == TypeOK => AcceptanceSpelledOut
<1> SUFFICES ASSUME TypeOK, NEW a \in AlgorithmIds, NEW when \in Instant
             PROVE  is_accepted_at(a, when) <=>
                      /\ a \notin forbidden
                      /\ ~Past(a, when)
                      /\ a \in permitted \/ evaluate_fallback(a)
  BY DEF AcceptanceSpelledOut
<1>1. CASE a \in forbidden
  BY <1>1 DEF is_accepted_at, evaluate
<1>2. CASE a \notin forbidden /\ Past(a, when)
  <2>1. evaluate(a, when) = "Sunset"
    BY <1>2 DEF evaluate
  <2>2. when \in Int /\ sunsets[a] \in Int /\ when >= sunsets[a]
    BY <1>2, AlgorithmAssumption DEF Past, TypeOK
  <2> QED
    BY <1>2, <2>1, <2>2 DEF is_accepted_at
<1>3. CASE a \notin forbidden /\ ~Past(a, when)
  BY <1>3 DEF is_accepted_at, evaluate
<1> QED
  BY <1>1, <1>2, <1>3

\* Raising minimum strengths makes nothing strong enough that was not.
LEMMA RaisedFloorsAcceptLess ==
  ASSUME TypeOK, NEW a \in AlgorithmIds, NEW f \in Floors, floors' = f,
         f.rsa >= floors.rsa, f.ecc >= floors.ecc, f.hash >= floors.hash,
         f.sha1 => floors.sha1, evaluate_fallback(a)'
  PROVE  evaluate_fallback(a)
<1>1. /\ f.rsa \in Nat /\ f.ecc \in Nat /\ f.hash \in Nat
      /\ floors.rsa \in Nat /\ floors.ecc \in Nat /\ floors.hash \in Nat
  BY AlgorithmAssumption DEF TypeOK, FloorType
<1>2. a.key_bits \in Nat /\ a.hash \in Hashes
  BY AlgorithmAssumption DEF AlgorithmId
<1>3. output_bits(a.hash) \in Nat
  BY <1>2 DEF output_bits, Hashes
<1>4. /\ a.hash # "Md5"
      /\ a.hash = "Sha1" => f.sha1
      /\ output_bits(a.hash) >= f.hash
      /\ \/ a.signature \in {"RsaPkcs1v15", "RsaPss"} /\ a.key_bits >= f.rsa
         \/ a.signature \in {"Ecdsa", "EdDsa"} /\ a.key_bits >= f.ecc
  BY DEF evaluate_fallback
<1>5. output_bits(a.hash) >= floors.hash
  BY <1>1, <1>3, <1>4
<1>6. /\ a.key_bits >= f.rsa => a.key_bits >= floors.rsa
      /\ a.key_bits >= f.ecc => a.key_bits >= floors.ecc
  BY <1>1, <1>2
<1> HIDE DEF output_bits
<1> QED
  BY <1>4, <1>5, <1>6, Zenon DEF evaluate_fallback

LEMMA TighteningStep ==
  ASSUME TypeOK, AcceptanceSpelledOut, AcceptanceSpelledOut', Tightening
  PROVE  Accepted' \subseteq Accepted
<1> SUFFICES ASSUME NEW b \in AlgorithmIds, NEW when \in Instant, is_accepted_at(b, when)'
             PROVE  is_accepted_at(b, when)
  BY DEF Accepted
<1>1. b \notin forbidden' /\ ~Past(b, when)' /\ (b \in permitted' \/ evaluate_fallback(b)')
  BY DEF AcceptanceSpelledOut
<1>2. when \in Int /\ sunsets \in [AlgorithmIds -> Instant \cup {NoSunset}] /\ Instant \subseteq Int
  BY AlgorithmAssumption DEF TypeOK
<1>3. ASSUME NEW a \in AlgorithmIds, forbid(a) PROVE is_accepted_at(b, when)
  <2>1. b \notin forbidden /\ (b \in permitted' => b \in permitted)
    BY <1>1, <1>3 DEF forbid
  <2>2. ~Past(b, when) /\ evaluate_fallback(b)' = evaluate_fallback(b)
    BY <1>1, <1>3 DEF forbid, Past, evaluate_fallback
  <2> QED
    BY <1>1, <2>1, <2>2 DEF AcceptanceSpelledOut
<1>4. ASSUME NEW a \in AlgorithmIds, NEW t \in Instant, sunset(a, t),
             sunsets[a] = NoSunset \/ t <= sunsets[a]
      PROVE  is_accepted_at(b, when)
  <2>1. b \notin forbidden /\ (b \in permitted' => b \in permitted)
    BY <1>1, <1>4 DEF sunset
  <2>2. evaluate_fallback(b)' = evaluate_fallback(b)
    BY <1>4 DEF sunset, evaluate_fallback
  <2>3. ~Past(b, when)
    <3>1. CASE a = b
      <4>1. sunsets'[b] = t /\ t \in Int /\ t # NoSunset
        BY <1>2, <1>4, <3>1, AlgorithmAssumption DEF sunset
      <4>2. when < t
        BY <1>1, <1>2, <4>1 DEF Past
      <4> QED
        <5>1. CASE sunsets[b] = NoSunset
          BY <5>1 DEF Past
        <5>2. CASE sunsets[b] # NoSunset
          <6>1. sunsets[b] \in Int /\ t <= sunsets[b]
            BY <1>2, <1>4, <3>1, <5>2
          <6> QED
            BY <1>2, <4>1, <4>2, <6>1 DEF Past
        <5> QED
          BY <5>1, <5>2
    <3>2. CASE a # b
      BY <1>1, <1>2, <1>4, <3>2 DEF Past, sunset
    <3> QED
      BY <3>1, <3>2
  <2> QED
    BY <1>1, <2>1, <2>2, <2>3 DEF AcceptanceSpelledOut
<1>5. ASSUME NEW f \in Floors, SetFloors(f),
             f.rsa >= floors.rsa, f.ecc >= floors.ecc, f.hash >= floors.hash,
             f.sha1 => floors.sha1
      PROVE  is_accepted_at(b, when)
  <2>1. b \notin forbidden /\ (b \in permitted' => b \in permitted) /\ ~Past(b, when)
    BY <1>1, <1>5 DEF SetFloors, Past
  <2>2. evaluate_fallback(b)' => evaluate_fallback(b)
    BY <1>5, RaisedFloorsAcceptLess DEF SetFloors
  <2> QED
    BY <1>1, <2>1, <2>2 DEF AcceptanceSpelledOut
<1> QED
  BY <1>3, <1>4, <1>5 DEF Tightening

\* Whoever forbids an algorithm, brings a sunset forward or raises a minimum
\* strength never makes anything acceptable by it.
THEOREM TighteningAcceptsNothingNew == PolicySpec => TighteningIsSafe
<1>1. /\ TypeOK /\ AcceptanceSpelledOut /\ AcceptanceSpelledOut'
      => [Tightening => Accepted' \subseteq Accepted]_policyVars
  BY TighteningStep
<1> QED
  BY <1>1, RulesTypeCorrect, AcceptedWhen, PTL DEF PolicySpec, TighteningIsSafe

----------------------------------------------------------------------------
(* The two B-B pipelines.                                                  *)


Count(p) == IF p = "bb" THEN 10 ELSE 11

\* What a pipeline has found: every check before the present one passed, and
\* its outcome is that of the present one.
Found(p) ==
  /\ at[p] \in 1..Count(p)
  /\ \A n \in 1..(at[p] - 1) : Passes(p, signer, Checks(p)[n])
  /\ \/ outcome[p] = "running"
     \/ outcome[p] = "TotalPassed" /\ at[p] = Count(p) /\ Passes(p, signer, Checks(p)[at[p]])
     \/ outcome[p] = Checks(p)[at[p]] /\ ~Passes(p, signer, Checks(p)[at[p]])

BaselineInv ==
  /\ DOMAIN at = Pipelines /\ DOMAIN outcome = Pipelines
  /\ \A p \in Pipelines : Found(p)

----------------------------------------------------------------------------
\* The two lists have 10 and 11 checks.
LEMMA Counts == \A p \in Pipelines : Len(Checks(p)) = Count(p) /\ Count(p) \in Nat \ {0}
  BY DEF Pipelines, Checks, Count, BbChecks, CadesChecks

\* Nothing has been looked at yet.
LEMMA InitBaselineInv == Init => BaselineInv
<1> SUFFICES ASSUME Init PROVE BaselineInv
  OBVIOUS
<1>1. 1..(1 - 1) = {}
  OBVIOUS
<1> QED
  BY <1>1, Counts DEF Init, BaselineInv, Found

\* A check of one pipeline.
LEMMA CheckBaselineInv ==
  ASSUME BaselineInv, NEW p \in Pipelines, Check(p)
  PROVE  BaselineInv'
<1> DEFINE check == Checks(p)[at[p]]
<1>1. /\ DOMAIN at = Pipelines /\ DOMAIN outcome = Pipelines /\ \A q \in Pipelines : Found(q)
  BY DEF BaselineInv
<1>2. at[p] \in 1..Count(p) /\ Count(p) \in Nat \ {0} /\ Len(Checks(p)) = Count(p)
  BY <1>1, Counts DEF Found
<1>3. signer' = signer
  BY DEF Check
<1>4. ASSUME NEW q \in Pipelines, q # p, at'[q] = at[q], outcome'[q] = outcome[q] PROVE Found(q)'
  BY <1>1, <1>3, <1>4 DEF Found
<1>5. CASE ~Passes(p, signer, check)
  <2>1. outcome' = [outcome EXCEPT ![p] = check] /\ at' = at
    BY <1>5 DEF Check
  <2>2. Found(p)'
    BY <1>1, <1>3, <1>5, <2>1 DEF Found
  <2> QED
    BY <1>1, <1>4, <2>1, <2>2 DEF BaselineInv
<1>6. CASE Passes(p, signer, check) /\ at[p] = Len(Checks(p))
  <2>1. outcome' = [outcome EXCEPT ![p] = "TotalPassed"] /\ at' = at
    BY <1>6 DEF Check
  <2>2. Found(p)'
    BY <1>1, <1>2, <1>3, <1>6, <2>1 DEF Found
  <2> QED
    BY <1>1, <1>4, <2>1, <2>2 DEF BaselineInv
<1>7. CASE Passes(p, signer, check) /\ at[p] # Len(Checks(p))
  <2>1. at' = [at EXCEPT ![p] = @ + 1] /\ outcome' = outcome /\ outcome[p] = "running"
    BY <1>7 DEF Check
  <2>2. at'[p] = at[p] + 1 /\ at[p] + 1 \in 1..Count(p) /\ 1..((at[p] + 1) - 1) = 1..(at[p] - 1) \cup {at[p]}
    BY <1>1, <1>2, <1>7, <2>1
  <2>3. Found(p)'
    BY <1>1, <1>3, <1>7, <2>1, <2>2 DEF Found
  <2> QED
    BY <1>1, <1>4, <2>1, <2>3 DEF BaselineInv
<1> QED
  BY <1>5, <1>6, <1>7

\* The invariant holds in every reachable state.
THEOREM BaselineInvariance == Spec => []BaselineInv
<1>1. BaselineInv /\ UNCHANGED vars => BaselineInv'
  BY DEF vars, BaselineInv, Found
<1>2. BaselineInv /\ [Next]_vars => BaselineInv'
  BY <1>1, CheckBaselineInv DEF Next
<1> QED
  BY <1>2, InitBaselineInv, PTL DEF Spec

----------------------------------------------------------------------------
\* Where the facts are the same a check gives both the same result, and the
\* one that eidas-cades has in addition passes.
LEMMA SameChecks ==
  ASSUME SameFacts
  PROVE  /\ Passes("cades", signer, "unsigned")
         /\ \A n \in 1..10 : Passes("bb", signer, BbChecks[n]) <=> Passes("cades", signer, BbChecks[n])
<1>1. Passes("cades", signer, "unsigned")
  BY DEF SameFacts, Passes
<1>2. locate_signer_cert("bb", signer) <=> locate_signer_cert("cades", signer)
  BY DEF SameFacts, locate_signer_cert
<1>3. verify_signing_certificate_ref("bb", signer) <=> verify_signing_certificate_ref("cades", signer)
  BY DEF SameFacts, verify_signing_certificate_ref
<1>4. \A n \in 1..10 :
        BbChecks[n] \in {"cert", "signedAttrs", "digestAlg", "claimed", "contentType", "ess",
                         "signature", "classify", "policy", "chain"}
  BY DEF BbChecks
<1>5. \A check \in {"cert", "signedAttrs", "digestAlg", "claimed", "contentType", "ess",
                    "signature", "classify", "policy", "chain"} :
        Passes("bb", signer, check) <=> Passes("cades", signer, check)
  BY <1>2, <1>3 DEF SameFacts, Passes
<1> QED
  BY <1>1, <1>4, <1>5

\* The orders differ in the first check of eidas-cades and in the last two.
LEMMA Orders ==
  /\ CadesChecks[1] = "unsigned"
  /\ \A n \in 1..8 : CadesChecks[n + 1] = BbChecks[n]
  /\ BbChecks[9] = "policy" /\ BbChecks[10] = "chain"
  /\ CadesChecks[10] = "chain" /\ CadesChecks[11] = "policy"
  BY DEF BbChecks, CadesChecks

\* eidas-cades verify.rs:386-447, eidas-cms cades.rs:144-243: one verdict and
\* one fault, but for chain and policy.
THEOREM CopiesAgree == Spec => []PipelinesAgree
<1>1. ASSUME BaselineInv PROVE PipelinesAgree
  <2> SUFFICES ASSUME BothDone, SameFacts
               PROVE  \/ outcome["bb"] = outcome["cades"]
                      \/ outcome["bb"] = "policy" /\ outcome["cades"] = "chain"
    BY DEF PipelinesAgree
  <2> DEFINE a == at["bb"]
             b == at["cades"]
             Sound(check) == Passes("bb", signer, check)
  <2>1. /\ a \in 1..10 /\ \A n \in 1..(a - 1) : Sound(BbChecks[n])
        /\ \/ outcome["bb"] = "TotalPassed" /\ a = 10 /\ Sound(BbChecks[10])
           \/ outcome["bb"] = BbChecks[a] /\ ~Sound(BbChecks[a])
    BY <1>1 DEF BaselineInv, Found, BothDone, Pipelines, Checks, Count
  <2>2. /\ b \in 1..11 /\ \A n \in 1..(b - 1) : Passes("cades", signer, CadesChecks[n])
        /\ \/ outcome["cades"] = "TotalPassed" /\ b = 11 /\ Passes("cades", signer, CadesChecks[11])
           \/ outcome["cades"] = CadesChecks[b] /\ ~Passes("cades", signer, CadesChecks[b])
    BY <1>1 DEF BaselineInv, Found, BothDone, Pipelines, Checks, Count
  <2>3. /\ Passes("cades", signer, CadesChecks[1])
        /\ \A n \in 1..8 : Passes("cades", signer, CadesChecks[n + 1]) <=> Sound(BbChecks[n])
        /\ Passes("cades", signer, CadesChecks[10]) <=> Sound(BbChecks[10])
        /\ Passes("cades", signer, CadesChecks[11]) <=> Sound(BbChecks[9])
    <3>1. /\ 9 \in 1..10 /\ 10 \in 1..10 /\ \A n \in 1..8 : n \in 1..10
      OBVIOUS
    <3> QED
      BY <3>1, SameChecks, Orders
  <2> HIDE DEF a, b, Sound
  <2>4. CASE a \in 1..8
    <3>1. outcome["bb"] = BbChecks[a] /\ ~Sound(BbChecks[a])
      BY <2>1, <2>4
    <3>2. ~Passes("cades", signer, CadesChecks[a + 1])
      BY <2>3, <2>4, <3>1
    <3>3. ~(a + 1 < b)
      BY <2>2, <2>4, <3>2
    <3>4. ~(b < a + 1)
      <4> SUFFICES ASSUME b < a + 1 PROVE FALSE
        OBVIOUS
      <4>1. b \in 1..8 /\ ~Passes("cades", signer, CadesChecks[b])
        BY <2>2, <2>4
      <4>2. b # 1
        BY <2>3, <4>1
      <4>3. b - 1 \in 1..8 /\ b - 1 \in 1..(a - 1) /\ (b - 1) + 1 = b
        BY <2>4, <4>1, <4>2
      <4> QED
        BY <2>1, <2>3, <4>1, <4>3
    <3>5. b = a + 1 /\ b # 11
      BY <2>2, <2>4, <3>3, <3>4
    <3> QED
      BY <2>2, <2>4, <3>1, <3>5, Orders
  <2>5. CASE a \in {9, 10}
    <3>1. \A n \in 1..8 : Passes("cades", signer, CadesChecks[n + 1])
      BY <2>1, <2>3, <2>5
    <3>2. b \in {10, 11}
      <4> SUFFICES ASSUME b \in 1..9 PROVE FALSE
        BY <2>2
      <4>1. ~Passes("cades", signer, CadesChecks[b])
        BY <2>2
      <4>2. b = 1 \/ (b - 1 \in 1..8 /\ (b - 1) + 1 = b)
        OBVIOUS
      <4> QED
        BY <2>3, <3>1, <4>1, <4>2
    <3>3. a = 10 => Sound(BbChecks[9])
      BY <2>1
    <3>4. b = 11 => Passes("cades", signer, CadesChecks[10])
      BY <2>2
    <3> QED
      BY <2>1, <2>2, <2>3, <2>5, <3>2, <3>3, <3>4, Orders
  <2> QED
    BY <2>1, <2>4, <2>5
<1> QED
  BY <1>1, BaselineInvariance, PTL

\* What has passed when a pipeline is done.
LEMMA AllPassed ==
  ASSUME BaselineInv, NEW p \in Pipelines, outcome[p] = "TotalPassed"
  PROVE  \A check \in {"digestAlg", "signature", "classify", "policy"} : Passes(p, signer, check)
<1>1. Found(p) /\ outcome[p] # "running"
  BY DEF BaselineInv
<1>2. \A n \in 1..Count(p) : Checks(p)[n] # "TotalPassed"
  BY DEF Pipelines, Checks, Count, BbChecks, CadesChecks
<1>3. \A n \in 1..Count(p) : Passes(p, signer, Checks(p)[n])
  <2>1. at[p] = Count(p) /\ Passes(p, signer, Checks(p)[at[p]])
    BY <1>1, <1>2 DEF Found
  <2>2. 1..Count(p) = 1..(Count(p) - 1) \cup {Count(p)}
    BY DEF Count
  <2> QED
    BY <1>1, <2>1, <2>2 DEF Found
<1>4. \A check \in {"digestAlg", "signature", "classify", "policy"} : \E n \in 1..Count(p) : Checks(p)[n] = check
  <2>1. CASE p = "bb"
    <3>1. /\ Checks(p)[3] = "digestAlg" /\ Checks(p)[7] = "signature" /\ Checks(p)[8] = "classify"
          /\ Checks(p)[9] = "policy" /\ Count(p) = 10
      BY <2>1 DEF Checks, Count, BbChecks
    <3> QED
      BY <3>1
  <2>2. CASE p = "cades"
    <3>1. /\ Checks(p)[4] = "digestAlg" /\ Checks(p)[8] = "signature" /\ Checks(p)[9] = "classify"
          /\ Checks(p)[11] = "policy" /\ Count(p) = 11
      BY <2>2 DEF Checks, Count, CadesChecks
    <3> QED
      BY <3>1
  <2> QED
    BY <2>1, <2>2 DEF Pipelines
<1> QED
  BY <1>3, <1>4

\* eidas-cms digest.rs:28-32: SHA-1 is known as a digest and passes as nothing.
THEOREM Sha1NeverPasses == Spec => []NoSha1SignaturePasses
<1>1. ASSUME BaselineInv PROVE NoSha1SignaturePasses
  <2> SUFFICES ASSUME NEW p \in Pipelines, outcome[p] = "TotalPassed"
               PROVE  signer.madeWith \in Sha2 /\ signer.digestAlg \notin signer.rejects
    BY DEF NoSha1SignaturePasses
  <2>1. /\ Passes(p, signer, "digestAlg") /\ Passes(p, signer, "signature")
        /\ Passes(p, signer, "classify") /\ Passes(p, signer, "policy")
    BY <1>1, AllPassed
  <2>2. /\ signer.digestAlg \in hash_from_oid /\ verify_cms_signature(signer)
        /\ classify_algorithm(signer) # "unclassified" /\ classify_algorithm(signer) \notin signer.rejects
    BY <2>1 DEF Passes
  <2>3. classify_algorithm(signer) = signer.digestAlg
    BY <2>2 DEF classify_algorithm
  <2> QED
    BY <2>2, <2>3 DEF verify_cms_signature
<1> QED
  BY <1>1, BaselineInvariance, PTL

\* eidas-cms cades.rs:198-202: what verified has a classification.
THEOREM VerifiedClassified == Spec => []VerifiedIsClassified
<1>1. ASSUME BaselineInv PROVE VerifiedIsClassified
  <2> SUFFICES ASSUME NEW p \in Pipelines, outcome[p] = "classify" PROVE FALSE
    BY DEF VerifiedIsClassified
  <2>1. Found(p) /\ Checks(p)[at[p]] = "classify" /\ ~Passes(p, signer, "classify")
    BY <1>1 DEF BaselineInv, Found
  <2>2. Passes(p, signer, "digestAlg") /\ Passes(p, signer, "signature")
    <3>1. CASE p = "bb"
      <4>1. at[p] = 8 /\ Checks(p)[3] = "digestAlg" /\ Checks(p)[7] = "signature"
        BY <2>1, <3>1 DEF Found, Checks, Count, BbChecks
      <4>2. 3 \in 1..(8 - 1) /\ 7 \in 1..(8 - 1)
        OBVIOUS
      <4> QED
        BY <2>1, <4>1, <4>2 DEF Found
    <3>2. CASE p = "cades"
      <4>1. at[p] = 9 /\ Checks(p)[4] = "digestAlg" /\ Checks(p)[8] = "signature"
        BY <2>1, <3>2 DEF Found, Checks, Count, CadesChecks
      <4>2. 4 \in 1..(9 - 1) /\ 8 \in 1..(9 - 1)
        OBVIOUS
      <4> QED
        BY <2>1, <4>1, <4>2 DEF Found
    <3> QED
      BY <3>1, <3>2 DEF Pipelines
  <2>3. /\ signer.digestAlg \in hash_from_oid /\ verify_cms_signature(signer)
        /\ classify_algorithm(signer) = "unclassified"
    BY <2>1, <2>2 DEF Passes
  <2>4. signer.digestAlg # "unclassified"
    BY <2>3 DEF hash_from_oid, Sha2
  <2> QED
    BY <2>3, <2>4 DEF classify_algorithm, verify_cms_signature, EcKeys
<1> QED
  BY <1>1, BaselineInvariance, PTL
=============================================================================
