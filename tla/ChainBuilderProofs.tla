------------------------- MODULE ChainBuilderProofs -------------------------
(***************************************************************************)
(* Proofs about the chain builder, for every pool, every evaluation time   *)
(* and every depth limit.                                                  *)
(***************************************************************************)
EXTENDS ChainBuilder, TLAPS, SequenceTheorems, FiniteSetTheorems, WellFoundedInduction

----------------------------------------------------------------------------
(* The candidate an iteration picks.                                       *)

\* A set of indexes that is not empty has a first one (the `for` loops of
\* `build` stop at the first candidate that matches).
LEMMA FirstIsMember ==
  ASSUME NEW S, S \subseteq Nat, S # {}
  PROVE  First(S) \in S /\ \A j \in S : First(S) <= j
<1> DEFINE R == OpToRel(<, Nat)
<1>1. \E x \in S : \A y \in S : ~(<<y, x>> \in R)
  <2>1. IsWellFoundedOn(R, Nat)
    BY NatLessThanWellFounded, Zenon
  <2> HIDE DEF R
  <2> QED
    BY <2>1, WFMin, Zenon
<1>2. PICK x \in S : \A y \in S : ~(<<y, x>> \in R)
  BY <1>1
<1>3. ASSUME NEW y \in S PROVE x <= y
  <2>1. ~(y < x)
    BY <1>2, Zenon DEF OpToRel
  <2> QED
    BY <2>1
<1>4. \E i \in S : \A j \in S : i <= j
  BY <1>3
<1> QED
  BY <1>4 DEF First

\* The candidates of an iteration are indexes of the pool, and so is the first.
LEMMA CandidatesArePool ==
  ASSUME TypeOK
  PROVE  /\ FreeIssuers # {} => /\ First(FreeIssuers) \in DOMAIN intermediates \ used
                                /\ issuer_matches(intermediates[First(FreeIssuers)], tail)
                                /\ intermediates[First(FreeIssuers)] \in Certificate
         /\ AnchorIssuers # {} => /\ First(AnchorIssuers) \in DOMAIN anchors
                                  /\ issuer_matches(anchors[First(AnchorIssuers)], tail)
                                  /\ anchors[First(AnchorIssuers)] \in Certificate
         /\ match_anchor(tail) # {} =>
              /\ First(match_anchor(tail)) \in DOMAIN anchors
              /\ SameAsAnchor(tail, anchors[First(match_anchor(tail))])
              /\ anchors[First(match_anchor(tail))] \in Certificate
<1>1. /\ anchors \in Seq(Certificate) /\ intermediates \in Seq(Certificate)
  <2>1. anchors \in Seq(AnchorPool) /\ intermediates \in Seq(IntermediatePool)
    BY DEF TypeOK
  <2> QED
    BY <2>1, PoolAssumption
<1>2. /\ FreeIssuers \subseteq Nat /\ AnchorIssuers \subseteq Nat
      /\ match_anchor(tail) \subseteq Nat
  BY <1>1 DEF FreeIssuers, AnchorIssuers, match_anchor
<1>3. ASSUME FreeIssuers # {}
      PROVE  /\ First(FreeIssuers) \in DOMAIN intermediates \ used
             /\ issuer_matches(intermediates[First(FreeIssuers)], tail)
  <2>1. First(FreeIssuers) \in FreeIssuers
    BY <1>2, <1>3, FirstIsMember
  <2> QED
    BY <2>1 DEF FreeIssuers
<1>4. ASSUME AnchorIssuers # {}
      PROVE  /\ First(AnchorIssuers) \in DOMAIN anchors
             /\ issuer_matches(anchors[First(AnchorIssuers)], tail)
  <2>1. First(AnchorIssuers) \in AnchorIssuers
    BY <1>2, <1>4, FirstIsMember
  <2> QED
    BY <2>1 DEF AnchorIssuers
<1>5. ASSUME match_anchor(tail) # {}
      PROVE  /\ First(match_anchor(tail)) \in DOMAIN anchors
             /\ SameAsAnchor(tail, anchors[First(match_anchor(tail))])
  <2>1. First(match_anchor(tail)) \in match_anchor(tail)
    BY <1>2, <1>5, FirstIsMember
  <2> QED
    BY <2>1 DEF match_anchor
<1>6. /\ \A j \in DOMAIN anchors : anchors[j] \in Certificate
      /\ \A j \in DOMAIN intermediates : intermediates[j] \in Certificate
  BY <1>1
<1> QED
  BY <1>3, <1>4, <1>5, <1>6, Zenon

----------------------------------------------------------------------------
(* Type correctness.                                                       *)

\* Pushing an issuer, or failing to, keeps the types.
LEMMA LinkTypeOK ==
  ASSUME TypeOK, phase = "build",
         NEW issuer \in Certificate, NEW usedAfter \in SUBSET DOMAIN intermediates,
         Link(issuer, usedAfter)
  PROVE  TypeOK'
<1>1. ca_diagnostics(issuer) \subseteq DiagnosticCodes \X Certificate
  BY DEF ca_diagnostics, DiagnosticCodes
<1>2. /\ anchors' = anchors /\ intermediates' = intermediates /\ at' = at
      /\ phase' \in {"build", "done"}
      /\ outcome' \in {"pending", "Ok"} \cup Errors
  BY DEF Link, Return, pool, TypeOK, Errors
<1>3. chain' \in Seq(Certificate) /\ chain' # <<>>
  <2>1. chain \in Seq(Certificate) /\ chain # <<>>
    BY DEF TypeOK
  <2>2. chain' = chain \/ chain' = Append(chain, issuer)
    BY DEF Link
  <2>3. Append(chain, issuer) \in Seq(Certificate) /\ Len(Append(chain, issuer)) # 0
    BY <2>1
  <2> QED
    BY <2>1, <2>2, <2>3
<1>4. used' \subseteq DOMAIN intermediates
  BY DEF Link, Return, pool, TypeOK
<1>5. diagnostics' \subseteq DiagnosticCodes \X Certificate
  BY <1>1 DEF Link, Return, pool, TypeOK
<1> QED
  BY <1>2, <1>3, <1>4, <1>5 DEF TypeOK

\* Every call and every iteration keeps the types.
LEMMA StepTypeOK ==
  ASSUME TypeOK, [Next]_vars
  PROVE  TypeOK'
<1>1. ASSUME NEW c \in AnchorPool, push_anchor(c) PROVE TypeOK'
  BY <1>1 DEF push_anchor, TypeOK, Locals
<1>2. ASSUME NEW c \in IntermediatePool, push_intermediate(c) PROVE TypeOK'
  BY <1>2 DEF push_intermediate, TypeOK, Locals
<1>3. ASSUME NEW c \in SignerPool, NEW t \in EvaluationTime, build(c, t) PROVE TypeOK'
  BY <1>3, PoolAssumption DEF build, TypeOK, Return, pool, Errors
<1>4. CASE ReachAnchor
  <2>1. anchors[First(match_anchor(tail))] \in Certificate
    BY <1>4, CandidatesArePool DEF ReachAnchor
  <2>2. chain' \in Seq(Certificate) /\ chain' # <<>>
    <3> DEFINE top == anchors[First(match_anchor(tail))]
    <3>1. chain \in Seq(Certificate) /\ chain # <<>>
      BY <1>4 DEF ReachAnchor, TypeOK
    <3>2. chain' = chain \/ chain' = [chain EXCEPT ![Len(chain)] = top]
      BY <1>4 DEF ReachAnchor
    <3> HIDE DEF top
    <3>3. /\ [chain EXCEPT ![Len(chain)] = top] \in Seq(Certificate)
          /\ Len([chain EXCEPT ![Len(chain)] = top]) = Len(chain)
      BY <3>1, <2>1, ExceptSeq DEF top
    <3> QED
      BY <3>1, <3>2, <3>3
  <2> QED
    BY <1>4, <2>2 DEF ReachAnchor, Return, TypeOK, pool, Errors
<1>5. CASE ExtendByIntermediate
  <2>1. /\ intermediates[First(FreeIssuers)] \in Certificate
        /\ used \cup {First(FreeIssuers)} \in SUBSET DOMAIN intermediates
    BY <1>5, CandidatesArePool DEF ExtendByIntermediate, TypeOK
  <2> QED
    BY <1>5, <2>1, LinkTypeOK DEF ExtendByIntermediate, Searching
<1>6. CASE ExtendByAnchor
  <2>1. /\ anchors[First(AnchorIssuers)] \in Certificate
        /\ used \in SUBSET DOMAIN intermediates
    BY <1>6, CandidatesArePool DEF ExtendByAnchor, TypeOK
  <2> QED
    BY <1>6, <2>1, LinkTypeOK DEF ExtendByAnchor, Searching
<1>7. CASE NoIssuer
  BY <1>7 DEF NoIssuer, Searching, Return, TypeOK, pool, Errors
<1>8. CASE DropResult
  BY <1>8 DEF DropResult, TypeOK, pool
<1>9. CASE UNCHANGED vars
  BY <1>9 DEF vars, TypeOK
<1> QED
  BY <1>1, <1>2, <1>3, <1>4, <1>5, <1>6, <1>7, <1>8, <1>9 DEF Next, Iterate

\* The state of the builder and of every call of `build` is well formed: the
\* chain is never empty in the loop and only intermediates are marked used.
THEOREM TypeCorrect == Spec => []TypeOK
<1>1. Init => TypeOK
  BY DEF Init, TypeOK
<1> QED
  BY <1>1, StepTypeOK, PTL DEF Spec

----------------------------------------------------------------------------
(* What a returned chain is worth.                                         *)

OddityReported(c, recorded) ==
  /\ c.ku = "absent" => <<"CA_NO_KEY_USAGE", c>> \in recorded
  /\ c.eku # "absent" => <<"CA_HAS_EKU", c>> \in recorded

\* Between two iterations every pair collected so far is a valid link, every
\* certificate above the signer is from the pool and had its oddities
\* reported, and the chain outgrows the spent intermediates by the signer
\* alone, or by one anchor at which the next iteration stops.
LoopInv ==
  phase = "build" =>
    /\ outcome = "pending"
    /\ \A i \in 1..(Len(chain) - 1) : ValidLink(chain[i], chain[i + 1], at)
    /\ \A i \in 2..Len(chain) :
         chain[i] \in PoolCertificates /\ OddityReported(chain[i], diagnostics)
    /\ Len(chain) <= MaxDepth
    /\ \/ Len(chain) <= Cardinality(used) + 1
       \/ Len(chain) <= Cardinality(used) + 2 /\ match_anchor(tail) # {}

\* Nothing of a call is left once the caller has gone on.
IdleInv ==
  /\ phase = "configure" => outcome = "pending" /\ chain = <<>>
  /\ phase = "done" => Len(chain) <= Cardinality(used) + 2

ResultInv ==
  /\ ChainIsLinked
  /\ EndsAtAnchor
  /\ CaOddityIsReported
  /\ outcome = "Ok" => Len(chain) <= MaxDepth

IInv == TypeOK /\ LoopInv /\ IdleInv /\ ResultInv

\* The intermediates marked used can be counted, and marking another adds one.
LEMMA UsedIsFinite ==
  ASSUME TypeOK
  PROVE  /\ Cardinality(used) \in Nat
         /\ \A i \in DOMAIN intermediates \ used : Cardinality(used \cup {i}) = Cardinality(used) + 1
<1>1. Len(intermediates) \in Nat /\ DOMAIN intermediates = 1..Len(intermediates)
  BY DEF TypeOK
<1>2. IsFiniteSet(1..Len(intermediates))
  BY <1>1, FS_Interval
<1>3. IsFiniteSet(used)
  BY <1>1, <1>2, FS_Subset DEF TypeOK
<1> QED
  BY <1>3, FS_CardinalityType, FS_AddElement

\* One link: either the call fails with the chain as long as it may be, or the
\* issuer joins the chain and everything known of the chain still holds.
LEMMA LinkKeepsInv ==
  ASSUME TypeOK, LoopInv, Searching,
         NEW issuer \in Certificate, NEW usedAfter,
         issuer \in PoolCertificates, issuer_matches(issuer, tail),
         Link(issuer, usedAfter),
         Cardinality(used) \in Nat, Cardinality(usedAfter) \in Nat,
         Len(chain) <= Cardinality(used) + 1,
         \/ Cardinality(usedAfter) = Cardinality(used) + 1
         \/ /\ Cardinality(usedAfter) = Cardinality(used)
            /\ \E j \in DOMAIN anchors : SameAsAnchor(issuer, anchors[j])
  PROVE  LoopInv' /\ IdleInv' /\ ResultInv'
<1>1. /\ phase = "build" /\ outcome = "pending"
      /\ chain \in Seq(Certificate) /\ Len(chain) \in Nat \ {0}
      /\ MaxDepth \in Nat
  <2>1. phase = "build" /\ chain \in Seq(Certificate) /\ chain # <<>>
    BY DEF Searching, TypeOK
  <2> QED
    BY <2>1, BoundAssumption DEF LoopInv
<1>2. CASE phase' = "done"
  <2>1. /\ outcome' \in Errors
        /\ \/ chain' = chain /\ used' = used
           \/ chain' = Append(chain, issuer) /\ used' = usedAfter
    BY <1>1, <1>2 DEF Link, Return, Errors
  <2>2. Len(Append(chain, issuer)) = Len(chain) + 1
    BY <1>1
  <2>3. Len(chain') <= Cardinality(used') + 2
    BY <1>1, <2>1, <2>2
  <2>4. outcome' # "Ok" /\ outcome' # "pending"
    BY <2>1 DEF Errors
  <2> QED
    BY <1>2, <2>3, <2>4
    DEF LoopInv, IdleInv, ResultInv, ChainIsLinked, EndsAtAnchor, CaOddityIsReported
<1>3. CASE phase' # "done"
  <2>1. /\ phase' = "build" /\ outcome' = "pending"
        /\ chain' = Append(chain, issuer) /\ used' = usedAfter
        /\ diagnostics' = diagnostics \cup ca_diagnostics(issuer)
        /\ validate_link_time(tail, at) /\ validate_link_time(issuer, at)
        /\ validate_issuer_ca_capability(issuer)
        /\ anchors' = anchors /\ intermediates' = intermediates /\ at' = at
    <3>1. ~(phase' = "done")
      BY <1>3
    <3>2. /\ validate_link_time(tail, at) /\ validate_link_time(issuer, at)
          /\ validate_issuer_ca_capability(issuer)
      BY <3>1 DEF Link, Return
    <3> QED
      BY <1>1, <3>1, <3>2 DEF Link, Return, pool
  <2>2. /\ Len(chain') = Len(chain) + 1
        /\ \A i \in 1..Len(chain) : chain'[i] = chain[i]
        /\ chain'[Len(chain) + 1] = issuer
    BY <1>1, <2>1
  <2>3. Len(chain) + 1 <= MaxDepth
    <3>1. ~(Len(chain) + 1 > MaxDepth)
      BY <1>3, <2>1 DEF Link, Return
    <3> QED
      BY <1>1, <3>1
  <2>4. \A i \in 1..(Len(chain') - 1) : ValidLink(chain'[i], chain'[i + 1], at')
    <3>1. ASSUME NEW i \in 1..(Len(chain) - 1) PROVE ValidLink(chain'[i], chain'[i + 1], at)
      <4>1. ValidLink(chain[i], chain[i + 1], at)
        BY <1>1, <3>1 DEF LoopInv
      <4> QED
        BY <1>1, <2>2, <4>1
    <3>2. ValidLink(chain'[Len(chain)], chain'[Len(chain) + 1], at)
      BY <1>1, <2>1, <2>2 DEF ValidLink, tail
    <3> QED
      BY <1>1, <2>1, <2>2, <3>1, <3>2
  <2>5. PoolCertificates' = PoolCertificates
    BY <2>1 DEF PoolCertificates
  <2>6. OddityReported(issuer, diagnostics')
    <3>1. issuer.eku # "absent" => issuer.eku = "present"
      BY <2>1 DEF Certificate, validate_issuer_ca_capability
    <3> QED
      BY <2>1, <3>1 DEF OddityReported, ca_diagnostics
  <2>7. \A i \in 2..Len(chain') :
          chain'[i] \in PoolCertificates' /\ OddityReported(chain'[i], diagnostics')
    <3>1. ASSUME NEW i \in 2..Len(chain)
          PROVE  chain'[i] \in PoolCertificates' /\ OddityReported(chain'[i], diagnostics')
      <4>1. chain[i] \in PoolCertificates /\ OddityReported(chain[i], diagnostics)
        BY <1>1, <3>1 DEF LoopInv
      <4>2. chain'[i] = chain[i]
        BY <1>1, <2>2, <3>1
      <4> QED
        BY <2>1, <2>5, <4>1, <4>2 DEF OddityReported
    <3>2. chain'[Len(chain) + 1] \in PoolCertificates' /\ OddityReported(chain'[Len(chain) + 1], diagnostics')
      BY <2>2, <2>5, <2>6
    <3> QED
      BY <1>1, <2>2, <3>1, <3>2
  <2>8. \/ Len(chain') <= Cardinality(used') + 1
        \/ Len(chain') <= Cardinality(used') + 2 /\ match_anchor(tail)' # {}
    <3>1. CASE Cardinality(usedAfter) = Cardinality(used) + 1
      BY <1>1, <2>1, <2>2, <3>1
    <3>2. CASE /\ Cardinality(usedAfter) = Cardinality(used)
               /\ \E j \in DOMAIN anchors : SameAsAnchor(issuer, anchors[j])
      <4>1. tail' = issuer
        BY <1>1, <2>2 DEF tail
      <4>2. match_anchor(tail)' # {}
        BY <2>1, <3>2, <4>1 DEF match_anchor
      <4> QED
        BY <1>1, <2>1, <2>2, <3>2, <4>2
    <3> QED
      BY <3>1, <3>2
  <2>9. LoopInv'
    BY <2>1, <2>2, <2>3, <2>4, <2>7, <2>8 DEF LoopInv
  <2> QED
    BY <2>1, <2>9
    DEF IdleInv, ResultInv, ChainIsLinked, EndsAtAnchor, CaOddityIsReported
<1> QED
  BY <1>2, <1>3

\* Reaching the anchor: the chain collected so far, its last certificate
\* replaced by the anchor's own, is worth what ResultInv says.
LEMMA ReachAnchorKeepsInv ==
  ASSUME TypeOK, LoopInv, ReachAnchor
  PROVE  LoopInv' /\ IdleInv' /\ ResultInv'
<1> DEFINE n == Len(chain)
           top == anchors[First(match_anchor(tail))]
<1>1. /\ phase = "build" /\ outcome = "pending"
      /\ chain \in Seq(Certificate) /\ n \in Nat \ {0}
      /\ MaxDepth \in Nat
  <2>1. phase = "build" /\ chain \in Seq(Certificate) /\ chain # <<>>
    BY DEF ReachAnchor, TypeOK
  <2> QED
    BY <2>1, BoundAssumption DEF LoopInv
<1>2. /\ top \in Certificate /\ SameAsAnchor(tail, top)
      /\ First(match_anchor(tail)) \in DOMAIN anchors
  BY CandidatesArePool DEF ReachAnchor
<1>3. /\ phase' = "done" /\ outcome' \in {"Ok", "Validity"}
      /\ anchors' = anchors /\ intermediates' = intermediates
      /\ at' = at /\ used' = used /\ diagnostics' = diagnostics
  BY DEF ReachAnchor, Return, pool
<1>4. n <= Cardinality(used) + 2 /\ n <= MaxDepth
  <2>1. Cardinality(used) \in Nat
    BY UsedIsFinite
  <2> QED
    BY <1>1, <2>1 DEF LoopInv
<1>5. CASE outcome' = "Validity"
  <2>1. chain' = chain
    BY <1>5 DEF ReachAnchor, Return
  <2> QED
    BY <1>3, <1>4, <1>5, <2>1
    DEF LoopInv, IdleInv, ResultInv, ChainIsLinked, EndsAtAnchor, CaOddityIsReported
<1>6. CASE outcome' = "Ok"
  <2>1. chain' = [chain EXCEPT ![n] = top] /\ validate_link_time(tail, at)
    BY <1>6 DEF ReachAnchor, Return
  <2> HIDE DEF top
  <2>2. /\ Len(chain') = n /\ chain'[n] = top
        /\ \A i \in 1..(n - 1) : chain'[i] = chain[i]
    BY <1>1, <1>2, <2>1, ExceptSeq
  <2>3. \A i \in 1..(n - 1) : ValidLink(chain[i], chain[i + 1], at)
    BY <1>1 DEF LoopInv
  <2>4. ChainIsLinked'
    <3>1. ASSUME NEW i \in 1..(n - 2) PROVE ValidLink(chain'[i], chain'[i + 1], at)
      <4>1. i \in 1..(n - 1) /\ i + 1 \in 1..(n - 1)
        BY <1>1, <3>1
      <4> QED
        BY <2>2, <2>3, <4>1
    <3>2. ASSUME NEW i \in 1..(n - 1)
          PROVE  chain'[i].issuer = chain'[i + 1].subject /\ validate_link_time(chain'[i], at)
      <4>1. chain[i].issuer = chain[i + 1].subject /\ validate_link_time(chain[i], at)
        BY <2>3, <3>2 DEF ValidLink, issuer_matches
      <4>2. chain'[i + 1].subject = chain[i + 1].subject
        <5>1. CASE i = n - 1
          BY <1>1, <1>2, <2>2, <5>1 DEF SameAsAnchor, tail
        <5>2. CASE i # n - 1
          BY <1>1, <2>2, <3>2, <5>2
        <5> QED
          BY <5>1, <5>2
      <4> QED
        BY <2>2, <3>2, <4>1, <4>2
    <3> QED
      BY <1>3, <2>2, <3>1, <3>2 DEF ChainIsLinked
  <2>5. EndsAtAnchor'
    <3>1. ASSUME n > 1
          PROVE  /\ tail \in PoolCertificates /\ SameAsAnchor(tail, top)
                 /\ ValidLink(chain'[n - 1], tail, at)
      <4>1. tail \in PoolCertificates
        BY <1>1, <3>1 DEF LoopInv, tail
      <4>2. ValidLink(chain[n - 1], chain[n], at) /\ chain'[n - 1] = chain[n - 1]
        BY <1>1, <2>2, <2>3, <3>1
      <4> QED
        BY <1>2, <4>1, <4>2 DEF tail
    <3>2. \E i \in DOMAIN anchors : chain'[n] = anchors[i]
      BY <1>2, <2>2 DEF top
    <3> QED
      BY <1>3, <2>2, <3>1, <3>2 DEF EndsAtAnchor, PoolCertificates
  <2>6. CaOddityIsReported'
    <3>1. ASSUME NEW i \in 2..(n - 1) PROVE OddityReported(chain'[i], diagnostics')
      <4>1. i \in 2..n /\ i \in 1..(n - 1)
        BY <1>1, <3>1
      <4> QED
        BY <1>1, <1>3, <2>2, <4>1 DEF LoopInv
    <3> QED
      BY <2>2, <3>1 DEF CaOddityIsReported, OddityReported
  <2> QED
    BY <1>3, <1>4, <2>2, <2>4, <2>5, <2>6 DEF LoopInv, IdleInv, ResultInv
<1> QED
  BY <1>3, <1>5, <1>6

\* Every call and every iteration keeps the invariant.
LEMMA StepKeepsInv ==
  ASSUME IInv, [Next]_vars
  PROVE  IInv'
<1> USE DEF IInv
<1>1. TypeOK'
  BY StepTypeOK
<1> SUFFICES LoopInv' /\ IdleInv' /\ ResultInv'
  BY <1>1
<1>2. ASSUME NEW c \in AnchorPool, push_anchor(c) PROVE LoopInv' /\ IdleInv' /\ ResultInv'
  BY <1>2
  DEF push_anchor, Locals, LoopInv, IdleInv, ResultInv, ChainIsLinked, EndsAtAnchor, CaOddityIsReported
<1>3. ASSUME NEW c \in IntermediatePool, push_intermediate(c)
      PROVE  LoopInv' /\ IdleInv' /\ ResultInv'
  BY <1>3
  DEF push_intermediate, Locals, LoopInv, IdleInv, ResultInv, ChainIsLinked, EndsAtAnchor, CaOddityIsReported
<1>4. ASSUME NEW c \in SignerPool, NEW t \in EvaluationTime, build(c, t)
      PROVE  LoopInv' /\ IdleInv' /\ ResultInv'
  <2>1. /\ chain' = <<c>> /\ Len(chain') = 1 /\ used' = {} /\ outcome' \in {"NoAnchors", "pending"}
        /\ (phase' = "build" /\ outcome' = "pending") \/ phase' = "done"
        /\ Cardinality(used') = 0
    BY <1>4, FS_EmptySet DEF build, Return
  <2>2. MaxDepth \in Nat \ {0}
    BY BoundAssumption
  <2> QED
    BY <2>1, <2>2
    DEF LoopInv, IdleInv, ResultInv, ChainIsLinked, EndsAtAnchor, CaOddityIsReported
<1>5. CASE ReachAnchor
  BY <1>5, ReachAnchorKeepsInv
<1>6. CASE ExtendByIntermediate
  <2> DEFINE i == First(FreeIssuers)
  <2>1. /\ i \in DOMAIN intermediates \ used /\ intermediates[i] \in Certificate
        /\ issuer_matches(intermediates[i], tail)
    BY <1>6, CandidatesArePool DEF ExtendByIntermediate
  <2>2. intermediates[i] \in PoolCertificates
    BY <2>1 DEF PoolCertificates, Range
  <2>3. /\ Cardinality(used) \in Nat /\ Cardinality(used \cup {i}) = Cardinality(used) + 1
    BY <2>1, UsedIsFinite
  <2>4. Len(chain) <= Cardinality(used) + 1
    BY <1>6 DEF ExtendByIntermediate, Searching, LoopInv
  <2>5. Searching /\ Link(intermediates[i], used \cup {i})
    BY <1>6 DEF ExtendByIntermediate
  <2> HIDE DEF i
  <2>6. Cardinality(used \cup {i}) \in Nat
    BY <2>3
  <2> QED
    BY <2>1, <2>2, <2>3, <2>4, <2>5, <2>6, LinkKeepsInv
<1>7. CASE ExtendByAnchor
  <2> DEFINE i == First(AnchorIssuers)
  <2>1. /\ i \in DOMAIN anchors /\ anchors[i] \in Certificate /\ issuer_matches(anchors[i], tail)
    BY <1>7, CandidatesArePool DEF ExtendByAnchor
  <2>2. anchors[i] \in PoolCertificates /\ SameAsAnchor(anchors[i], anchors[i])
    BY <2>1 DEF PoolCertificates, Range, SameAsAnchor
  <2>3. Cardinality(used) \in Nat
    BY UsedIsFinite
  <2>4. Len(chain) <= Cardinality(used) + 1
    BY <1>7 DEF ExtendByAnchor, Searching, LoopInv
  <2>5. Searching /\ Link(anchors[i], used)
    BY <1>7 DEF ExtendByAnchor
  <2> HIDE DEF i
  <2> QED
    BY <2>1, <2>2, <2>3, <2>4, <2>5, LinkKeepsInv
<1>8. CASE NoIssuer
  <2>1. /\ phase' = "done" /\ outcome' = "NoIssuer" /\ chain' = chain /\ used' = used
        /\ phase = "build"
    BY <1>8 DEF NoIssuer, Searching, Return
  <2>2. Cardinality(used) \in Nat /\ Len(chain) \in Nat
    BY UsedIsFinite DEF TypeOK
  <2>3. Len(chain) <= Cardinality(used) + 2
    BY <2>1, <2>2 DEF LoopInv
  <2> QED
    BY <2>1, <2>3
    DEF LoopInv, IdleInv, ResultInv, ChainIsLinked, EndsAtAnchor, CaOddityIsReported
<1>9. CASE DropResult
  BY <1>9
  DEF DropResult, LoopInv, IdleInv, ResultInv, ChainIsLinked, EndsAtAnchor, CaOddityIsReported
<1>10. CASE UNCHANGED vars
  BY <1>10
  DEF vars, LoopInv, IdleInv, ResultInv, ChainIsLinked, EndsAtAnchor, CaOddityIsReported,
      ValidLink, PoolCertificates, match_anchor, tail
<1> QED
  BY <1>2, <1>3, <1>4, <1>5, <1>6, <1>7, <1>8, <1>9, <1>10 DEF Next, Iterate

\* The invariant holds throughout.
LEMMA InvHolds == Spec => []IInv
<1>1. Init => IInv
  <2>1. ASSUME Init PROVE TypeOK
    BY <2>1 DEF Init, TypeOK
  <2> QED
    BY <2>1
    DEF Init, IInv, LoopInv, IdleInv, ResultInv, ChainIsLinked, EndsAtAnchor, CaOddityIsReported
<1> QED
  BY <1>1, StepKeepsInv, PTL DEF Spec

\* Every chain `build` returns is linked: names and key identifiers agree, the
\* upper certificate of each pair below the anchor may issue, and every
\* certificate below the anchor covers the evaluation time.
THEOREM ReturnedChainIsLinked == Spec => []ChainIsLinked
<1>1. IInv => ChainIsLinked
  BY DEF IInv, ResultInv
<1> QED
  BY <1>1, InvHolds, PTL

\* Every chain `build` returns ends at a configured anchor that was checked
\* for its child by way of a certificate with the anchor's name and key.
THEOREM ReturnedChainEndsAtAnchor == Spec => []EndsAtAnchor
<1>1. IInv => EndsAtAnchor
  BY DEF IInv, ResultInv
<1> QED
  BY <1>1, InvHolds, PTL

\* The walk never outgrows the intermediates it has spent, and no chain longer
\* than the limit is returned: the loop of `build` is bounded by the pool.
THEOREM ChainLengthIsBounded == Spec => []WalkIsBounded
<1>1. ASSUME IInv PROVE WalkIsBounded
  <2>1. Cardinality(used) \in Nat /\ Len(chain) \in Nat /\ phase \in {"configure", "build", "done"}
    BY <1>1, UsedIsFinite DEF IInv, TypeOK
  <2>2. Len(chain) <= Cardinality(used) + 2
    BY <1>1, <2>1 DEF IInv, LoopInv, IdleInv
  <2> QED
    BY <1>1, <2>2 DEF IInv, ResultInv, WalkIsBounded
<1>2. IInv => WalkIsBounded
  BY <1>1
<1> QED
  BY <1>2, InvHolds, PTL

LEMMA TurnAdvances ==
  ASSUME TypeOK, LoopInv, Iterate
  PROVE  \/ phase' = "done"
         \/ phase' = "build" /\ Len(chain') = Len(chain) + 1 /\ Len(chain') <= MaxDepth
<1>1. phase = "build" /\ chain \in Seq(Certificate) /\ MaxDepth \in Nat
  BY BoundAssumption
  DEF TypeOK, Iterate, ReachAnchor, ExtendByIntermediate, ExtendByAnchor, NoIssuer, Searching
<1>2. ASSUME NEW issuer, NEW usedAfter, Link(issuer, usedAfter), phase' # "done"
      PROVE  phase' = "build" /\ Len(chain') = Len(chain) + 1 /\ Len(chain') <= MaxDepth
  <2>1. phase' = phase /\ chain' = Append(chain, issuer) /\ ~(Len(chain) + 1 > MaxDepth)
    BY <1>2 DEF Link, Return
  <2>2. Len(chain') = Len(chain) + 1 /\ Len(chain) \in Nat
    BY <1>1, <2>1
  <2> QED
    BY <1>1, <2>1, <2>2
<1>3. CASE ReachAnchor \/ NoIssuer
  BY <1>3 DEF ReachAnchor, NoIssuer, Return
<1>4. CASE ExtendByIntermediate \/ ExtendByAnchor
  BY <1>2, <1>4 DEF ExtendByIntermediate, ExtendByAnchor
<1> QED
  BY <1>3, <1>4 DEF Iterate

\* However the pool's certificates name each other, each turn of the loop
\* brings its end nearer.
THEOREM EveryTurnCounts == Spec => LoopAdvances
<1>1. IInv => (Iterate => \/ phase' = "done"
                          \/ /\ phase' = "build"
                             /\ Len(chain') = Len(chain) + 1 /\ Len(chain') <= MaxDepth)
  BY TurnAdvances DEF IInv
<1> QED
  BY <1>1, InvHolds, PTL DEF LoopAdvances

\* No CA below the anchor with a missing key usage or an extended key usage
\* gets into a returned chain without the diagnostic that says so.
THEOREM OddCasAreReported == Spec => []CaOddityIsReported
<1>1. IInv => CaOddityIsReported
  BY DEF IInv, ResultInv
<1> QED
  BY <1>1, InvHolds, PTL

----------------------------------------------------------------------------
(* The first candidate is enough where there is no second.                 *)

\* In the loop only the last certificate can be an anchor's, and what is
\* marked used is in the chain: nothing else keeps an intermediate from being
\* a candidate.  Of a chain returned the certificates between its ends are
\* intermediates.
SearchInv ==
  /\ phase = "build" =>
       /\ \A i \in 1..(Len(chain) - 1) : match_anchor(chain[i]) = {}
       /\ \A j \in used : \E i \in 2..Len(chain) : chain[i] = intermediates[j]
  /\ outcome = "Ok" => \A i \in 2..(Len(chain) - 1) : chain[i] \in Range(intermediates)

\* A path that visits no certificate twice.
IsSimplePath(p, signer) ==
  /\ p \in Seq(PoolCertificates \cup {signer}) /\ Len(p) \in 1..MaxDepth
  /\ p[1] = signer /\ \A i \in 2..Len(p) : p[i] \in PoolCertificates
  /\ IsPath(p, Range(anchors), at)
  /\ \A i, j \in 1..Len(p) : i < j => p[i] # p[j]

\* A signer put before a function on 1..n, position by position.
LEMMA PathShape ==
  ASSUME NEW S, NEW signer, NEW n \in Nat, NEW rest \in [1..n -> S]
  PROVE  /\ <<signer>> \o rest \in Seq(S \cup {signer})
         /\ Len(<<signer>> \o rest) = n + 1
         /\ (<<signer>> \o rest)[1] = signer
         /\ \A i \in 2..(n + 1) : (<<signer>> \o rest)[i] = rest[i - 1]
<1>1. rest \in Seq(S \cup {signer}) /\ Len(rest) = n /\ <<signer>> \in Seq(S \cup {signer})
  <2>1. rest \in Seq(S) /\ Len(rest) = n
    BY SeqDef, LenProperties
  <2> QED
    BY <2>1
<1>2. /\ Len(<<signer>> \o rest) = 1 + n
      /\ \A i \in 1..(1 + n) : (<<signer>> \o rest)[i] = IF i <= 1 THEN <<signer>>[i] ELSE rest[i - 1]
  BY <1>1, ConcatProperties
<1>3. <<signer>> \o rest \in Seq(S \cup {signer})
  BY <1>1
<1>4. (<<signer>> \o rest)[1] = signer
  BY <1>2
<1>5. ASSUME NEW i \in 2..(n + 1) PROVE (<<signer>> \o rest)[i] = rest[i - 1]
  <2>1. i \in 1..(1 + n) /\ ~(i <= 1)
    OBVIOUS
  <2> QED
    BY <1>2, <2>1
<1> QED
  BY <1>2, <1>3, <1>4, <1>5

\* Where there is a path there is a simple one: the shortest, as a piece
\* between two visits of one certificate could be left out.
LEMMA SimplePathExists ==
  ASSUME NEW signer, PathExists(signer)
  PROVE  \E p : IsSimplePath(p, signer)
<1> DEFINE Pool == PoolCertificates
           Trust == Range(anchors)
           Path(n, rest) == IsPath(<<signer>> \o rest, Trust, at)
           Lengths == {n \in 0..(MaxDepth - 1) : \E rest \in [1..n -> Pool] : Path(n, rest)}
<1>1. MaxDepth \in Nat \ {0}
  BY BoundAssumption
<1>2. Lengths \subseteq Nat /\ Lengths # {}
  <2>1. \E n \in 0..(MaxDepth - 1) : \E rest \in [1..n -> Pool] : Path(n, rest)
    BY DEF PathExists, PathWithin
  <2> HIDE DEF Path, Pool
  <2> QED
    BY <2>1
<1>3. PICK n \in Lengths : \A l \in Lengths : n <= l
  <2> HIDE DEF Lengths
  <2> QED
    BY <1>2, FirstIsMember
<1>4. PICK rest \in [1..n -> Pool] : Path(n, rest)
  BY <1>3
<1> DEFINE p == <<signer>> \o rest
<1>5. /\ n \in 0..(MaxDepth - 1)
      /\ p \in Seq(Pool \cup {signer}) /\ Len(p) = n + 1 /\ p[1] = signer
      /\ \A i \in 2..(n + 1) : p[i] = rest[i - 1]
  <2>1. n \in 0..(MaxDepth - 1) /\ n \in Nat
    BY <1>1, <1>3
  <2> HIDE DEF Pool
  <2> QED
    BY <2>1, PathShape
<1>6. \A i \in 2..(n + 1) : p[i] \in Pool
  <2> HIDE DEF p, Pool
  <2>1. \A i \in 2..(n + 1) : i - 1 \in 1..n
    BY <1>5
  <2> QED
    BY <1>5, <2>1
<1> HIDE DEF p
<1>7. IsPath(p, Trust, at)
  BY <1>4 DEF p
<1>8. ASSUME NEW i \in 1..(n + 1), NEW j \in 1..(n + 1), i < j, p[i] = p[j]
      PROVE  FALSE
  <2> DEFINE d == j - i
             short == [k \in 1..(n - d) |-> IF k + 1 <= i THEN p[k + 1] ELSE p[k + 1 + d]]
             q == <<signer>> \o short
  <2>1. n \in Nat /\ d \in 1..n /\ n - d \in Nat /\ i \in Nat /\ i <= n - d + 1 /\ j = i + d
    BY <1>5, <1>8
  <2> HIDE DEF d
  <2>2. short \in [1..(n - d) -> Pool]
    <3>1. ASSUME NEW k \in 1..(n - d) PROVE k + 1 \in 2..(n + 1) /\ k + 1 + d \in 2..(n + 1)
      BY <2>1
    <3> HIDE DEF Pool
    <3> QED
      BY <1>6, <3>1
  <2>3. /\ Len(q) = n - d + 1 /\ q[1] = signer
        /\ \A k \in 2..(n - d + 1) : q[k] = short[k - 1]
    <3> HIDE DEF short, Pool
    <3> QED
      BY <2>1, <2>2, PathShape
  <2>4. ASSUME NEW k \in 1..(n - d + 1) PROVE q[k] = IF k <= i THEN p[k] ELSE p[k + d]
    <3>1. CASE k = 1
      BY <1>5, <2>1, <2>3, <3>1
    <3>2. CASE k \in 2..(n - d + 1)
      <4>1. k - 1 \in 1..(n - d) /\ (k - 1) + 1 = k
        BY <2>1, <3>2
      <4>2. short[k - 1] = IF k <= i THEN p[k] ELSE p[k + d]
        BY <4>1
      <4> HIDE DEF q, short
      <4> QED
        BY <2>3, <3>2, <4>2
    <3> QED
      BY <2>1, <3>1, <3>2
  <2> HIDE DEF q, short
  <2>5. ASSUME NEW k \in 1..(n - d) PROVE ValidLink(q[k], q[k + 1], at)
    <3>0. /\ k \in 1..(n - d + 1) /\ k + 1 \in 1..(n - d + 1)
          /\ k \in 1..n /\ k + d \in 1..n /\ (k + 1) + d = (k + d) + 1 /\ k \in Int
      BY <2>1
    <3>1. ValidLink(p[k], p[k + 1], at) /\ ValidLink(p[k + d], p[(k + d) + 1], at)
      <4>1. \A l \in 1..n : ValidLink(p[l], p[l + 1], at)
        <5>1. \A l \in 1..(Len(p) - 1) : ValidLink(p[l], p[l + 1], at)
          BY <1>7 DEF IsPath
        <5>2. Len(p) - 1 = n
          BY <1>5, <2>1
        <5> QED
          BY <5>1, <5>2
      <4> QED
        BY <3>0, <4>1
    <3>2. CASE k + 1 <= i
      <4>1. q[k] = p[k] /\ q[k + 1] = p[k + 1]
        BY <2>1, <2>4, <3>0, <3>2
      <4> QED
        BY <3>1, <4>1
    <3>3. CASE k = i
      <4>1. q[k] = p[k + d] /\ q[k + 1] = p[(k + d) + 1]
        BY <1>8, <2>1, <2>4, <3>0, <3>3
      <4> QED
        BY <3>1, <4>1
    <3>4. CASE k > i
      <4>0. ~(k <= i) /\ ~(k + 1 <= i)
        BY <2>1, <3>0, <3>4
      <4>1. q[k] = p[k + d] /\ q[k + 1] = p[(k + 1) + d]
        BY <2>4, <3>0, <4>0
      <4> QED
        BY <3>0, <3>1, <4>1
    <3> QED
      BY <2>1, <3>0, <3>2, <3>3, <3>4
  <2>6. q[n - d + 1] = p[n + 1]
    <3>1. n - d + 1 \in 1..(n - d + 1) /\ (n - d + 1) + d = n + 1
      BY <2>1
    <3>2. CASE n - d + 1 = i
      BY <1>8, <2>1, <2>4, <3>1, <3>2
    <3>3. CASE n - d + 1 # i
      <4>1. ~(n - d + 1 <= i)
        BY <2>1, <3>3
      <4> QED
        BY <2>4, <3>1, <4>1
    <3> QED
      BY <3>2, <3>3
  <2>7. IsPath(q, Trust, at)
    <3>1. Len(q) = n - d + 1 /\ (n - d + 1) - 1 = n - d /\ Len(p) = n + 1
      BY <1>5, <2>1, <2>3
    <3>2. validate_link_time(p[n + 1], at) /\ \E anchor \in Trust : SameAsAnchor(p[n + 1], anchor)
      BY <1>7, <3>1 DEF IsPath
    <3>3. /\ \A k \in 1..(Len(q) - 1) : ValidLink(q[k], q[k + 1], at)
          /\ q[Len(q)] = p[n + 1]
      BY <2>5, <2>6, <3>1
    <3> HIDE DEF Trust
    <3> QED
      BY <3>2, <3>3 DEF IsPath
  <2>8. n - d \in Lengths
    <3>1. Path(n - d, short)
      BY <2>7 DEF q
    <3>2. n - d \in 0..(MaxDepth - 1)
      BY <1>1, <1>5, <2>1
    <3> HIDE DEF Path, Pool
    <3> QED
      BY <2>2, <3>1, <3>2
  <2>9. n <= n - d
    BY <1>3, <2>8
  <2> QED
    BY <2>1, <2>9
<1>9. IsSimplePath(p, signer)
  BY <1>1, <1>5, <1>6, <1>7, <1>8 DEF IsSimplePath
<1> QED
  BY <1>9

\* Without ambiguity the loop can only follow the path, and has not passed its
\* end.
LEMMA WalkFollowsPath ==
  ASSUME TypeOK, LoopInv, SearchInv, phase = "build", Unambiguous(chain[1]),
         NEW p, IsSimplePath(p, chain[1])
  PROVE  Len(chain) <= Len(p) /\ \A i \in 1..Len(chain) : chain[i] = p[i]
<1>1. /\ Len(chain) \in Nat \ {0} /\ Len(p) \in Nat \ {0} /\ p[1] = chain[1]
      /\ \A i \in 2..Len(chain) : chain[i] \in PoolCertificates
      /\ \A i \in 2..Len(p) : p[i] \in PoolCertificates
  BY BoundAssumption DEF TypeOK, LoopInv, IsSimplePath
<1>2. /\ \A i \in 1..(Len(chain) - 1) : issuer_matches(chain[i + 1], chain[i])
      /\ \A i \in 1..(Len(p) - 1) : issuer_matches(p[i + 1], p[i])
      /\ match_anchor(p[Len(p)]) # {}
  <2>1. \A i \in 1..(Len(chain) - 1) : issuer_matches(chain[i + 1], chain[i])
    BY DEF LoopInv, ValidLink
  <2>2. \A i \in 1..(Len(p) - 1) : issuer_matches(p[i + 1], p[i])
    BY DEF IsSimplePath, IsPath, ValidLink
  <2>3. \E anchor \in Range(anchors) : SameAsAnchor(p[Len(p)], anchor)
    BY DEF IsSimplePath, IsPath
  <2> QED
    BY <2>1, <2>2, <2>3 DEF match_anchor, Range
<1> DEFINE Astray == {i \in 1..Len(chain) : i > Len(p) \/ chain[i] # p[i]}
<1>3. ASSUME Astray # {} PROVE FALSE
  <2>1. PICK i \in Astray : \A j \in Astray : i <= j
    <3>1. Astray \subseteq Nat
      OBVIOUS
    <3> HIDE DEF Astray
    <3> QED
      BY <1>3, <3>1, FirstIsMember
  <2>2. i \in 2..Len(chain)
    BY <1>1, <2>1
  <2>3. i - 1 \in 1..(Len(chain) - 1) /\ i - 1 \in 1..Len(chain) /\ (i - 1) + 1 = i
    BY <1>1, <2>2
  <2>4. i - 1 <= Len(p) /\ chain[i - 1] = p[i - 1]
    <3>1. i - 1 \notin Astray
      BY <1>1, <2>1, <2>2
    <3> QED
      BY <1>1, <2>3, <3>1
  <2>5. match_anchor(chain[i - 1]) = {}
    BY <2>3 DEF SearchInv
  <2>6. i - 1 # Len(p)
    BY <1>2, <2>4, <2>5
  <2>7. i \in 2..Len(p) /\ i - 1 \in 1..(Len(p) - 1)
    BY <1>1, <2>2, <2>3, <2>4, <2>6
  <2>8. issuer_matches(chain[i], chain[i - 1]) /\ issuer_matches(p[i], chain[i - 1])
    BY <1>2, <2>3, <2>4, <2>7
  <2>9. chain[i - 1] \in PoolCertificates \cup {chain[1]}
    <3>1. i - 1 = 1 \/ i - 1 \in 2..Len(chain)
      BY <1>1, <2>3
    <3> QED
      BY <1>1, <3>1
  <2>10. chain[i] = p[i]
    BY <1>1, <2>2, <2>7, <2>8, <2>9 DEF Unambiguous, UnambiguousWithin
  <2> QED
    BY <1>1, <2>1, <2>7, <2>10
<1>4. \A i \in 1..Len(chain) : i <= Len(p) /\ chain[i] = p[i]
  BY <1>1, <1>3
<1> QED
  BY <1>1, <1>4

\* On the path the loop cannot fail: the next certificate of the path is the
\* candidate it finds, and the link to it is valid.
LEMMA PathIsNotMissed ==
  ASSUME TypeOK, LoopInv, SearchInv, Iterate, outcome' \in Errors,
         Unambiguous(chain[1]), NEW p, IsSimplePath(p, chain[1])
  PROVE  FALSE
<1> DEFINE n == Len(chain)
<1>1. phase = "build"
  BY DEF Iterate, ReachAnchor, ExtendByIntermediate, ExtendByAnchor, NoIssuer, Searching
<1>2. n <= Len(p) /\ \A i \in 1..n : chain[i] = p[i]
  BY <1>1, WalkFollowsPath
<1>3. /\ n \in Nat \ {0} /\ Len(p) \in Nat \ {0} /\ Len(p) <= MaxDepth /\ MaxDepth \in Nat
      /\ \A i \in 2..Len(p) : p[i] \in PoolCertificates
      /\ \A i, j \in 1..Len(p) : i < j => p[i] # p[j]
  BY <1>1, BoundAssumption DEF TypeOK, IsSimplePath
<1>4. /\ \A i \in 1..(Len(p) - 1) : ValidLink(p[i], p[i + 1], at)
      /\ validate_link_time(p[Len(p)], at) /\ match_anchor(p[Len(p)]) # {}
  <2>1. IsPath(p, Range(anchors), at)
    BY DEF IsSimplePath
  <2>2. match_anchor(p[Len(p)]) # {}
    BY <2>1 DEF IsPath, match_anchor, Range
  <2> QED
    BY <2>1, <2>2 DEF IsPath
<1>5. tail = p[n] /\ validate_link_time(tail, at)
  <2>1. tail = p[n]
    BY <1>2, <1>3 DEF tail
  <2>2. CASE n = Len(p)
    BY <1>4, <2>1, <2>2
  <2>3. CASE n # Len(p)
    <3>1. n \in 1..(Len(p) - 1)
      BY <1>2, <1>3, <2>3
    <3> QED
      BY <1>4, <2>1, <3>1 DEF ValidLink
  <2> QED
    BY <2>1, <2>2, <2>3
<1>6. ~ReachAnchor
  BY <1>5 DEF ReachAnchor, Return, Errors
<1>7. /\ Searching /\ n + 1 <= Len(p) /\ p[n + 1] \in PoolCertificates
      /\ ValidLink(tail, p[n + 1], at)
  <2>1. Searching
    BY <1>6 DEF Iterate, ExtendByIntermediate, ExtendByAnchor, NoIssuer
  <2>2. n # Len(p)
    BY <1>4, <1>5, <2>1 DEF Searching
  <2>3. n \in 1..(Len(p) - 1) /\ n + 1 \in 2..Len(p)
    BY <1>2, <1>3, <2>2
  <2> QED
    BY <1>3, <1>4, <1>5, <2>1, <2>3
<1>8. tail \in PoolCertificates \cup {chain[1]}
  <2>1. CASE n = 1
    BY <2>1 DEF tail
  <2>2. CASE n # 1
    <3>1. n \in 2..n
      BY <1>3, <2>2
    <3> QED
      BY <1>1, <3>1 DEF tail, LoopInv
  <2> QED
    BY <2>1, <2>2
<1>9. ASSUME NEW issuer \in PoolCertificates, issuer_matches(issuer, tail), NEW usedAfter
      PROVE  ~Link(issuer, usedAfter)
  <2>1. issuer = p[n + 1]
    BY <1>7, <1>8, <1>9 DEF Unambiguous, UnambiguousWithin, ValidLink
  <2>2. /\ validate_link_time(tail, at) /\ validate_link_time(issuer, at)
        /\ validate_issuer_ca_capability(issuer)
    BY <1>7, <2>1 DEF ValidLink
  <2>3. ~(n + 1 > MaxDepth)
    BY <1>3, <1>7
  <2>4. outcome = "pending"
    BY <1>1 DEF LoopInv
  <2> QED
    BY <2>2, <2>3, <2>4 DEF Link, Errors
<1>10. ~ExtendByIntermediate
  <2>1. ASSUME ExtendByIntermediate PROVE FALSE
    <3>1. /\ First(FreeIssuers) \in DOMAIN intermediates
          /\ issuer_matches(intermediates[First(FreeIssuers)], tail)
      BY <2>1, CandidatesArePool DEF ExtendByIntermediate
    <3>2. intermediates[First(FreeIssuers)] \in PoolCertificates
      BY <3>1 DEF PoolCertificates, Range
    <3> QED
      BY <1>9, <2>1, <3>1, <3>2 DEF ExtendByIntermediate
  <2> QED
    BY <2>1
<1>11. ~ExtendByAnchor
  <2>1. ASSUME ExtendByAnchor PROVE FALSE
    <3>1. /\ First(AnchorIssuers) \in DOMAIN anchors
          /\ issuer_matches(anchors[First(AnchorIssuers)], tail)
      BY <2>1, CandidatesArePool DEF ExtendByAnchor
    <3>2. anchors[First(AnchorIssuers)] \in PoolCertificates
      BY <3>1 DEF PoolCertificates, Range
    <3> QED
      BY <1>9, <2>1, <3>1, <3>2 DEF ExtendByAnchor
  <2> QED
    BY <2>1
<1>12. ~NoIssuer
  <2>1. ASSUME NoIssuer PROVE FALSE
    <3>1. FreeIssuers = {} /\ AnchorIssuers = {}
      BY <2>1 DEF NoIssuer
    <3>2. issuer_matches(p[n + 1], tail)
      BY <1>7 DEF ValidLink
    <3>3. p[n + 1] \notin Range(anchors)
      BY <3>1, <3>2 DEF AnchorIssuers, Range
    <3>4. PICK j \in DOMAIN intermediates : intermediates[j] = p[n + 1]
      BY <1>7, <3>3 DEF PoolCertificates, Range
    <3>5. j \in used
      BY <3>1, <3>2, <3>4 DEF FreeIssuers
    <3>6. PICK i \in 2..n : chain[i] = intermediates[j]
      BY <1>1, <3>5 DEF SearchInv
    <3>7. i \in 1..n /\ i \in 1..Len(p) /\ n + 1 \in 1..Len(p) /\ i < n + 1
      BY <1>3, <1>7, <3>6
    <3>8. p[i] = p[n + 1]
      BY <1>2, <3>4, <3>6, <3>7
    <3> QED
      BY <1>3, <3>7, <3>8
  <2> QED
    BY <2>1
<1> QED
  BY <1>6, <1>10, <1>11, <1>12 DEF Iterate

\* One link of the loop leaves the chain below as it is.
LEMMA LinkKeepsSearch ==
  ASSUME TypeOK, LoopInv, SearchInv, Searching,
         NEW issuer, NEW usedAfter, Link(issuer, usedAfter),
         \A j \in usedAfter : j \in used \/ intermediates[j] = issuer
  PROVE  SearchInv' /\ chain'[1] = chain[1] /\ UNCHANGED <<anchors, intermediates, at>>
<1>1. /\ phase = "build" /\ outcome = "pending" /\ match_anchor(tail) = {}
      /\ chain \in Seq(Certificate) /\ Len(chain) \in Nat \ {0}
  BY DEF Searching, LoopInv, TypeOK
<1>2. UNCHANGED <<anchors, intermediates, at>> /\ outcome' # "Ok"
  BY <1>1 DEF Link, Return, pool
<1>3. CASE chain' = chain
  <2>1. phase' = "done"
    <3>1. Append(chain, issuer) # chain
      <4>1. Len(Append(chain, issuer)) = Len(chain) + 1
        BY <1>1
      <4> QED
        BY <1>1, <4>1
    <3> QED
      BY <1>3, <3>1 DEF Link, Return
  <2> QED
    BY <1>2, <1>3, <2>1 DEF SearchInv
<1>4. CASE chain' # chain
  <2>1. chain' = Append(chain, issuer) /\ used' = usedAfter
    BY <1>4 DEF Link
  <2>2. /\ Len(chain') = Len(chain) + 1
        /\ \A i \in 1..Len(chain) : chain'[i] = chain[i]
        /\ chain'[Len(chain) + 1] = issuer
    BY <1>1, <2>1
  <2>3. (\A i \in 1..(Len(chain) - 1) : match_anchor(chain[i]) = {})'
    <3> SUFFICES ASSUME NEW i \in 1..Len(chain) PROVE match_anchor(chain[i]) = {}
      <4>1. 1..(Len(chain') - 1) = 1..Len(chain)
        BY <1>1, <2>2
      <4>2. \A i \in 1..Len(chain) : (match_anchor(chain[i]))' = match_anchor(chain[i])
        BY <1>2, <2>2 DEF match_anchor
      <4> QED
        BY <4>1, <4>2
    <3>1. CASE i = Len(chain)
      BY <1>1, <3>1 DEF tail
    <3>2. CASE i # Len(chain)
      <4>1. i \in 1..(Len(chain) - 1)
        BY <1>1, <3>2
      <4> QED
        BY <1>1, <4>1 DEF SearchInv
    <3> QED
      BY <3>1, <3>2
  <2>4. (\A j \in used : \E i \in 2..Len(chain) : chain[i] = intermediates[j])'
    <3> SUFFICES ASSUME NEW j \in usedAfter
                 PROVE  \E i \in 2..Len(chain') : chain'[i] = intermediates[j]
      BY <1>2, <2>1
    <3>1. CASE j \in used
      <4>1. PICK i \in 2..Len(chain) : chain[i] = intermediates[j]
        BY <1>1, <3>1 DEF SearchInv
      <4>2. i \in 2..Len(chain') /\ i \in 1..Len(chain)
        BY <1>1, <2>2
      <4> QED
        BY <2>2, <4>1, <4>2
    <3>2. CASE intermediates[j] = issuer
      <4>1. Len(chain) + 1 \in 2..Len(chain')
        BY <1>1, <2>2
      <4> QED
        BY <2>2, <3>2, <4>1
    <3> QED
      BY <3>1, <3>2
  <2>5. chain'[1] = chain[1]
    BY <1>1, <2>2
  <2> QED
    BY <1>2, <2>3, <2>4, <2>5 DEF SearchInv
<1> QED
  BY <1>1, <1>2, <1>3, <1>4

\* Every iteration keeps the search going as SearchInv says, over the same
\* certificates, and if it fails the certificate it started from is still there.
LEMMA IterateKeepsSearch ==
  ASSUME TypeOK, LoopInv, SearchInv, Iterate
  PROVE  /\ SearchInv' /\ UNCHANGED <<anchors, intermediates, at>>
         /\ outcome' # "Ok" => chain'[1] = chain[1]
<1>1. CASE ReachAnchor
  <2>1. /\ phase' = "done" /\ phase = "build" /\ UNCHANGED <<anchors, intermediates, at>>
        /\ chain \in Seq(Certificate) /\ Len(chain) \in Nat \ {0}
    BY <1>1 DEF ReachAnchor, Return, pool, TypeOK
  <2>2. outcome' # "Ok" => chain' = chain
    BY <1>1 DEF ReachAnchor, Return
  <2>3. /\ Len(chain') = Len(chain)
        /\ \A i \in 1..(Len(chain) - 1) : chain'[i] = chain[i]
    <3>1. \/ chain' = chain
          \/ chain' = [chain EXCEPT ![Len(chain)] = anchors[First(match_anchor(tail))]]
      BY <1>1 DEF ReachAnchor
    <3>2. anchors[First(match_anchor(tail))] \in Certificate
      BY <1>1, CandidatesArePool DEF ReachAnchor
    <3>3. /\ Len([chain EXCEPT ![Len(chain)] = anchors[First(match_anchor(tail))]]) = Len(chain)
          /\ \A i \in 1..(Len(chain) - 1) :
               [chain EXCEPT ![Len(chain)] = anchors[First(match_anchor(tail))]][i] = chain[i]
      BY <2>1, <3>2, ExceptSeq
    <3> QED
      BY <3>1, <3>3
  <2>4. \A i \in 2..(Len(chain') - 1) : chain'[i] \in Range(intermediates')
    <3> SUFFICES ASSUME NEW i \in 2..(Len(chain) - 1) PROVE chain[i] \in Range(intermediates)
      BY <2>1, <2>3
    <3>1. i \in 2..Len(chain) /\ i \in 1..(Len(chain) - 1)
      BY <2>1
    <3>2. chain[i] \in PoolCertificates /\ match_anchor(chain[i]) = {}
      BY <2>1, <3>1 DEF LoopInv, SearchInv
    <3>3. chain[i] \notin Range(anchors)
      BY <3>2 DEF match_anchor, SameAsAnchor, Range
    <3> QED
      BY <3>2, <3>3 DEF PoolCertificates
  <2> QED
    BY <2>1, <2>2, <2>4 DEF SearchInv
<1>2. CASE ExtendByIntermediate
  <2>1. Searching /\ Link(intermediates[First(FreeIssuers)], used \cup {First(FreeIssuers)})
    BY <1>2 DEF ExtendByIntermediate
  <2> QED
    BY <2>1, LinkKeepsSearch
<1>3. CASE ExtendByAnchor
  <2>1. Searching /\ Link(anchors[First(AnchorIssuers)], used)
    BY <1>3 DEF ExtendByAnchor
  <2> QED
    BY <2>1, LinkKeepsSearch
<1>4. CASE NoIssuer
  BY <1>4 DEF NoIssuer, Return, pool, SearchInv
<1> QED
  BY <1>1, <1>2, <1>3, <1>4 DEF Iterate

\* A certificate from which an iteration fails to build a chain has none, if
\* there is no ambiguity.
LEMMA IterateIsComplete ==
  ASSUME TypeOK, LoopInv, SearchInv, Iterate
  PROVE  CompleteWhenUnambiguous'
<1> SUFFICES ASSUME outcome' \in Errors, Unambiguous(chain[1])', PathExists(chain[1])'
             PROVE  FALSE
  BY DEF CompleteWhenUnambiguous
<1>1. chain'[1] = chain[1] /\ UNCHANGED <<anchors, intermediates, at>>
  <2>1. outcome' # "Ok"
    BY DEF Errors
  <2> QED
    BY <2>1, IterateKeepsSearch
<1>2. Unambiguous(chain[1]) /\ PathExists(chain[1])
  BY <1>1 DEF Unambiguous, PathExists, PoolCertificates
<1>3. PICK p : IsSimplePath(p, chain[1])
  BY <1>2, SimplePathExists
<1> QED
  BY <1>2, <1>3, PathIsNotMissed

\* Every call and every iteration keeps the search complete.
LEMMA StepKeepsCompleteness ==
  ASSUME IInv, SearchInv, CompleteWhenUnambiguous, [Next]_vars
  PROVE  SearchInv' /\ CompleteWhenUnambiguous'
<1>1. TypeOK /\ LoopInv /\ IdleInv
  BY DEF IInv
<1>2. ASSUME NEW c \in AnchorPool, push_anchor(c) PROVE SearchInv' /\ CompleteWhenUnambiguous'
  <2>1. outcome' = "pending" /\ phase' = "configure"
    BY <1>1, <1>2 DEF push_anchor, Locals, IdleInv
  <2> QED
    BY <2>1 DEF SearchInv, CompleteWhenUnambiguous, Errors
<1>3. ASSUME NEW c \in IntermediatePool, push_intermediate(c)
      PROVE  SearchInv' /\ CompleteWhenUnambiguous'
  <2>1. outcome' = "pending" /\ phase' = "configure"
    BY <1>1, <1>3 DEF push_intermediate, Locals, IdleInv
  <2> QED
    BY <2>1 DEF SearchInv, CompleteWhenUnambiguous, Errors
<1>4. ASSUME NEW c \in SignerPool, NEW t \in EvaluationTime, build(c, t)
      PROVE  SearchInv' /\ CompleteWhenUnambiguous'
  <2>1. Len(chain') = 1 /\ used' = {} /\ anchors' = anchors
    BY <1>4 DEF build, pool
  <2>2. outcome' = "pending" \/ (outcome' = "NoAnchors" /\ anchors = <<>>)
    BY <1>4 DEF build, Return
  <2>3. outcome' \in Errors => ~PathExists(chain[1])'
    <3>1. ASSUME outcome' \in Errors PROVE Range(anchors') = {}
      BY <2>1, <2>2, <3>1 DEF Errors, Range
    <3> QED
      BY <3>1 DEF PathExists, PathWithin, IsPath
  <2> QED
    BY <2>1, <2>2, <2>3 DEF SearchInv, CompleteWhenUnambiguous
<1>5. CASE Iterate
  BY <1>1, <1>5, IterateKeepsSearch, IterateIsComplete
<1>6. CASE DropResult
  BY <1>6 DEF DropResult, SearchInv, CompleteWhenUnambiguous, Errors
<1>7. CASE UNCHANGED vars
  BY <1>7
  DEF vars, SearchInv, CompleteWhenUnambiguous, match_anchor, Unambiguous, PathExists,
      PoolCertificates
<1> QED
  BY <1>2, <1>3, <1>4, <1>5, <1>6, <1>7 DEF Next

\* `build` never goes back, and without ambiguity never needs to: if it fails
\* there is no path from the signer to an anchor, in pools of any size.
THEOREM SearchIsComplete == Spec => []CompleteWhenUnambiguous
<1>1. Init => SearchInv /\ CompleteWhenUnambiguous
  BY DEF Init, SearchInv, CompleteWhenUnambiguous, Errors
<1>2. /\ IInv /\ SearchInv /\ CompleteWhenUnambiguous /\ [Next]_vars
      => SearchInv' /\ CompleteWhenUnambiguous'
  BY StepKeepsCompleteness
<1> QED
  BY <1>1, <1>2, InvHolds, PTL DEF Spec

----------------------------------------------------------------------------
(* What a caller of `build` may rely on.                                   *)

\* An iteration goes on from the same certificate or answers; the first
\* certificate of a chain returned is the one `build` was asked about, unless
\* that one is an anchor's and the anchor's copy is the whole chain.
LEMMA IterateAnswers ==
  ASSUME TypeOK, LoopInv, Iterate
  PROVE  /\ phase' = "build" => outcome' = "pending" /\ chain'[1] = chain[1]
         /\ phase' # "build" => phase' = "done" /\ outcome' \in {"Ok"} \cup Errors
         /\ outcome' = "Ok" =>
              /\ validate_link_time(chain[1], at)
              /\ IF Len(chain') > 1 THEN chain'[1] = chain[1]
                 ELSE SameAsAnchor(chain[1], chain'[1]) /\ Len(chain') = 1
<1>1. /\ phase = "build" /\ outcome = "pending"
      /\ chain \in Seq(Certificate) /\ Len(chain) \in Nat \ {0}
  <2>1. phase = "build"
    BY DEF Iterate, ReachAnchor, ExtendByIntermediate, ExtendByAnchor, NoIssuer, Searching
  <2> QED
    BY <2>1 DEF LoopInv, TypeOK
<1>2. CASE ReachAnchor
  <2> DEFINE n == Len(chain)
             top == anchors[First(match_anchor(tail))]
  <2>1. phase' = "done" /\ outcome' \in {"Ok", "Validity"}
    BY <1>2 DEF ReachAnchor, Return
  <2>2. top \in Certificate /\ SameAsAnchor(tail, top)
    BY <1>2, CandidatesArePool DEF ReachAnchor
  <2>3. outcome' = "Ok" => chain' = [chain EXCEPT ![n] = top] /\ validate_link_time(tail, at)
    BY <1>2 DEF ReachAnchor, Return
  <2> HIDE DEF top
  <2>4. ASSUME outcome' = "Ok"
        PROVE  Len(chain') = n /\ chain'[n] = top /\ \A i \in 1..(n - 1) : chain'[i] = chain[i]
    BY <1>1, <2>2, <2>3, <2>4, ExceptSeq
  <2>5. CASE n = 1
    <3>1. tail = chain[1]
      BY <2>5 DEF tail
    <3>2. ASSUME outcome' = "Ok"
          PROVE  /\ validate_link_time(chain[1], at) /\ Len(chain') = 1 /\ ~(Len(chain') > 1)
                 /\ SameAsAnchor(chain[1], chain'[1])
      <4>1. Len(chain') = 1 /\ chain'[1] = top
        BY <2>4, <2>5, <3>2
      <4> QED
        BY <2>2, <2>3, <3>1, <3>2, <4>1
    <3>3. outcome' \in {"Ok"} \cup Errors /\ phase' # "build"
      BY <2>1 DEF Errors
    <3> HIDE DEF n
    <3> QED
      BY <2>1, <3>2, <3>3
  <2>6. CASE n # 1
    <3>1. n \in Nat \ {0} /\ \A i \in 1..(n - 1) : ValidLink(chain[i], chain[i + 1], at)
      BY <1>1 DEF LoopInv
    <3> HIDE DEF n
    <3>2. 1 \in 1..(n - 1) /\ n > 1
      BY <2>6, <3>1
    <3>3. validate_link_time(chain[1], at)
      BY <3>1, <3>2 DEF ValidLink
    <3>4. outcome' \in {"Ok"} \cup Errors /\ phase' # "build"
      BY <2>1 DEF Errors
    <3>5. outcome' = "Ok" => Len(chain') > 1 /\ chain'[1] = chain[1]
      BY <2>4, <3>2
    <3> QED
      BY <2>1, <3>3, <3>4, <3>5
  <2> QED
    BY <2>5, <2>6
<1>3. ASSUME NEW issuer, NEW usedAfter, Link(issuer, usedAfter)
      PROVE  /\ outcome' # "Ok"
             /\ phase' = "build" => outcome' = "pending" /\ chain'[1] = chain[1]
             /\ phase' # "build" => phase' = "done" /\ outcome' \in Errors
  <2>1. chain' = chain \/ chain' = Append(chain, issuer)
    BY <1>3 DEF Link
  <2>2. Append(chain, issuer)[1] = chain[1]
    BY <1>1
  <2> QED
    BY <1>1, <1>3, <2>1, <2>2 DEF Link, Return, Errors
<1>4. CASE ExtendByIntermediate
  BY <1>3, <1>4 DEF ExtendByIntermediate
<1>5. CASE ExtendByAnchor
  BY <1>3, <1>5 DEF ExtendByAnchor
<1>6. CASE NoIssuer
  BY <1>6 DEF NoIssuer, Return, Errors
<1> QED
  BY <1>2, <1>4, <1>5, <1>6 DEF Iterate

----------------------------------------------------------------------------
(* `build` is a function of the pools, the time and the signer.            *)

\* The locals of the loop that decide how it goes on.
loop == [phase |-> phase, chain |-> chain, used |-> used, outcome |-> outcome]

Answered(s, result) == [phase |-> "done", chain |-> s.chain, used |-> s.used, outcome |-> result]

Linked(s, issuer, usedAfter, t) ==
  LET top == s.chain[Len(s.chain)] IN
  IF ~(validate_link_time(top, t) /\ validate_link_time(issuer, t)) THEN Answered(s, "Validity")
  ELSE IF ~validate_issuer_ca_capability(issuer) THEN Answered(s, "NotCA")
  ELSE [phase |-> IF Len(s.chain) + 1 > MaxDepth THEN "done" ELSE s.phase,
        chain |-> Append(s.chain, issuer), used |-> usedAfter,
        outcome |-> IF Len(s.chain) + 1 > MaxDepth THEN "DepthExceeded" ELSE s.outcome]

Candidates(certs, spent, c) == {i \in DOMAIN certs \ spent : issuer_matches(certs[i], c)}

\* The iteration as a function of the pools A and I, the time and the locals.
Turn(A, I, t, s) ==
  LET top == s.chain[Len(s.chain)]
      same == {i \in DOMAIN A : SameAsAnchor(top, A[i])}
      free == Candidates(I, s.used, top)
      issuing == Candidates(A, {}, top) IN
  IF s.phase # "build" THEN s
  ELSE IF same # {}
    THEN IF validate_link_time(top, t)
           THEN [phase |-> "done", chain |-> [s.chain EXCEPT ![Len(s.chain)] = A[First(same)]],
                 used |-> s.used, outcome |-> "Ok"]
           ELSE Answered(s, "Validity")
  ELSE IF free # {} THEN Linked(s, I[First(free)], s.used \cup {First(free)}, t)
  ELSE IF issuing # {} THEN Linked(s, A[First(issuing)], s.used, t)
  ELSE Answered(s, "NoIssuer")

\* An iteration does what the function says.
LEMMA IterateIsTurn ==
  ASSUME Iterate
  PROVE  loop' = Turn(anchors, intermediates, at, loop)
<1>1. /\ phase = "build"
      /\ loop.phase = phase /\ loop.chain = chain /\ loop.used = used /\ loop.outcome = outcome
  BY DEF Iterate, ReachAnchor, ExtendByIntermediate, ExtendByAnchor, NoIssuer, Searching, loop
<1>2. /\ tail = loop.chain[Len(loop.chain)]
      /\ match_anchor(tail) = {i \in DOMAIN anchors : SameAsAnchor(tail, anchors[i])}
      /\ FreeIssuers = Candidates(intermediates, loop.used, tail)
      /\ AnchorIssuers = Candidates(anchors, {}, tail)
  BY <1>1 DEF tail, match_anchor, FreeIssuers, AnchorIssuers, Candidates
<1>3. ASSUME NEW issuer, NEW usedAfter, Link(issuer, usedAfter)
      PROVE  loop' = Linked(loop, issuer, usedAfter, at)
  BY <1>1, <1>2, <1>3 DEF Link, Return, Linked, Answered, loop
<1>4. CASE ReachAnchor
  BY <1>1, <1>2, <1>4 DEF ReachAnchor, Return, Turn, Answered, loop
<1>5. CASE ExtendByIntermediate
  <2>1. Searching /\ FreeIssuers # {}
        /\ loop' = Linked(loop, intermediates[First(FreeIssuers)], used \cup {First(FreeIssuers)}, at)
    BY <1>3, <1>5 DEF ExtendByIntermediate
  <2> QED
    BY <1>1, <1>2, <2>1 DEF Turn, Searching
<1>6. CASE ExtendByAnchor
  <2>1. Searching /\ FreeIssuers = {} /\ AnchorIssuers # {}
        /\ loop' = Linked(loop, anchors[First(AnchorIssuers)], used, at)
    BY <1>3, <1>6 DEF ExtendByAnchor
  <2> QED
    BY <1>1, <1>2, <2>1 DEF Turn, Searching
<1>7. CASE NoIssuer
  BY <1>1, <1>2, <1>7 DEF NoIssuer, Searching, Return, Turn, Answered, loop
<1> QED
  BY <1>4, <1>5, <1>6, <1>7 DEF Iterate

\* Certificates that issue nothing make no difference to an iteration.
LEMMA TurnIgnoresOthers ==
  ASSUME NEW A, NEW t, NEW s, NEW S, NEW I \in Seq(S), NEW others \in Seq(S),
         \A i \in DOMAIN others : ~issuer_matches(others[i], s.chain[Len(s.chain)])
  PROVE  Turn(A, I \o others, t, s) = Turn(A, I, t, s)
<1> DEFINE top == s.chain[Len(s.chain)]
<1>1. /\ DOMAIN (I \o others) = 1..(Len(I) + Len(others)) /\ DOMAIN I = 1..Len(I)
      /\ DOMAIN others = 1..Len(others) /\ Len(I) \in Nat /\ Len(others) \in Nat
      /\ \A i \in 1..(Len(I) + Len(others)) :
           (I \o others)[i] = IF i <= Len(I) THEN I[i] ELSE others[i - Len(I)]
  BY ConcatProperties
<1>2. ASSUME NEW i \in DOMAIN (I \o others), issuer_matches((I \o others)[i], top)
      PROVE  i \in DOMAIN I /\ (I \o others)[i] = I[i]
  <2>1. CASE i <= Len(I)
    BY <1>1, <2>1
  <2>2. CASE ~(i <= Len(I))
    <3>1. i - Len(I) \in DOMAIN others /\ (I \o others)[i] = others[i - Len(I)]
      BY <1>1, <2>2
    <3> QED
      BY <1>2, <3>1
  <2> QED
    BY <2>1, <2>2
<1>3. Candidates(I \o others, s.used, top) = Candidates(I, s.used, top)
  <2>1. \A i \in DOMAIN I : i \in DOMAIN (I \o others) /\ (I \o others)[i] = I[i]
    BY <1>1
  <2> HIDE DEF top
  <2> QED
    BY <1>2, <2>1 DEF Candidates
<1>4. ASSUME Candidates(I, s.used, top) # {}
      PROVE  (I \o others)[First(Candidates(I, s.used, top))] = I[First(Candidates(I, s.used, top))]
  <2>1. Candidates(I, s.used, top) \subseteq Nat
    BY <1>1 DEF Candidates
  <2>2. First(Candidates(I, s.used, top)) \in Candidates(I, s.used, top)
    <3> HIDE DEF top
    <3> QED
      BY <1>4, <2>1, FirstIsMember
  <2>3. First(Candidates(I, s.used, top)) \in DOMAIN I
    BY <2>2 DEF Candidates
  <2> QED
    BY <1>1, <2>3
<1> QED
  BY <1>3, <1>4 DEF Turn

\* Iterations lead from one state of the locals to another.
Leads(A, I, t, from, to) ==
  \E n \in Nat : \E w :
    /\ w[0] = from /\ w[n] = to
    /\ \A k \in 0..(n - 1) : w[k + 1] = Turn(A, I, t, w[k])

LEMMA LeadsNowhere ==
  ASSUME NEW A, NEW I, NEW t, NEW s
  PROVE  Leads(A, I, t, s, s)
<1>1. /\ [k \in {0} |-> s][0] = s
      /\ \A k \in 0..(0 - 1) : [j \in {0} |-> s][k + 1] = Turn(A, I, t, [j \in {0} |-> s][k])
  OBVIOUS
<1> QED
  BY <1>1 DEF Leads

LEMMA LeadsOn ==
  ASSUME NEW A, NEW I, NEW t, NEW from, NEW s, Leads(A, I, t, from, s)
  PROVE  Leads(A, I, t, from, Turn(A, I, t, s))
<1>0. PICK n \in Nat : \E w :
        /\ w[0] = from /\ w[n] = s
        /\ \A k \in 0..(n - 1) : w[k + 1] = Turn(A, I, t, w[k])
  BY DEF Leads
<1>1. PICK w :
        /\ w[0] = from /\ w[n] = s
        /\ \A k \in 0..(n - 1) : w[k + 1] = Turn(A, I, t, w[k])
  BY <1>0
<1> DEFINE next == Turn(A, I, t, s)
           v == [k \in 0..(n + 1) |-> IF k <= n THEN w[k] ELSE next]
<1> HIDE DEF next
<1>2. v[0] = from /\ v[n + 1] = next /\ n + 1 \in Nat
  BY <1>1
<1>3. ASSUME NEW k \in 0..((n + 1) - 1) PROVE v[k + 1] = Turn(A, I, t, v[k])
  <2>1. v[k] = w[k]
    OBVIOUS
  <2>2. CASE k = n
    <3>1. v[k + 1] = next
      BY <2>2
    <3> QED
      BY <1>1, <2>1, <2>2, <3>1 DEF next
  <2>3. CASE k # n
    <3>1. v[k + 1] = w[k + 1] /\ k \in 0..(n - 1)
      BY <2>3
    <3> QED
      BY <1>1, <2>1, <3>1
  <2> QED
    BY <2>2, <2>3
<1> HIDE DEF v
<1>4. Leads(A, I, t, from, next)
  BY <1>2, <1>3 DEF Leads
<1> QED
  BY <1>4 DEF next

\* There is one answer: two runs of the loop that start alike end alike.
LEMMA LeadsToOneAnswer ==
  ASSUME NEW A, NEW I, NEW t, NEW from, NEW a, NEW b,
         Leads(A, I, t, from, a), Leads(A, I, t, from, b), a.phase = "done", b.phase = "done"
  PROVE  a = b
<1> SUFFICES ASSUME NEW m \in Nat, NEW n \in Nat, m <= n, NEW v, NEW w, NEW x, NEW y,
                    v[0] = from, v[m] = x, x.phase = "done",
                    \A k \in 0..(m - 1) : v[k + 1] = Turn(A, I, t, v[k]),
                    w[0] = from, w[n] = y,
                    \A k \in 0..(n - 1) : w[k + 1] = Turn(A, I, t, w[k])
             PROVE  x = y
  <2>1. \E m \in Nat : \E v :
          /\ v[0] = from /\ v[m] = a
          /\ \A k \in 0..(m - 1) : v[k + 1] = Turn(A, I, t, v[k])
    BY DEF Leads
  <2>2. \E n \in Nat : \E w :
          /\ w[0] = from /\ w[n] = b
          /\ \A k \in 0..(n - 1) : w[k + 1] = Turn(A, I, t, w[k])
    BY DEF Leads
  <2>3. \A m, n \in Nat : m <= n \/ n <= m
    OBVIOUS
  <2> QED
    BY <2>1, <2>2, <2>3
<1> DEFINE Kept(k) == IF k <= m THEN v[k] ELSE x
           Apart == {k \in 0..n : w[k] # Kept(k)}
<1>1. ASSUME Apart # {} PROVE FALSE
  <2>1. PICK k \in Apart : \A j \in Apart : k <= j
    <3>1. Apart \subseteq Nat
      OBVIOUS
    <3> HIDE DEF Apart
    <3> QED
      BY <1>1, <3>1, FirstIsMember
  <2>2. k \in 0..n /\ w[k] # Kept(k) /\ k # 0
    BY <2>1
  <2>3. k - 1 \in 0..(n - 1) /\ k - 1 \in 0..n /\ (k - 1) + 1 = k
    BY <2>2
  <2>4. w[k - 1] = Kept(k - 1)
    <3>1. k - 1 \notin Apart
      BY <2>1, <2>2
    <3> QED
      BY <2>3, <3>1
  <2>5. w[k] = Turn(A, I, t, Kept(k - 1))
    BY <2>3, <2>4
  <2>6. CASE k - 1 < m
    <3>1. k - 1 \in 0..(m - 1) /\ Kept(k - 1) = v[k - 1] /\ Kept(k) = v[k]
      BY <2>2, <2>3, <2>6
    <3> QED
      BY <2>2, <2>3, <2>5, <3>1
  <2>7. CASE ~(k - 1 < m)
    <3>1. Kept(k - 1) = x /\ Kept(k) = x
      BY <2>2, <2>3, <2>7
    <3>2. Turn(A, I, t, x) = x
      BY DEF Turn
    <3> QED
      BY <2>2, <2>5, <3>1, <3>2
  <2> QED
    BY <2>6, <2>7
<1>2. w[n] = Kept(n) /\ Kept(n) = x
  BY <1>1
<1> QED
  BY <1>2
=============================================================================
