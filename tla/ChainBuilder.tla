---------------------------- MODULE ChainBuilder ----------------------------
(***************************************************************************)
(* eidas-x509 `ChainBuilder`: a pool of trust anchors and of intermediate  *)
(* certificates, filled by push_* / with_* calls, and `build`, which walks *)
(* from a signer certificate to an anchor.  One step of the model is one   *)
(* iteration of the loop of `build`.                                       *)
(*                                                                         *)
(* A certificate is the record of the fields the loop reads.  Names, keys  *)
(* and key identifiers are opaque values compared for equality only; a     *)
(* trust anchor is its certificate.                                        *)
(***************************************************************************)
EXTENDS Integers, Sequences, FiniteSets, Functions

CONSTANTS
  Name,              \* distinguished names
  Key,               \* SubjectPublicKeyInfo encodings
  KeyId,             \* key identifiers carried by SKI and AKI
  NoKeyId,           \* the extension is absent (or does not decode)
  AnchorPool,        \* certificates a caller may push as anchors
  IntermediatePool,  \* certificates a caller may push as intermediates
  SignerPool,        \* certificates a caller may ask a chain for
  EvaluationTime,    \* times a caller may evaluate a chain at
  MaxAnchors,        \* bound: anchors pushed
  MaxIntermediates,  \* bound: intermediates pushed
  MaxDepth           \* longest chain `build` keeps (16 in the code)

Certificate ==
  [subject   : Name,
   issuer    : Name,
   spki      : Key,
   ski       : KeyId \cup {NoKeyId},
   aki       : KeyId \cup {NoKeyId},
   notBefore : Int,
   notAfter  : Int,
   bc        : {"absent", "malformed", "notCA", "CA"},
   ku        : {"absent", "malformed", "noCertSign", "certSign"},
   eku       : {"absent", "malformed", "present"}]

ASSUME PoolAssumption ==
  /\ AnchorPool \subseteq Certificate
  /\ IntermediatePool \subseteq Certificate
  /\ SignerPool \subseteq Certificate

ASSUME BoundAssumption ==
  /\ EvaluationTime \subseteq Int
  /\ MaxAnchors \in Nat
  /\ MaxIntermediates \in Nat
  /\ MaxDepth \in Nat \ {0}

VARIABLES
  anchors,        \* ChainBuilder.anchors
  intermediates,  \* ChainBuilder.intermediates
  phase,          \* "configure": pushing; "build": in the loop; "done": returned
  at,             \* evaluation time of the current call
  chain,          \* certificates collected so far, signer first
  used,           \* indexes of the intermediates already in the chain
  diagnostics,    \* set of <<code, certificate>> recorded by the call
  outcome         \* "pending", "Ok" or the error the call returned

vars == <<anchors, intermediates, phase, at, chain, used, diagnostics, outcome>>
pool == <<anchors, intermediates>>

Errors == {"NoAnchors", "NoIssuer", "Validity", "NotCA", "DepthExceeded"}
DiagnosticCodes == {"CA_HAS_EKU", "CA_NO_KEY_USAGE"}

tail == chain[Len(chain)]

----------------------------------------------------------------------------
(* The predicates of the loop.  An operator named Bad... is a plausible    *)
(* slip in the definition that follows it; only mutation runs use it.      *)

\* Key identifiers are compared only when both certificates carry one.
issuer_matches(candidate, cert) ==
  /\ candidate.subject = cert.issuer
  /\ (cert.aki # NoKeyId /\ candidate.ski # NoKeyId) => cert.aki = candidate.ski

\* Both ends of the window are inclusive; an inverted window covers no time.
validate_link_time(cert, t) == cert.notBefore <= t /\ t <= cert.notAfter

validate_issuer_ca_capability(cert) ==
  /\ cert.bc = "CA"
  /\ cert.ku \in {"absent", "certSign"}
  /\ cert.eku # "malformed"

Bad_ca_diagnostics(cert) == {<<"CA_HAS_EKU", cert>> : e \in {cert.eku} \cap {"present"}}

\* What validate_issuer_ca_capability records about an issuer it accepts.
ca_diagnostics(cert) ==
  {<<"CA_HAS_EKU", cert>> : e \in {cert.eku} \cap {"present"}}
    \cup {<<"CA_NO_KEY_USAGE", cert>> : k \in {cert.ku} \cap {"absent"}}

SameAsAnchor(cert, anchor) == anchor.subject = cert.subject /\ anchor.spki = cert.spki

Bad_match_anchor(cert) == {i \in DOMAIN anchors : anchors[i].subject = cert.subject}

\* Indexes of the anchors with the subject and the key of cert.
match_anchor(cert) == {i \in DOMAIN anchors : SameAsAnchor(cert, anchors[i])}

First(S) == CHOOSE i \in S : \A j \in S : i <= j

\* Candidates are told by their name alone.
Bad_FreeIssuers ==
  {i \in DOMAIN intermediates \ used : intermediates[i].subject = tail.issuer}

\* The candidates the two `for` loops of an iteration look for, in their order.
FreeIssuers ==
  {i \in DOMAIN intermediates \ used : issuer_matches(intermediates[i], tail)}
AnchorIssuers == {i \in DOMAIN anchors : issuer_matches(anchors[i], tail)}

----------------------------------------------------------------------------
Init ==
  /\ anchors = <<>> /\ intermediates = <<>>
  /\ phase = "configure"
  /\ at \in EvaluationTime
  /\ chain = <<>> /\ used = {} /\ diagnostics = {} /\ outcome = "pending"

\* The locals of the previous `build` call are gone once the caller goes on.
Locals == <<at, chain, used, diagnostics, outcome>>

push_anchor(c) ==
  /\ phase = "configure" /\ Len(anchors) < MaxAnchors
  /\ anchors' = Append(anchors, c)
  /\ UNCHANGED <<intermediates, phase, Locals>>

push_intermediate(c) ==
  /\ phase = "configure" /\ Len(intermediates) < MaxIntermediates
  /\ intermediates' = Append(intermediates, c)
  /\ UNCHANGED <<anchors, phase, Locals>>

\* `build` borrows the builder, so the caller may go on using it afterwards.
DropResult ==
  /\ phase = "done"
  /\ phase' = "configure"
  /\ chain' = <<>> /\ used' = {} /\ diagnostics' = {} /\ outcome' = "pending"
  /\ UNCHANGED <<pool, at>>

Return(result) == phase' = "done" /\ outcome' = result

build(signer, t) ==
  /\ phase = "configure"
  /\ at' = t
  /\ chain' = <<signer>> /\ used' = {} /\ diagnostics' = {}
  /\ IF anchors = <<>>
       THEN Return("NoAnchors")
       ELSE phase' = "build" /\ outcome' = "pending"
  /\ UNCHANGED pool

\* The last certificate is an anchor: it gives way to the anchor's own copy.
ReachAnchor ==
  /\ phase = "build" /\ match_anchor(tail) # {}
  /\ IF validate_link_time(tail, at)
       THEN /\ chain' = [chain EXCEPT ![Len(chain)] = anchors[First(match_anchor(tail))]]
            /\ Return("Ok")
       ELSE UNCHANGED chain /\ Return("Validity")
  /\ UNCHANGED <<pool, at, used, diagnostics>>

\* A candidate that is no CA is passed over, and found again next time round.
Bad_Link(issuer, usedAfter) ==
  /\ IF ~(validate_link_time(tail, at) /\ validate_link_time(issuer, at))
       THEN Return("Validity") /\ UNCHANGED <<chain, used, diagnostics>>
     ELSE IF ~validate_issuer_ca_capability(issuer)
       THEN UNCHANGED <<phase, outcome, chain, used, diagnostics>>
     ELSE /\ diagnostics' = diagnostics \cup ca_diagnostics(issuer)
          /\ used' = usedAfter
          /\ chain' = Append(chain, issuer)
          /\ IF Len(chain) + 1 > MaxDepth
               THEN Return("DepthExceeded")
               ELSE UNCHANGED <<phase, outcome>>
  /\ UNCHANGED <<pool, at>>

\* The depth limit is compared before the anchor is counted in.
BadDepth_Link(issuer, usedAfter) ==
  /\ IF ~(validate_link_time(tail, at) /\ validate_link_time(issuer, at))
       THEN Return("Validity") /\ UNCHANGED <<chain, used, diagnostics>>
     ELSE IF ~validate_issuer_ca_capability(issuer)
       THEN Return("NotCA") /\ UNCHANGED <<chain, used, diagnostics>>
     ELSE /\ diagnostics' = diagnostics \cup ca_diagnostics(issuer)
          /\ used' = usedAfter
          /\ chain' = Append(chain, issuer)
          /\ IF Len(chain) + 1 >= MaxDepth
               THEN Return("DepthExceeded")
               ELSE UNCHANGED <<phase, outcome>>
  /\ UNCHANGED <<pool, at>>

\* Validate the link from the last certificate to issuer and push issuer.
Link(issuer, usedAfter) ==
  /\ IF ~(validate_link_time(tail, at) /\ validate_link_time(issuer, at))
       THEN Return("Validity") /\ UNCHANGED <<chain, used, diagnostics>>
     ELSE IF ~validate_issuer_ca_capability(issuer)
       THEN Return("NotCA") /\ UNCHANGED <<chain, used, diagnostics>>
     ELSE /\ diagnostics' = diagnostics \cup ca_diagnostics(issuer)
          /\ used' = usedAfter
          /\ chain' = Append(chain, issuer)
          /\ IF Len(chain) + 1 > MaxDepth
               THEN Return("DepthExceeded")
               ELSE UNCHANGED <<phase, outcome>>
  /\ UNCHANGED <<pool, at>>

Searching == phase = "build" /\ match_anchor(tail) = {}

Bad_ExtendByIntermediate ==
  /\ Searching /\ FreeIssuers # {}
  /\ Link(intermediates[First(FreeIssuers)], used)

ExtendByIntermediate ==
  /\ Searching /\ FreeIssuers # {}
  /\ LET i == First(FreeIssuers) IN Link(intermediates[i], used \cup {i})

ExtendByAnchor ==
  /\ Searching /\ FreeIssuers = {} /\ AnchorIssuers # {}
  /\ Link(anchors[First(AnchorIssuers)], used)

NoIssuer ==
  /\ Searching /\ FreeIssuers = {} /\ AnchorIssuers = {}
  /\ Return("NoIssuer")
  /\ UNCHANGED <<pool, at, chain, used, diagnostics>>

Iterate == ReachAnchor \/ ExtendByIntermediate \/ ExtendByAnchor \/ NoIssuer

Next ==
  \/ \E c \in AnchorPool : push_anchor(c)
  \/ \E c \in IntermediatePool : push_intermediate(c)
  \/ \E c \in SignerPool, t \in EvaluationTime : build(c, t)
  \/ Iterate
  \/ DropResult

\* `build` is a plain sequential loop: once called it keeps iterating.
Spec == Init /\ [][Next]_vars /\ WF_vars(Iterate)

----------------------------------------------------------------------------
(* What a returned chain is worth.                                         *)

TypeOK ==
  /\ anchors \in Seq(AnchorPool)
  /\ intermediates \in Seq(IntermediatePool)
  /\ phase \in {"configure", "build", "done"}
  /\ at \in EvaluationTime
  /\ chain \in Seq(Certificate)
  /\ used \subseteq DOMAIN intermediates
  /\ diagnostics \subseteq DiagnosticCodes \X Certificate
  /\ outcome \in {"pending", "Ok"} \cup Errors
  /\ phase = "build" => chain # <<>>

\* The pair below..above was accepted as certificate and issuer at time t.
ValidLink(below, above, t) ==
  /\ issuer_matches(above, below)
  /\ validate_link_time(below, t) /\ validate_link_time(above, t)
  /\ validate_issuer_ca_capability(above)

\* chain.rs:3-8.  Below the anchor every adjacent pair of a returned chain is
\* a valid link: names and key identifiers agree, the upper one may issue,
\* both cover the evaluation time.  The anchor itself, which replaced the
\* certificate the loop ended on, still carries the name its child names as
\* issuer, and the child covers the evaluation time.
ChainIsLinked ==
  outcome = "Ok" =>
    /\ \A i \in 1..(Len(chain) - 2) : ValidLink(chain[i], chain[i + 1], at)
    /\ \A i \in 1..(Len(chain) - 1) :
         chain[i].issuer = chain[i + 1].subject /\ validate_link_time(chain[i], at)

\* chain.rs:45-48.  A returned chain ends at a configured anchor, and that
\* anchor has the subject and the key of a certificate that was valid at the
\* evaluation time: one of the pool, or the signer when it is the whole chain.
EndsAtAnchor ==
  outcome = "Ok" =>
    LET top == chain[Len(chain)] IN
    /\ \E i \in DOMAIN anchors : top = anchors[i]
    /\ Len(chain) > 1 =>
         \E c \in Range(intermediates) \cup Range(anchors) :
           /\ SameAsAnchor(c, top)
           /\ ValidLink(chain[Len(chain) - 1], c, at)

\* chain.rs:165-169.  Every hop spends an intermediate, except the last one
\* onto an anchor, so the walk ends even without the depth limit; and a chain
\* handed back is never longer than the limit.
WalkIsBounded ==
  /\ Len(chain) <= Cardinality(used) + 2
  /\ outcome = "Ok" => Len(chain) <= MaxDepth

\* chain.rs:280-288.  A CA below the anchor that carries no key usage, or that
\* carries an extended key usage, is never passed over in silence.
CaOddityIsReported ==
  outcome = "Ok" =>
    \A i \in 2..(Len(chain) - 1) :
      /\ chain[i].ku = "absent" => <<"CA_NO_KEY_USAGE", chain[i]>> \in diagnostics
      /\ chain[i].eku # "absent" => <<"CA_HAS_EKU", chain[i]>> \in diagnostics

\* The reference `build` is held against: the paths a search with backtracking
\* over the same certificates would accept.
IsPath(p, trust, t) ==
  /\ \A i \in 1..(Len(p) - 1) : ValidLink(p[i], p[i + 1], t)
  /\ validate_link_time(p[Len(p)], t)
  /\ \E anchor \in trust : SameAsAnchor(p[Len(p)], anchor)
PathWithin(certs, trust, t, signer) ==
  \E n \in 0..(MaxDepth - 1) : \E rest \in [1..n -> certs] :
    IsPath(<<signer>> \o rest, trust, t)

\* No certificate has two candidate issuers.
UnambiguousWithin(certs, signer) ==
  \A c \in certs \cup {signer} : \A x, y \in certs :
    issuer_matches(x, c) /\ issuer_matches(y, c) => x = y

PoolCertificates == Range(intermediates) \cup Range(anchors)
PathExists(signer) == PathWithin(PoolCertificates, Range(anchors), at, signer)
Unambiguous(signer) == UnambiguousWithin(PoolCertificates, signer)

\* chain.rs:127-152.  `build` takes the first candidate and never goes back.
\* Where no certificate has two candidate issuers this loses nothing: if it
\* fails, no acceptable path of at most MaxDepth certificates exists.
CompleteWhenUnambiguous ==
  (outcome \in Errors /\ Unambiguous(chain[1])) => ~PathExists(chain[1])

\* chain.rs:104-171.  Each turn of the loop ends the call or makes the chain
\* one longer within the limit: `build` takes at most MaxDepth turns.
LoopAdvances ==
  [][Iterate => \/ phase' = "done"
                \/ phase' = "build" /\ Len(chain') = Len(chain) + 1 /\ Len(chain') <= MaxDepth]_vars

\* A call of `build` returns, whatever cycles the pool contains.
BuildReturns == (phase = "build") ~> (phase = "done")

=============================================================================
