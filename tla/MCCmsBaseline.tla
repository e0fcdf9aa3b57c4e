--------------------------- MODULE MCCmsBaseline ---------------------------
(* A sound signer with up to two facts changed, so that faults meet; and      *)
(* every combination of algorithm, key, digest and policy.                    *)
EXTENDS CmsBaseline

Sound == [cert |-> "embedded", unsigned |-> "none", signedAttrs |-> TRUE,
          digestAlg |-> "SHA256", claimed |-> "matches", contentType |-> "data",
          ess |-> "v2", sigAlg |-> [family |-> "RSA", hash |-> "hint"], key |-> "RSA",
          madeWith |-> "SHA256", rejects |-> {},
          chain |-> [bb |-> TRUE, cades |-> TRUE]]

SigAlgs == [family : {"RSA"}, hash : {"hint", "SHA1", "SHA224", "SHA256"}]
           \cup [family : {"PSS"}, hash : {"hint"}]
           \cup [family : {"ECDSA"}, hash : {"SHA1", "SHA224", "SHA256"}]
           \cup [family : {"other"}, hash : {"hint"}]

OneChange(s) ==
     {[s EXCEPT !.cert = x, !.unsigned = u] :
        x \in {"embedded", "certValues", "absent"}, u \in {"none", "readable", "malformed"}}
     \cup {[s EXCEPT !.signedAttrs = FALSE], [s EXCEPT !.rejects = {"SHA256"}]}
     \cup {[s EXCEPT !.claimed = x] : x \in {"differs", "unreadable"}}
     \cup {[s EXCEPT !.contentType = x] : x \in {"other", "unreadable"}}
     \cup {[s EXCEPT !.ess = x] : x \in {"v2differs", "v2untagged", "v1", "none"}}
     \cup {[s EXCEPT !.digestAlg = x] : x \in {"SHA1", "other"}}
     \cup {[s EXCEPT !.madeWith = x] : x \in {"SHA1", "none"}}
     \cup {[s EXCEPT !.chain = [bb |-> x, cades |-> y]] : x, y \in BOOLEAN}

\* certValues are in the unsigned attributes, if there are any.
Possible(s) == s.cert = "certValues" => s.unsigned # "none"

Faulty == {s \in UNION {OneChange(x) : x \in OneChange(Sound)} : Possible(s)}

Algorithms ==
  {[Sound EXCEPT !.sigAlg = a, !.key = k, !.digestAlg = d, !.madeWith = m, !.rejects = r] :
     a \in SigAlgs, k \in {"RSA", "P256", "P521", "curve", "other"},
     d \in {"SHA1", "SHA224", "SHA256", "other"}, m \in {"SHA1", "SHA224", "SHA256", "none"},
     r \in {{}, {"SHA1"}, {"SHA224"}}}

MCSigners == Faulty \cup Algorithms
=============================================================================
