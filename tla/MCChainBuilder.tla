--------------------------- MODULE MCChainBuilder ---------------------------
(* A small pool in which the hard cases of the walk happen: an anchor known *)
(* by two certificates, a cross-certified root, an anchor and a CA of one   *)
(* name and two keys, two CAs of one name, a CA that expires, a candidate   *)
(* that is no CA, and a cycle of two CAs.                                   *)
EXTENDS ChainBuilder

cert(s, i, k, sk, ak, nb, na, b, u, e) ==
  [subject |-> s, issuer |-> i, spki |-> k, ski |-> sk, aki |-> ak,
   notBefore |-> nb, notAfter |-> na, bc |-> b, ku |-> u, eku |-> e]

root      == cert("R", "R", "kR", "r1", "none", 0, 9, "CA", "certSign", "absent")
oldRoot   == cert("R", "R", "kR", "none", "none", 0, 1, "absent", "absent", "absent")
crossRoot == cert("R", "J", "kR", "r1", "none", 2, 9, "CA", "certSign", "absent")
caI       == cert("I", "R", "kI", "i1", "r1", 0, 2, "CA", "certSign", "present")
caI2      == cert("I", "R", "kI2", "i2", "none", 0, 9, "CA", "absent", "absent")
caJ       == cert("J", "I", "kJ", "none", "none", 0, 9, "CA", "certSign", "absent")
rootJ     == cert("J", "J", "kJ2", "j2", "none", 0, 9, "CA", "certSign", "absent")
caI3      == cert("I", "J", "kI", "i1", "j1", 0, 9, "CA", "certSign", "absent")
notCA     == cert("I", "R", "kN", "none", "none", 0, 9, "notCA", "certSign", "absent")
signer    == cert("S", "I", "kS", "none", "i1", 1, 3, "absent", "absent", "absent")
signer2   == cert("S", "I", "kS", "none", "none", 0, 9, "absent", "absent", "absent")

MCNames == {"R", "I", "J", "S"}
MCKeys == {"kR", "kI", "kI2", "kJ", "kJ2", "kN", "kS"}
MCKeyIds == {"r1", "i1", "i2", "j1", "j2"}
MCAnchors == {root, oldRoot, rootJ}
MCIntermediates == {caI, caI2, caI3, caJ, notCA, crossRoot}
MCSigners == {signer, signer2, root}

=============================================================================
