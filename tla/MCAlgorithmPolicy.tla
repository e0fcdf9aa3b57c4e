-------------------------- MODULE MCAlgorithmPolicy --------------------------
(* Three algorithms on the two sides of the minimum strengths.              *)
EXTENDS AlgorithmPolicy

MCAlgorithmIds ==
  {[signature |-> "RsaPkcs1v15", hash |-> "Sha256", key_bits |-> 2048],
   [signature |-> "Ecdsa", hash |-> "Sha1", key_bits |-> 256],
   [signature |-> "Dsa", hash |-> "Sha224", key_bits |-> 2048]}
MCFloors ==
  {[rsa |-> r, ecc |-> 224, hash |-> h, sha1 |-> s] :
     r \in {2048, 2049}, h \in {160, 224}, s \in BOOLEAN}
=============================================================================
