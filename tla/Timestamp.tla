------------------------------ MODULE Timestamp ------------------------------
(***************************************************************************)
(* RFC 3161 tokens as eidas-timestamp verifies them, and the reduced check *)
(* eidas-cades falls back to for archive timestamps.  A token is           *)
(*   [genTime, faults]                                                     *)
(* where faults names the checks it would not survive: the content type,   *)
(* the eContent and the TSTInfo in it, the message imprint, the SignerInfo,*)
(* the TSA certificate among the token's own, its extended key usage, the  *)
(* signed attributes and their digest, the TSA signature, the TSA chain at *)
(* genTime, the classification of the algorithm.                           *)
(***************************************************************************)
EXTENDS Integers

TstFaults ==
  {"envelope", "contentType", "tstInfo", "imprint", "noSigner",
   "tsaNotInToken",   \* the TSA certificate is among ets-certValues only
   "tsaNowhere",      \* the TSA certificate is in neither place
   "eku", "messageDigest", "signature",
   "chainViaToken",   \* the chain needs certificates only the token carries
   "chain",           \* no chain to an anchor is valid at genTime
   "algorithm"}

Token(times) == [genTime : times, faults : SUBSET TstFaults]

\* Every check must pass; the order they run in only picks the message.
verify_time_stamp_token(token) == token.faults = {}

\* The checks verify_ats_best_effort does not repeat: it neither reads the
\* content type nor compares the imprint, looks for the TSA certificate in
\* ets-certValues too, checks no extended key usage, builds the chain with the
\* token's certificates as well, and classifies no algorithm.
NotRepeated ==
  {"contentType", "imprint", "tsaNotInToken", "eku", "chainViaToken", "algorithm"}

verify_ats_best_effort(token) == token.faults \subseteq NotRepeated
=============================================================================
