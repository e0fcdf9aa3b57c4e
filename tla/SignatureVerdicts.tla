-------------------------- MODULE SignatureVerdicts --------------------------
(***************************************************************************)
(* What a caller of `verify_cades` is promised about its verdicts, without *)
(* levels, evidence or loops: the signers of the CMS are judged one after  *)
(* the other, each at one time that the caller's choice of validation time *)
(* admits, and it passes exactly if what it is and carries itself entitles *)
(* it to pass at that time.  A verdict given is not taken back.            *)
(***************************************************************************)
EXTENDS Integers, Sequences

CONSTANTS
  NoTime,            \* the verdict on a signer that did not pass
  Admissible(_, _),  \* Admissible(mode, s): the times s may be judged at
  Entitled(_, _)     \* Entitled(s, t): s should pass at t

VARIABLES
  signers,   \* the signers of the call
  mode,      \* the caller's choice of validation time
  verdicts   \* the verdicts so far: the time it passed at, or NoTime

VerdictInit == verdicts = <<>>

Verdict(s, t) == IF Entitled(s, t) THEN t ELSE NoTime

Judge ==
  /\ Len(verdicts) < Len(signers)
  /\ LET s == signers[Len(verdicts) + 1] IN
     \E t \in Admissible(mode, s) : verdicts' = Append(verdicts, Verdict(s, t))
  /\ UNCHANGED <<signers, mode>>

VerdictSpec == VerdictInit /\ [][Judge]_<<signers, mode, verdicts>>
=============================================================================
