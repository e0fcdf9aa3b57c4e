SPECIFICATION Spec
CONSTANT
  Signers <- MCSigners
CHECK_DEADLOCK FALSE
INVARIANTS
  PipelinesAgree
  NoSha1SignaturePasses
  VerifiedIsClassified
