CONSTANTS
  a = a
  b = b
  v0 = v0
  v1 = v1
  v2 = v2
  Input <- MCInput
  Value <- MCValue
  Allowed <- MCAllowed
  MaxTime = 1
  MidTxRegistration = FALSE
SPECIFICATION Spec
INVARIANTS
  SimulateForeseesInvariants
