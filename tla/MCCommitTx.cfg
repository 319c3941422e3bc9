CONSTANTS
  a = a
  b = b
  v0 = v0
  v1 = v1
  v2 = v2
  Input <- MCInput
  Value <- MCValue
  Allowed <- MCAllowed
  MaxTime = 2
  MidTxRegistration = FALSE
SPECIFICATION BoundedSpec
INVARIANTS
  TypeOK
  SentinelsAgree
  OneUndoRowPerCell
  InvariantsGatePublication
PROPERTIES
  ImplementsAtomicStore
  RolledBackExactly
  WindowCloses
