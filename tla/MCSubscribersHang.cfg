CONSTANTS
  i1 = i1
  i2 = i2
  d1 = d1
  d2 = d2
  h1 = h1
  h2 = h2
  throw = throw
  none = none
  Input <- MCInput
  Derived <- MCDerived
  Value <- MCValue
  Program <- Cyclic
  Reads <- MCReads
  Eval <- MCEval
  Throw <- throw
  None <- none
  Handle <- MCHandle
  Watch <- MCSingles
  NoWatch <- none
SPECIFICATION SubSpec
INVARIANTS
  RollbackReturns
