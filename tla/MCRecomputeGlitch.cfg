CONSTANTS
  a = a
  b = b
  m = m
  n = n
  p = p
  throw = throw
  none = none
  Input <- MCInput
  Derived <- MCDerived
  Value <- MCValue
  Program <- Programs
  Reads <- MCReads
  Eval <- MCEval
  Throw <- throw
  None <- none
SPECIFICATION OrderSpec
INVARIANTS
  EveryValueIsCurrent
