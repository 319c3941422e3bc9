CONSTANTS
  i1 = i1
  i2 = i2
  d1 = d1
  d2 = d2
  h1 = h1
  h2 = h2
  throw = throw
  none = none
  Input <- MCInput
  Derived <- MCDerived
  Value <- MCValue
  Program <- MCPrograms
  Reads <- MCReads
  Eval <- MCEval
  Throw <- throw
  None <- none
  Handle <- MCHandle
  Watch <- MCGroups
  NoWatch <- none
SPECIFICATION SubSpec
INVARIANTS
  GroupsAreCurrent
