CONSTANTS
  i1 = i1
  i2 = i2
  d1 = d1
  d2 = d2
  h1 = h1
  h2 = h2
  throw = throw
  none = none
  Input <- MCInput
  Derived <- MCDerived
  Value <- MCValue
  Program <- MCPrograms
  Reads <- MCReads
  Eval <- MCEval
  Throw <- throw
  None <- none
  Handle <- MCHandle
  Watch <- MCWatch
  NoWatch <- none
  Allowed <- MCAllowed
  MaxTime = 2
  pa = pa
  pb = pb
  w0 = w0
  w1 = w1
  bad = bad
  Place = {pa, pb}
  Worth = {w0, w1, bad}
  Poison = bad
  Projection <- MCProjection
  Reader = {r1, r2}
  NoReader = NoReader
  NoBucket = NoBucket
  Page = {p1, p2}
  Version = {1, 2}
  Data = {plain, bigint, nan}
  Refused = bigint
  Lossy = nan
SYMMETRY Alike
SPECIFICATION BoundedSpec
INVARIANTS
  ListenersTypeOK
  RefcountsCountPaths
  ObserversAreCurrent
  SidesAgree
  ReadSetsSound
  PersistSound
PROPERTIES
  AtomicToldOnceKept
