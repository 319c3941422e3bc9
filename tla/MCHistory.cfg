SPECIFICATION BoundedSpec
CONSTANTS
  MaxTime = 3
  MaxTick = 3
  Plain = {d1}
  Metadata = {m1, m2}
  Handle = {h}
  Cap = 2
  i1 = i1
  i2 = i2
  v1 = v1
  v2 = v2
  opaque = opaque
  Input <- MCInput
  Value <- MCValue
  Opaque <- MCOpaque
  Window = 2
  Source = {x1, x2}
  Staged = {x2}
  Content = {0, 1, 2}
  Unkept = 2
  Formulas = {f1}
  l1 = l1
  l2 = l2
  k1 = k1
  k2 = k2
  Leaf <- MCLeaf
  Chain <- MCChain
  Gate <- MCGate
  Rest <- MCRest
  MaxClock = 3
  LogCap = 2
  Capacity = 1
  Target = {k1, k2}
  Inspected = {k2}
  MaxLost = 1
  u0 = u0
  u1 = u1
  Oops = Oops
  LiveId = {n1, n2}
  Reading = {u0, u1}
  Unwritable = u1
  Swap <- MCSwap
  MaxVersion = 2
  Thing = {o1, o2}
  RingCap = 1
  MaxReads = 3
  MaxDepth = 2
  MaxHour = 2
  Id = {n1, n2}
  Party = {p1}
  TombCap = 1
  MaxLives = 3
  MaxNow = 2
SYMMETRY Alike
INVARIANTS
  HistoryTypeOK
  LogSound
  ReadsOfThePastSound
  SnapshotsSound
  TellingsSound
  HeldReadsSound
  LivesSound
PROPERTIES
  ConsumersSeeTheCommit
  PastIsKept
