SPECIFICATION BoundedSpec
CONSTANTS
  MaxTime = 4
  Fetch = {f1, f2}
  NoFetch = NoFetch
  Conflict = {c1, c2}
  NoRecord = NoRecord
  Host = {h1, h2}
  Cell = {x1}
  Content = {0, 1, 2}
  Blank = 0
  Unkept = 2
  NodeCount = 0
  TripCount = 2
  CommitCount = 2
  MaxCommits = 4
  NotTold = NotTold
  h1 = h1
  Picky <- MCPicky
  Slot = {s1, s2}
  Json = {0, 1}
  Wrong = Wrong
  MaxAfterN = 2
  Holder = {g1, g2}
  Depth = 2
  ActionId = {n1}
  NoLink = NoLink
  ka = ka
  kb = kb
  Mount = {m1, m2, m3}
  Key = {ka, kb}
  Uses <- MCUses
  MaxEntries = 3
  MaxTasks = 2
  Store = {g1, g2}
  Hook = {"node", "selector", "shallow", "typed"}
  Element = {e1, e2}
  MaxObjects = 4
  Absent = Absent
  Root = {r1, r2}
  Dump = {s1, s2}
  Hydrator = {t1, t2}
  Sleeper = {z1, z2}
  None = None
  MaxPromises = 2
  MaxEdits = 2
  Column = {1, 2, 3}
  Ast <- MCAst
  Literal <- MCLiteral
  Texts <- MCTexts
  Claim <- MCClaim
  Found <- MCFound
  Step <- MCStep
  Caller = {q1, q2}
  Offer <- MCOffer
  MaxLoads = 2
INVARIANTS
  ClientsTypeOK
  SyncSound
  EnginesSound
  BridgeLinkSound
  ReactSound
  ToolsSound
PROPERTIES
  SyncFollowsTheCharts
  EngineChangesAreSafe
  EveryCommitIsFlushed
CHECK_DEADLOCK FALSE
