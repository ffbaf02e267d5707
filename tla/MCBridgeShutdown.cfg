SPECIFICATION BSpec
CONSTANTS
  Hands = {h1}
  Panels = {p1}
  Revs = {r1}
  Sessions = {s1}
  XY = {a}
  None = None
  MaxCommands = 1
  Depths <- MCDepths
  Gaps <- MCGaps
  Views <- MCViews
  Snapshots <- MCSnapshots
  Batches <- MCBatches
INVARIANTS ShutdownLifts
