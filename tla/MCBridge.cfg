SPECIFICATION FairSpec
CONSTANTS
  Hands = {h1}
  Panels = {p1}
  Revs = {r1, r2}
  Sessions = {s1, s2}
  XY = {a}
  None = None
  MaxCommands = 2
  Depths <- MCDepths
  Gaps <- MCGaps
  Views <- MCViews
  Snapshots <- MCSnapshots
  Batches <- MCBatches
INVARIANTS BTypeOK GrabXorTouch WatchedContact WatchedGrab ExitLifts
PROPERTIES SilenceLifts DisableLifts ImplementsBridgeProcess
