SPECIFICATION FairSpec
CONSTANTS
  Modulus = 8
  Frames = 2
  MaxRuns = 2
  Timeout = 150
  Batch = 2
  None = None
  Starts <- MCStarts
  Ticks <- MCTicks
  Gaps <- MCGaps
INVARIANTS TypeOK LaterIsAcceptable
PROPERTIES AcceptedInOrder RestartRefused EveryLossReported TrackingEnds
