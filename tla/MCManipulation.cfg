SPECIFICATION Spec
CONSTANTS
  Poses = 2
  MaxRequests = 2
  MaxForeign = 1
  MaxSessions = 2
  None = None
  Gaps <- MCGaps
  Lags <- MCLags
INVARIANTS TypeOK AnswersAreTrue
PROPERTIES AppliedFromSeenPose
