SPECIFICATION Spec
CONSTANTS
  Poses = 2
  MaxRequests = 2
  MaxForeign = 2
  MaxSessions = 1
  None = None
  Gaps <- MCGaps
  Lags <- MCLags
INVARIANT FollowsOwnMoves
