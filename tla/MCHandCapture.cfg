SPECIFICATION FairSpec
CONSTANTS
  None = None
  Settings <- MCSettings
  Latencies <- MCLatencies
  Gaps <- MCGaps
INVARIANTS TypeOK HandsAreCurrent NoUnwantedHands OffFallsBack
PROPERTIES CaptureAdvances ImagesFinish PauseEnds
