SPECIFICATION FairSpec
CONSTANT MaxContexts = 3
INVARIANTS TypeOK NeverCrashes ReleasedBeforePause
PROPERTY PauseEnds
CHECK_DEADLOCK FALSE
