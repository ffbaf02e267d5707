SPECIFICATION Spec
CONSTANTS
  Block = 2
  MaxNumber = 4
  MaxTime = 200
  MaxPackets = 2
  None = None
  Senders <- MCSenders
  Ages <- MCAges
  Gaps <- MCGaps
INVARIANTS TypeOK NumbersAreUnique HeardInOrder HeardFresh
