SPECIFICATION HSpec
CONSTANTS
  Hands = {h1, h2}
  Panels = {p1}
  Revs = {r1}
  Sessions = {s1, s2}
  XY = {a, b}
  None = None
  Depths <- MCDepths
  Gaps <- MCGaps
  Views <- MCViews
INVARIANTS ContactMirrorsOS OneAtATime
PROPERTIES ImplementsTouchContract TouchIsDeliberate
