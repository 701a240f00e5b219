SPECIFICATION Spec
CONSTANTS
  b1 = b1  b2 = b2  h1 = h1  h2 = h2  h3 = h3
  None = None
  Builders = {b1, b2}
  Hashes = {h1, h2, h3}
  Mirror = {h2}
  MaxBuilds = 3
  MaxScans = 1
  MaxKills = 1
INVARIANTS StampedWhole
PROPERTIES NeverEmpties UsedStays BuildEnds
CHECK_DEADLOCK FALSE
