\* The decision of the second pass against the metadata of the first.
CONSTANTS
  Flows <- OneFlow
  Slots = {1}
  Key <- KeyOfOne
  Slot <- SameSlot
  OneHots <- Rows
  Activates <- NonNegative
  Byte = 256
  HitLo = 1
  HitHi = 3
  CntMod = 1048576
  TouchDrops = FALSE
  InFlight = 1
  MaxPkts = 3
  None = None
SPECIFICATION Spec
INVARIANTS DecisionReusesResult
\* The packets end: MaxPkts.
CHECK_DEADLOCK FALSE
