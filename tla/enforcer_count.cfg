\* The count of a flow against its packets.
CONSTANTS
  Flows <- OneFlow
  Slots = {1}
  Key <- KeyOfOne
  Slot <- SameSlot
  OneHots <- Rows
  Activates <- NonNegative
  Byte = 256
  HitLo = 1
  HitHi = 3
  CntMod = 1048576
  TouchDrops = FALSE
  InFlight = 1
  MaxPkts = 3
  None = None
SPECIFICATION Spec
INVARIANTS CountsPackets
\* The packets end: MaxPkts.
CHECK_DEADLOCK FALSE
