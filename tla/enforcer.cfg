\* Two flows that share a slot, two packets at a time on their way through the recirculation
\* port; narrow accumulators, so that a run of equal packets comes to the edge of their range.
CONSTANTS
  Flows <- TwoFlows
  Slots = {1}
  Key <- KeyOfTwo
  Slot <- SameSlot
  OneHots <- Rows
  Activates <- NonNegative
  Byte = 8
  HitLo = 1
  HitHi = 3
  CntMod = 1048576
  TouchDrops = TRUE
  InFlight = 2
  MaxPkts = 7
  None = None
SPECIFICATION Spec
INVARIANTS TypeOK PerFlowState SignedState OwnDecision
PROPERTIES Frozen
\* The packets end: MaxPkts.
CHECK_DEADLOCK FALSE
