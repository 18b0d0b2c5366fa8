\* Two pipelines of up to two tables, one setting or rule at a time.
CONSTANTS
  Pipes = {p1, p2}
  Threads = {t1}
  Devices <- OneLink
  Profiles <- Metered
  PortProfiles <- Balanced
  TypesMade = {"hash"}
  PortInMax = 1
  PortOutMax = 1
  TableMax = 2
  PipelinesMax = 2
  MeterIds = {"m"}
  MaxUses = 1
  None = None
SPECIFICATION Spec
INVARIANTS TypeOK LibraryAgrees ActsOnOwn TargetsExist
SYMMETRY Twins
