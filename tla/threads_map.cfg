\* Two workers with room for two pipelines each and three pipelines that move between them,
\* before and after the workers are launched; statistics are read, but no packet counted.
CONSTANTS
  t1 = t1  t2 = t2  p1 = p1  p2 = p2  p3 = p3
  Threads = {t1, t2}
  Pipelines = {p1, p2, p3}
  PipelinesMax = 2
  MsgqSize = 63
  Counters = {"port_out", "table"}
  MaxPkts = 0
  ConfigureFirst = TRUE
  None = None
SPECIFICATION SafeSpec
SYMMETRY Symmetry
INVARIANTS TypeOK Exclusive OwnerAgrees OneInFlight DisableFinds
