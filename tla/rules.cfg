\* Tables with fewer places than keys, bulk files of two rules, packets between the calls.
CONSTANTS
  k1 = k1  k2 = k2  k3 = k3  x1 = x1
  a1 = a1  a2 = a2  e1 = e1  e2 = e2
  None = None
  MatchTypes <- Known
  Keys <- ThreeKeys
  Extras <- OneExtra
  Actions <- TwoActions
  Entries <- TwoEntries
  BulkMax = 2
  MaxPkts = 1
SPECIFICATION Spec
SYMMETRY Symmetry
INVARIANTS TypeOK Distinct DataValid NoHidden StatsOwn
