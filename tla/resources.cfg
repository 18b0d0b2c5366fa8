\* Up to four nodes, two ports (one with a RETA), one crypto device.
CONSTANTS
  NamesOf <- Names
  Ports = {p1, p2}
  RssPorts = {p1}
  MaxRxQueues = 1
  Devs = {d1}
  NSubports = 1
  NPipes = 2
  Requests <- Asked
  EtherMaxLen = 1
  ProfileMax = 2
  MaxNodes = 4
  None = None
SPECIFICATION Spec
INVARIANTS TypeOK Owned
PROPERTIES FailedChangesNothing RequestServed
