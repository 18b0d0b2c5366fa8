\* Two clients, a buffer of two characters, reads of three.
CONSTANTS
  Clients <- TwoClients
  Text <- TwoTexts
  MsgMax = 2
  BufSize = 3
  None = None
SPECIFICATION Spec
INVARIANTS DamageBounded
PROPERTIES HungUpClosed
\* A write to a client that is gone ends the process.
CHECK_DEADLOCK FALSE
