SPECIFICATION FairSpec
CONSTANTS
  Client = {c1, c2, c3}
  Idle = Idle
  Startable = {c1, c2}
  PipeSize = 1
  ReadSize = 2
  SendRoom = 1
  MaxOutput = 2
INVARIANT TypeOK
INVARIANT WholeOutput
INVARIANT NoRunaway
PROPERTY StartComesBack
PROPERTY PeerSeesEnd
CHECK_DEADLOCK FALSE
