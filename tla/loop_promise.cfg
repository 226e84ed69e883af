SPECIFICATION FairSpec
CONSTANTS
  a = a
  b = b
  d = d
  NoConn = NoConn
  Conn <- TwoConns
  Fd <- FdsTwoCgi
  Listener <- OneListener
  MaxEvents = 4
  MaxLag = 1
  MaxBusy = 0
  REQUEST_TIMEOUT = 1
  RESPONSE_TIMEOUT = 0
  CGI_TIMEOUT = 0
  Endings <- Scripts
INVARIANT KeepsRunning
PROPERTY KeepsPromise
CHECK_DEADLOCK FALSE
