SPECIFICATION Spec
CONSTANTS
  a = a
  b = b
  d = d
  NoConn = NoConn
  Conn <- TwoConns
  Fd <- FdsFew
  Listener <- OneListener
  MaxEvents = 4
  MaxLag = 1
  MaxBusy = 0
  REQUEST_TIMEOUT = 1
  RESPONSE_TIMEOUT = 1
  CGI_TIMEOUT = 1
  Endings <- Files
SYMMETRY ConnSymmetry
INVARIANT NeverSkipsResponse
CHECK_DEADLOCK FALSE
