SPECIFICATION Spec
CONSTANTS
  a = a
  b = b
  d = d
  NoConn = NoConn
  Conn <- ThreeConns
  Fd <- FdsFew
  Listener <- OneListener
  MaxEvents = 4
  MaxLag = 1
  MaxBusy = 0
  REQUEST_TIMEOUT = 0
  RESPONSE_TIMEOUT = 0
  CGI_TIMEOUT = 0
  Endings <- Plain
SYMMETRY ConnSymmetry
INVARIANT TypeOK
INVARIANT TableMatchesKernel
CHECK_DEADLOCK FALSE
