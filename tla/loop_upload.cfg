SPECIFICATION Spec
CONSTANTS
  a = a
  b = b
  d = d
  NoConn = NoConn
  Conn <- TwoConns
  Fd <- FdsSome
  Listener <- OneListener
  MaxEvents = 4
  MaxLag = 1
  MaxBusy = 0
  REQUEST_TIMEOUT = 0
  RESPONSE_TIMEOUT = 0
  CGI_TIMEOUT = 0
  Endings <- Uploads
SYMMETRY ConnSymmetry
INVARIANT UploadTracked
INVARIANT SocketServed
CHECK_DEADLOCK FALSE
