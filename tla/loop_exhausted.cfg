SPECIFICATION Spec
CONSTANTS
  a = a
  b = b
  d = d
  NoConn = NoConn
  Conn <- TwoConns
  Fd <- FdsCgi
  Listener <- OneListener
  MaxEvents = 4
  MaxLag = 1
  MaxBusy = 1
  REQUEST_TIMEOUT = 1
  RESPONSE_TIMEOUT = 0
  CGI_TIMEOUT = 0
  Endings <- FilesOrScripts
SYMMETRY ConnSymmetry
INVARIANT SocketServed
INVARIANT NoDescriptorLeak
INVARIANT ServedInTime
PROPERTY ScriptKilled
CHECK_DEADLOCK FALSE
