SPECIFICATION Spec
CONSTANTS
  Sources <- AllSources
  Layouts = {"attached", "apart", "remarks"}
  Cuts = {TRUE, FALSE}
  HostOf <- Host
  NumberOf <- Number
  InetAddr <- Addr
  Bindable <- Here
  PortBound = 100
  Taken <- Busy
  FirstFd = 4
  LastFd = 5
INVARIANT TypeOK
INVARIANT ReadAsMeant
INVARIANT WholeFileRead
INVARIANT ListensServed
CHECK_DEADLOCK FALSE
