SPECIFICATION Spec
CONSTANTS
  Servers <- FullServers
  Disks <- SomeDisks
  Requests <- EveryRequest
  MaxUrlLength = 11
INVARIANT TypeOK
 
INVARIANT RoundTrip
INVARIANT DeletedIsGone
INVARIANT LookupsAgree
INVARIANT MethodsHeld
INVARIANT Survives
CHECK_DEADLOCK FALSE
