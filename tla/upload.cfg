SPECIFICATION Spec
CONSTANTS
  Requests <- EveryRequest
  OldFiles <- SomeFiles
  MaxSegment = 13
INVARIANT TypeOK
 
INVARIANT CompletesExactly
INVARIANT NothingLost
PROPERTY OnlyGrows
CHECK_DEADLOCK FALSE
