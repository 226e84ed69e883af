SPECIFICATION Spec
CONSTANTS
  ChunkSize = 2
  FileSizes <- AllSizes
  PageSizes <- AllSizes
  ShortSends = TRUE
  Growing = TRUE
INVARIANT TypeOK
INVARIANT WholeAtLeast
INVARIANT DoneMeansDelivered
CHECK_DEADLOCK FALSE
