SPECIFICATION FairSpec
CONSTANTS
  ChunkSize = 3
  FileSizes <- OddSizes
  PageSizes <- OddSizes
  ShortSends = FALSE
  Growing = FALSE
PROPERTY Delivers
CHECK_DEADLOCK FALSE
