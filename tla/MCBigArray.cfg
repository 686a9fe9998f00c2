SPECIFICATION Spec
CONSTANTS
  StackProcs = {s1, s2}
  StackThreads = {t1, t2}
  NumStacklet = 3
  MaxSnapshots = 2
  Raises = FALSE
  AreaProcs = {a1, a2}
  HeapSize = 8
  Page = 2
  MaxOffRequest = 4
  MinRegion = 0
  Requests = {1, 2, 5}
  Survivors = {0, 2}
  CopyProcs = {c1, c2}
  PageSize = 8
  ChunkSize = 6
  Copies <- MCCopies
  MaxCopies = 4
  MaxMinors = 2
  NumChunk = 6
  LargeChunk = 4
  Arrays <- MCArrays
  MaxArrays = 4
  MutatorsRun = FALSE
  InitialSize = 16
  MaxItems = 20
  MaxStamp = 27
  MinHeapByte = 16
  MaxHeapByte = 48
  Kb = 2
  MinRatio = 20
  MaxRatio = 80
  MinRatioSize = 2
  MaxRatioSize = 10
  MinOnRequest = 4
  CollectionRate = 2
  NumProcs = 1
  NurseryByte = 12
  MinAllocRegion = 1
  SmallBlocks <- MCSmall
  BigArrays = {10, 20}
  MaxBlocks = 4
SYMMETRY Symmetry
INVARIANT BigArrayGetsSpace
CHECK_DEADLOCK FALSE
