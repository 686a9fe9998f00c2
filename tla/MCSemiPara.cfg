CONSTANTS
  t1 = t1
  t2 = t2
  r1 = r1
  r2 = r2
  o1 = o1
  o2 = o2
  o3 = o3
  Procs = {p1, p2}
  Size = 3
  Threads = {t1, t2}
  Items = {r1, r2, o1, o2, o3}
  NoItem = NoItem
  NoProc = NoProc
  FetchSize <- TwoSets
  RootKind = 1
  ObjKind = 2
  Capacity = 6
  RootsOf <- TwoThreads
  Fields <- SmallGraph
SPECIFICATION Spec
INVARIANTS TypeOK WorkConserved EmptyMeansDone EmptyAfterCollection
PROPERTY CollectionEnds
CHECK_DEADLOCK FALSE
