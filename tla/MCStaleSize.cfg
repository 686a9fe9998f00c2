CONSTANTS
  t1 = t1
  t2 = t2
  r1 = r1
  r2 = r2
  o1 = o1
  o2 = o2
  o3 = o3
  Procs = {p1, p2}
  Size = 3
  Threads = {t1}
  Items <- EightItems
  NoItem = NoItem
  NoProc = NoProc
  FetchSize <- DefaultFetch
  RootKind = 1
  ObjKind = 2
  Capacity = 17
  RootsOf <- OneThread
  Fields <- OneEach
SPECIFICATION Spec
PROPERTY PopsNeverIncrement
CHECK_DEADLOCK FALSE
