CONSTANTS
  p1 = p1
  p2 = p2
  a = a
  c = c
  n = n
  Procs = {p1, p2}
  Objs = {a, c}
  News = {n}
  Graph <- SmallGraph
  Arrays = {a}
  Segmented = {a}
  Base <- BothHaveA
  Held <- NothingHeld
  MayWrite <- P1Writes
  MaxSteps <- TwoStepsOfP1
  Orig = Orig
  Stall = Stall
  Proceed = Proceed
  Nil = Nil
  Cleared = Cleared
SPECIFICATION Spec
INVARIANTS OneReplica ReplicasUpToDate
PROPERTY CopyingEnds
CHECK_DEADLOCK FALSE
