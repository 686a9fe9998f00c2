CONSTANTS
  Procs = {p1, p2, p3}
  Phase = 5
  Program <- SemiPara
  MaxRounds = 3
SPECIFICATION Spec
INVARIANTS TypeOK StrongBarrierHolds CounterStillFull OneFirst PollMeansCollection
PROPERTIES EveryCollectionCompletes
CHECK_DEADLOCK FALSE
