CONSTANTS
  Caller = {c1, c2}
  NoCaller = NoCaller
  MaxInner = 4
  Job <- Jobs
SPECIFICATION Spec
INVARIANTS
  TypeOK
  DeliversEverything
  ShowsItsElement
  TreeIsTheInput
  ClearedStaysEmpty
  TextIsMerged
PROPERTY
  EveryLoopEnds
CHECK_DEADLOCK FALSE
