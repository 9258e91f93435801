CONSTANTS
  MaxId = 4
  FirstDocs <- SmallDocs
  MaxChanges = 2
  SweepMin = 2
  Empty = Empty
  Tombstone = Tombstone
  None = None
  Wrapper = {w1, w2}
  Holder = {h1, h2}
  Call = {c1, c2}
  SameNodeMiss = FALSE
SPECIFICATION Spec
INVARIANTS TypeOK TablesOK HitsAreAccurate IdentityStable
PROPERTIES MoveTakesAllWrappers WrappersFollowTheirNode
SYMMETRY Symmetry
ACTION_CONSTRAINT CopiesInOrder
CONSTRAINT FewWrappers
