CONSTANTS
  MaxId = 3
  FirstDocs <- SmallDocs
  MaxChanges = 0
  SweepMin = 2
  Empty = Empty
  Tombstone = Tombstone
  None = None
  Wrapper = {w1, w2}
  Holder = {h1, h2}
  Call = {c1, c2}
  SameNodeMiss = TRUE
SPECIFICATION Spec
INVARIANT IdentityStable
SYMMETRY Symmetry
