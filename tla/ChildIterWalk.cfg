SPECIFICATION WalkSpec
CONSTANTS
  Parent = {p, q}
  Elem = {a, b, c, d}
  Text = {t, u}
  NoNode = NoNode
  MaxNew = 0
  Source = p
  Dest = q
  MaxLen = 6
  MaxEdits = 3
  CarriesCursor = FALSE
SYMMETRY Relabelings
INVARIANTS
  WalkKeepsOrder
  WalkMissesNothing
CHECK_DEADLOCK FALSE
