SPECIFICATION ExtendSpec
CONSTANTS
  Parent = {p, q}
  Elem = {a, b, c}
  Text = {t, u}
  NoNode = NoNode
  MaxNew = 0
  Source = p
  Dest = q
  MaxLen = 5
  MaxEdits = 2
  CarriesCursor = TRUE
INVARIANTS
  ExtendMovesEveryChild
CHECK_DEADLOCK FALSE
