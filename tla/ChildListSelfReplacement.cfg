SPECIFICATION Spec
CONSTANTS
  Parent = {p, q}
  Elem = {a, b, c}
  Text = {t, u}
  NoNode = NoNode
  MaxNew = 2
SYMMETRY Interchangeable
INVARIANTS
  SelfReplacementKeepsChild
