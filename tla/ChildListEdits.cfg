SPECIFICATION Spec
CONSTANTS
  Parent = {p, q}
  Elem = {a, b, c, d}
  Text = {t, u, v}
  NoNode = NoNode
  MaxNew = 2
SYMMETRY Interchangeable
INVARIANTS
  TypeOK
  EditsAgreeWithList
  SlicesAgreeWithList
