SPECIFICATION LockSpec
CONSTANTS
  t1 = t1
  t2 = t2
  Thread <- MCThread
  Call <- MCCall
  Doc = {1, 2}
  IterDoc = {1}
  TagDoc = 1
  NoOne = NoOne
  Name = {n1}
  Object = {o1, o2}
  NoObject = NoObject
INVARIANTS
  LockTypeOK
  LockDiscipline
  NoCircularWait
  NoTornRead
  OneObjectPerTag
