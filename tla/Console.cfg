SPECIFICATION Spec
CONSTANTS
  p1 = p1
  p2 = p2
  p3 = p3
  Procs = {p1, p2}
  Nobody = Nobody
  Stranger = Stranger
  DeadAfter = 2
  Rotations = 2
INVARIANTS
  HolderSaysSo
  UnderItsOwnName
PROPERTY
  AddressIsServed
CHECK_DEADLOCK FALSE
