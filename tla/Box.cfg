CONSTANTS
  Slot = {s1, s2}
  Cell = {c1, c2, c3, c4, c5}
  Field = {l, r}
  Null = Null
  Absent = Absent
  Aliased = FALSE
  MayThrow = {"null"}
SPECIFICATION Spec
SYMMETRY Symmetry
CHECK_DEADLOCK FALSE
INVARIANTS
  TypeOK
  NoDangling
  SingleOwner
  NoLeak
  ValueSemantics
