CONSTANTS
  Slot = {s1, s2}
  Cell = {c1, c2, c3}
  Field = {l, r}
  Null = Null
  Absent = Absent
  Aliased = FALSE
  MayThrow = {"null", "box"}
SPECIFICATION Spec
CHECK_DEADLOCK FALSE
INVARIANTS
  NoDangling
