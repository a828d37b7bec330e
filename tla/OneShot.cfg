CONSTANTS
  Slot = {s1, s2, s3}
  Target = {t1, t2, t3, t4, t5}
  Null = Null
  Absent = Absent
SPECIFICATION Spec
SYMMETRY Symmetry
CHECK_DEADLOCK FALSE
INVARIANTS
  TypeOK
  NoDangling
  SingleOwner
  NoLeak
  CalledAtMostOnce
