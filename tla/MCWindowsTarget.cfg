SPECIFICATION Spec
CONSTANTS
  Keys = {k1}
  Pids = {p1, p2}
  Tops = {w1, w2}
  Controls = {c1, c2}
  OwnRid = 1
  Rids = {1, 2}
  None = None
  MaxChanges = 4
  MaxAssess = 1
SYMMETRY Interchangeable
INVARIANTS
  TypeOK
  SafeAtOneMoment
  QuietVerdict
CHECK_DEADLOCK FALSE
