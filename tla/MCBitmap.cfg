CONSTANTS
  t1 = t1  t2 = t2
  Threads = {t1, t2}
  N = 3
  FieldBits = 3
  Counts = {2, 3, 7}
  Leftover = 1
SPECIFICATION Spec
SYMMETRY Symmetry
INVARIANTS
  ClaimsDisjoint
  BitmapExact
  ScanFindsFirst
