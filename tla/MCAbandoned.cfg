CONSTANTS
  t1 = t1  t2 = t2  os1 = os1  os2 = os2  os3 = os3  d1 = d1  d2 = d2  p1 = p1  p2 = p2  Nobody = Nobody
  Threads = {t1, t2}
  ArenaSegments = {0}
  OsSegments = {os1, os2, os3}
  BeyondMap = {os3}
  Subprocs = {p1, p2}
  DefaultSubproc = p1
  BLOCKS = 1
  Datas = {d1, d2}
  Slots = {1}
  Kinds = {"reclaim", "force", "visit"}
  VisitAbandoned = TRUE
SPECIFICATION MCSpec
SYMMETRY Symmetry
INVARIANTS
  OneHolder
  CountExact
  FreeingPins
  MapExact
  DataUnique
