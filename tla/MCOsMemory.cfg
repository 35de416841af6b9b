CONSTANTS
  t1 = t1  t2 = t2
  Threads = {t1, t2}
  PAGES = 7
  HUGEAREA = 5
  ALIGN = 2
  Sizes = {3}
  AreaSizes = {3, 4}
  MaxAllocs = 2
  Recommit = TRUE
  Decommits = TRUE
  Users = {t1, t2}
  MAX_ARENAS = 2  MARGIN = 1  SCALE = 1  BLOCK = 4  RESERVE = 8  HUGE_PAGE = 8  NODES = 2
  STATIC_MAX = 5  META = 3  META_ALIGN = 2
  OsStarts = {0, 20, 40, 60}
  Given <- SomeGiven
  AllocRequests <- SomeRequests
  Reservations <- SomeReservations
  HugeRequests = {3}
  DisallowOs = FALSE
  MaxCalls = 3
SPECIFICATION Spec
SYMMETRY ThreadSymmetry
INVARIANTS
  AllocationsOwn
  WantedAccessible
  NothingLeaks
  ArenasSound
