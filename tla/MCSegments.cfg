CONSTANTS
  s1 = s1  s2 = s2  t1 = t1  t2 = t2  NoThread = NoThread
  Addresses = {s1}
  Threads = {t1, t2}
  SLICES = 4  INFO = 1  HUGE = 5  LARGE = 3  VISITS = 1
  PageSizes <- Sizes
  PurgeDelay = 1
  FromArena = {s1}
  FreshMemory <- Memory
  CommitFails = {"page", "segment"}
  ExtendPages = {"single"}
SPECIFICATION Spec
SYMMETRY ThreadSymmetry
INVARIANTS
  SpansSound
  CommitSafe
  BlocksDisjoint
  ZeroIsClean
