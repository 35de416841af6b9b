CONSTANTS
  t1 = t1  t2 = t2  t3 = t3  s1 = s1  s2 = s2  p1 = p1  p2 = p2  b1 = b1  b2 = b2  b3 = b3  m1 = m1  m2 = m2
  Threads = {t1, t2, t3}
  PAGE = 4  GRAIN = 8  SIZE_MAX = 63  ALIGN = 2
  Capacities = {5, 9, 58, 61}
  Requests <- SomeRequests
  VecSizes = {0, 3, 9, 59}
  VecAligns = {1, 2, 8}
  VecCounts = {2, 3}
  VecStarts = {4, 8}
  VecCommitFails = {"alloc"}
  SLOTS = 3
  Slabs = {s1, s2}
  NoSlab = NoSlab
  BatchPages = {p1, p2}
  BatchBlocks = {b1, b2, b3}
  BatchPageOf <- PageOfBlock
  BatchOwner <- OneOwner
  BucketOf <- OneBucket
  NoPageB = NoPageB
  MaxBatch = 3
  Clients = {c1, c2}  Worker = w  NoThread = NoThread  Loader = c1  MaxCount = 3
  Talkers = {m1, m2}  Main = m1  MAX_DELAY = 4  Lens = {2}  MaxErrors = 0  MaxMessages = 2  MaxSets = 1
  Environments <- SomeEnvironments
  Says <- WhoSays
SPECIFICATION Spec
SYMMETRY VectorSymmetry
INVARIANTS
  VectorsUsable
  BatchFreesOnce
  LifecycleSafe
  MessagesSound
