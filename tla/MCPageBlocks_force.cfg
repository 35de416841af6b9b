CONSTANTS
  b1 = b1  b2 = b2  b3 = b3  b4 = b4  p1 = p1  p2 = p2
  h1 = h1  h2 = h2  t1 = t1  t2 = t2  t3 = t3
  NoPage = NoPage  NoBlock = NoBlock  NoHeap = NoHeap
  Blocks = {b1, b2}
  Pages = {p1}
  PageOf <- SmallPage
  Heaps = {h1, h2}
  NoReclaim = {h2}
  Remotes = {t1}
SPECIFICATION Spec
INVARIANTS
  ForceAbandonSegmentMapped
