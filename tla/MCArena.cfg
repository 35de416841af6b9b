CONSTANTS
  t1 = t1  t2 = t2
  None = None
  Threads = {t1, t2}
  BlockCount = 2
  Sizes = {1, 2}
  Options <- AllOptions
  MaxLag = 1
SPECIFICATION Spec
SYMMETRY Symmetry
INVARIANTS
  OneOwner
  UsableIsCommitted
  CommittedIsCommitted
  NoneScheduled
  ZeroIsUnused
