CONSTANTS
  t1 = t1  t2 = t2
  None = None
  Threads = {t1}
  BlockCount = 1
  Sizes = {1}
  Options <- Delayed
  MaxLag = 0
SPECIFICATION FairSpec
PROPERTIES
  ScheduledIsPurged
