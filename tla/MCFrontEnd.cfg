CONSTANTS
  WORD = 2  MAX_ALIGN = 4  SMALL = 8  MEDIUM = 128  MAX_ALLOC = 127  SizeMax = 255
  OS_PAGE = 8  SLICE = 64  SEGMENT = 384  LOOKUP = 12  COLOR3 = 8  COLOR1 = 32
  FIELD_BITS = 3  FIELDS = 2  DIV_BITS = 8  PROBES = 140
  PageSlots = {1, 2}  BigSlot = 3  MaxCapacity = 2  BLOCK_ALIGN_MAX = 16
  Builds <- SomeBuilds
  Ids = {10, 11}
  UsedBound = 8
SPECIFICATION Spec
INVARIANTS
  PointersSound
  SizesRight
