\* Up to 512M: one region, every request is for at least one byte.
SPECIFICATION Spec
CONSTANTS
  NItems = 5
  Regions <- OneRegion
  Sizes = {1, 2, 3}
  HeadSize = 0
  HeadStarts = {1}
  FreesNull = FALSE
INVARIANTS TypeOK Coalesced NullMeansFull HeapInv
PROPERTIES FreeReturns RefinesAllocator
