\* Less memory than one largest block.  Blocks of page_alloc come back with the order
\* they were taken with; alloc is asked only for what no block has to be split for.
SPECIFICATION Spec
CONSTANTS
  MaxOrder = 3
  Pow2 <- PowersOfTwo
  PageCount = 7
  DescOrder = 0
  JunkBusy <- Junk
  JunkOrders = {0, 1}
  PageOrders = {0, 1}
  SysSizes = {3, 4}
INVARIANTS NoSharedPage PagesConserved
PROPERTIES RefinesAllocator
