\* free takes the order of a block from private of its first page.
SPECIFICATION Spec
CONSTANTS
  MaxOrder = 3
  Pow2 <- PowersOfTwo
  PageCount = 7
  DescOrder = 0
  JunkBusy <- Cleared
  JunkOrders = {0}
  PageOrders = {}
  SysSizes = {1, 2}
INVARIANT NoSharedPage
CHECK_DEADLOCK FALSE
