\* Enough memory for a second largest block.
SPECIFICATION Spec
CONSTANTS
  MaxOrder = 3
  Pow2 <- PowersOfTwo
  PageCount = 8
  DescOrder = 0
  JunkBusy <- Cleared
  JunkOrders = {0}
  PageOrders = {0}
  SysSizes = {}
INVARIANT NoSharedPage
CHECK_DEADLOCK FALSE
