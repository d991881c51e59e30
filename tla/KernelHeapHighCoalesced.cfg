\* Above 512M: blocks of the lower region are linked before the higher one.
SPECIFICATION Spec
CONSTANTS
  NItems = 6
  Regions <- HighThenLow
  Sizes = {1, 2, 3}
  HeadSize = 0
  HeadStarts = {1}
  FreesNull = FALSE
INVARIANT Coalesced
