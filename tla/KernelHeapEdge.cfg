\* Fewer slots than blocks, requests an exhausted heap cannot serve, and callers that
\* free the NULL they may get for them.
SPECIFICATION Spec
CONSTANTS
  NItems = 3
  Regions <- OneRegion
  Sizes = {1, 2}
  HeadSize = 1
  HeadStarts = {0, 4}
  FreesNull = TRUE
INVARIANT NoOverlap
\* an allocator whose list head was treated as an item stops here
CHECK_DEADLOCK FALSE
