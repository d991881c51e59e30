SPECIFICATION MachineSpec
CONSTANTS
  Lines = {0, 8, 9}
  MaxRequests = 2
  Contexts = {0, 1, 2}
  Width = 3
  QueueItems = {p, q}
  QueueMax = 3
  MaxNesting = 2
  NoItem = none
  StackItems = {p, q}
  StackMax = 4
  Total = 4
  MaxTry = 4
  Keys <- CollidingKeys
  Values = {p, q}
  NoValue = none
  Heads = {h1, h2}
  Nodes = {x1, x2, x3}
  NULL = null
  NoEntry = none
  MaxCount = 7
  GdtSize = 9
  Requests <- SomeRequests
  Vectors = {32}
  Handlers = {1}
  GateKinds <- SomeGates
  Sectors = 3
  HeadCount = 2
  Cylinders = 1024
  Starts = {1, 1600}
  LoaderStart = 1
  KernelStart = 3
  BiosMaps <- SomeMaps
  Samples <- SomeNumbers
  BcdBytes <- AllBytes
  Tables = 3
  Items = 5
  Junk <- AnyJunk
  Files <- SomeFiles
  KernelSizes = {1024, 4096, 8192}
INVARIANTS
  NoReentry NoLostMask LastShareSeen LentIntact ItemsKept OneKeyOnePair GetFindsAll
  ListInv RingCloses SearchIsRight IndexOwned SegmentsExact RightLoaded
  SizeFound LayoutApart KernelMapped DigitsRight HandleInv FirstTableUnique KernelSeesItself
PROPERTIES
  Served DelFromFullReturns RefinesQueue RefinesMap RefinesList BitmapIsExact
CHECK_DEADLOCK FALSE
