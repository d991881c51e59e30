SPECIFICATION SpaceSpec
CONSTANTS
  room1 = room1
  room2 = room2
  b1 = b1
  b2 = b2
  b3 = b3
  kernel = kernel
  NULL = NULL
  kernel_space = kernel
  Heads <- TwoRooms
  Nodes <- ThreeBlocks
  Templates <- SomeTemplates
  Entries = 4
  KernelPages = 1
  MaxAdds = 3
  UserPages = 6
SYMMETRY BlockSymmetry
INVARIANTS NewestListed PagesApart
PROPERTIES SwitchMaps
CHECK_DEADLOCK FALSE
