\* Bitmaps on page frames that hold anything.
SPECIFICATION HandleSpec
CONSTANTS
  Tables = 3
  Items = 5
  Junk <- AnyJunk
INVARIANT HandlesUnique
