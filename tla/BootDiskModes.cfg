\* The boot sector and the loader choose how to read the disk, each for itself.
SPECIFICATION DiskSpec
CONSTANTS
  Sectors = 3
  HeadCount = 2
  Cylinders = 1024
  Starts = {1, 1600}
  LoaderStart = 1
  KernelStart = 3
INVARIANT ModesApart
CHECK_DEADLOCK FALSE
