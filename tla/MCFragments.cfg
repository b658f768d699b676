SPECIFICATION FragmentSpec
CONSTANTS
  MinSize = 2
  Sizes = {3, 4, 5, 6, 7, 8, 9, 10, 11, 12}
  Disks <- SmallDisks
  Cluster = 4
  MaxGap = 8
INVARIANTS  CutFilesKnown 
CHECK_DEADLOCK FALSE
