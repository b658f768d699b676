CONSTANTS
  Stems <- MCStems
  Dirs <- MCDirs
  FirstFiles <- MCFirstFiles
  Longer <- MCLonger
  Mounts <- MCMounts
  Tombs <- MCTombs
  Targets <- MCTargets
  Outputs <- MCOutputs
  MaxTrash = 2
  MaxErased = 1
  MaxRequests = 2
  MaxMoves = 4
  Broken = Broken
  Gone = Gone
SPECIFICATION ScannerSpec
INVARIANTS KeptApart ListedTrue
CHECK_DEADLOCK FALSE
