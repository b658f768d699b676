CONSTANTS
  Worlds <- MCWorlds
  AskedPaths <- MCTargets
  Pieces <- MCPieces
  Fold <- MCFold
SPECIFICATION ProtectionSpec
INVARIANTS SystemDiskRefused OthersAllowed SystemPathsRefused
CHECK_DEADLOCK FALSE
