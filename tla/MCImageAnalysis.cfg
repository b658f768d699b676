SPECIFICATION AnalysisSpec
CONSTANTS
  U64 = 64
  U32 = 32
  MaxExtract = 20
  MaxCluster = 8
  Bad = 50
  Fat32Clusters = 60
  DirGuard = 3
  ChainGuard = 6
  ChunkRecords = 2
  MaxRecords = 6
  MaxActive = 3
  MaxDeleted = 3
  RunSlack = 1
  Disks <- SmallDisks
  Media <- SmallMedia
  SectorSizes = {0, 1, 2, 4}
  Addresses = {0, 1, 2, 3, 4, 5, 7, 8, 15, 16}
  Lengths = {0, 1, 2, 3, 4, 8, 32, 33}
INVARIANTS VolumeFound LivingFilesWhole DeletedFilesBegin NothingForeign ReadsExact
CHECK_DEADLOCK FALSE
