\* Two cases, two sources (one named like a temporary file), two items.
SPECIFICATION Spec
CONSTANTS
  disk1 = disk1
  disk2 = disk2
  disk3 = disk3
  image = image
  imageTmp = imageTmp
  imageTmpTmp = imageTmpTmp
  Cases = {case1, case2}
  Sources = {disk1, disk3}
  Names <- AllNames
  NameOf <- ThreeSources
  Tmp <- TmpNames
  Contents = {x, y}
  Absent = absent
  Partial = partial
  NoHash = nohash
  NoCase = nocase
  MaxItems = 2
  MaxChanges = 1
  MaxFaults = 1
  MaxRestarts = 1
SYMMETRY Symmetry
INVARIANTS
  WholeEvidence
  CatalogBacked
  FailureLeavesNothing
PROPERTY StoredAsHashed
CHECK_DEADLOCK FALSE
