\* A protected file in the selection and another one in the subfolder,
\* two entries of each kind, one failing removal, listing or look at the folder.
SPECIFICATION BatchSpec
CONSTANTS
  a = a
  b = b
  c = c
  d = d
  e = e
  dir = dir
  Directory = dir
  Loose <- LooseFiles
  InRoot <- RootFiles
  InSub <- SubFiles
  ProtectedItems <- ProtectedFile
  MaxSelected = 2
  MaxFaults = 1
INVARIANTS SuccessMeansGone ContentsAccounted
