CONSTANTS
  Folder = "folder"
  Image = "image"
  System = "system"
  Device = "device"
  Missing = "missing"
  Newcomer = "c"
  Entries <- MCEntries
  Selections <- MCSelections
  FirstImages <- MCFirstImages
  OtherImage <- MCOtherImage
  SampleCells = 1
  MaxMeddling = 1
  MaxJobs = 2
  MaxEdits = 8
SPECIFICATION Spec
INVARIANTS ChosenOnly SuccessTrue
PROPERTY EofLeaves
CHECK_DEADLOCK FALSE
