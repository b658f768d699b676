\* Seven bytes in three chunks of two with an overlap of two, at most two headers.
SPECIFICATION Spec
CONSTANTS
  Size = 7
  Chunk = 2
  MaxHeader = 2
  Signatures <- TwoSignatures
  NoContent = none
  Listings <- SomeListings
  MaxHeaders = 2
  MaxFaults = 1
INVARIANTS
  ScanExact
  CarvedApart
  NothingLost
  HashesTrue
PROPERTY Terminates
