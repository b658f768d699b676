\* One erase of a file of at most two blocks, among two names and two
\* files, with two steps of other programs and one failing system call.
SPECIFICATION Spec
CONSTANTS
  Files = {target, other, system}
  SysFile = system
  Names = {n1, n2}
  Target = n1
  Nothing = nothing
  Symlink = symlink
  Methods <- AllMethods
  MaxBlocks = 2
  MaxMeddles = 2
  MaxFaults = 1
INVARIANTS
  ProtectedUntouched
  ReleasedOverwritten
  GoneWhenReported
CHECK_DEADLOCK FALSE
