\* Two users, a lock after two failures for two seconds, one mishap.
SPECIFICATION SessionSpec
CONSTANTS
  u1 = u1
  u2 = u2
  p1 = p1
  p2 = p2
  Users <- TwoUsers
  Passwords <- TwoPasswords
  Absent = absent
  Threshold = 2
  LockSeconds = 2
  MaxFailures = 3
  MaxTime = 4
  MaxMishaps = 1
SYMMETRY Symmetry
INVARIANTS EnrolledSurvive SessionBacked
PROPERTY LockoutHolds
CHECK_DEADLOCK FALSE
