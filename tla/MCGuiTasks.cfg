\* Two views, three tasks asked for, a registry of one file.
SPECIFICATION Spec
CONSTANTS
  Views <- TwoViews
  MaxClicks = 3
  MaxFiles = 1
INVARIANTS
  UiNeverWaits
  ResultsFresh
  MembersOutliveTasks
PROPERTY RunnerFreed
CHECK_DEADLOCK FALSE
