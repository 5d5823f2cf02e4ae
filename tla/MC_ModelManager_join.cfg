CONSTANTS
  MaxVersion <- MC_MaxVersion
  MaxStarts <- MC_OneStart
  MaxWrites <- MC_OneWrite
  MaxTime <- MC_OneSecond
SPECIFICATION Spec
INVARIANT JoinWaitsForWatcher
CHECK_DEADLOCK FALSE
