CONSTANTS
  MaxVersion <- MC_MaxVersion
  MaxStarts <- MC_TwoStarts
  MaxWrites <- MC_OneWrite
  MaxTime <- MC_OneSecond
SPECIFICATION Spec
INVARIANT NoConcurrentLoadConfig
CHECK_DEADLOCK FALSE
