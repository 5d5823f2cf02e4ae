CONSTANTS
  MaxVersion <- MC_MaxVersion
  MaxStarts <- MC_OneStart
  MaxWrites <- MC_OneWrite
  MaxTime <- MC_OneSecond
SPECIFICATION FairSpec
PROPERTY ConfigChangeEventuallyLoaded
CHECK_DEADLOCK FALSE
