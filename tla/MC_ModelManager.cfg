CONSTANTS
  MaxVersion <- MC_MaxVersion
  MaxStarts <- MC_TwoStarts
  MaxWrites <- MC_OneWrite
  MaxTime <- MC_OneSecond
SPECIFICATION FairSpec
INVARIANT AtMostOneWatcher
PROPERTY WatcherStopsAfterJoin
CHECK_DEADLOCK FALSE
