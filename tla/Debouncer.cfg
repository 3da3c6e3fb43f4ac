CONSTANTS
  MaxValues = 4
  MaxFired = 2
SPECIFICATION DebouncerLiveSpec
INVARIANTS
  OneWriter
  PendingIsWatched
  FlushedThenSaved
PROPERTIES
  StoredAdvances
  ScheduledIsStored
CHECK_DEADLOCK FALSE
