SPECIFICATION FairSpec
CONSTANTS
  Delays <- ShortDelays
  capacity = 2
  Off = Off
  MaxStale = 1
  MaxTime = 5
  MaxAdds = 4
INVARIANTS
  WakesWhenDue
  QueuedOrSentOnce
  InOrderNotEarly
PROPERTIES
  EverythingLeaves
CHECK_DEADLOCK FALSE
