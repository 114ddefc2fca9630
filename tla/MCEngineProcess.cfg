CONSTANTS
  MaxMessages = 2
  MaxSignals = 2
  MaxFaults = 3
SPECIFICATION FairSpec
INVARIANTS TypeOK SettledOrStranded StoppedMeansClosed
PROPERTIES SignalStops Drains
CHECK_DEADLOCK FALSE
