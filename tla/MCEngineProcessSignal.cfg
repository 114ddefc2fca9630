CONSTANTS
  MaxMessages = 1
  MaxSignals = 1
  MaxFaults = 0
SPECIFICATION Spec
INVARIANT FlaggedIsBroadcast
CHECK_DEADLOCK FALSE
