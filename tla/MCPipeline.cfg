CONSTANTS
  Dispatchers = {d1, d2, d3}
  Nobody = Nobody
  MaxFaults = 3
SPECIFICATION FairPipeSpec
INVARIANTS PipeTypeOK DuplicatesAccounted KeyExplained CommitExplained
PROPERTIES FateDecided
CHECK_DEADLOCK FALSE
