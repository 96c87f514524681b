SPECIFICATION FairSpec
CONSTANTS
  MaxRecord = 3
  Oversized = {1}
  Splits = {2}
  Capacity = 1
  MaxStarts = 2
  MaxConns = 2
CHECK_DEADLOCK FALSE
INVARIANTS TypeOK FileOrder ReadIsForwarded
PROPERTY ReadyIsWritten
