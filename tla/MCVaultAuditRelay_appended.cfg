SPECIFICATION Spec
CONSTANTS
  MaxRecord = 2
  Oversized = {}
  Splits = {}
  Capacity = 1
  MaxStarts = 1
  MaxConns = 1
CHECK_DEADLOCK FALSE
INVARIANT AppendedIsForwarded
