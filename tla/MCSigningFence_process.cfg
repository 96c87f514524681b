SPECIFICATION FairSpec
CONSTANTS
  Fences = {fA}
  Conns = {k1}
  Operator = operator
  None = None
  Poll = 1
  Timeout = 0
  Margin = 1
  MaxAge = 1
  HandoverMargin = 0
  Durations = {2, 3}
  Skew = 1
  MaxTime = 3
  MaxStarts = 1
  MaxVersion = 2
  MaxClients = 2
  Address <- SharedAddress
  Removable = {fA}
CHECK_DEADLOCK FALSE
INVARIANTS AuthorityUnderLease ClosedWhenDone
PROPERTIES HandoverOnlyWhenSilent LapseLeadsToExit StrangerLeadsToExit
