SPECIFICATION Spec
CONSTANTS
  Fences = {fA, fB}
  Conns = {k1}
  Operator = operator
  None = None
  Poll = 1
  Timeout = 0
  Margin = 1
  MaxAge = 1
  HandoverMargin = 9
  Durations = {3}
  Skew = 1
  MaxTime = 3
  MaxStarts = 1
  MaxVersion = 1
  MaxClients = 2
  Address <- SharedAddress
  Removable = {}
CHECK_DEADLOCK FALSE
SYMMETRY FenceSymmetry
INVARIANTS IndInv ExclusiveForwarding
PROPERTIES ImplementsExclusiveSigner
