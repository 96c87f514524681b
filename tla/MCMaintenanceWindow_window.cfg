SPECIFICATION Spec
CONSTANTS
  Ceremonies = {c1}
  Activations = {a1}
  NoOne = NoOne
  Delayable = {}
  MaxDrifts = 1
CHECK_DEADLOCK FALSE
INVARIANTS RoleAbsentUnderMarker QuiescedWhileRoleAbsent
PROPERTIES ReleasedIsSafe ProbeCompleteIsTrue RolledBackIsDown
