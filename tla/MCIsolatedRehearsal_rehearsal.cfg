SPECIFICATION Spec
CONSTANTS
  r1 = r1
  r2 = r2
  original = original
  Runs = {r1, r2}
  Original = original
  Quorum = 2
  Faults = {"lost", "kill", "reboot", "exit"}
  MaxMishaps = 1
SYMMETRY Symmetry
INVARIANTS Fenced CleanupIsTrue PassMeansClean
PROPERTIES AcceptsOwnVault
CHECK_DEADLOCK FALSE
