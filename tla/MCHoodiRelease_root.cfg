SPECIFICATION Spec
CONSTANTS
  Resumes = {"again", "other"}
  MaxMishaps = 2
  PlatformFaults = {"error", "kill", "build"}
  CeremonyFaults = {"error", "kill", "lost"}
  ShellFaults = {"error", "term", "kill"}
INVARIANT ConfiguredMeansRootRevoked
CHECK_DEADLOCK FALSE
