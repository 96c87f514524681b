SPECIFICATION FairSpec
CONSTANTS
  Resumes = {"again", "other"}
  MaxMishaps = 2
  PlatformFaults = {"error", "kill", "build"}
  CeremonyFaults = {"error", "kill", "lost"}
  ShellFaults = {"error", "term", "kill"}
INVARIANTS CeremonyOnce PhaseIsTrue ReceiptIsTrue RunnerCoversBuild
PROPERTIES OneAtATime StrandedStays Recovers
CHECK_DEADLOCK FALSE
