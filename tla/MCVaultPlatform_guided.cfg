SPECIFICATION FairSpec
CONSTANTS
  Faults = {"error", "kill", "orphan"}
  Turns = 12
INVARIANTS AuthorityCoversBuild NeverRepeated EvidenceIsTrue
PROPERTIES Recovers
