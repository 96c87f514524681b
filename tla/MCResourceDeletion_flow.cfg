SPECIFICATION FairSpec
CONSTANTS
  Resources <- MCResources
  Kind <- MCKind
  Uses <- MCUses
  Proof <- MCProof
  Late = {"claim"}
  Faults = {"denied", "lost", "timeout", "kill", "retained", "handover", "create"}
  MaxMishaps = 2
INVARIANTS RecoveryStateLast SuccessIsTrue
PROPERTIES Recovers
