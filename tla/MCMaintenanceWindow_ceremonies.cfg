SPECIFICATION FairSpec
CONSTANTS
  Ceremonies = {c1, c2}
  Activations = {}
  NoOne = NoOne
  Delayable = {"create", "delete", "write"}
  MaxDrifts = 0
CHECK_DEADLOCK FALSE
PROPERTIES OnlyHolderMutates CeremonyEnds
