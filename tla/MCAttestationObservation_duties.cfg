SPECIFICATION FairSpec
CONSTANTS
  MaxEpoch = 2
  Early <- FirstEarly
  Intervals <- Whole
  Roots = {"a"}
  Required = 1
  Window = 2
  PageObjects = 2
  MaxDuties = 2
  MaxExtra = 1
  MaxFailures = 1
INVARIANTS VerdictIsTrue CheckpointBacked
PROPERTY Completes
CHECK_DEADLOCK FALSE
