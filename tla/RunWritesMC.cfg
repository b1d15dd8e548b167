SPECIFICATION FairSpec
CONSTANTS
  MaxCalls = 2
  TurnCap = 1
  MaxSaves = 1
  StepLimit = 2
  ParallelReads = 2
INVARIANTS NoWriteWithoutYes RecordIsTrue ChangesRunAlone
PROPERTY StopEnds
CHECK_DEADLOCK FALSE
