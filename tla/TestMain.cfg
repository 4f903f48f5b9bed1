SPECIFICATION FairSpec
CONSTANTS
  MaxCases = 2
  MaxTasks = 2
  Codes <- MCCodes
  Messages <- MCMessages
  Writers = {1}
  Faults = {"popen", "print", "interrupt"}
  Suites <- MCSuites
  StatusFiles <- MCStatusFiles
  Commands <- MCCommands
INVARIANTS
  VerdictSound
  OwnsWhatItUses
  StatusHonoured
PROPERTIES
  MainEnds
CHECK_DEADLOCK FALSE
