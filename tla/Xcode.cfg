CONSTANTS
  Work <- Inputs
  Alphabet <- Letters
  LibNames <- LibX
  MaxFaults = 1
SPECIFICATION GenSpec
INVARIANTS
  TreeSound
  ProjectFaithful
  FilesKept
