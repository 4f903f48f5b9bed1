CONSTANTS
  Work <- Projects
  Jobs = 2
  MaxEdits = 1
  MaxFaults = 1
SPECIFICATION Spec
INVARIANTS
  JobsSound
  BuildComplete
  RegeneratesSame
  MacTargetsSound
