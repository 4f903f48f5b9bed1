SPECIFICATION Spec
CONSTANTS
  Dashes <- MCDashes
  Absolute <- MCAbsolute
  SplitExt <- MCSplitExt
  ConfigOrder <- MCConfigOrder
  Generator <- MCGenerator
  Ref <- MCRef
  Automatic <- MCAutomatic
  Canonical <- MCCanonical
  Output <- MCOutput
  MaxDepth = 11
INVARIANTS
  SortedForGenerators
  GivenByOthers
  AnyOrder
  ResolvedAsIntended
PROPERTIES
  LastWordCounts
