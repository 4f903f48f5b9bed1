SPECIFICATION Spec
CONSTANTS
  Flags <- SomeFlags
  Special <- SomeSpecial
  Def <- SomeDef
  Modules = {"main", "lib"}
  Numerals <- SomeNumerals
  Programs <- SmallPrograms
INVARIANTS
  RegistrySound
  ParsedAsWritten
PROPERTIES
  CallsKeepTheirWord
CHECK_DEADLOCK FALSE
