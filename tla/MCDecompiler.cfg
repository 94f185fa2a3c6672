SPECIFICATION FairSpec
CONSTANTS
  Instructions <- SomeInstructions
  Tables <- SomeTables
  Registered <- SomeLists
  PartOf <- MCPartOf
  Names <- MCNames
  Valuations <- SomeValuations
  MaxCount = 3
  MaxFactories = 4
  MaxChanges = 1
CHECK_DEADLOCK FALSE
INVARIANTS
  TypeOK
  TemporariesDefined
  CallsShareResult
  FunctionsByAddress
PROPERTIES
  InstructionEnds
  ImplementsFlagMachine
