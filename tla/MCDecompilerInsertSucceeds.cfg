SPECIFICATION Spec
CONSTANTS
  Instructions <- SomeInstructions
  Tables <- SomeTables
  Registered <- SomeLists
  PartOf <- MCPartOf
  Names <- MCNames
  Valuations <- SomeValuations
  MaxCount = 2
  MaxFactories = 4
  MaxChanges = 0
CHECK_DEADLOCK FALSE
INVARIANT InsertSucceeds
