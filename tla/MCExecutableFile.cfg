SPECIFICATION Spec
CONSTANTS
  Objects = {a, b}
  Files <- SomeFiles
  MaxOpens = 2
  MaxTables = 2
SYMMETRY AnyObject
INVARIANTS
  TypeOK
  OneOwner
  OwnerIsValid
  TableIsWellFormed
  EverySymbolOnce
  ParentsAlive
  OwnerHoldsItsFile
  OwnerSectionsDescend
PROPERTIES
  LeaksOnlyByAssignment
  ImplementsOpenedFile
