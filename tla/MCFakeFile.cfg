SPECIFICATION FairSpec
CONSTANTS
  Calls <- SmallCalls
  Memory = 12
  MaxCalls = 3
INVARIANTS
  TypeOK
  TextThenNuls
  OneRetrySuffices
PROPERTIES
  ImplementsPrintedText
  CallEnds
