SPECIFICATION FairSpec
CONSTANTS
  Images <- AllImages
  MaxRuns = 2
  IntRange = 16
  Top = 31
INVARIANTS
  TypeOK
  BlocksFollowLeaders
  BlockBeginsAtItsId
  ViewsInsideBuffers
  AscendingStream
  TextIsOfAddress
PROPERTIES
  ImplementsPromise
  ThrowsBeforeFirstInstruction
  CallReturns
  DeliversPromise
CHECK_DEADLOCK FALSE
