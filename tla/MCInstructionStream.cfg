SPECIFICATION Spec
CONSTANTS
  Files <- SomeFiles
  instr_sequence <- MCSequence
  Seed <- MCSeed
  MaxRuns = 2
  MaxObservers = 3
CHECK_DEADLOCK FALSE
INVARIANTS
  TypeOK
  EverySubscriberSeesTheRest
  SequencesAreFound
  HeadersNameTheInstruction
