SPECIFICATION Spec
CONSTANTS
  Words <- MCWords
  Numeral <- MCNumeral
  Bare <- MCBare
  Functions <- MCFunctions
  Held <- MCHeld
  Instructions <- SomeInstructions
  MaxDepth = 2
CHECK_DEADLOCK FALSE
INVARIANTS
  TypeOK
  OperandsHaveSymbols
  EverySubscriberGetsAll
  UnmixedMeansAsWritten
  NamesMeanTheSame
