SPECIFICATION Spec
CONSTANTS
  Letters = {u}
  MaxChars = 2
  MaxCalls = 4
INVARIANTS
  TypeOK
  StuckMeansPoisoned
  KeepsContract
  ReleasesOnlyPressed
PROPERTIES
  PressesOnCleanKeyboard
  EveryDispatchReturns
