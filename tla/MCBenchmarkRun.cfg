SPECIFICATION Spec
CONSTANTS
  Options = {o1}
  NoOptions = none
  MaxScored = 2
  MaxWorkers = 2
INVARIANTS
  TypeOK
  SuccessIsWhole
  EngineIsReleased
  EverySampleIsTold
  ExitTellsAnswer
  SuccessIsEarned
  ResultFileIsWhole
