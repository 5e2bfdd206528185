SPECIFICATION Spec
CONSTANTS
  Options = {o1, o2}
  NoOptions = none
  MaxCancels = 3
INVARIANT
  CancelHitsCurrent
