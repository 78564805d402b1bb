CONSTANTS
  Tables = {c1, c2, c3}
  Invalid = Invalid
SPECIFICATION ReloadSpec
INVARIANTS ReloadNotLost
PROPERTIES EditTakesEffect
