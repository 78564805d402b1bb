\* Heights up to 2, so that the node can fall back and grow again; two validator
\* sets; every refresh comes due within the run.
CONSTANTS
  DumpInterval = 1
  GenesisRefresh = 1
  ValidatorsRefresh = 1
  Contents = {0}
  ValidatorSets = {0, 1}
  MaxHeight = 2
  MaxTime = 1
SPECIFICATION Spec
INVARIANTS ViewCurrent
PROPERTIES BlocksInOrder ValidatorsStayFresh
CHECK_DEADLOCK FALSE
