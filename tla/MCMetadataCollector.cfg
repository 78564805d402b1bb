\* Two changes, so that a value can change and change back, also in the middle
\* of a read; one failed read; one lost payload.
CONSTANTS
  ConfigKeys <- TwoKeys
  Configurations <- SmallConfigurations
  MaxWrites = 2
  MaxFailures = 1
  MaxLosses = 1
SPECIFICATION FairSpec
INVARIANTS FilterKnowsFile
PROPERTIES ViewConverges
CHECK_DEADLOCK FALSE
