SPECIFICATION Spec
CONSTANTS
  Sectors = 3
  Sector = 4
  Word = 2
  Wrap = 12
  Envs <- AllEnvs
INVARIANTS
  AgreeOnLength
  StreamsAreStopped
PROPERTIES
  TouchesOnlyAsked
  OkMeansDone
CHECK_DEADLOCK FALSE
