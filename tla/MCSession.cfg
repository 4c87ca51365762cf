SPECIFICATION FairSpec
CONSTANT Envs <- AllEnvs
INVARIANTS
  UsesWhatExists
  SignalsAgree
PROPERTIES
  AnswersSeen
  StandbyWakes
CHECK_DEADLOCK FALSE
