SPECIFICATION FairSpec
CONSTANT Envs <- SignalledEnvs
PROPERTY StandbyReturns
CHECK_DEADLOCK FALSE
