SPECIFICATION Spec
CONSTANTS
  Base = 54
  Multiplier = 4
  Top8 = 16
  Top10 = 18
  TopProg = 32
  Slow = 4
  Fast = 54
  Delays = 5
  Envs <- AllEnvs
INVARIANTS
  ModesAgree
  ClockAsAsked
  TunedBest
CHECK_DEADLOCK FALSE
