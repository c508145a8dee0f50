SPECIFICATION MCSpec
CONSTANTS
  Procs = {"loop", "run-once"}
  Timeout = 1
  Drain = 1
  SourceMaxAge = 1
  ClockSkew = 0
  StaleAfter = 1
  Window = 2
  DayLength = 2
  FirstTick = 1
  LastTick = 4
  MaxFaults = 1
INVARIANT OffsiteSound
PROPERTY RunEnds
CHECK_DEADLOCK FALSE
