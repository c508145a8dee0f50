SPECIFICATION MCSpec
CONSTANTS
  Requests = {"r1", "r2", "r3"}
  Clients = {"c1", "c2"}
  Inputs <- MCGuardInputs
  ApiHosts <- MCAnyPort
  McpHosts <- MCAnyPort
  KeySet = TRUE
  CorsOn = TRUE
  Rpms = {0, 1, 2}
  Window = 4
  TicksPerSecond = 2
  MaxTime = 5
  Threads = {"t1", "t2", "t3"}
  Scrapers = {"s1", "s2"}
  Kinds = {"http", "inflight"}
  MaxEntries = 2
  MaxPayload = 2
  MaxOps = 3
  MaxScrapes = 3
  MaxFailures = 3
INVARIANTS OnlyAdmittedRun LimiterSound AccountsExact RecorderSound
CHECK_DEADLOCK FALSE
