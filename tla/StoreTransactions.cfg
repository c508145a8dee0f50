SPECIFICATION FairSpec
CONSTANTS
  server = server
  cli = cli
  t1 = t1
  t2 = t2
  t3 = t3
  p1 = p1
  p2 = p2
  m1 = m1
  m2 = m2
  w1 = w1
  NoProject = NoProject
  NoOne = NoOne
  NoChange = NoChange
  Threads <- MCThreads
  Processes = {server, cli}
  Runs <- MCRuns
  Projects <- MCProjects
  Memories <- MCMemories
  Home <- MCHome
  Watermarks = {w1}
  Envelopes <- MCEnvelopes
  Kinds <- MCKinds
  MaxRetries = 1
  MaxRequests = 2
INVARIANTS NoOrphans
PROPERTIES AtomicSpec RequestsEnd
CHECK_DEADLOCK FALSE
