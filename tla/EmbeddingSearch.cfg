SPECIFICATION MCSpec
CONSTANTS
  m1 = m1
  m2 = m2
  m3 = m3
  h1 = h1
  h2 = h2
  c1 = c1
  c2 = c2
  r1 = r1
  all = all
  global = global
  none = none
  Mem = {m1, m2, m3}
  Candidates <- MCCandidates
  TooLong = {m2}
  ChunkSize = 2
  Adapters <- MCAdapters
  Native = 3
  MaxFaults = 2
  Corpus = {h1, h2}
  Contents = {c1, c2}
  Revs = {r1, none}
  NoRev = none
  MaxOps = 1
  MaxCount = 0
  AnyProject = all
  Global = global
  NoVector = none
  Memories <- MCMemories
  Worlds <- MCWorlds
  Queries <- MCQueries
  Observations <- MCObservations
  RrfK = 60
  SearchLimit = 3
  MaxWrites = 1
  MaxProbes = 2
  MaxFailures = 1
  MaxPages = 5
SYMMETRY Symmetry
INVARIANTS RunSound VerdictHonest HealthHonest PageSound SpaceKept PagesOfOneStream HybridSound
CHECK_DEADLOCK FALSE
