\* A leader whose first rounds are on their way, reads, a rival, and either a
\* crash (read_index) or clocks and a stopped one (lease).
CONSTANTS
  s1 = s1
  s2 = s2
  s3 = s3
  s4 = s4
  Nil = Nil
  Server = {s1, s2, s3}
  InitialMembers = {s1, s2, s3}
  Client = {}
  PreVoteOn = FALSE
  LeaderStickiness = TRUE
  NoopOnElect = TRUE
  MembershipChanges = FALSE
  SnapshotThreshold = 0
  MaxEntriesPerAppend = 1
  ReadModes = {"read_index", "lease"}
  ElectionMin = 1
  MaxElections = 1
  Electable = {s2}
  MaxReads = 1
  MaxRounds = 1
  MaxTime = 1
  MaxRestarts = 1
  MaxFreezes = 1
  Freezable = {s3}
SPECIFICATION SpecLed
\* The bounds run out: no event need be left.
CHECK_DEADLOCK FALSE
INVARIANTS
  ReadsFresh
  LeaseExclusive
