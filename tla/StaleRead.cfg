\* A leader that is removing itself confirms a read round while its successor,
\* elected without it, commits.  No clocks.
CONSTANTS
  s1 = s1
  s2 = s2
  s3 = s3
  s4 = s4
  Nil = Nil
  Server = {s1, s2, s3, s4}
  InitialMembers = {s1, s2, s3, s4}
  Client = {}
  PreVoteOn = FALSE
  LeaderStickiness = FALSE
  NoopOnElect = TRUE
  MembershipChanges = TRUE
  SnapshotThreshold = 0
  MaxEntriesPerAppend = 1
  ReadModes = {"read_index"}
  ElectionMin = 0
  MaxElections = 1
  Electable = {s2}
  MaxReads = 1
  MaxRounds = 1
  MaxTime = 0
  MaxRestarts = 0
  MaxFreezes = 0
  Freezable = {}
SPECIFICATION SpecRemoved
\* The bounds run out: no event need be left.
CHECK_DEADLOCK FALSE
INVARIANTS
  ReadsFresh
