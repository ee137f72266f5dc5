\* A leader at work, a compaction after every applied entry, one more election, and
\* the oracle looking on.
CONSTANTS
  s1 = s1
  s2 = s2
  s3 = s3
  Nil = Nil
  Server = {s1, s2, s3}
  InitialMembers = {s1, s2, s3}
  Client = {}
  PreVoteOn = FALSE
  LeaderStickiness = FALSE
  NoopOnElect = TRUE
  MembershipChanges = FALSE
  SnapshotThreshold = 1
  MaxEntriesPerAppend = 1
  MaxTimeouts = 1
  Campaigners = {s2, s3}
  MaxSeq = 0
  MaxCrashes = 1
  MaxMemberRequests = 0
SPECIFICATION SpecObserved
SYMMETRY FollowerSymmetry
\* The bounds run out: no event need be left.
CHECK_DEADLOCK FALSE
INVARIANTS
  StateMachineSafety
  OracleSilent
  OracleSees
PROPERTIES
  LeaderAppendOnly
  ImplementsLog
