\* A deposed leader has its uncommitted membership change overwritten.
CONSTANTS
  s1 = s1
  s2 = s2
  s3 = s3
  s4 = s4
  Nil = Nil
  Server = {s1, s2, s3, s4}
  InitialMembers = {s1, s2, s3, s4}
  Client = {}
  PreVoteOn = FALSE
  LeaderStickiness = FALSE
  NoopOnElect = TRUE
  MembershipChanges = TRUE
  SnapshotThreshold = 0
  MaxEntriesPerAppend = 1
  MaxTimeouts = 0
  Campaigners = {}
  MaxSeq = 0
  MaxCrashes = 0
  MaxMemberRequests = 1
SPECIFICATION SpecRivals
\* The bounds run out: no event need be left.
CHECK_DEADLOCK FALSE
INVARIANTS
  ConfigFollowsLog
