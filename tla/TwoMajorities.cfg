\* The successor of a leader whose change was not committed begins a change of
\* its own; one election follows.
CONSTANTS
  s1 = s1
  s2 = s2
  s3 = s3
  s4 = s4
  Nil = Nil
  Server = {s1, s2, s3, s4}
  InitialMembers = {s1, s2, s3, s4}
  Client = {}
  PreVoteOn = FALSE
  LeaderStickiness = FALSE
  NoopOnElect = TRUE
  MembershipChanges = TRUE
  SnapshotThreshold = 0
  MaxEntriesPerAppend = 1
  MaxTimeouts = 1
  Campaigners = {s1}
  MaxSeq = 0
  MaxCrashes = 0
  MaxMemberRequests = 2
SPECIFICATION SpecRivals
\* The bounds run out: no event need be left.
CHECK_DEADLOCK FALSE
INVARIANTS
  LeaderCompleteness
