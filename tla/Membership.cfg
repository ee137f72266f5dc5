\* Three servers of four are members: the leader adds the fourth, which catches up
\* from a snapshot, or removes a member or itself, while another server campaigns.
CONSTANTS
  s1 = s1
  s2 = s2
  s3 = s3
  s4 = s4
  Nil = Nil
  Server = {s1, s2, s3, s4}
  InitialMembers = {s1, s2, s3}
  Client = {}
  PreVoteOn = FALSE
  LeaderStickiness = FALSE
  NoopOnElect = FALSE
  MembershipChanges = TRUE
  SnapshotThreshold = 1
  MaxEntriesPerAppend = 1
  MaxTimeouts = 1
  Campaigners = {s2, s3}
  MaxSeq = 0
  MaxCrashes = 1
  MaxMemberRequests = 2
SPECIFICATION SpecChanging
SYMMETRY FollowerSymmetry
\* The bounds run out: no event need be left.
CHECK_DEADLOCK FALSE
INVARIANTS
  TypeOK
  ProgressTracksMembers
  LeaderCompleteness
  RemovedLeaderSteps
