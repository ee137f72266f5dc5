\* A leader, a lagging follower and one whose log has diverged, or a client's
\* request and a crash; one message is lost or comes out of date.
CONSTANTS
  s1 = s1
  s2 = s2
  s3 = s3
  Nil = Nil
  Server = {s1, s2, s3}
  InitialMembers = {s1, s2, s3}
  Client = {0}
  PreVoteOn = FALSE
  LeaderStickiness = FALSE
  NoopOnElect = TRUE
  MembershipChanges = FALSE
  SnapshotThreshold = 1
  MaxEntriesPerAppend = 1
  MaxTimeouts = 0
  Campaigners = {}
  MaxSeq = 1
  MaxCrashes = 1
  MaxMemberRequests = 0
  MaxTroubles = 1
SPECIFICATION SpecProgress
\* Everything has been said and done in the end.
CHECK_DEADLOCK FALSE
PROPERTIES
  Replicates
  Served
