\* A leader with a client, or one whose client retries what a leader since deposed
\* has answered, a compaction after every applied entry, and a crash of any server.
CONSTANTS
  s1 = s1
  s2 = s2
  s3 = s3
  Nil = Nil
  Server = {s1, s2, s3}
  InitialMembers = {s1, s2, s3}
  Client = {0}
  PreVoteOn = FALSE
  LeaderStickiness = FALSE
  NoopOnElect = TRUE
  MembershipChanges = FALSE
  SnapshotThreshold = 1
  MaxEntriesPerAppend = 2
  MaxTimeouts = 0
  Campaigners = {}
  MaxSeq = 1
  MaxCrashes = 1
  MaxMemberRequests = 0
SPECIFICATION SpecRestart
\* The bounds run out: no event need be left.
CHECK_DEADLOCK FALSE
INVARIANTS
  StateMachineSafety
  AppliedCaughtUp
  AcknowledgedOnce
PROPERTIES
  GoesOnAsLog
  NothingTakenBack
