\* Figure 8 of the Raft paper: a leader commits entries of two terms while a
\* server with a conflicting log campaigns, and any server crashes once.
CONSTANTS
  s1 = s1
  s2 = s2
  s3 = s3
  Nil = Nil
  Server = {s1, s2, s3}
  InitialMembers = {s1, s2, s3}
  Client = {}
  PreVoteOn = FALSE
  LeaderStickiness = FALSE
  NoopOnElect = TRUE
  MembershipChanges = FALSE
  SnapshotThreshold = 0
  MaxEntriesPerAppend = 1
  MaxTimeouts = 0
  Campaigners = {}
  MaxSeq = 0
  MaxCrashes = 1
  MaxMemberRequests = 0
SPECIFICATION SpecDivergent
\* The bounds run out: no event need be left.
CHECK_DEADLOCK FALSE
INVARIANTS
  LogMatching
  MatchSound
  CommitInLog
  LeaderCompleteness
  CommittedAgree
