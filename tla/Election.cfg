\* Two campaigns from the start, with pre-vote and leader stickiness, and a crash.
CONSTANTS
  s1 = s1
  s2 = s2
  s3 = s3
  Nil = Nil
  Server = {s1, s2, s3}
  InitialMembers = {s1, s2, s3}
  Client = {}
  PreVoteOn = TRUE
  LeaderStickiness = TRUE
  NoopOnElect = FALSE
  MembershipChanges = FALSE
  SnapshotThreshold = 0
  MaxEntriesPerAppend = 1
  MaxTimeouts = 2
  Campaigners = {s1, s2, s3}
  MaxSeq = 0
  MaxCrashes = 1
  MaxMemberRequests = 0
SPECIFICATION Spec
SYMMETRY ServerSymmetry
\* The bounds run out: no event need be left.
CHECK_DEADLOCK FALSE
INVARIANTS
  ElectionSafety
  VoteSafety
  DiskCurrent
  LeaderHintSound
PROPERTIES
  CampaignPolled
