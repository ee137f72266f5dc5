------------------------------ MODULE RaftNode ------------------------------
(***************************************************************************)
(* The RaftNode class of raftlab/raft/node.py as pure operators.           *)
(*                                                                         *)
(* A node is a record with the fields of the class; each method that       *)
(* changes the object is an operator from a node to a node, and each       *)
(* message it returns is a record.  Module Raft gives these operators      *)
(* their place in the actions of the cluster.                              *)
(*                                                                         *)
(* Representation.                                                         *)
(*  - The code keeps a dummy first entry that repeats (snapshot_index,     *)
(*    snapshot_term).  Here `log' holds the real entries only, so the      *)
(*    entry with log index k is log[k - snapshotIndex] in both.            *)
(*  - An entry is [term, cmd]: its index is its place.                     *)
(*  - The state machine is deterministic, so `sm' is the sequence of       *)
(*    commands it has been fed; snapshotData is such a sequence too.       *)
(*  - next_index, match_index and sent_upto are dictionaries in the code.  *)
(*    Here they are total functions: 0 stands for a missing key, which is  *)
(*    also the default of match_index.get and sent_upto.get, and next_index*)
(*    is never 0 for a key that is present.                                *)
(*  - last_leader_contact is abstracted to heardLeader: whether a leader   *)
(*    has been heard since the last restart.  Only leader stickiness reads *)
(*    it, and without that option it is not tracked.                       *)
(*  - An operator marked "Mutant" is a slip that the properties must catch; *)
(*    most are the injectable bugs of raft/bugs.py.  No definition uses one.*)
(*  - The heartbeat rounds of the read path are not part of this module:   *)
(*    it models read_mode "log", in which nothing reads them.              *)
(***************************************************************************)
EXTENDS Integers, Sequences, FiniteSets

CONSTANTS
  Server,               \* the node ids, range(n_nodes)
  InitialMembers,       \* the configuration every node starts from
  Client,               \* the client ids, range(n_clients)
  Nil,                  \* Python's None
  PreVoteOn,            \* RaftConfig.pre_vote
  LeaderStickiness,     \* RaftConfig.leader_stickiness
  NoopOnElect,          \* RaftConfig.noop_on_elect
  MembershipChanges,    \* RaftConfig.membership_changes
  SnapshotThreshold,    \* RaftConfig.snapshot_threshold, 0 = never compact
  MaxEntriesPerAppend   \* RaftConfig.max_entries_per_append

ASSUME ServerAssumption ==
  /\ IsFiniteSet(Server)
  /\ Nil \notin Server
  /\ InitialMembers \in SUBSET Server
  /\ InitialMembers # {}

ClientBase == 1000

ASSUME ClientAssumption ==
  Client \subseteq 0 .. ClientBase - 1

ASSUME ConfigAssumption ==
  /\ PreVoteOn \in BOOLEAN
  /\ LeaderStickiness \in BOOLEAN
  /\ NoopOnElect \in BOOLEAN
  /\ MembershipChanges \in BOOLEAN
  /\ SnapshotThreshold \in Nat
  /\ MaxEntriesPerAppend \in Nat \ {0}

-----------------------------------------------------------------------------
(* Roles, commands and entries                                             *)

Follower == "follower"
PreCandidate == "pre-candidate"
Candidate == "candidate"
Leader == "leader"
Role == {Follower, PreCandidate, Candidate, Leader}

\* "put" stands for every command of a client: what it does to the store is the
\* state machine's business.
NOOP == [op |-> "noop", client |-> -1, seq |-> -1, node |-> Nil]
ClientCommand(c, s) == [op |-> "put", client |-> c, seq |-> s, node |-> Nil]
ConfigCommand(action, x, s) ==
  [op |-> action, client |-> -2, seq |-> s, node |-> x]

IsConfig(cmd) == cmd.op \in {"add", "remove"}

\* Clients live above CLIENT_BASE in the address space; the operator is 900.
ClientAddress(c) == ClientBase + c
OperatorAddress == ClientBase + 900

Entry(t, cmd) == [term |-> t, cmd |-> cmd]

-----------------------------------------------------------------------------
(* Small helpers                                                           *)

LastIndex(n) == n.snapshotIndex + Len(n.log)

LastTerm(n) == IF n.log = <<>> THEN n.snapshotTerm ELSE n.log[Len(n.log)].term

HasIndex(n, k) == n.snapshotIndex <= k /\ k <= LastIndex(n)

\* -1 for an index the node cannot speak about.
TermAt(n, k) ==
  IF ~HasIndex(n, k) THEN -1
  ELSE IF k = n.snapshotIndex THEN n.snapshotTerm
  ELSE n.log[k - n.snapshotIndex].term

\* Mutant: half of the members for a majority.
HalfOfMembers(n) == Cardinality(n.members) \div 2

Majority(n) == Cardinality(n.members) \div 2 + 1

Peers(i, n) == n.members \ {i}

\* The value .get(p, last_index + 1) reads from next_index.
NextIndex(n, p) == IF n.nextIndex[p] = 0 THEN LastIndex(n) + 1 ELSE n.nextIndex[p]

\* Mutant, bug no_log_up_to_date_check: any candidate is good enough.
AnyLogIsCurrent(n, m) == TRUE

LogIsCurrent(n, m) ==
  \/ m.lastLogTerm > LastTerm(n)
  \/ m.lastLogTerm = LastTerm(n) /\ m.lastLogIndex >= LastIndex(n)

Largest(S) == CHOOSE x \in S : \A y \in S : y <= x
Smallest(S) == CHOOSE x \in S : \A y \in S : x <= y
Larger(a, b) == IF a < b THEN b ELSE a
Smaller(a, b) == IF a < b THEN a ELSE b

-----------------------------------------------------------------------------
(* Configuration                                                           *)

\* Mutant: a leader does not start to track an added server.
SetMembersOnly(i, n, M) == [n EXCEPT !.members = M]

\* set_members and init_progress: a leader starts to track an added server at
\* the end of its log and forgets a removed one.
SetMembers(i, n, M) ==
  IF n.role # Leader THEN [n EXCEPT !.members = M]
  ELSE [n EXCEPT
          !.members = M,
          !.nextIndex = [p \in Server |->
                           IF p \in M \ {i} THEN NextIndex(n, p) ELSE 0],
          !.matchIndex = [p \in Server |-> IF p \in M \ {i} THEN @[p] ELSE 0],
          !.sentUpto = [p \in Server |-> IF p \in M \ {i} THEN @[p] ELSE 0]]

ConfigPositions(es) == {k \in 1 .. Len(es) : IsConfig(es[k].cmd)}

\* The members after the configuration entries of es have been applied in turn:
\* the last entry about a server decides.
ConfigAfter(M, es) ==
  LET About(x) == {k \in ConfigPositions(es) : es[k].cmd.node = x}
  IN {x \in Server : IF About(x) = {} THEN x \in M
                     ELSE es[Largest(About(x))].cmd.op = "add"}

\* apply_config_entry for each of es, the first of which has index base + 1.
ApplyConfig(i, n, base, es) ==
  IF ConfigPositions(es) = {} THEN n
  ELSE [SetMembers(i, n, ConfigAfter(n.members, es)) EXCEPT
          !.configIndex = base + Largest(ConfigPositions(es))]

RebuildConfig(i, n) ==
  ApplyConfig(i, [SetMembers(i, n, n.snapshotMembers) EXCEPT !.configIndex = 0],
              n.snapshotIndex, n.log)

-----------------------------------------------------------------------------
(* Messages                                                                *)

PreVoteMsg(i, p, n) ==
  [type |-> "PreVote", src |-> i, dst |-> p, term |-> n.preTerm,
   lastLogIndex |-> LastIndex(n), lastLogTerm |-> LastTerm(n)]

PreVoteRespMsg(i, p, t, granted) ==
  [type |-> "PreVoteResp", src |-> i, dst |-> p, term |-> t, granted |-> granted]

RequestVoteMsg(i, p, n) ==
  [type |-> "RequestVote", src |-> i, dst |-> p, term |-> n.currentTerm,
   lastLogIndex |-> LastIndex(n), lastLogTerm |-> LastTerm(n)]

RequestVoteRespMsg(i, p, n, granted) ==
  [type |-> "RequestVoteResp", src |-> i, dst |-> p, term |-> n.currentTerm,
   granted |-> granted]

InstallSnapshotMsg(i, p, n) ==
  [type |-> "InstallSnapshot", src |-> i, dst |-> p, term |-> n.currentTerm,
   lastIncludedIndex |-> n.snapshotIndex, lastIncludedTerm |-> n.snapshotTerm,
   data |-> n.snapshotData, members |-> n.members]

InstallSnapshotRespMsg(i, p, n, match) ==
  [type |-> "InstallSnapshotResp", src |-> i, dst |-> p, term |-> n.currentTerm,
   matchIndex |-> match]

AppendEntriesMsg(i, p, n, prev, es) ==
  [type |-> "AppendEntries", src |-> i, dst |-> p, term |-> n.currentTerm,
   prevLogIndex |-> prev, prevLogTerm |-> TermAt(n, prev), entries |-> es,
   leaderCommit |-> n.commitIndex]

\* The nested reply() of handle_append_entries; m is the request answered.
AppendEntriesRespMsg(i, n, m, success, match, ci, ct) ==
  [type |-> "AppendEntriesResp", src |-> i, dst |-> m.src,
   term |-> n.currentTerm, success |-> success, matchIndex |-> match,
   repliesTo |-> m.prevLogIndex, conflictIndex |-> ci, conflictTerm |-> ct]

ClientReplyMsg(i, addr, c, s, result) ==
  [type |-> "ClientReply", src |-> i, dst |-> addr, client |-> c, seq |-> s,
   result |-> result]

-----------------------------------------------------------------------------
(* The replicated state machine, seen through its history                  *)

\* sessions[c][0]: the last sequence number applied for client c (0 = none).
SessionSeq(h, c) ==
  Largest({0} \cup {h[k].seq : k \in {j \in 1 .. Len(h) : h[j].client = c}})

\* Mutant, bug no_session_dedup: a duplicate is applied again.
LatestResult(h, c) ==
  Largest({k \in 1 .. Len(h) : h[k].client = c /\ h[k].seq = SessionSeq(h, c)})

\* sessions[c][1]: the cached result of that command.  A result is named by the
\* place in the history at which its command took effect.
SessionResult(h, c) ==
  Smallest({k \in 1 .. Len(h) :
              h[k].client = c /\ h[k].seq = SessionSeq(h, c)})

\* What sm.apply returns for the last command of h: its own result, or the
\* cached one when the command is a duplicate; None for no-op and config.
ApplyResult(h) ==
  LET cmd == h[Len(h)]
  IN IF cmd.client \in Client THEN SessionResult(h, cmd.client) ELSE Nil

-----------------------------------------------------------------------------
(* Role transitions                                                        *)

\* Mutant: the leader of the old term stays leader_id in the new one.
StepDownKeepingHint(n, t) ==
  [n EXCEPT
     !.currentTerm = Larger(t, @),
     !.votedFor = IF t > n.currentTerm THEN Nil ELSE @,
     !.role = Follower, !.votes = {}, !.preVotes = {},
     !.pending = {}, !.pendingByReq = {},
     !.dirty = @ \/ t > n.currentTerm]

StepDown(n, t) ==
  [n EXCEPT
     !.currentTerm = Larger(t, @),
     !.votedFor = IF t > n.currentTerm THEN Nil ELSE @,
     !.role = Follower,
     !.leaderId = Nil,
     !.votes = {},
     !.preVotes = {},
     !.pending = {},
     !.pendingByReq = {},
     !.dirty = @ \/ t > n.currentTerm]

\* make_append: what the leader sends to peer p, and how far its window to p
\* reaches afterwards.
MakeAppend(i, n, p) ==
  LET next == Larger(1, NextIndex(n, p))
      first == next - n.snapshotIndex
  IN IF next <= n.snapshotIndex
     THEN InstallSnapshotMsg(i, p, n)
     ELSE AppendEntriesMsg(i, p, n, next - 1,
            SubSeq(n.log, first,
                   Smaller(Len(n.log), first + MaxEntriesPerAppend - 1)))

SentUptoAfter(i, n, p) ==
  LET m == MakeAppend(i, n, p)
  IN Larger(n.sentUpto[p],
            IF m.type = "InstallSnapshot" THEN n.snapshotIndex
            ELSE m.prevLogIndex + Len(m.entries))

\* Sending to every peer of P: the messages, and the leader afterwards.
Appends(i, n, P) == {MakeAppend(i, n, p) : p \in P}

Sent(i, n, P) ==
  [n EXCEPT !.sentUpto =
     [p \in Server |-> IF p \in P THEN SentUptoAfter(i, n, p) ELSE @[p]]]

\* become_leader up to its final broadcast.
Elected(i, n) ==
  LET peers == Peers(i, n)
      own == IF NoopOnElect THEN <<Entry(n.currentTerm, NOOP)>> ELSE <<>>
  IN [n EXCEPT
        !.role = Leader,
        !.leaderId = i,
        !.nextIndex = [p \in Server |->
                         IF p \in peers THEN LastIndex(n) + 1 ELSE 0],
        !.matchIndex = [p \in Server |-> 0],
        !.sentUpto = [p \in Server |-> 0],
        !.pending = {},
        !.pendingByReq = {},
        !.log = @ \o own,
        !.dirty = @ \/ NoopOnElect]

BecomeLeader(i, n) == Sent(i, Elected(i, n), Peers(i, n))

BecomeLeaderOut(i, n) == Appends(i, Elected(i, n), Peers(i, n))

\* become_candidate up to the test for a single-node cluster.
Campaign(i, n) ==
  [n EXCEPT
     !.currentTerm = @ + 1,
     !.role = Candidate,
     !.votedFor = i,
     !.leaderId = Nil,
     !.votes = {i},
     !.dirty = TRUE]

BecomeCandidate(i, n) ==
  LET c == Campaign(i, n)
  IN IF 1 >= Majority(n) THEN BecomeLeader(i, c) ELSE c

BecomeCandidateOut(i, n) ==
  LET c == Campaign(i, n)
  IN {RequestVoteMsg(i, p, c) : p \in Peers(i, n)}
     \cup (IF 1 >= Majority(n) THEN BecomeLeaderOut(i, c) ELSE {})

\* start_election with pre-vote on, up to its test for a single-node cluster.
Poll(i, n) ==
  [n EXCEPT
     !.role = PreCandidate,
     !.leaderId = Nil,
     !.preTerm = n.currentTerm + 1,
     !.preVotes = {i}]

-----------------------------------------------------------------------------
(* Committing, applying and compacting                                     *)

\* How far member p is known to hold the leader's log; the leader itself holds
\* all of it.
MatchOf(i, n, p) == IF p = i THEN LastIndex(n) ELSE n.matchIndex[p]

\* The indices beyond the commit index that a majority of the members is known
\* to hold.  The greatest is the entry that advance_commit picks from the sorted
\* list of matches, as no match lies beyond the leader's own log.
Agreed(i, n) ==
  {k \in n.commitIndex + 1 .. LastIndex(n) :
     Cardinality({p \in n.members : MatchOf(i, n, p) >= k}) >= Majority(n)}

\* Mutant, bug figure8_commit: an entry of any term is committed by counting.
AdvanceCommitAnyTerm(i, n) ==
  IF n.role = Leader /\ Agreed(i, n) # {}
  THEN [n EXCEPT !.commitIndex = Largest(Agreed(i, n))]
  ELSE n

\* Section 5.4.2: only an entry of the leader's own term is committed by counting.
AdvanceCommit(i, n) ==
  IF /\ n.role = Leader
     /\ Agreed(i, n) # {}
     /\ TermAt(n, Largest(Agreed(i, n))) = n.currentTerm
  THEN [n EXCEPT !.commitIndex = Largest(Agreed(i, n))]
  ELSE n

\* Mutant, bug apply_before_commit: the whole log is applied.
ToApplyUncommitted(n) == n.lastApplied + 1 .. LastIndex(n)

\* Mutant: the entry at the commit index is left out.
ToApplyButLast(n) == n.lastApplied + 1 .. Smaller(n.commitIndex, LastIndex(n)) - 1

\* The log indices that apply_committed hands to the state machine.
ToApply(n) == n.lastApplied + 1 .. Smaller(n.commitIndex, LastIndex(n))

CommandAt(n, k) == n.log[k - n.snapshotIndex].cmd

\* Mutant: a leader stays on after its own removal.
NoSelfRemovals(i, n) == {}

\* Those at which a leader applies its own removal, and steps down.
SelfRemovals(i, n) ==
  {k \in ToApply(n) : /\ n.role = Leader
                      /\ CommandAt(n, k).op = "remove"
                      /\ CommandAt(n, k).node = i}

HistoryUpto(n, k) ==
  n.sm \o [j \in 1 .. k - n.lastApplied |-> CommandAt(n, n.lastApplied + j)]

\* The requests that are waiting for an entry applied now.  The code removes
\* their pending_by_req entries by (client address, seq), whereas
\* handle_client_request enters them by (client id, seq).
Applied(i, n) ==
  IF ToApply(n) = {} THEN n
  ELSE LET done == {p \in n.pending : p.index \in ToApply(n)}
           top == Largest(ToApply(n))
           applied == [n EXCEPT
                         !.lastApplied = top,
                         !.sm = HistoryUpto(n, top),
                         !.pending = @ \ done,
                         !.pendingByReq =
                            {r \in @ : \A p \in done : r.client # p.addr \/ r.seq # p.seq}]
       IN IF SelfRemovals(i, n) = {} THEN applied
          ELSE StepDown(applied, n.currentTerm)

\* The replies: to every waiting request applied while still leader.
AppliedOut(i, n) ==
  {ClientReplyMsg(i, p.addr, CommandAt(n, p.index).client, p.seq,
                  ApplyResult(HistoryUpto(n, p.index)))
     : p \in {q \in n.pending : /\ n.role = Leader
                                /\ q.index \in ToApply(n)
                                /\ \A k \in SelfRemovals(i, n) : q.index < k}}

\* maybe_compact and take_snapshot(last_applied).
MaybeCompact(n) ==
  IF SnapshotThreshold = 0 \/ n.lastApplied - n.snapshotIndex < SnapshotThreshold
  THEN n
  ELSE [n EXCEPT
          !.snapshotIndex = n.lastApplied,
          !.snapshotTerm = TermAt(n, n.lastApplied),
          !.snapshotData = n.sm,
          !.snapshotMembers = n.members,
          !.log = SubSeq(@, n.lastApplied - n.snapshotIndex + 1, Len(@)),
          !.dirty = TRUE]

ApplyCommitted(i, n) == MaybeCompact(Applied(i, n))

\* Mutant: last_applied moves, the state machine does not.
RestoreNothing(n, data, upto) == [n EXCEPT !.lastApplied = upto]

\* Mutant: the state machine moves, last_applied does not.
RestoreUnmarked(n, data, upto) == [n EXCEPT !.sm = data]

\* A new state machine, restored from a snapshot that was taken at upto.
RestoreMachine(n, data, upto) == [n EXCEPT !.sm = data, !.lastApplied = upto]

-----------------------------------------------------------------------------
(* Voting                                                                  *)

\* Mutant: a vote is not saved.
VoteForUnsaved(n, x) == [n EXCEPT !.votedFor = x]

\* handle_request_vote grants its vote to candidate x.
VoteFor(n, x) == [n EXCEPT !.votedFor = x, !.dirty = TRUE]

\* Mutant: refusals count as well.
PollAnsweredAnyhow(n, m) == n.role = PreCandidate /\ m.term = n.preTerm

\* Whether handle_pre_vote_resp counts response m.
PollAnswered(n, m) ==
  /\ m.granted
  /\ n.role = PreCandidate
  /\ m.term = n.preTerm

-----------------------------------------------------------------------------
(* Following a leader                                                      *)

\* Mutant, bug accept_stale_terms: no request is ever stale.
NeverStale(n, m) == FALSE

\* Whether a request is refused for its term.
Stale(n, m) == m.term < n.currentTerm

\* What handle_append_entries and handle_install_snapshot do on hearing from a
\* leader whose term is not stale.
Recognise(n, m) ==
  LET s == IF m.term > n.currentTerm THEN StepDown(n, m.term) ELSE n
  IN [s EXCEPT
        !.role = IF @ \in {Candidate, PreCandidate} THEN Follower ELSE @,
        !.leaderId = m.src,
        !.heardLeader = LeaderStickiness]

\* Mutant, bug no_prev_log_check: any entry will do before those of m.
PrevHeld(n, m) == HasIndex(n, m.prevLogIndex)

\* The consistency check on the entry before those of m.
PrevMatches(n, m) ==
  /\ HasIndex(n, m.prevLogIndex)
  /\ TermAt(n, m.prevLogIndex) = m.prevLogTerm

\* The first index of the run of conflicting entries that ends at prev.
ConflictIndex(n, prev) ==
  LET run == {k \in n.snapshotIndex + 1 .. prev :
                \A j \in k .. prev : TermAt(n, j) = TermAt(n, prev)}
  IN IF run = {} THEN prev ELSE Smallest(run)

\* The entries of m from the first one that the log does not hold: they replace
\* whatever the log has from that index on.
Fresh(n, m) ==
  {k \in 1 .. Len(m.entries) :
     TermAt(n, m.prevLogIndex + k) # m.entries[k].term}

MergeEntries(i, n, m) ==
  IF Fresh(n, m) = {} THEN n
  ELSE LET first == Smallest(Fresh(n, m))
           base == m.prevLogIndex + first - 1
           new == SubSeq(m.entries, first, Len(m.entries))
       IN ApplyConfig(i,
            [n EXCEPT !.log = SubSeq(@, 1, base - n.snapshotIndex) \o new,
                      !.dirty = TRUE],
            base, new)

\* Mutant, bug commit_index_unclamped: the leader's number verbatim.
LearnCommitUnclamped(n, m) ==
  IF m.leaderCommit <= n.commitIndex THEN n
  ELSE [n EXCEPT !.commitIndex = m.leaderCommit]

LearnCommit(n, m) ==
  IF m.leaderCommit <= n.commitIndex THEN n
  ELSE [n EXCEPT !.commitIndex =
          Smaller(m.leaderCommit, m.prevLogIndex + Len(m.entries))]

\* Replacing the whole state by the leader's snapshot.
InstallState(i, n, m) ==
  LET s == [RestoreMachine(n, m.data, m.lastIncludedIndex) EXCEPT
              !.snapshotIndex = m.lastIncludedIndex,
              !.snapshotTerm = m.lastIncludedTerm,
              !.snapshotData = m.data,
              !.snapshotMembers = IF m.members # {} THEN m.members ELSE @,
              !.log = <<>>,
              !.commitIndex = Larger(@, m.lastIncludedIndex),
              !.dirty = TRUE]
  IN IF m.members # {} THEN SetMembers(i, s, m.members) ELSE s

-----------------------------------------------------------------------------
(* Leading                                                                 *)

\* Mutant: everything sent is taken for acknowledged.
AcknowledgedAsSent(i, n, p, match) ==
  LET known == Larger(n.matchIndex[p], n.sentUpto[p])
  IN AdvanceCommit(i, [n EXCEPT !.matchIndex[p] = known,
                                !.nextIndex[p] = known + 1])

\* A success from peer p that acknowledges the log up to match.
Acknowledged(i, n, p, match) ==
  LET known == Larger(n.matchIndex[p], match)
  IN AdvanceCommit(i, [n EXCEPT !.matchIndex[p] = known,
                                !.nextIndex[p] = known + 1])

\* Whether the peer has acknowledged all that is on the wire and more is to be
\* sent: the one-batch window.
WindowOpen(n, p) ==
  /\ LastIndex(n) > n.sentUpto[p]
  /\ n.matchIndex[p] >= n.sentUpto[p]

\* Fast backup: a rejection moves next_index over the conflicting term.
NextAfterRejection(n, m) ==
  LET ofTerm == {k \in n.snapshotIndex + 1 .. LastIndex(n) :
                   TermAt(n, k) = m.conflictTerm}
  IN IF m.conflictTerm > 0 /\ ofTerm # {} THEN Largest(ofTerm) + 1
     ELSE Larger(1, m.conflictIndex)

\* The rejection also rewinds the window.
BackUp(n, m) ==
  LET next == NextAfterRejection(n, m)
  IN [n EXCEPT !.nextIndex[m.src] = next, !.sentUpto[m.src] = next - 1]

\* Mutant: the last command applied for a client is not recognised.
AppliedEarlier(n, cmd) ==
  cmd.client \in Client /\ cmd.seq < SessionSeq(n.sm, cmd.client)

\* Whether a request is a retry of what the state machine has already been fed.
AlreadyApplied(n, cmd) ==
  cmd.client \in Client /\ cmd.seq <= SessionSeq(n.sm, cmd.client)

\* handle_client_request's append of a new command.
Propose(i, n, addr, cmd) ==
  LET index == LastIndex(n) + 1
      e == Entry(n.currentTerm, cmd)
      a == ApplyConfig(i, [n EXCEPT !.log = Append(@, e), !.dirty = TRUE],
                       index - 1, <<e>>)
  IN [a EXCEPT
        !.pending = @ \cup {[index |-> index, addr |-> addr, seq |-> cmd.seq]},
        !.pendingByReq =
          @ \cup {[client |-> cmd.client, seq |-> cmd.seq, index |-> index]}]

HasUnsent(n, p) == LastIndex(n) > n.sentUpto[p]

-----------------------------------------------------------------------------
(* Durable state                                                           *)

\* Mutant, bug no_persist_vote: the vote does not survive a crash.
DurableWithoutVote(n) ==
  [currentTerm |-> n.currentTerm, votedFor |-> Nil, log |-> n.log,
   snapshotIndex |-> n.snapshotIndex, snapshotTerm |-> n.snapshotTerm,
   snapshotData |-> n.snapshotData, snapshotMembers |-> n.snapshotMembers]

Durable(n) ==
  [currentTerm |-> n.currentTerm, votedFor |-> n.votedFor, log |-> n.log,
   snapshotIndex |-> n.snapshotIndex, snapshotTerm |-> n.snapshotTerm,
   snapshotData |-> n.snapshotData, snapshotMembers |-> n.snapshotMembers]

\* __init__, after the simulator has saved the first durable state.
InitNode ==
  [currentTerm |-> 0, votedFor |-> Nil, log |-> <<>>, snapshotIndex |-> 0,
   snapshotTerm |-> 0, snapshotData |-> <<>>, snapshotMembers |-> InitialMembers,
   role |-> Follower, leaderId |-> Nil, commitIndex |-> 0, lastApplied |-> 0,
   sm |-> <<>>, votes |-> {}, preVotes |-> {}, preTerm |-> 0,
   heardLeader |-> FALSE, nextIndex |-> [p \in Server |-> 0],
   matchIndex |-> [p \in Server |-> 0], sentUpto |-> [p \in Server |-> 0],
   pending |-> {}, pendingByReq |-> {}, members |-> InitialMembers,
   configIndex |-> 0, dirty |-> FALSE]

\* restart: the durable fields come back, the state machine from the snapshot,
\* and everything volatile starts afresh; only pre_term is left as it was.
Restarted(i, n, d) ==
  RebuildConfig(i,
    [RestoreMachine(InitNode, d.snapshotData, d.snapshotIndex) EXCEPT
       !.currentTerm = d.currentTerm, !.votedFor = d.votedFor, !.log = d.log,
       !.snapshotIndex = d.snapshotIndex, !.snapshotTerm = d.snapshotTerm,
       !.snapshotData = d.snapshotData, !.snapshotMembers = d.snapshotMembers,
       !.commitIndex = d.snapshotIndex, !.preTerm = n.preTerm, !.dirty = TRUE])

-----------------------------------------------------------------------------
(* Types                                                                   *)

\* The commands a log may hold.  Without membership changes no configuration
\* entry is ever appended, and the initial configuration is the only one.
PutCommand == [op : {"put"}, client : Client, seq : Nat, node : {Nil}]
ConfigChange == [op : {"add", "remove"}, client : {-2}, seq : Nat, node : Server]

Command == {NOOP} \cup PutCommand \cup (IF MembershipChanges THEN ConfigChange ELSE {})

Configuration == IF MembershipChanges THEN SUBSET Server ELSE {InitialMembers}

LogEntry == [term : Nat, cmd : Command]

TermOrNone == Nat \cup {-1}

NodeState ==
  [currentTerm : Nat, votedFor : Server \cup {Nil}, log : Seq(LogEntry),
   snapshotIndex : Nat, snapshotTerm : TermOrNone, snapshotData : Seq(Command),
   snapshotMembers : Configuration, role : Role, leaderId : Server \cup {Nil},
   commitIndex : Nat, lastApplied : Nat, sm : Seq(Command),
   votes : SUBSET Server, preVotes : SUBSET Server, preTerm : Nat,
   heardLeader : BOOLEAN, nextIndex : [Server -> Nat],
   matchIndex : [Server -> Nat], sentUpto : [Server -> Nat],
   pending : SUBSET [index : Nat, addr : Nat, seq : Nat],
   pendingByReq : SUBSET [client : Int, seq : Nat, index : Nat],
   members : Configuration, configIndex : Nat, dirty : BOOLEAN]

DurableState ==
  [currentTerm : Nat, votedFor : Server \cup {Nil}, log : Seq(LogEntry),
   snapshotIndex : Nat, snapshotTerm : TermOrNone, snapshotData : Seq(Command),
   snapshotMembers : Configuration]

VoteRequest ==
  [type : {"PreVote", "RequestVote"}, src : Server, dst : Server, term : Nat,
   lastLogIndex : Nat, lastLogTerm : TermOrNone]

VoteResponse ==
  [type : {"PreVoteResp", "RequestVoteResp"}, src : Server, dst : Server,
   term : Nat, granted : BOOLEAN]

AppendEntries ==
  [type : {"AppendEntries"}, src : Server, dst : Server, term : Nat,
   prevLogIndex : Nat, prevLogTerm : TermOrNone, entries : Seq(LogEntry),
   leaderCommit : Nat]

AppendEntriesResp ==
  [type : {"AppendEntriesResp"}, src : Server, dst : Server, term : Nat,
   success : BOOLEAN, matchIndex : Nat, repliesTo : Nat, conflictIndex : Nat,
   conflictTerm : TermOrNone]

InstallSnapshot ==
  [type : {"InstallSnapshot"}, src : Server, dst : Server, term : Nat,
   lastIncludedIndex : Nat, lastIncludedTerm : TermOrNone, data : Seq(Command),
   members : Configuration]

InstallSnapshotResp ==
  [type : {"InstallSnapshotResp"}, src : Server, dst : Server, term : Nat,
   matchIndex : Nat]

\* The operator may ask for a change whether or not changes are enabled.
MemberRequest ==
  [type : {"ClientRequest"}, src : {OperatorAddress}, dst : Server,
   cmd : ConfigChange]

NodeMessage ==
  VoteRequest \cup VoteResponse \cup AppendEntries \cup AppendEntriesResp
    \cup InstallSnapshot \cup InstallSnapshotResp \cup MemberRequest

=============================================================================
