-------------------------------- MODULE Raft --------------------------------
(***************************************************************************)
(* A cluster of RaftNodes under the simulator of raftlab/sim/cluster.py:   *)
(* elections with pre-vote and leader stickiness, replication, commitment, *)
(* compaction and InstallSnapshot, membership changes, client requests,    *)
(* crashes and restarts.                                                   *)
(*                                                                         *)
(* Every action is one event of the simulator on one node: the handler,    *)
(* then apply_committed, then the save of the durable state if it is       *)
(* dirty (Simulator.post), then the observation of the safety oracle.      *)
(*                                                                         *)
(* The network may lose, duplicate, delay and reorder, so msgs only grows: *)
(* a message that was sent may be delivered any number of times, at any    *)
(* time, or never.  That covers partitions and paused processes as well.   *)
(* Clocks do not appear: an election timeout and a heartbeat may fire at   *)
(* any time, and a node that has heard a leader since its last restart may *)
(* or may not still be inside that leader's lease.                         *)
(***************************************************************************)
EXTENDS RaftNode

CONSTANTS
  MaxTimeouts,        \* bound: election timeouts in a behaviour
  Campaigners,        \* bound: the servers whose election timer may fire
  MaxSeq,             \* bound: operations begun by each client
  MaxCrashes,         \* bound: crashes in a behaviour
  MaxMemberRequests   \* bound: membership changes asked for by the operator

ASSUME BoundAssumption ==
  /\ MaxTimeouts \in Nat
  /\ Campaigners \subseteq Server
  /\ MaxSeq \in Nat
  /\ MaxCrashes \in Nat
  /\ MaxMemberRequests \in Nat

VARIABLES
  node,         \* node[i]: the RaftNode object
  disk,         \* disk[i]: Simulator.durable[i]
  alive,        \* Simulator.alive
  msgs,         \* every Envelope ever sent between nodes, and the ok replies
  clientSeq,    \* ClientSim.seq
  operatorSeq,  \* Simulator.operator_seq
  crashes,      \* Simulator.crashes
  timeouts,     \* election timeouts so far, for the bound MaxTimeouts
  leaderOfTerm, \* the oracle's leader_of_term, as a set of <<term, node>>
  votesByTerm,  \* the oracle's votes_by_term, as a set of <<voter, term, node>>
  committed     \* the oracle's committed, as a set of records

vars == <<node, disk, alive, msgs, clientSeq, operatorSeq, crashes, timeouts,
          leaderOfTerm, votesByTerm, committed>>

Init ==
  /\ node = [i \in Server |-> InitNode]
  /\ disk = [i \in Server |-> Durable(InitNode)]
  /\ alive = [i \in Server |-> TRUE]
  /\ msgs = {}
  /\ clientSeq = [c \in Client |-> 0]
  /\ operatorSeq = 0
  /\ crashes = 0
  /\ timeouts = 0
  /\ leaderOfTerm = {}
  /\ votesByTerm = {}
  /\ committed = {}

-----------------------------------------------------------------------------
(* What follows every handler                                              *)

\* The oracle's records of the entries that n holds to be committed: the first
\* record of an entry stays, with the term in which it was made.
CommittedBy(n) ==
  {r \in {[index |-> k, term |-> TermAt(n, k), cmd |-> CommandAt(n, k),
           committedIn |-> n.currentTerm]
          : k \in n.snapshotIndex + 1 .. Smaller(n.commitIndex, LastIndex(n))} :
     ~ \E old \in committed : /\ old.index = r.index
                              /\ old.term = r.term
                              /\ old.cmd = r.cmd}

\* n is what the handler made of node i, a is n after apply_committed.
Observe(i, n, a) ==
  /\ leaderOfTerm' = leaderOfTerm \cup
       (IF a.role = Leader THEN {<<a.currentTerm, i>>} ELSE {})
  /\ votesByTerm' = votesByTerm \cup
       (IF a.votedFor # Nil THEN {<<i, a.currentTerm, a.votedFor>>} ELSE {})
  /\ committed' = committed \cup CommittedBy(n)

\* Mutant: the disk is written only when the term or the vote has changed.
SaveTermAndVote(i, a) ==
  /\ node' = [node EXCEPT ![i] = [a EXCEPT !.dirty = FALSE]]
  /\ disk' = IF <<a.currentTerm, a.votedFor>> # <<node[i].currentTerm, node[i].votedFor>>
             THEN [disk EXCEPT ![i] = Durable(a)] ELSE disk

Save(i, a) ==
  /\ node' = [node EXCEPT ![i] = [a EXCEPT !.dirty = FALSE]]
  /\ disk' = IF a.dirty THEN [disk EXCEPT ![i] = Durable(a)] ELSE disk

\* Whether a response can still have an effect on its receiver r.  Terms never
\* go back, so one that cannot is lost without a loss of behaviours: a refused
\* vote that brings no newer term, a poll answered for a term that has been
\* reached, any other response of an earlier term.
Matters(m, r) ==
  CASE m.type = "PreVoteResp" -> m.term > r.currentTerm
    [] m.type = "RequestVoteResp" ->
         m.term > r.currentTerm \/ (m.granted /\ m.term = r.currentTerm)
    [] m.type \in {"AppendEntriesResp", "InstallSnapshotResp"} ->
         m.term >= r.currentTerm
    [] OTHER -> TRUE

\* Messages leave when node i has become a; clients keep every reply.
Send(i, a, out) ==
  msgs' = {m \in msgs \cup out :
             \/ m.type = "ClientReply"
             \/ Matters(m, IF m.dst = i THEN a ELSE node[m.dst])}

\* The end of on_tick and on_message, and Simulator.post, at live node i.
Finish(i, n, out) ==
  \E h \in {n} : \E a \in {ApplyCommitted(i, h)}, o \in {out \cup AppliedOut(i, h)} :
     /\ alive[i]
     /\ Save(i, a)
     /\ Observe(i, h, a)
     /\ Send(i, a, o)
     /\ UNCHANGED <<alive, clientSeq, operatorSeq, crashes>>

Post(i, n, out) == Finish(i, n, out) /\ UNCHANGED timeouts

-----------------------------------------------------------------------------
(* on_tick                                                                 *)

\* The election timeout of a member that does not lead.
Timeout(i) ==
  LET n == node[i]
      poll == Poll(i, n)
  IN /\ n.role # Leader
     /\ i \in n.members
     /\ i \in Campaigners
     /\ timeouts < MaxTimeouts
     /\ timeouts' = timeouts + 1
     /\ IF ~PreVoteOn
        THEN Finish(i, BecomeCandidate(i, n), BecomeCandidateOut(i, n))
        ELSE IF 1 >= Majority(n)
        THEN Finish(i, BecomeCandidate(i, poll), BecomeCandidateOut(i, poll))
        ELSE Finish(i, poll, {PreVoteMsg(i, p, poll) : p \in Peers(i, n)})

\* Mutant: a heartbeat only to those that something new is to be sent to.
HeartbeatUnsent(i) ==
  LET n == node[i]
      peers == {p \in Peers(i, n) : HasUnsent(n, p)}
  IN /\ n.role = Leader
     /\ Post(i, Sent(i, n, peers), Appends(i, n, peers))

\* The heartbeat: everybody hears from the leader, caught up or not.
Heartbeat(i) ==
  LET n == node[i]
      peers == Peers(i, n)
  IN /\ n.role = Leader
     /\ Post(i, Sent(i, n, peers), Appends(i, n, peers))

-----------------------------------------------------------------------------
(* Votes                                                                   *)

\* The values in_leader_lease may have.
InLeaderLease(n) ==
  IF LeaderStickiness /\ n.heardLeader THEN BOOLEAN ELSE {FALSE}

HandlePreVote(i, m) ==
  LET n == node[i]
  IN /\ m.type = "PreVote"
     /\ \E lease \in InLeaderLease(n) :
          LET granted == m.term > n.currentTerm /\ LogIsCurrent(n, m) /\ ~lease
              t == IF granted THEN m.term ELSE n.currentTerm
          IN Post(i, n, {PreVoteRespMsg(i, m.src, t, granted)})

HandlePreVoteResp(i, m) ==
  LET n == node[i]
      polled == [n EXCEPT !.preVotes = @ \cup {m.src}]
  IN /\ m.type = "PreVoteResp"
     /\ \/ /\ ~m.granted
           /\ m.term > n.currentTerm
           /\ Post(i, StepDown(n, m.term), {})
        \/ /\ PollAnswered(n, m)
           /\ IF Cardinality(polled.preVotes) >= Majority(n)
              THEN Post(i, BecomeCandidate(i, polled), BecomeCandidateOut(i, polled))
              ELSE Post(i, polled, {})

HandleRequestVote(i, m) ==
  LET n == node[i]
  IN /\ m.type = "RequestVote"
     /\ \E lease \in InLeaderLease(n) :
          \/ \* a stale term, or a leader is believed to be at work
             /\ Stale(n, m) \/ (lease /\ m.term > n.currentTerm)
             /\ Post(i, n, {RequestVoteRespMsg(i, m.src, n, FALSE)})
          \/ /\ ~Stale(n, m)
             /\ ~(lease /\ m.term > n.currentTerm)
             /\ LET s == IF m.term > n.currentTerm THEN StepDown(n, m.term) ELSE n
                    granted == s.votedFor \in {Nil, m.src} /\ LogIsCurrent(s, m)
                    v == IF granted THEN VoteFor(s, m.src) ELSE s
                IN Post(i, v, {RequestVoteRespMsg(i, m.src, v, granted)})

HandleRequestVoteResp(i, m) ==
  LET n == node[i]
      counted == [n EXCEPT !.votes = @ \cup {m.src}]
  IN /\ m.type = "RequestVoteResp"
     /\ \/ /\ m.term > n.currentTerm
           /\ Post(i, StepDown(n, m.term), {})
        \/ /\ m.term = n.currentTerm
           /\ n.role = Candidate
           /\ m.granted
           /\ IF Cardinality(counted.votes) >= Majority(n)
              THEN Post(i, BecomeLeader(i, counted), BecomeLeaderOut(i, counted))
              ELSE Post(i, counted, {})

-----------------------------------------------------------------------------
(* Replication                                                             *)

HandleAppendEntries(i, m) ==
  LET n == node[i]
      r == Recognise(n, m)
      prev == m.prevLogIndex
      match == prev + Len(m.entries)
      Answer(s, success, upto, ci, term) ==
        Post(i, s, {AppendEntriesRespMsg(i, s, m, success, upto, ci, term)})
  IN /\ m.type = "AppendEntries"
     /\ \/ /\ Stale(n, m)
           /\ Answer(n, FALSE, 0, 0, 0)
        \/ /\ ~Stale(n, m)
           /\ \/ \* already compacted here, therefore committed
                 /\ prev < r.snapshotIndex
                 /\ Answer(r, TRUE, r.snapshotIndex, 0, 0)
              \/ \* past the end of this log
                 /\ prev > LastIndex(r)
                 /\ Answer(r, FALSE, 0, LastIndex(r) + 1, 0)
              \/ /\ HasIndex(r, prev)
                 /\ ~PrevMatches(r, m)
                 /\ Answer(r, FALSE, 0, ConflictIndex(r, prev), TermAt(r, prev))
              \/ /\ PrevMatches(r, m)
                 /\ Answer(LearnCommit(MergeEntries(i, r, m), m), TRUE, match, 0, 0)

\* A success, or the answer to a snapshot: ship the next batch only when the
\* last one has been acknowledged.
Acknowledge(i, p, match) ==
  LET a == Acknowledged(i, node[i], p, match)
      more == IF WindowOpen(a, p) THEN {p} ELSE {}
  IN Post(i, Sent(i, a, more), Appends(i, a, more))

HandleAppendEntriesResp(i, m) ==
  LET n == node[i]
      b == BackUp(n, m)
  IN /\ m.type = "AppendEntriesResp"
     /\ \/ /\ m.term > n.currentTerm
           /\ Post(i, StepDown(n, m.term), {})
        \/ /\ m.term = n.currentTerm
           /\ n.role = Leader
           /\ m.success
           /\ Acknowledge(i, m.src, m.matchIndex)
        \/ /\ m.term = n.currentTerm
           /\ n.role = Leader
           /\ ~m.success
           /\ m.repliesTo = NextIndex(n, m.src) - 1
           /\ Post(i, Sent(i, b, {m.src}), Appends(i, b, {m.src}))

-----------------------------------------------------------------------------
(* Snapshots                                                               *)

HandleInstallSnapshot(i, m) ==
  LET n == node[i]
      r == Recognise(n, m)
      lii == m.lastIncludedIndex
      Answer(s, match) == Post(i, s, {InstallSnapshotRespMsg(i, m.src, s, match)})
  IN /\ m.type = "InstallSnapshot"
     /\ \/ /\ Stale(n, m)
           /\ Answer(n, 0)
        \/ /\ ~Stale(n, m)
           /\ \/ /\ lii <= r.commitIndex
                 /\ Answer(r, Smaller(LastIndex(r), r.commitIndex))
              \/ \* the entry is held already: it is now known to be committed
                 /\ lii > r.commitIndex
                 /\ TermAt(r, lii) = m.lastIncludedTerm
                 /\ Answer([r EXCEPT !.commitIndex = lii], lii)
              \/ /\ lii > r.commitIndex
                 /\ TermAt(r, lii) # m.lastIncludedTerm
                 /\ Answer(InstallState(i, r, m), lii)

HandleInstallSnapshotResp(i, m) ==
  LET n == node[i]
  IN /\ m.type = "InstallSnapshotResp"
     /\ \/ /\ m.term > n.currentTerm
           /\ Post(i, StepDown(n, m.term), {})
        \/ /\ m.term = n.currentTerm
           /\ n.role = Leader
           /\ m.matchIndex # 0
           /\ Acknowledge(i, m.src, m.matchIndex)

-----------------------------------------------------------------------------
(* Clients and the operator                                                *)

\* ClientSim.begin: the next operation starts once the last one was answered.
ClientBegin(c) ==
  /\ clientSeq[c] < MaxSeq
  /\ \/ clientSeq[c] = 0
     \/ \E m \in msgs : /\ m.type = "ClientReply"
                        /\ m.client = c
                        /\ m.seq = clientSeq[c]
  /\ clientSeq' = [clientSeq EXCEPT ![c] = @ + 1]
  /\ UNCHANGED <<node, disk, alive, msgs, operatorSeq, crashes, timeouts,
                 leaderOfTerm, votesByTerm, committed>>

\* Simulator.current_leader, as the operator sees it.
CurrentLeader(i) ==
  /\ alive[i]
  /\ node[i].role = Leader
  /\ \A j \in Server : alive[j] /\ node[j].role = Leader
                        => node[j].currentTerm <= node[i].currentTerm

\* The changes the operator may ask for: never to fewer than three members.
Changes(members, s) ==
  {ConfigCommand("add", x, s) : x \in Server \ members} \cup
  {ConfigCommand("remove", x, s) : x \in {y \in members : Cardinality(members) > 3}}

\* ev_member_change.
MemberChange(i) ==
  /\ operatorSeq < MaxMemberRequests
  /\ CurrentLeader(i)
  /\ operatorSeq' = operatorSeq + 1
  /\ \E cmd \in Changes(node[i].members, operatorSeq + 1) :
       msgs' = msgs \cup {[type |-> "ClientRequest", src |-> OperatorAddress,
                          dst |-> i, cmd |-> cmd]}
  /\ UNCHANGED <<node, disk, alive, clientSeq, crashes, timeouts,
                 leaderOfTerm, votesByTerm, committed>>

\* handle_client_request at a leader.  A node that does not lead, or refuses a
\* configuration change, answers ok = False: that only makes the client try
\* again, which it may do at any time anyway, so refusals are not recorded.
HandleClientRequest(i, addr, cmd) ==
  LET n == node[i]
      waiting == {r \in n.pendingByReq : r.client = cmd.client /\ r.seq = cmd.seq}
      p == Propose(i, n, addr, cmd)
      unsent == {q \in Peers(i, p) : HasUnsent(p, q)}
  IN /\ n.role = Leader
     /\ \/ \* a retry of what was applied: answered from the session
           /\ AlreadyApplied(n, cmd)
           /\ Post(i, n, {ClientReplyMsg(i, addr, cmd.client, cmd.seq,
                         IF cmd.seq = SessionSeq(n.sm, cmd.client)
                         THEN SessionResult(n.sm, cmd.client) ELSE Nil)})
        \/ /\ ~AlreadyApplied(n, cmd)
           /\ IsConfig(cmd) => MembershipChanges /\ n.configIndex <= n.commitIndex
           /\ \/ \* a retry while in flight
                 /\ \E r \in waiting :
                      Post(i, [n EXCEPT !.pending =
                                {q \in @ : q.index # r.index} \cup
                                {[index |-> r.index, addr |-> addr, seq |-> cmd.seq]}],
                           {})
              \/ /\ waiting = {}
                 /\ Post(i, Sent(i, p, unsent), Appends(i, p, unsent))

ClientRequest(i, c, s) ==
  /\ s <= clientSeq[c]
  /\ HandleClientRequest(i, ClientAddress(c), ClientCommand(c, s))

HandleMemberRequest(i, m) ==
  /\ m.type = "ClientRequest"
  /\ HandleClientRequest(i, m.src, m.cmd)

-----------------------------------------------------------------------------
(* Crashes                                                                 *)

Crash(i) ==
  /\ alive[i]
  /\ crashes < MaxCrashes
  /\ alive' = [alive EXCEPT ![i] = FALSE]
  /\ crashes' = crashes + 1
  /\ UNCHANGED <<node, disk, msgs, clientSeq, operatorSeq, timeouts,
                 leaderOfTerm, votesByTerm, committed>>

Restart(i) ==
  LET n == Restarted(i, node[i], disk[i])
  IN /\ ~alive[i]
     /\ alive' = [alive EXCEPT ![i] = TRUE]
     /\ Save(i, n)
     /\ Observe(i, n, n)
     /\ UNCHANGED <<msgs, clientSeq, operatorSeq, crashes, timeouts>>

-----------------------------------------------------------------------------
\* on_message: every message goes to the handler of its type.
Receive(i, m) ==
  \/ HandlePreVote(i, m)
  \/ HandlePreVoteResp(i, m)
  \/ HandleRequestVote(i, m)
  \/ HandleRequestVoteResp(i, m)
  \/ HandleAppendEntries(i, m)
  \/ HandleAppendEntriesResp(i, m)
  \/ HandleInstallSnapshot(i, m)
  \/ HandleInstallSnapshotResp(i, m)
  \/ HandleMemberRequest(i, m)

Next ==
  \/ \E i \in Server : \/ Timeout(i)
                      \/ Heartbeat(i)
                      \/ MemberChange(i)
                      \/ Crash(i)
                      \/ Restart(i)
  \/ \E m \in msgs : Receive(m.dst, m)
  \/ \E c \in Client :
       \/ ClientBegin(c)
       \/ \E i \in Server, s \in 1 .. MaxSeq : ClientRequest(i, c, s)

Spec == Init /\ [][Next]_vars

-----------------------------------------------------------------------------
(* Properties                                                              *)

\* Every variable has its type, and no state machine is behind its snapshot.
\* What clients are told (ClientReply) is read by clients only.
TypeOK ==
  /\ node \in [Server -> NodeState]
  /\ \A i \in Server : node[i].snapshotIndex <= node[i].lastApplied
  /\ disk \in [Server -> DurableState]
  /\ alive \in [Server -> BOOLEAN]
  /\ \A m \in msgs : m.type # "ClientReply" => m \in NodeMessage
  /\ clientSeq \in [Client -> Nat]
  /\ operatorSeq \in Nat /\ crashes \in Nat /\ timeouts \in Nat
  /\ leaderOfTerm \subseteq Nat \X Server
  /\ votesByTerm \subseteq Server \X Nat \X Server

\* At most one node is ever leader of a term (invariants.py, oracle 1), counting
\* leaders that have since crashed, stepped down or been cut off.
ElectionSafety ==
  \A e, f \in leaderOfTerm : e[1] = f[1] => e[2] = f[2]

\* A node never votes for two candidates in a term, even when it crashes between
\* the votes (oracle 8): voted_for must reach the disk with the handler that
\* changes it.
VoteSafety ==
  \A v, w \in votesByTerm : v[1] = w[1] /\ v[2] = w[2] => v[3] = w[3]

\* The entries that two logs hold at the same index with the same term are
\* equal, and so are the entries before them that both still hold (oracle 3):
\* truncation, fast backup and compaction keep the logs prefix-consistent.
LogMatching ==
  \A i, j \in Server :
    LET low == Larger(node[i].snapshotIndex, node[j].snapshotIndex)
        high == Smaller(LastIndex(node[i]), LastIndex(node[j]))
    IN \A k \in low + 1 .. high :
         TermAt(node[i], k) = TermAt(node[j], k) =>
           \A h \in low + 1 .. k :
             /\ TermAt(node[i], h) = TermAt(node[j], h)
             /\ CommandAt(node[i], h) = CommandAt(node[j], h)

\* n has the committed entry r in its log or under its snapshot.
Holds(n, r) ==
  IF r.index <= n.snapshotIndex
  THEN n.snapshotData[r.index] = r.cmd
  ELSE /\ TermAt(n, r.index) = r.term
       /\ CommandAt(n, r.index) = r.cmd

\* A leader of term T holds every entry that was committed in a term below T
\* (oracle 4).
LeaderCompleteness ==
  \A i \in Server : node[i].role = Leader =>
    \A r \in committed : r.committedIn < node[i].currentTerm => Holds(node[i], r)

\* Two nodes never commit different entries at one index (oracle 6).
CommittedAgree ==
  \A r, q \in committed : r.index = q.index => r.term = q.term /\ r.cmd = q.cmd

\* What every state machine has been fed is the committed log, from its first
\* entry and without a gap (oracles 5 and 10): across batches of entries,
\* snapshots taken and installed, and restarts from a snapshot.
StateMachineSafety ==
  \A i \in Server :
    /\ Len(node[i].sm) = node[i].lastApplied
    /\ \A k \in 1 .. Len(node[i].sm) :
         \E r \in committed : r.index = k /\ r.cmd = node[i].sm[k]
    /\ Len(node[i].snapshotData) = node[i].snapshotIndex
    /\ \A k \in 1 .. Len(node[i].snapshotData) :
         \E r \in committed : r.index = k /\ r.cmd = node[i].snapshotData[k]

\* The commit index stays between the snapshot and the end of the log (oracles 9
\* and 10), although handle_append_entries may set it back.
CommitInLog ==
  \A i \in Server : /\ node[i].snapshotIndex <= node[i].commitIndex
                    /\ node[i].commitIndex <= LastIndex(node[i])

\* Nothing is left to apply or to compact between two events, so that a read of
\* the state machine never lags the commit index.
AppliedCaughtUp ==
  \A i \in Server :
    /\ node[i].lastApplied >= node[i].commitIndex
    /\ SnapshotThreshold # 0 =>
         node[i].lastApplied - node[i].snapshotIndex < SnapshotThreshold

\* Between two events the disk holds what the node would lose in a crash: every
\* handler that changes durable state marks it dirty.
DiskCurrent ==
  \A i \in Server : disk[i] = Durable(node[i])

\* What a leader believes its peer holds, the peer holds: as long as the peer is
\* still in the leader's term, the two logs agree up to match_index, however
\* late, duplicated or reordered the acknowledgements were.
MatchSound ==
  \A i, p \in Server :
    node[i].role = Leader /\ node[p].currentTerm = node[i].currentTerm /\ p # i =>
      /\ node[i].matchIndex[p] <= LastIndex(node[i])
      /\ node[i].matchIndex[p] <= LastIndex(node[p])
      /\ \A k \in Larger(node[i].snapshotIndex, node[p].snapshotIndex) + 1
                 .. node[i].matchIndex[p] :
           TermAt(node[i], k) = TermAt(node[p], k)

RepliesTo(c, s) ==
  {m \in msgs : m.type = "ClientReply" /\ m.client = c /\ m.seq = s}

\* An acknowledged operation is committed, and all the acknowledgements a client
\* can accept for it, from whichever leader and after however many retries,
\* report one outcome (the session cache of apply and handle_client_request).
AcknowledgedOnce ==
  \A c \in Client : \A s \in 1 .. clientSeq[c] :
    /\ RepliesTo(c, s) # {} => \E r \in committed : r.cmd = ClientCommand(c, s)
    /\ s = clientSeq[c] =>
         \A m, q \in RepliesTo(c, s) :
           Nil \notin {m.result, q.result} => m.result = q.result

\* The node that a redirected client is sent to did win the current term.
LeaderHintSound ==
  \A i \in Server : node[i].leaderId # Nil =>
    <<node[i].currentTerm, node[i].leaderId>> \in leaderOfTerm

\* A leader that is no longer a member has not yet applied its own removal: it
\* steps down in the event that commits it (section 4.2.2).
RemovedLeaderSteps ==
  \A i \in Server : node[i].role = Leader /\ i \notin node[i].members =>
    node[i].lastApplied < node[i].configIndex

\* A leader has a next_index for every other server of its configuration, from
\* the moment one is added, and it lies inside or just after its log, whatever
\* rejections have moved it (the comment of init_progress).
ProgressTracksMembers ==
  \A i \in Server : node[i].role = Leader =>
    \A p \in Peers(i, node[i]) :
      node[i].nextIndex[p] \in 1 .. LastIndex(node[i]) + 1

\* The configuration of a node is the one its snapshot carries, changed by the
\* entries of its log: what a restart would rebuild (rebuild_config).
ConfigFollowsLog ==
  \A i \in Server : node[i].members = RebuildConfig(i, node[i]).members

\* With pre-vote on, a node raises its term to campaign only after a majority of
\* its configuration has said that it would vote for it in that very term.
CampaignPolled ==
  [][\A i \in Server :
       /\ PreVoteOn
       /\ node'[i].currentTerm > node[i].currentTerm
       /\ node'[i].votedFor = i
       => Cardinality({i} \cup
            {p \in node[i].members :
               PreVoteRespMsg(p, i, node'[i].currentTerm, TRUE) \in msgs})
          >= Majority(node[i])]_vars

\* A leader only ever appends: while it keeps its role and term, its log and
\* what lies under its snapshot stay as they are (oracle 2).
LeaderAppendOnly ==
  [][\A i \in Server :
       /\ node[i].role = Leader /\ node'[i].role = Leader
       /\ node[i].currentTerm = node'[i].currentTerm
       => /\ LastIndex(node[i]) <= LastIndex(node'[i])
          /\ \A k \in node'[i].snapshotIndex + 1 .. LastIndex(node[i]) :
               /\ TermAt(node'[i], k) = TermAt(node[i], k)
               /\ CommandAt(node'[i], k) = CommandAt(node[i], k)]_vars

\* No step takes back what a node had promised: its term and its snapshot never
\* go back (oracles 7 and 10), and it never deletes an entry at or below its
\* own commit index (oracle 6), be it by truncation, snapshot or restart.
NothingTakenBack ==
  [][\A i \in Server :
       /\ node[i].currentTerm <= node'[i].currentTerm
       /\ node[i].snapshotIndex <= node'[i].snapshotIndex
       /\ node[i].commitIndex <= LastIndex(node'[i])
       /\ \A k \in node'[i].snapshotIndex + 1 .. node[i].commitIndex :
            TermAt(node'[i], k) = TermAt(node[i], k)]_vars

=============================================================================
