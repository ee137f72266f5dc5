# A verification model of raftlab

raftlab is a Raft implementation in Python, written as pure event handlers, together
with a deterministic simulator that drives it through crashes, partitions, message loss
and clock skew, a key-value store on top, two oracles (safety invariants and
linearizability), fault schedules, and a shrinker for failing runs. This directory holds
TLA+ modules that model it, TLC configurations that model-check them on small instances,
and theorems that TLAPS proves for clusters of any size. Source lines are quoted as
`file:line` below `raftlab/`.

Run a configuration with `tlc -config Election.cfg MCRaft.tla` (the table in section 3
names the module of each), check the proofs with `tlapm RaftProofs.tla` and so on for each of
the proof modules of section 4.

## 1. The system

| Component | State | Operations | What makes it correct |
|---|---|---|---|
| `raft/node.py` RaftNode | durable: term, vote, log, snapshot (index, term, data, members); volatile: role, leader_id, commit_index, last_applied, state machine, votes, pre-votes, next/match/sent_upto per peer, pending requests, configuration; timers; read rounds | on_tick, on_message (nine handlers), restart, each followed by apply_committed | Raft's safety properties; the disk is never behind; one membership change at a time; replies are right |
| `raft/types.py` | immutable commands, entries, messages, options | - | - |
| `sim/cluster.py` Simulator | event queue, nodes, durable copies, alive, pauses, clocks, operator_seq | tick, deliver, crash, restart, pause, resume, partitions, member_change, client events; `post` after each node event | a node event and its save are one step; crashed nodes do nothing; a restart sees the durable copy only |
| `sim/network.py` Network | partitions, link latencies | schedule (0, 1 or 2 copies), blocked | connectivity under overlapping partitions |
| `sim/client.py` ClientSim | seq, attempt, current operation, target | begin, retry, on_reply | one operation at a time; a retry keeps its seq; stale replies are dropped |
| `kv/statemachine.py` | data, sessions | apply, snapshot, restore | exactly-once per (client, seq); snapshot then restore is the identity |
| `check/invariants.py` SafetyChecker | leader_of_term, votes_by_term, committed, applied, prefix hashes | observe after every event, sweep at the end | raises nothing false, misses little |
| `check/linearizability.py` | entries as a linked list, memo table | check_key, check_history | agrees with the definition of linearizability |
| `check/history.py` | operations with invoke and return times | completed, by_key, statistics | - |
| `sim/faults.py`, `sim/config.py` | fault schedules, options | generate, swarm, renumber | schedules heal in time |
| `shrink.py` | a failing configuration and schedule | shrink | the result still fails, and is smaller |
| `campaign.py`, `runner.py`, `cli.py`, `timeline.py`, `raft/bugs.py` | reports, options | process pools, tables, drawings; switches that plant a bug | - |

Interaction. The simulator pops one event at a time. For a node event it calls on_tick or
on_message, which returns messages; it sends them through the network, then `post` saves
the durable state if the node marked it dirty and shows the node to the oracle. Clients and
the operator are endpoints of the same network. A node never blocks and never shares memory
with another: all concurrency is in the order of events.

What is hard. The order of events on different nodes; messages that are lost, repeated,
late, or overtaken; crashes between any two events, with only the durable part surviving;
compaction that takes entries away while messages about them are under way; configurations
that change with the log and not with the commit; client retries that meet the first copy
in any stage. `PROJECT.json` lists these hazards one by one, each at its line, with the
properties that would catch it.

## 2. The modules

| Module | What it is |
|---|---|
| `RaftNode` | the RaftNode class as pure operators on a record: helpers, configuration, messages, role transitions, commit/apply/compact, following, leading, durable state, types |
| `Raft` | the cluster: one action per event on one node, the network, clients, operator, crashes, the history of what was observed; `Spec`; the safety properties |
| `ReplicatedLog` | abstract specification: one growing log, every server applies prefixes of it |
| `RaftImplementsLog` | the refinement mapping from `Raft` to `ReplicatedLog` |
| `Progress` | `Raft` with a leader, bounded losses and fairness: the liveness of replication and requests |
| `Reads` | the read path on nodes of `RaftNode`: heartbeat rounds, ReadIndex, leader leases, clocks that stop |
| `Oracle` | the incremental safety oracle (check/invariants.py), composed with `Raft` |
| `KVStore` | apply_pure, sessions, snapshot and restore as operators |
| `History` | the recorded operations, and the definition of linearizability over them |
| `Service` | closed-loop clients, and replicas that apply the log of `ReplicatedLog` to a `KVStore`; writes a history |
| `Checker` | the linearizability checker (check/linearizability.py) step by step, on a history |
| `Faults` | what fault schedules do to the simulated world: crashes, pauses, frozen clocks, partitions |
| `Shrink` | the shrinker (shrink.py) step by step |
| `MCRaft`, `MCMembers`, `MCOracle`, `MCProgress`, `MCReads`, `MCHistories`, `MCSchedules` | instances for TLC, with starting points in mid-execution |
| `RaftLogProofs` | lemmas about the operators of `RaftNode` (types, terms, votes, the dirty flag; majorities meet), and histories: what leaders wrote and servers held, and why what was chosen is never lost |
| `RaftProofs` | the invariant `IInv` of terms, votes and the disk, `PollInv` of polls, and the theorems about them |
| `RaftHistoryProofs` | what the operators of `RaftNode` do to the log a node keeps, part of it under a snapshot, and what every handler makes of the history |
| `RaftSafetyProofs` | the invariant `LInv`: every reachable state has an explanation |
| `RaftTheorems` | the theorems about the replicated log and what clients are told, and the refinement of `ReplicatedLog` |
| `ReadsProofs` | the theorems about leases and reads |
| `OracleProofs` | the theorems about the safety oracle |
| `ScheduleProofs` | the theorems about the shrinker and about worlds under fault schedules |

How they compose: `RaftNode` is below `Raft` and `Reads`; `Oracle` and `Progress` extend
`Raft`; `Raft` implements `ReplicatedLog`, whose log is what the replicas of `Service`
share; `Service` writes the history that `Checker` judges (`MCHistories` is run_and_check of
runner.py); `MCSchedules` puts `Faults` and `Shrink` side by side. They are independent there.

### Raft: state and code

`node[i]` has the fields of the RaftNode object under the same names in camel case.
`disk[i]` is `Simulator.durable[i]`, `alive` is `Simulator.alive`, `msgs` is every envelope
that was ever sent between nodes (and every ok reply to a client), `clientSeq` is
`ClientSim.seq`, `operatorSeq` is `Simulator.operator_seq`. `leaderOfTerm`, `votesByTerm`
and `committed` are full histories of what the oracle observes under these names. `crashes`
counts as the simulator does; `timeouts` exists for a bound only.

Abstractions, and why they lose nothing that the properties see:

* The log has no dummy entry; index arithmetic is relative to `snapshotIndex` as in the code.
* An entry does not carry its index: it is its place in the log. The code keeps both equal.
* The state machine is the sequence of commands it has been fed. It is deterministic, so
  this is finer than its data (which `KVStore` has). A result is named by the place of the
  command that produced it, which tells a cached result from another one.
* Every client command is a `put`: no property of these modules depends on the operation.
* `next_index`, `match_index` and `sent_upto` are total functions with 0 for a missing key;
  0 is what `.get` returns for the last two, and a present `next_index` is never 0.
* Clocks are abstracted. An election timer may expire, and a heartbeat be due, at any
  moment; `last_leader_contact` is kept as the fact that a leader has been heard since the
  last restart, and while it has, being inside its lease is a free choice. This covers
  every drift, offset, pause and frozen clock.
* The network is the set `msgs`: a message in it may be delivered now, later, several times
  or never. It covers loss, duplication, reordering, latencies, partitions and the queued
  inbox of a paused process. `Matters` drops a response once its receiver has reached a
  term at which every handler ignores it. Terms never go back, so no behaviour is lost.
* Client requests are not in `msgs`: a client may hand any operation it has begun to any
  node at any time, which is what a network full of old copies allows. Refusals
  (`ok = False`) only cause another attempt and are not recorded.
* Reads are those of `read_mode = "log"`, the default: commands like any other. The other
  two modes are in `Reads`.

One event is one action. `Finish` is the tail of every node event: `ApplyCommitted`, which
includes the compaction, then `Save`, `Observe` and `Send`. So a handler, what it applies,
what it compacts and what it saves are one step, as they are in the simulator, and a crash
can only fall between two events.

| Action | Code |
|---|---|
| `Timeout(i)`, `Heartbeat(i)` | on_tick node.py:584, start_election :290, become_candidate :323, broadcast_append :405 |
| `HandlePreVote`, `HandlePreVoteResp` | node.py:617, :627 |
| `HandleRequestVote`, `HandleRequestVoteResp` | node.py:639, :662, become_leader :343 |
| `HandleAppendEntries`, `HandleAppendEntriesResp` | node.py:677, :754 |
| `HandleInstallSnapshot`, `HandleInstallSnapshotResp` | node.py:806, :858 |
| `ClientRequest`, `HandleMemberRequest` | handle_client_request node.py:875 |
| `ClientBegin`, `MemberChange` | client.py:58, cluster.py:299 |
| `Crash`, `Restart` | cluster.py:387, :402, node.py:241 |

### Progress

`Raft` lets an outdated rejection arrive for ever, against which no protocol is live. The
network of raftlab delivers each message at most twice and within its largest latency, so
`Progress` bounds by MaxTroubles the messages that are lost and those that arrive when they no
longer say what their sender would say now (`Timely`). A lost message is gone and has to
be sent again. No election takes place in it: that one succeeds is a matter of random timeouts.

### Reads

A round, its acknowledgements, its time of sending, the lease and the waiting reads are those of
node.py:397-491; `Clock(i)` is node_now of the simulator with frozen_ms; `instant` keeps
who may still be in the millisecond of its last broadcast, which is when a read joins a round
that is already open (node.py:485). Coarser than in `Raft`: an election is one step of the
candidate and its voters; AppendEntries carry the whole log, so nothing is rejected but
for its term; a crash and its restart are one step. Not covered: clocks that drift or are
offset, and the eviction of rounds beyond 64 (node.py:418). In lease mode no server
restarts: a voter forgets last_leader_contact when it does (node.py:260), and
may then help to elect a rival inside a lease. The code protects a lease by the memory of
its voters only, and the run states what that protects.

### Oracle

`watch[i]` is what SafetyChecker keeps of node i (prefix hashes, validated_upto, last seen
snapshot, commit, highest term), `canonical` the hash that each (index, term) had when it
was first seen, `records` its committed entries and `fed` its applied ones. A prefix hash is
the prefix itself, as if 64 bits never collided, and the cap of 32 reports is left out. The
oracle is told what note_truncation, note_install and applied_trace tell it (`Deleted`,
`Installs`, `Trace`). A look at a node is what it makes of its prefixes (`Cut`, `Anchor`,
`Prune`, `Validate`), what it keeps of them (`Learn`) and what it finds wrong (`Report`).
`SpecOracle` is the cluster with the oracle from the first event on; the run Compaction starts
in mid-execution, with an oracle that has seen what was written until then.

### Service, History, Checker

The replicas share a log that only grows, apply it from the front and restart from their
snapshots: this is what `ReplicatedLog` promises. A value is a sequence of tokens, each
named by client and number as client.py writes them; the digit that an append adds keeps
only the last digit of the number. `None`, `"True"` and `"False"` are constants. Time is in
milliseconds, as in the history; milliseconds in which nothing is sent are left out, and
no message arrives in the millisecond it is sent in (Network.latency is at least 1).
The checker is one step of its loop per action: an entry lifted, an entry skipped, a
backtrack, the next key.

### Faults, Shrink

The draws of generate (faults.py) are sets to choose from: every schedule of so many faults
whose kinds, nodes, groups and times generate can draw. `Faults` then carries the schedule
out as cluster.py does, with crash and restart, pause, resume, freeze and thaw, `paused_by`,
partitions by fault id and the heal cap. `Shrink` goes through the passes of shrink.py; a
replay is any function from configuration and faults to a verdict, which covers every
program that could be shrunk.

## 3. The runs

Bounds are constants, and each is in the guard of the action it bounds: MaxTimeouts
(election timeouts), Campaigners (whose timer may expire), MaxSeq (operations of a client),
MaxCrashes, MaxMemberRequests, MaxTroubles, MaxElections, Electable, MaxReads, MaxRounds, MaxTime, MaxRestarts,
MaxFreezes, Freezable, MaxOps, MaxLog, MaxLength, MaxStart. Terms and logs are bounded by
these alone.

Starting points. `Spec` starts from the first start of the cluster. The others start in the
middle of an execution, so that the bounds are spent on the hard part. Each is built from
the operators of `RaftNode` in the order in which the program would use them, with the history
the oracle would have; messages of the past have been lost.

| Specification | Start |
|---|---|
| `SpecDivergent` | figure 8(c) of the Raft paper: two divergent logs, a leader of term 3, a candidate of term 4 |
| `SpecObserved` | s1 has just won term 1; an election timeout or a crash is to come |
| `SpecRestart` | s1 has just won term 1; or an answered operation whose reply was lost, the answering leader crashed and a successor elected |
| `SpecChanging` | s1 leads three of four servers and is about to add, or has just appended, the fourth; or it has added it, compacted, and appended its own removal |
| `SpecRivals` | a deposed leader of four holds an uncommitted membership change, its successor leads |
| `SpecLed`, `SpecRemoved` | a leader whose second round is under way; a leader of four that has appended its own removal |
| `SpecProgress` | a new leader, one follower with nothing and one with a conflicting log; or a leader with a request to answer |
| `SpecHistories` | an empty history and a fresh service; or any history of three operations, for the checker |
| `SpecSchedules` | a schedule to carry out, or a failing one to shrink |

| Run | Module | Instance | States | Properties |
|---|---|---|---|---|
| Election | MCRaft | first start, 3 servers, pre-vote and stickiness, 2 timeouts, 1 crash | 94k | ElectionSafety, VoteSafety, DiskCurrent, LeaderHintSound, CampaignPolled |
| Replication | MCRaft | SpecDivergent, no-ops, 1 crash | 144k | LogMatching, MatchSound, CommitInLog, LeaderCompleteness, CommittedAgree |
| Compaction | MCOracle | SpecObserved, compaction after every entry, 1 timeout or 1 crash | 156k | StateMachineSafety, OracleSilent, OracleSees, LeaderAppendOnly, ImplementsLog |
| Restart | MCRaft | SpecRestart, 1 client operation, batches of 2, compaction, 1 crash | 169k | StateMachineSafety, AppliedCaughtUp, AcknowledgedOnce, GoesOnAsLog, NothingTakenBack |
| Membership | MCMembers | SpecChanging, 4 servers, compaction, 1 timeout or 1 crash | 145k | TypeOK, ProgressTracksMembers, LeaderCompleteness, RemovedLeaderSteps |
| Reads | MCReads | SpecLed, 3 servers, 1 read, 1 election; a crash without clocks, or a frozen clock and leases | 157k | ReadsFresh, LeaseExclusive |
| Progress | MCProgress | SpecProgress, compaction, 1 crash or 1 trouble | 10k | Replicates, Served |
| Histories | MCHistories | 2 clients, 2 replicas, 3 operations, 1 restart; 3 recorded operations by 3 clients on 2 keys | 1.4M | ServiceLinearizable, VerdictRight, SearchConsistent |
| Schedules | MCSchedules | 3 nodes, all pairs of faults and all triples on one node; 3 faults to shrink | 569k | HealedInTime, ClockHonest, HeldDownByOne, StillFails, OneMinimal, ShrinkEnds |
| TwoMajorities | MCMembers | SpecRivals, 1 timeout | - | LeaderCompleteness violated, section 5 |
| Rollback | MCMembers | SpecRivals | - | ConfigFollowsLog violated, section 5 |
| StaleRead | MCReads | SpecRemoved | - | ReadsFresh violated, section 5 |

What each passing run shows:

* Election: elections with stale polls and votes, across a crash and restart.
* Replication: truncation, fast backup and the commit rule with late and repeated messages.
* Compaction: snapshots sent, installed, refused and overtaken while the leader changes;
  the cluster implements the abstract log, and the oracle neither raises a false alarm
  nor overlooks what has happened.
* Restart: what survives a crash is enough, and is applied again exactly; a retry that meets
  the first copy in any stage has one outcome.
* Membership: a new member is tracked from its first moment and catches up by snapshot;
  elections between two configurations lose nothing; a removed leader steps down.
* Reads: no read returns less than was committed anywhere when it began, in either mode,
  with late and repeated answers of old rounds, and a voter whose clock stood still.
* Progress: replication and requests recover from whatever was lost.
* Histories: the service with its retries, sessions, lagging replicas and snapshots is
  linearizable; and the checker returns the verdict that the definition of linearizability
  demands, on these histories and on arbitrary ones, right and wrong.
* Schedules: faults that overlap in any way on the nodes leave a whole world at heal_time; the
  shrinker terminates with a schedule that fails in the same way, and that it cannot reduce.

Why the bounds suffice for these questions: three servers are the smallest cluster in which
a majority is not everybody, and four the smallest with an operator that may remove one
(cluster.py:313). Two campaigns are the fewest with a rival or a successor. One crash is
enough to lose the volatile state of any node at any point. A compaction after every applied entry
makes each entry pass through a snapshot. One entry per message makes every message boundary
occur; Restart ships two at a time so that a batch straddles what the follower holds. One
trouble is one message that has to be sent again, or one rejection that rewinds a window
wrongly; the run does not look at several of them at once. Three operations are
the fewest whose order can contradict itself over a third (a stale read between two writes), and
two step budgets make the checker both finish and give up. Two faults are the fewest that overlap; three
on one node let a crash end a pause on which another pause had relied. The
proofs of section 4 lift the election properties from these instances to all.

Symmetry. Election treats the servers alike (`ServerSymmetry`), Compaction and Membership
the two followers (`FollowerSymmetry`), Histories the replicas (`ReplicaSymmetry`). The
modules choose servers by quantifiers and sets, never by order, and the properties are
symmetric state or step formulas, so this is sound. Where an operator uses CHOOSE, all choices
give the same value. Runs with liveness use no symmetry.

Fairness. Two runs check liveness.

* Progress assumes `WF_progressVars(Helpful)`: the system does not rest for ever while a
  heartbeat, a restart, a timely delivery or a client's retry could still change something. The code
  schedules each of them again and again: ev_tick every tick of a node, ev_restart for every
  crash, ev_ctimeout for every attempt, and a delivery for every message that is not dropped. It is one
  condition over all of them: it does not assume that any particular message arrives.
  `Replicates` and `Served` hold as long as a leader leads.
* Schedules assumes weak fairness of the shrinker's step: it is a loop in one thread.

Deadlock. All runs say CHECK_DEADLOCK FALSE. In the runs of `Raft` and `Reads` the bounds
run out, where in the program a timer always expires again; in Progress everything has been said and
done in the end; Histories ends with a verdict, Schedules with the time to heal.

Mutants. For every property of a passing run `PROJECT.json` names a slip in the modelled
code that the property catches under the same configuration. Many are the bugs that
raft/bugs.py can plant (figure8_commit, no_prev_log_check, no_persist_vote, ...). Each
is an operator marked "Mutant" before the operator it would replace; none is used.

### The properties

The ten properties of the oracle (check/invariants.py:9-23) appear as ElectionSafety (1),
LeaderAppendOnly (2), LogMatching (3), LeaderCompleteness (4), StateMachineSafety (5, 10),
CommittedAgree (6), NothingTakenBack (6, 7, 10), VoteSafety (8), CommitInLog (9, 10).
They speak about whole logs and all past events where the oracle looks at hashes of what
changed; OracleSilent and OracleSees compare the two. The others of `Raft` are promises of
the code the oracle does not watch: DiskCurrent (the dirty flag), CampaignPolled (pre-vote),
LeaderHintSound (leader_id), MatchSound (match_index), AppliedCaughtUp,
ProgressTracksMembers, RemovedLeaderSteps and AcknowledgedOnce (sessions).

ReplicatedLog has three kinds of steps: a live server extends the log and applies a longer
prefix of it (`Apply`), a server crashes, a server recovers with a prefix of what it had. The
mapping takes the committed records for the log and the history of each state machine for
what is applied. ImplementsLog excludes at once that something uncommitted is applied, that
a server skips an entry - over a snapshot installation as well - and that one goes back
without a crash. GoesOnAsLog is its step part, for executions that start with entries already
committed.

Reads are never stale (ReadsFresh), and nobody leads beside a lease (LeaseExclusive).
ServiceLinearizable says of every history the clients record that it is linearizable;
VerdictRight that the checker says so exactly when it is (or gives up), SearchConsistent that
its linked list, stack and memo table agree while it lifts and unlifts. HealedInTime says
that no fault outlives heal_time, ClockHonest that a node's clock has missed exactly what it
stood still, HeldDownByOne that a node is down exactly while one crash fault
holds it down, and that the end of another does not bring it up.
StillFails, OneMinimal and ShrinkEnds are the contract of the shrinker.

## 4. The proofs

The theorems about `Raft` hold for every finite set of servers, every set of clients, all
options and all bounds (the assumptions are ServerAssumption, ClientAssumption,
ConfigAssumption and BoundAssumption; those of `Faults` and `Shrink`, WorldAssumption and
FaultsAssumption, only say that their counts are numbers; TLC evaluates all of them on the
runs). Those in the second column of which it says
"fixed" are for `~MembershipChanges`: RaftConfig.membership_changes is off and a
configuration change is refused (node.py:897). That guard is all the option does, so
these theorems describe as well every execution in which the operator asks for no change,
which is the default of the simulator (membership_changes_per_sec, config.py:50). With
membership changes the election and log theorems are false of this code (section 5,
TwoMajorities); what does hold is checked by the runs.

| Theorem | For | Statement |
|---|---|---|
| `RaftProofs` Invariance | any | `Spec => []IInv` |
| TypeCorrect | any | `Spec => []TypeOK` |
| DiskNeverStale | any | `Spec => []DiskCurrent` |
| OneVotePerTerm | any | `Spec => []VoteSafety` |
| OneLeaderPerTerm | fixed | `Spec => []ElectionSafety` |
| CampaignsPolled | fixed | `Spec => CampaignPolled`, an action property |
| `RaftLogProofs` Survives | any sound history | a chosen prefix is in the log of every later leader |
| `RaftSafetyProofs` LogInvariance | fixed | `Spec => [](IInv /\ LInv)` |
| `RaftTheorems` LogsMatch | fixed | `Spec => []LogMatching` |
| LeadersComplete | fixed | `Spec => []LeaderCompleteness` |
| CommitsAgree | fixed | `Spec => []CommittedAgree` |
| StateMachinesSafe | fixed | `Spec => []StateMachineSafety` |
| CommitsInLog | fixed | `Spec => []CommitInLog` |
| MatchesAreSound | fixed | `Spec => []MatchSound` |
| HintsAreSound | fixed | `Spec => []LeaderHintSound` |
| NothingLeftToApply | fixed | `Spec => []AppliedCaughtUp` |
| ProgressInLog | fixed | `Spec => []ProgressTracksMembers` |
| LeadersAppendOnly | fixed | `Spec => LeaderAppendOnly`, an action property |
| PromisesKept | fixed | `Spec => NothingTakenBack`, an action property |
| StepsAreOfLog, ClusterImplementsLog | fixed | `Spec => GoesOnAsLog`, `Spec => ImplementsLog` |
| AnsweredOnce | fixed | `Spec => []AcknowledgedOnce` |
| `ReadsProofs` LeaseExclusiveTheorem | fixed, lease rules | `Spec => []LeaseExclusive` |
| ReadsFreshTheorem | fixed, no-op, lease rules | `Spec => []ReadsFresh` |
| `OracleProofs` OracleNeverAlarms | fixed, two servers | `SpecOracle => []OracleSilent` |
| OracleKeepsUp | fixed, two servers | `SpecOracle => []OracleSees` |
| `ScheduleProofs` FailureKept | any failing schedule | `SpecShrink => []StillFails` |
| ResultMinimal | any failing schedule | `SpecShrink => []OneMinimal` |
| WorldInvariance | any schedule | `SpecFaults => []WorldInv` |
| HeldDown | any schedule | `SpecFaults => []HeldDownByOne` |
| ClocksHonest | any schedule | `SpecFaults => []ClockHonest` |
| Healed | any schedule | `SpecFaults => []HealedInTime` |

### Terms and votes

None of the election properties holds of its own strength.
VoteSafety compares votes that were cast at any time; a handler only sees the vote it
has now. So `IInv` adds VotesKept: every vote that was ever observed is still the
voter's vote, unless its term has passed. That survives a crash only because the disk holds the
vote, which is DiskCurrent. DiskCurrent in turn needs that no handler changes durable state
without setting the dirty flag (`Persists`), and the types, without which nothing can be
said of a record. ElectionSafety adds the chain from a leader to its votes:
VotesOnWire (a grant in flight was cast), CandidatesBacked (a candidate's counted votes were cast),
LeadersElected (every leader ever observed has the votes of a majority of the members). Two
majorities of one finite set meet, and the server in both voted once.

How the step is laid out. The first part of `RaftLogProofs` shows of each operator of a node what it
preserves: it stays well typed with a snapshot no further than what is applied (`Sane`),
keeps its term and vote unless it says otherwise (`Keeps`), and marks what it changes dirty
(`Persists`); these compose. In `RaftProofs`, SaveStep shows that saving and
observing a node that is `Proper` keeps the state part of the invariant, FinishStep that a
whole event does, given messages that are `Lawful`, and there is one lemma per action
whose only duty is to show its handler Proper and its messages Lawful. NextInv
combines them, and the theorems follow by PTL.

CampaignPolled looks at the answers in flight, and a handler counts them from a set that it
keeps. `PollInv` ties the two: while a node polls, its pre_term is the next term and every
answer it has counted, but its own, is a grant of that very term which a member gave and which
is still in flight (`PollHeld`). pre_term is not reset by a restart and answers arrive late;
it holds all the same because a poll starts anew with pre_votes = {self} at the current term
plus one, whatever raises the term ends the poll (step_down, Recognise), and the node that
comes back from a crash has no role. A vote cast in a newer term is never a campaign: nobody
asks itself for one (`PollFits`). EventPolls is the step for a whole event, and one lemma
per handler shows that it meets EventPolls's hypotheses, mostly by taking no part in a poll.

### The log

The state of the cluster does not hold what an argument about the log has to speak of: logs are
compacted, leaders of the past are forgotten, and what a follower once acknowledged may since
have been overwritten. The second part of `RaftLogProofs` therefore argues about a *history*, a value with
the terms that had a leader, the log each of them wrote (`led`) and how much of it the leader
had when it was elected (`won`), how much of a leader's log each server has held while in its
term (`held`), the whole log of every server with all it has compacted (`whole`), and its
term (`now`). A history is `Sound` when every log consists of what leaders wrote in order
(`Known`), what a server has held it holds still unless a later leader was elected without it
(`Kept`), and a majority backed every leader: nothing any of them had held before was more up to
date, except by a leader in between that was itself elected without it (`WonSound`, `Backs`).
That last clause makes the notion inductive: it does not say that committed entries survive,
it only says where the first one that did not would have been lost. Survives then proves that
there is none, by taking the first leader after a chosen entry that lacks it: the majority
that held the entry and the one that backed the leader share a server.

There are four ways in which a history goes on: a server reaches a newer term (`Raised`),
takes over entries of the leader of its term (`Took`), is elected (`Elevated`), a leader
appends (`Extended`). Each keeps a history sound, and `Follows`: nothing in it is taken back.

`RaftHistoryProofs` ties nodes and messages to a history. `NodeSound` says that the log and the
snapshot of a node are its `whole` log, its state machine the commands of the applied part,
its commit index inside what was chosen, and, of a leader, that its log is that of its term
and its match indices do not exceed what was held. `MessageSound` says that AppendEntries
and InstallSnapshot carry a part of the sender's log of their term and of what was chosen, and that an
acknowledgement was held. The module then shows of each handler how the history goes
on with it (`Carried`).

`LInv`, in `RaftSafetyProofs`, says that there is a history that `Explains` the state: the
nodes, the votes, the messages and the oracle's record of commits. EventStep shows that an event
with a carried node and sendable messages leads from an explanation to another one that `Evolves`
from it; each action has a lemma that brings it into that form; NextLog combines them. A restart
keeps the very history it finds, because the disk was current (IInv).

The history is hidden by a quantifier over all histories, so TLC cannot evaluate LInv. What it implies
is what the runs check. The clauses themselves were tried on small instances, with the
history kept as a variable beside the state, before they were proved.

`RaftTheorems` reads the properties off an explanation. Two of them need a word. For CommittedAgree,
entries were recorded by two nodes at two times, out of two terms; both were chosen, and by
Survives the leader of the later of the terms had both at one index. For the
refinement, the record of the oracle has no gap and an end (`NoGap`, `Bounded`), so the mapping
of `RaftImplementsLog`, which takes its cardinality for the length of the log, gives one sequence
that only grows (ExplainedFed, RecordGrows). Then every handler is an `Apply` at its server
(MovesApply), because a live server never goes back to an earlier state machine (`Onward`);
a restart is a `Recover`, from the snapshot and with nothing newly committed (RestartRecovers).

### Sessions

A client accepts replies to the operation it has begun last, and many leaders may have
answered it: when it was applied, from the session of a node that had applied it before, or
to a retry that found the first copy in flight. AnsweredOnce says that these replies agree
and that the operation is committed. Its invariant `SessionInv` is about four things.

* What was begun: every command in a log, on the record or in an AppendEntries has been
  asked for by its client (`Begun`), so no history has a later command of that client.
* Who waits: only a leader lets anybody wait, and each request it keeps names an entry of
  its log that is that request (`Awaiting`). What makes this inductive is that a log loses
  entries only at a node that does not lead: it is a leader of a later term from whom it
  hears (LeaderHears), and stepping down answers nobody any more. So apply_committed never
  gives the result of one command to the client of another.
* What was answered: a reply is to a committed command, and a reply to the last operation of
  its client names the first index at which it was committed (`Answers`). The session of any
  node that knows the command has that index (FirstResult), because what was fed to a state
  machine is a prefix of the one committed log (`LogFed`, which every explanation of a
  snapshot gives: `ExplainedFed`), in which no later command of the client stands; and the
  record only grows at its end (AnswerStays).
* What came before: all operations but the last are committed (`EarlierCommitted`), because a
  client begins an operation only once the last was answered.

A result is named by an index here, as everywhere in `RaftNode`: two commands have the same
result when they took effect at the same place of the one history.

### Leases and reads

The theorems about `Reads` hold for every number of servers, elections, rounds, reads and clock
units, under assumptions that section 5 (StaleRead) and section 2 explain. `~MembershipChanges`: with
a leader that removes itself ReadsFresh is false of this code. `NoopOnElect`: without the
no-op a new leader does not know how far its predecessor committed (read_barrier). The clocks of those
who can be elected do not stop (`Electable` and `Freezable` do not meet): a leader whose clock
stands still believes in its lease for ever. With leases (`LeaseRules`), voters are sticky and none
crashes: what excludes a rival is the voters' memory, and it is not on the disk. In mode
read_index a server may crash at any time. The run Reads has the same restrictions.

`RBase` numbers rounds and terms: an answer or an acknowledgement of round r of a leader
comes after that leader opened r, and every term was reached by a majority. Whatever a handler
does is an `Outcome`; an election is `Won`.

`Leases` is the invariant of the lease. Whoever acknowledges a round that its leader still
tracks has heard that leader since the round was sent, also when its own clock has been
stopped (AnswersHeard); a lease was granted by a majority of those (LeasesGranted). The converse
carries the induction: for every term there is a majority of voters such that what they
have acknowledged to leaders of earlier terms is too old for a lease (TermsElected, `Out`) -
an acknowledgement still in flight included, because a voter that has heard a leader within
a lease refuses its vote, and after its vote it answers with a later term. The majority that
would extend the lease of an old leader meets that one, so the leases of earlier terms are
over (LeasesOver).

`FreshReads` is the invariant of reads. A leader may have been deposed without knowing it; what
it makes wait may then be too little. So each waiting read either has an index that
covers what was committed when it began, or its round is `Blocked`: a majority has gone on to
later terms without having acknowledged it, and never will. A read that joins a round that was
opened in the same instant is covered because nothing has been committed since (InstantFresh).
That a leader which nobody has superseded holds everything committed is the log argument once more:
`HistoryOf` is the explanation of section 'The log' for the messages of `Reads`, an
election raises the candidate and its voters to the new term together (RaisedAll) and then
elects (ElectedCarries). Survives gives LeaderCovers, and with the no-op at the end of the
log the barrier is what was committed (LoggedBarred).

### The oracle

The theorems about `Oracle` are for `SpecOracle`, a fixed membership and at least two members
(`Several`). They say that the oracle of the simulator is a fair judge of this code: its checks
do not fail, and its bookkeeping does not lose track. Both are about the oracle's own logic,
which forgets, cuts and anchors prefixes incrementally, as much as about the cluster.

`OracleInv` relates what the oracle keeps to a history that `Explains` the cluster. Every prefix
in its dictionary is that of a leader (`PrefixesSound`), and every entry of every log is there
(`Lists`); of a node it has exactly the prefixes of the log that is left (`Validated`), and
marks that are not ahead of the node (`WatchSound`); what it has on record was chosen in
the term of the record at the latest (`RecordKept`), and what it knows to be applied is on the
record of commits (`FedKept`). OracleSilent alone is far from inductive: whether
the next check fails depends on all that is kept.

An event moves one node (StepAlone), so it is one look. LookValidated is the core, about
one node with an old and a new log: what is cut away reaches down to the first entry that
differs (DeletedFrom), what is left is anchored at the snapshot point, and from there the
rest is validated. The anchor must be known, and that is an argument about the cluster:
what a node has just compacted, or was just sent, was chosen, so a majority has held it, and of
two members or more one is another node; it has not moved in this event, so the oracle has listed
the entry (ElsewhereListed). Here a cluster of one is left out: it never commits (section
5), but `IInv` does not say so.

None of the checks then fails: a follower deletes nothing that it has committed, because its
new log shares all that it had applied with the old one, and a leader deletes nothing
(NothingLost, out of what an event leaves in place, `Evolves`); prefixes found
twice are those of one leader (PrefixesAgree); a leader has all that is on record of earlier
terms, by Survives (LeaderHasAll); commits on record and commands that were fed agree with
what is found now (NewsKept, TraceKept). A snapshot that is installed goes further than the
commit index, and its receiver does not lead (InstalledFurther).

### Schedules and the shrinker

These theorems are for any number of nodes and faults, where the run Schedules takes up
to three. `SpecFaults` starts with any sequence of faults of `AnyFault`, in the order of
generate; the schedules of the run are some of these. `SpecShrink` starts with any
configuration that fails, and each replay may show anything.

OneMinimal speaks of the end only. What makes it inductive is PassSound: while a pass of
drop_pass has dropped nothing, every fault before its position has been seen to be needed
(`Needed`), under the present configuration. A pass that has dropped something claims nothing,
which is why it has to be followed by another one; a configuration that has changed makes
the replays of the past worthless, which is why the result goes through drop_pass again.

`WorldInv` relates what a fault has done to the place of its end in the queue. The events of a
queue are numbered in the order in which they take place (Numbers), without a gap
(NoNumberMissing): so as long as anything is ahead, something is next, time cannot pass it
(NothingLate), and whatever a fault has done is undone by an event that is still `Ahead` of
the heal time. A fault that has not started has done nothing (NotBegun), without which the
start of one would forget what it has already taken down. The clocks (ClocksCounted)
need no such argument: every way out of a pause goes through thaw.

### What is not proved

* Liveness (Replicates, Served, ShrinkEnds) and whatever needs ENABLED: out of reach of the prover.
* What recursive definitions compute for all inputs (Histories: the checker's search, the
  sessions): induction over data is out of its reach.
* Anything about the log under membership changes: the theorems would be false. The Membership
  run checks LeaderCompleteness within bounds that exclude the flaw.
  RemovedLeaderSteps is about membership changes only.

## 5. What disagrees with the code's own words

* **TwoMajorities** (node.py:899). The guard of a membership change asks that the leader's
  own last configuration entry be committed. The known repair of single-server changes
  also asks that an entry of the leader's current term be committed first. Without it: s1,
  leader of four, has appended the removal of s2 and reached nobody; s2 is elected and
  removes another server; the two configurations of three have majorities that do not meet,
  and a leader arises that lacks a committed entry. The code says of its guard that it
  prevents exactly this (node.py:900-901).
* **Rollback** (node.py:734-738). Truncating a configuration entry does not take the
  configuration back: the node keeps counting by an entry that is no longer in its log,
  until a restart rebuilds another configuration from what is left.
* **StaleRead** (node.py:415). A leader that has appended its own removal still counts
  itself among those who confirm a round of reads; advance_commit makes the distinction
  (node.py:505-506). In four servers it needs one other answer, while the other two elect a successor
  and commit; it then answers a read that began after that commit from its old state. The
  code says that a majority of replies is proof of still being leader (node.py:408-409).

Further observations, which no run states:

* A duplicate older than the client's session is answered with the cached result of a later
  command (kv/statemachine.py:55-58). The client ignores it (client.py:91).
* `pending_by_req` is entered under the client's id and popped under its address
  (node.py:544, :919), so its entries outlive their commands.
* A cluster whose configuration is a single node never commits: advance_commit runs on
  responses only (node.py:513).
* A message to a paused node is tested again for partitions and crashes when it is
  delivered after the pause (cluster.py:265-268), so that a fault in between drops it.
* A crash forgets that its node is paused but not by which fault, so that a later pause
  of the node is ended by the resume of an earlier one.
* `leader_minority` is sized by n_nodes also when initial_members is smaller
  (cluster.py:425-427).
* The longer replay of recovers_given_more_time (runner.py:43-57) is not of the same world:
  its duration changes the operator's draws and the time to heal (cluster.py:174-177).
* A refusal that is delivered twice starts a second chain of redirections (client.py:93-94).
* An entry that is committed and compacted in one event is not recorded by the oracle
  (invariants.py:240). It is no blind spot: what the node applies is compared all the same.

## 6. What is not modelled, and the plan

Not modelled, and why:

* That an election succeeds: it depends on random timeouts. Progress starts with a leader.
* Drift and offset of clocks, and leases across restarts of voters (section 2, Reads); the
  bound of 64 open rounds, which needs more rounds than TLC can enumerate.
* The random draws of operations, faults and latencies, and the options in config.py and
  swarm that steer them: the models allow every outcome.
* recovers_given_more_time, campaign.py, cli.py, timeline.py: process pools over
  independent seeds, argument parsing, tables and drawings. No state of a run depends on them.
* The counters, coverage marks, traces and percentiles, and the witness that the
  linearizability checker prints.

No step of the plan is left. What would be worth adding are `Several` as a consequence (that a
cluster of one never commits, as an invariant), and leases across restarts of voters, once
last_leader_contact is durable.
