-------------------------------- MODULE Reads --------------------------------
(***************************************************************************)
(* The read path of raftlab/raft/node.py, read_mode "read_index" and       *)
(* "lease": numbered heartbeat rounds, reads that wait for a round, and    *)
(* the leader's lease.                                                     *)
(*                                                                         *)
(* The nodes are those of RaftNode.  What module Raft models in detail is  *)
(* coarser here.  An election is one step of the candidate and the voters: *)
(* a voter that will grant its vote can only lose its lease by waiting, so *)
(* nothing is lost by letting all of them vote when the last one does.     *)
(* AppendEntries carry the whole log, so that nothing is ever rejected but *)
(* for its term, and a crash and its restart are one step, as the disk is  *)
(* always current (DiskCurrent).  As in Raft a message may be received any *)
(* number of times, at any time, or never.                                 *)
(*                                                                         *)
(* Time.  Local clocks count coarse units for timers and leases, and run   *)
(* at one rate; a clock can be stopped by a pause with freeze.  Within one *)
(* millisecond no message is answered: a node can be at the instant of its *)
(* last broadcast only until somebody else takes a step, unless its clock  *)
(* is stopped.                                                             *)
(***************************************************************************)
EXTENDS RaftNode

CONSTANTS
  ReadModes,    \* the values RaftConfig.read_mode may have, other than "log"
  ElectionMin,  \* RaftConfig.election_timeout_min in clock units; 0: no clocks
  MaxElections, \* bound: elections won
  Electable,    \* bound: the servers that win them
  MaxReads,     \* bound: reads begun by the clients
  MaxRounds,    \* bound: broadcasts, other than those on an election
  MaxTime,      \* bound: clock units that pass
  MaxRestarts,  \* bound: crashes
  MaxFreezes,   \* bound: pauses that stop a clock
  Freezable     \* bound: the servers whose clock is stopped

ASSUME ReadsAssumption ==
  /\ ReadModes \subseteq {"read_index", "lease"}
  /\ {ElectionMin, MaxElections, MaxReads, MaxRounds, MaxTime, MaxRestarts,
      MaxFreezes} \subseteq Nat
  /\ Electable \subseteq Server /\ Freezable \subseteq Server
  /\ SnapshotThreshold = 0 \* the whole log is there to be sent

VARIABLES
  node,      \* node[i]: the RaftNode object
  rd,        \* rd[i]: its read state
  contact,   \* contact[i]: its last_leader_contact, or Never
  sent,      \* the broadcasts: what AppendEntries of a round says
  answers,   \* the AppendEntriesResp
  committed, \* the highest index that any node held to be committed
  floor,     \* floor[q]: what was committed when read q began
  served,    \* <<q, k>>: read q was answered from the first k entries
  now,       \* clock units passed
  missed,    \* missed[i]: Simulator.frozen_ms
  frozen,    \* the nodes that are paused with their clock stopped
  instant,   \* the nodes whose round_sent_at may still be now
  readMode,  \* RaftConfig.read_mode
  used       \* elections, rounds, restarts and freezes so far, for their bounds

vars == <<node, rd, contact, sent, answers, committed, floor, served, now,
          missed, frozen, instant, readMode, used>>

Never == -1

InitReadState ==
  [roundId |-> 0, open |-> 0, done |-> 0, acks |-> {}, sentAt |-> {},
   until |-> 0, termStart |-> 0, waiters |-> {}]

Init ==
  /\ node = [i \in Server |-> InitNode]
  /\ rd = [i \in Server |-> InitReadState]
  /\ contact = [i \in Server |-> Never]
  /\ sent = {} /\ answers = {} /\ committed = 0
  /\ floor = <<>> /\ served = {}
  /\ now = 0 /\ missed = [i \in Server |-> 0]
  /\ frozen = {} /\ instant = {}
  /\ readMode \in ReadModes
  /\ used = [elections |-> 0, rounds |-> 0, restarts |-> 0, freezes |-> 0]

Clock(i) == now - missed[i]

-----------------------------------------------------------------------------
(* Rounds.  acks holds <<round, member>>; a round is being tracked as long  *)
(* as its own sender is among them.  sentAt holds <<round, time>>.          *)

\* clear_read_state; round_id and term_start_index stay.
Cleared(x) ==
  [x EXCEPT !.open = 0, !.done = 0, !.acks = {}, !.sentAt = {}, !.until = 0,
            !.waiters = {}]

\* Mutant: the lease runs from the completion of the round.
CompleteRoundNow(x, r, t) ==
  IF r <= x.done THEN x
  ELSE [x EXCEPT !.done = r, !.until = Larger(@, t + ElectionMin),
                 !.acks = {a \in @ : a[1] > r}, !.sentAt = {s \in @ : s[1] > r}]

\* complete_round at local time t, up to its flush.  The lease runs from when the
\* round was sent.
CompleteRound(x, r, t) ==
  IF r <= x.done THEN x
  ELSE [x EXCEPT
          !.done = r,
          !.until = Largest({@} \cup {s[2] + ElectionMin : s \in {q \in x.sentAt : q[1] = r}}),
          !.acks = {a \in @ : a[1] > r},
          !.sentAt = {s \in @ : s[1] > r}]

Acknowledging(n, x, r, p, t) ==
  LET y == [x EXCEPT !.acks = @ \cup {<<r, p>>}]
  IN IF Cardinality({a \in y.acks : a[1] = r}) >= Majority(n)
     THEN CompleteRound(y, r, t) ELSE y

\* broadcast_append: a round is opened, and its sender is the first to answer.
OpenRound(i, n, x) ==
  LET r == x.roundId + 1
  IN Acknowledging(n, [x EXCEPT !.roundId = r, !.open = r,
                                !.sentAt = @ \cup {<<r, Clock(i)>>}], r, i, Clock(i))

\* Mutant: whoever answers, answers the round that is open.
AckLatest(i, n, x, r, p) ==
  IF x.open > x.done THEN Acknowledging(n, x, x.open, p, Clock(i)) ELSE x

\* A response of member p echoes round r: even a rejection acknowledges it.
AckRound(i, n, x, r, p) ==
  IF <<r, i>> \in x.acks THEN Acknowledging(n, x, r, p, Clock(i)) ELSE x

-----------------------------------------------------------------------------
(* Reads                                                                   *)

\* read_barrier.
ReadBarrier(n, x) ==
  IF NoopOnElect THEN Larger(n.commitIndex, x.termStart) ELSE n.commitIndex

\* The reads that flush_reads answers when k entries are applied.
Ready(x, k) == {w \in x.waiters : w.round <= x.done /\ k >= w.index}

Flushed(x, k) == [x EXCEPT !.waiters = @ \ Ready(x, k)]

Answered(x, k) == {<<w.read, k>> : w \in Ready(x, k)}

-----------------------------------------------------------------------------
(* What every event of a node does                                         *)

\* A broadcast of i: AppendEntries to each of its peers.
Broadcast(i, n, x) ==
  [src |-> i, to |-> Peers(i, n), round |-> x.open, term |-> n.currentTerm,
   log |-> n.log, commit |-> n.commitIndex]

\* Whether a response can still have an effect on its receiver n, whose rounds are
\* x: it brings a newer term, or it acknowledges more of the log or an open round.
\* One that cannot is lost without a loss of behaviours.
Matters(a, n, x) ==
  \/ a.term > n.currentTerm
  \/ /\ a.term = n.currentTerm
     /\ n.role = Leader
     /\ a.match > n.matchIndex[a.src] \/ <<a.round, a.dst>> \in x.acks

Respond(out) ==
  answers' = {a \in answers \cup out : Matters(a, node'[a.dst], rd'[a.dst])}

\* The handler of node i has made n and x of it, has answered the reads of early and
\* responds with out; apply_committed and its flush_reads follow.
Post(i, n, x, early, out) ==
  LET a == ApplyCommitted(i, n)
      y == IF a.role = Leader THEN x ELSE Cleared(x)
  IN /\ i \notin frozen
     /\ node' = [node EXCEPT ![i] = [a EXCEPT !.dirty = FALSE]]
     /\ rd' = [rd EXCEPT ![i] = Flushed(y, a.lastApplied)]
     /\ served' = served \cup early \cup Answered(y, a.lastApplied)
     /\ Respond(out)
     /\ committed' = Larger(committed, a.commitIndex)
     /\ UNCHANGED <<floor, now, missed, frozen, readMode>>

\* Time passes between an event of node i and an event of another node.
After(i) == {j \in instant : j = i \/ j \in frozen}

Quiet(i) == instant' = After(i) /\ UNCHANGED <<sent, used>>

MayBroadcast ==
  /\ used.rounds < MaxRounds
  /\ used' = [used EXCEPT !.rounds = @ + 1]

Send(i, n, x) ==
  /\ sent' = sent \cup {Broadcast(i, n, x)}
  /\ instant' = After(i) \cup {i}

-----------------------------------------------------------------------------
(* Replication                                                             *)

\* on_tick of a leader.
Heartbeat(i) ==
  LET x == OpenRound(i, node[i], rd[i])
  IN /\ node[i].role = Leader
     /\ MayBroadcast
     /\ Post(i, node[i], x, {}, {})
     /\ Send(i, node[i], x)
     /\ UNCHANGED contact

\* handle_append_entries; the response echoes the round.
HandleAppendEntries(i, b) ==
  LET n == node[i]
      m == [src |-> b.src, term |-> b.term, prevLogIndex |-> 0, entries |-> b.log,
            leaderCommit |-> b.commit]
      Answer(s, match) ==
        {[src |-> i, dst |-> b.src, term |-> s.currentTerm, round |-> b.round,
          match |-> match]}
  IN /\ i \in b.to
     /\ Quiet(i)
     /\ \/ /\ Stale(n, m)
           /\ Post(i, n, rd[i], {}, Answer(n, 0))
           /\ UNCHANGED contact
        \/ /\ ~Stale(n, m)
           /\ LET s == LearnCommit(MergeEntries(i, Recognise(n, m), m), m)
              IN Post(i, s, rd[i], {}, Answer(s, Len(b.log)))
           /\ contact' = [contact EXCEPT ![i] = Clock(i)]

\* handle_append_entries_resp: the round is acknowledged, and reads are answered,
\* before the response takes effect on the log.
HandleAppendEntriesResp(i, a) ==
  LET n == node[i]
      x == AckRound(i, n, rd[i], a.round, a.src)
      k == n.lastApplied
  IN /\ a.dst = i
     /\ Quiet(i)
     /\ UNCHANGED contact
     /\ \/ /\ a.term > n.currentTerm
           /\ Post(i, StepDown(n, a.term), rd[i], {}, {})
        \/ /\ a.term = n.currentTerm
           /\ n.role = Leader
           /\ Post(i, Acknowledged(i, n, a.src, a.match), Flushed(x, k), Answered(x, k), {})

-----------------------------------------------------------------------------
(* Elections                                                               *)

InLeaderLease(i) ==
  /\ LeaderStickiness
  /\ contact[i] # Never
  /\ Clock(i) - contact[i] < ElectionMin

\* Member i times out and wins the votes of Q, none of whom believes that a leader
\* is at work; become_leader starts a new round.
Elect(i, Q) ==
  LET c == Campaign(i, node[i])
      n == BecomeLeader(i, [c EXCEPT !.votes = Q])
      x == OpenRound(i, n, [Cleared(rd[i]) EXCEPT !.termStart = LastIndex(c) + 1])
      Votes(v) == VoteFor(StepDown(node[v], c.currentTerm), i)
  IN /\ i \in Electable /\ used.elections < MaxElections
     /\ node[i].role # Leader
     /\ i \in Q /\ Q \subseteq node[i].members
     /\ Cardinality(Q) >= Majority(node[i])
     /\ contact[i] # Never => Clock(i) - contact[i] >= ElectionMin
     /\ \A v \in Q \ {i} :
          /\ v \notin frozen
          /\ ~InLeaderLease(v)
          /\ node[v].currentTerm < c.currentTerm
          /\ LogIsCurrent(node[v], RequestVoteMsg(i, v, c))
     /\ i \notin frozen
     /\ node' = [v \in Server |-> IF v = i THEN n ELSE IF v \in Q THEN Votes(v) ELSE node[v]]
     /\ rd' = [v \in Server |-> IF v = i THEN x ELSE IF v \in Q THEN Cleared(rd[v]) ELSE rd[v]]
     /\ Send(i, n, x)
     /\ used' = [used EXCEPT !.elections = @ + 1]
     /\ Respond({})
     /\ UNCHANGED <<contact, committed, floor, served, now, missed, frozen, readMode>>

-----------------------------------------------------------------------------
(* Clients                                                                 *)

\* A client begins a read.
BeginRead ==
  /\ Len(floor) < MaxReads
  /\ floor' = Append(floor, committed)
  /\ instant' = instant \cap frozen
  /\ UNCHANGED <<node, rd, contact, sent, answers, committed, served, now, missed,
                 frozen, readMode, used>>

LeaseHeld(i) == readMode = "lease" /\ Clock(i) < rd[i].until

\* serve_read at a leader, for a request of read q that may have been under way
\* for long or be a repetition.
ServeRead(i, q) ==
  LET n == node[i]
      barrier == ReadBarrier(n, rd[i])
      opened == OpenRound(i, n, rd[i])
      Waiting(x) == [x EXCEPT !.waiters =
                       @ \cup {[round |-> x.open, index |-> barrier, read |-> q]}]
      byLease == LeaseHeld(i) /\ n.lastApplied >= barrier
  IN /\ n.role = Leader
     /\ UNCHANGED contact
     /\ \/ /\ byLease
           /\ Post(i, n, rd[i], {<<q, n.lastApplied>>}, {})
           /\ Quiet(i)
        \/ \* a round opened this instant
           /\ ~byLease
           /\ i \in instant /\ rd[i].open # 0
           /\ Post(i, n, Waiting(rd[i]), {}, {})
           /\ Quiet(i)
        \/ \* time has passed since the last broadcast
           /\ ~byLease
           /\ MayBroadcast
           /\ Post(i, n, Waiting(opened), {}, {})
           /\ Send(i, n, opened)

-----------------------------------------------------------------------------
(* Crashes, pauses and time                                                *)

\* A crash, which ends the pause of its node, and the restart: the last contact
\* with a leader is forgotten.
Restart(i) ==
  /\ used.restarts < MaxRestarts
  /\ used' = [used EXCEPT !.restarts = @ + 1]
  /\ node' = [node EXCEPT ![i] = [Restarted(i, @, Durable(@)) EXCEPT !.dirty = FALSE]]
  /\ rd' = [rd EXCEPT ![i] = Cleared(@)]
  /\ contact' = [contact EXCEPT ![i] = Never]
  /\ frozen' = frozen \ {i}
  /\ instant' = (instant \cap frozen) \ {i}
  /\ Respond({})
  /\ UNCHANGED <<sent, committed, floor, served, now, missed, readMode>>

\* ev_pause with freeze; a pause without is a delay of every message.
Freeze(i) ==
  /\ used.freezes < MaxFreezes
  /\ i \in Freezable \ frozen
  /\ used' = [used EXCEPT !.freezes = @ + 1]
  /\ frozen' = frozen \cup {i}
  /\ UNCHANGED <<node, rd, contact, sent, answers, committed, floor, served, now,
                 missed, instant, readMode>>

\* ev_resume and thaw.
Thaw(i) ==
  /\ i \in frozen
  /\ frozen' = frozen \ {i}
  /\ UNCHANGED <<node, rd, contact, sent, answers, committed, floor, served, now,
                 missed, instant, readMode, used>>

\* node_now: a stopped clock misses the time that passes.
Tick ==
  /\ now < MaxTime
  /\ now' = now + 1
  /\ missed' = [i \in Server |-> IF i \in frozen THEN missed[i] + 1 ELSE missed[i]]
  /\ instant' = instant \cap frozen
  /\ UNCHANGED <<node, rd, contact, sent, answers, committed, floor, served, frozen,
                 readMode, used>>

-----------------------------------------------------------------------------
Next ==
  \/ BeginRead
  \/ Tick
  \/ \E i \in Server :
       \/ Heartbeat(i)
       \/ \E b \in sent : HandleAppendEntries(i, b)
       \/ \E a \in answers : HandleAppendEntriesResp(i, a)
       \/ \E Q \in SUBSET Server : Elect(i, Q)
       \/ \E q \in 1 .. Len(floor) : ServeRead(i, q)
       \/ Restart(i)
       \/ Freeze(i)
       \/ Thaw(i)

Spec == Init /\ [][Next]_vars

-----------------------------------------------------------------------------
(* Properties                                                              *)

\* A read is never stale: whichever leader answers it, by a round or by its lease,
\* does so from a state that includes everything that was committed anywhere when
\* the read began (section 6.4; linearizability of the read path).
ReadsFresh == \A s \in served : s[2] >= floor[s[1]]

\* While a leader believes in its lease there is no leader of a later term: the
\* voters who acknowledged the round refuse their votes until the lease has run
\* out, also when their own clocks have been stopped (section 6.4.1).
LeaseExclusive ==
  \A i, j \in Server :
    /\ node[i].role = Leader /\ i \notin frozen /\ LeaseHeld(i)
    /\ node[j].role = Leader
    => node[j].currentTerm <= node[i].currentTerm
=============================================================================
