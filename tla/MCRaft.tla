------------------------------- MODULE MCRaft -------------------------------
(***************************************************************************)
(* Clusters of three servers for TLC.  Besides Init there are three        *)
(* starting points in the middle of an execution, so that a run reaches    *)
(* further than it could from the first election.  Each is an ordinary     *)
(* state of the system, described by the operators of RaftNode, in which   *)
(* the earlier messages have been lost.                                    *)
(***************************************************************************)
EXTENDS RaftImplementsLog, TLC

CONSTANTS s1, s2, s3

ServerSymmetry == Permutations({s1, s2, s3})
FollowerSymmetry == Permutations({s2, s3})

\* The nodes, those that are up, the leaders so far, the votes they got and what
\* they committed.
StartFrom(nodes, up, leaders, votes, records) ==
  /\ node = [i \in Server |-> [nodes[i] EXCEPT !.dirty = FALSE]]
  /\ disk = [i \in Server |-> Durable(node[i])]
  /\ alive = [i \in Server |-> i \in up]
  /\ operatorSeq = 0
  /\ leaderOfTerm = leaders
  /\ votesByTerm = votes
  /\ committed = records

-----------------------------------------------------------------------------
\* s1 has won term 1 with the votes of the other members.
FirstLeader ==
  BecomeLeader(s1, [Campaign(s1, InitNode) EXCEPT !.votes = InitialMembers])

FirstFollower == [InitNode EXCEPT !.currentTerm = 1, !.votedFor = s1]

Led ==
  /\ StartFrom([i \in Server |-> IF i = s1 THEN FirstLeader
                               ELSE IF i \in InitialMembers THEN FirstFollower
                               ELSE InitNode],
               Server, {<<1, s1>>}, {<<i, 1, s1>> : i \in InitialMembers}, {})
  /\ msgs = {}
  /\ clientSeq = [c \in Client |-> 0]

InitLed == Led /\ crashes = 0 /\ timeouts = 0

-----------------------------------------------------------------------------
\* Figure 8 (c) of the Raft paper.  s1 in term 1 and then s2 in term 2, each with
\* the vote of s3, have written one entry that nobody else held, and crashed.  Now
\* s1 has won term 3, again with the vote of s3, and s3 has acknowledged the entry
\* of term 1, while s2 campaigns for term 4.
Holding(t) == [InitNode EXCEPT !.currentTerm = 3, !.log = <<Entry(t, NOOP)>>]

Reelected ==
  LET leader == BecomeLeader(s1, [Campaign(s1, [Holding(1) EXCEPT !.currentTerm = 2])
                                    EXCEPT !.votes = {s1, s3}])
  IN [leader EXCEPT !.nextIndex[s3] = 1, !.sentUpto[s3] = 0]

Acknowledging == [Holding(1) EXCEPT !.votedFor = s1, !.leaderId = s1]

Challenger == Campaign(s2, Holding(2))

InitDivergent ==
  /\ crashes = 0 /\ timeouts = 0
  /\ StartFrom([i \in Server |-> CASE i = s1 -> Sent(s1, Reelected, {s3})
                                  [] i = s2 -> Challenger
                                  [] i = s3 -> Acknowledging],
               Server, {<<1, s1>>, <<2, s2>>, <<3, s1>>},
               {<<s1, 1, s1>>, <<s3, 1, s1>>, <<s2, 2, s2>>, <<s3, 2, s2>>,
                <<s1, 3, s1>>, <<s3, 3, s1>>, <<s2, 4, s2>>}, {})
  /\ LET sent == MakeAppend(s1, Reelected, s3)
     IN msgs = {sent, AppendEntriesRespMsg(s3, Acknowledging, sent, TRUE, 1, 0, 0)}
               \cup {RequestVoteMsg(s2, p, Challenger) : p \in {s1, s3}}
  /\ clientSeq = [c \in Client |-> 0]

SpecDivergent == InitDivergent /\ [][Next]_vars

-----------------------------------------------------------------------------
\* s1 has committed, applied and answered the first operation of client 0 in
\* term 1 with the help of s2, then crashed; s2 has won term 2 with the vote of s3.  The
\* client has not seen the answer, and s2 has yet to learn of the commit.
Requested == Propose(s1, FirstLeader, ClientAddress(0), ClientCommand(0, 1))

Answered ==
  ApplyCommitted(s1, Acknowledged(s1, Sent(s1, Requested, {s2, s3}), s2,
                                  LastIndex(Requested)))

Successor ==
  BecomeLeader(s2, [Campaign(s2, [FirstFollower EXCEPT !.log = Requested.log])
                      EXCEPT !.votes = {s2, s3}])

InitRetry ==
  /\ crashes = MaxCrashes /\ timeouts = 0
  /\ StartFrom([i \in Server |->
                  CASE i = s1 -> Answered
                    [] i = s2 -> Successor
                    [] i = s3 -> [InitNode EXCEPT !.currentTerm = 2, !.votedFor = s2]],
               {s2, s3}, {<<1, s1>>, <<2, s2>>},
               {<<i, 1, s1>> : i \in Server} \cup {<<s2, 2, s2>>, <<s3, 2, s2>>},
               {[index |-> k, term |-> 1, cmd |-> Requested.log[k].cmd, committedIn |-> 1]
                  : k \in DOMAIN Requested.log})
  /\ msgs = {ClientReplyMsg(s1, ClientAddress(0), 0, 1, LastIndex(Requested))}
  /\ clientSeq = [c \in Client |-> IF c = 0 THEN 1 ELSE 0]

SpecRestart == (InitLed \/ InitRetry) /\ [][Next]_vars
=============================================================================
