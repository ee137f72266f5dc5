----------------------------- MODULE MCMembers ------------------------------
(***************************************************************************)
(* Clusters of four servers whose membership changes.                      *)
(***************************************************************************)
EXTENDS Raft, TLC

CONSTANTS s1, s2, s3, s4

FollowerSymmetry == Permutations({s2, s3})

StartFrom(nodes, leaders, votes) ==
  /\ node = [i \in Server |-> [nodes[i] EXCEPT !.dirty = FALSE]]
  /\ disk = [i \in Server |-> Durable(node[i])]
  /\ alive = [i \in Server |-> TRUE]
  /\ msgs = {}
  /\ clientSeq = [c \in Client |-> 0]
  /\ leaderOfTerm = leaders
  /\ votesByTerm = votes

Voter(t, x) == [InitNode EXCEPT !.currentTerm = t, !.votedFor = x]

\* Leader i of term t, elected by the members Q on an empty log.
Elect(i, t, Q) ==
  BecomeLeader(i, [Campaign(i, [InitNode EXCEPT !.currentTerm = t - 1])
                     EXCEPT !.votes = Q])

\* i, leading n, has appended the operator's change number k.
Changing(i, n, action, x, k) ==
  LET p == Propose(i, n, OperatorAddress, ConfigCommand(action, x, k))
  IN Sent(i, p, Peers(i, p))

-----------------------------------------------------------------------------
\* s1 leads term 1; s4 is not a member.  Either the operator's request to add it is
\* to come, an earlier one having been lost, or s1 has just appended it.
InitElected ==
  \E appended \in BOOLEAN :
    LET leader == Elect(s1, 1, InitialMembers)
    IN /\ StartFrom([i \in Server |->
                       IF i = s1 THEN IF appended THEN Changing(s1, leader, "add", s4, 1)
                                      ELSE leader
                       ELSE IF i \in InitialMembers THEN Voter(1, s1) ELSE InitNode],
                    {<<1, s1>>}, {<<i, 1, s1>> : i \in InitialMembers})
       /\ operatorSeq = (IF appended THEN 2 ELSE 1)
       /\ crashes = (IF appended THEN 0 ELSE MaxCrashes)
       /\ timeouts = MaxTimeouts
       /\ committed = {}

\* All the others have acknowledged the first entry of s1.
AllHolding(n) ==
  Acknowledged(s1, Acknowledged(s1, Acknowledged(s1, n, s2, 1), s3, 1), s4, 1)

\* s1 leads term 1, has added s4 and compacted, and appended its own removal.
InitLeaving ==
  LET grown == ApplyCommitted(s1, AllHolding(Changing(s1, Elect(s1, 1, InitialMembers),
                                                      "add", s4, 1)))
      Following(i) == InstallState(i, [Voter(1, s1) EXCEPT !.leaderId = s1],
                                   InstallSnapshotMsg(s1, i, grown))
  IN /\ StartFrom([i \in Server |-> IF i = s1 THEN Changing(s1, grown, "remove", s1, 2)
                                   ELSE Following(i)],
                  {<<1, s1>>}, {<<i, 1, s1>> : i \in InitialMembers})
     /\ operatorSeq = 2 /\ timeouts = 0 /\ crashes = MaxCrashes
     /\ committed = {[index |-> 1, term |-> 1, cmd |-> ConfigCommand("add", s4, 1),
                      committedIn |-> 1]}

InitChanging == InitElected \/ InitLeaving

SpecChanging == InitChanging /\ [][Next]_vars

-----------------------------------------------------------------------------
\* All four are members.  s1, the leader of term 1, has appended the removal of
\* s2, which nobody else holds; then s2 has won term 2 with the other two votes.
InitRivals ==
  /\ StartFrom([i \in Server |->
                  CASE i = s1 -> Changing(s1, Elect(s1, 1, {s1, s3, s4}), "remove", s2, 1)
                    [] i = s2 -> Elect(s2, 2, {s2, s3, s4})
                    [] OTHER -> Voter(2, s2)],
               {<<1, s1>>, <<2, s2>>},
               {<<i, 1, s1>> : i \in {s1, s3, s4}} \cup {<<i, 2, s2>> : i \in {s2, s3, s4}})
  /\ operatorSeq = 1 /\ timeouts = 0 /\ crashes = 0
  /\ committed = {}

SpecRivals == InitRivals /\ [][Next]_vars
=============================================================================
