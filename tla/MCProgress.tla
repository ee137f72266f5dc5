----------------------------- MODULE MCProgress -----------------------------
(***************************************************************************)
(* Clusters of three servers that have a leader.                           *)
(***************************************************************************)
EXTENDS Progress

CONSTANTS s1, s2, s3

\* s1 leads; the nodes, the term and its voters, and the clients' operations.
StartFrom(nodes, t, voters, seqs) ==
  /\ node = [i \in Server |-> [nodes[i] EXCEPT !.dirty = FALSE]]
  /\ disk = [i \in Server |-> Durable(node[i])]
  /\ alive = [i \in Server |-> TRUE]
  /\ msgs = {}
  /\ clientSeq = seqs
  /\ operatorSeq = 0
  /\ timeouts = 0
  /\ leaderOfTerm = {<<t, s1>>}
  /\ votesByTerm = {<<i, t, s1>> : i \in voters}
  /\ committed = {}

Lead(n, votes) == BecomeLeader(s1, [Campaign(s1, n) EXCEPT !.votes = votes])

\* s1 has won term 3 with a log of term 2, s2 has nothing, and s3 a log of term 1.
InitDiverged ==
  LET Holding(t) == [InitNode EXCEPT !.currentTerm = 2,
                                     !.log = <<Entry(t, NOOP), Entry(t, NOOP)>>]
  IN StartFrom([i \in Server |->
                  CASE i = s1 -> Lead(Holding(2), {s1, s2})
                    [] i = s2 -> [InitNode EXCEPT !.currentTerm = 3, !.votedFor = s1]
                    [] i = s3 -> Holding(1)],
               3, {s1, s2}, [c \in Client |-> 0])

\* s1 leads term 1 and its first entry has been acknowledged; the clients wait for
\* the answers to an operation.
InitBusy ==
  LET first == Lead(InitNode, Server)
      led == ApplyCommitted(s1, Acknowledged(s1, Acknowledged(s1, first, s2, 1), s3, 1))
  IN /\ StartFrom([i \in Server |->
                     IF i = s1 THEN led
                     ELSE [InitNode EXCEPT !.currentTerm = 1, !.votedFor = s1,
                                           !.leaderId = s1, !.log = first.log]],
                  1, Server, [c \in Client |-> 1])

InitProgress ==
  \/ InitDiverged /\ crashes = MaxCrashes /\ troubles = 0
  \/ InitBusy /\ crashes = 0 /\ troubles = MaxTroubles
  \/ InitBusy /\ crashes = MaxCrashes /\ troubles = 0

SpecProgress == InitProgress /\ [][ProgressNext]_progressVars /\ Fairness
=============================================================================
