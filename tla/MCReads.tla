------------------------------- MODULE MCReads -------------------------------
(***************************************************************************)
(* The read path of a cluster that has a leader, s1 of term 1.             *)
(***************************************************************************)
EXTENDS Reads

CONSTANTS s1, s2, s3, s4

Elected1 == BecomeLeader(s1, [Campaign(s1, InitNode) EXCEPT !.votes = InitialMembers])

FirstReads == [InitReadState EXCEPT !.termStart = 1, !.roundId = 1, !.open = 1,
                                    !.done = 1, !.until = ElectionMin]

Voted == [InitNode EXCEPT !.currentTerm = 1, !.votedFor = s1]

\* A follower that holds what the leader n holds.
Following(n) ==
  [Voted EXCEPT !.log = n.log, !.leaderId = s1, !.heardLeader = LeaderStickiness]

ClocksAt(t) == now = t /\ missed = [i \in Server |-> 0]

\* The nodes, the read state x of s1, and what has been sent and used.
StartFrom(nodes, x, broadcasts, budget) ==
  /\ node = [i \in Server |-> [nodes[i] EXCEPT !.dirty = FALSE]]
  /\ rd = [i \in Server |-> IF i = s1 THEN x ELSE InitReadState]
  /\ contact = [i \in Server |-> IF nodes[i].leaderId = s1 /\ i # s1 THEN 0 ELSE Never]
  /\ sent = broadcasts /\ answers = {} /\ committed = 1
  /\ floor = <<>> /\ served = {}
  /\ frozen = {} /\ instant = {}
  /\ used = budget

-----------------------------------------------------------------------------
\* s2 has answered the first round, which committed the no-op, and s1 has sent a
\* second one; s3 has heard of neither.  A lease is only as good as the clock of
\* the leader and the memory of the voters: with leases no server crashes, and
\* without them, where clocks play no part, none is stopped.
InitLed ==
  LET led == ApplyCommitted(s1, Acknowledged(s1, Elected1, s2, 1))
      x == OpenRound(s1, led, FirstReads)
  IN /\ readMode \in ReadModes
     /\ ClocksAt(IF readMode = "lease" THEN 0 ELSE MaxTime)
     /\ StartFrom([i \in Server |-> CASE i = s1 -> led
                                      [] i = s2 -> Following(led)
                                      [] OTHER -> Voted],
                  x, {Broadcast(s1, led, x)},
                  [elections |-> 0, rounds |-> 0,
                   restarts |-> IF readMode = "lease" THEN MaxRestarts ELSE 0,
                   freezes |-> IF readMode = "lease" THEN 0 ELSE MaxFreezes])

SpecLed == InitLed /\ [][Next]_vars

-----------------------------------------------------------------------------
\* Everybody holds the no-op, and the leader of four has appended its own removal
\* and broadcast it.
InitRemoved ==
  LET led == ApplyCommitted(s1, Acknowledged(s1, Acknowledged(s1, Elected1, s2, 1), s3, 1))
      removing == Propose(s1, led, OperatorAddress, ConfigCommand("remove", s1, 1))
      x == OpenRound(s1, removing, FirstReads)
  IN /\ readMode \in ReadModes
     /\ ClocksAt(0)
     /\ StartFrom([i \in Server |-> IF i = s1 THEN removing ELSE Following(led)],
                  x, {Broadcast(s1, removing, x)},
                  [elections |-> 0, rounds |-> 0, restarts |-> MaxRestarts,
                   freezes |-> MaxFreezes])

SpecRemoved == InitRemoved /\ [][Next]_vars
=============================================================================
