------------------------------ MODULE RaftProofs ------------------------------
(***************************************************************************)
(* The theorems about the cluster of module Raft, for every set of servers *)
(* and every value of the other constants and bounds.                      *)
(*                                                                         *)
(* One inductive invariant, IInv, carries them.  Each action but Crash and *)
(* the clients' own is: a handler turns node[i] into n, apply_committed    *)
(* turns n into a, a is saved and observed, messages are sent.  So there   *)
(* is one lemma on what a save and an observation preserve (SaveStep), one *)
(* on a whole event (FinishStep), and one per action that shows its        *)
(* handler to be Proper and its messages to be Lawful.                     *)
(*                                                                         *)
(* The theorem about polls needs an invariant of its own, PollInv, which   *)
(* IInv's facts about the handlers carry through every step.               *)
(***************************************************************************)
EXTENDS Raft, RaftLogProofs

-----------------------------------------------------------------------------
(* The inductive invariant *)

\* The types of what a node does, saves and is observed to do.
StateTyped ==
  /\ node \in [Server -> NodeState]
  /\ \A i \in Server : node[i].snapshotIndex <= node[i].lastApplied
  /\ disk \in [Server -> DurableState]
  /\ leaderOfTerm \subseteq Nat \X Server
  /\ votesByTerm \subseteq Server \X Nat \X Server

\* The types of the messages.
MessagesTyped ==
  \A m \in msgs : m.type # "ClientReply" => m \in NodeMessage

\* The types of the rest of the state.
CountersTyped ==
  /\ alive \in [Server -> BOOLEAN]
  /\ clientSeq \in [Client -> Nat]
  /\ operatorSeq \in Nat /\ crashes \in Nat /\ timeouts \in Nat

\* A vote that was observed is still the voter's vote, or its term has passed.  This is
\* what makes one vote per term inductive.
VotesKept ==
  \A v \in votesByTerm :
    \/ node[v[1]].currentTerm > v[2]
    \/ node[v[1]].currentTerm = v[2] /\ node[v[1]].votedFor = v[3]

\* All of S voted for x in term t.
VotesFor(S, t, x) == \A p \in S : <<p, t, x>> \in votesByTerm

\* Only members vote and are polled.
MembersVote ==
  /\ \A v \in votesByTerm : v[1] \in InitialMembers
  /\ \A i \in Server :
       /\ node[i].votedFor # Nil => i \in InitialMembers
       /\ node[i].role = PreCandidate => i \in InitialMembers

\* The votes that a candidate has counted were cast.
CandidatesBacked ==
  \A i \in Server :
    node[i].role = Candidate => VotesFor(node[i].votes, node[i].currentTerm, i)

\* Every leader that was ever observed has the votes of a majority.
LeadersElected ==
  /\ \A i \in Server :
       node[i].role = Leader => <<node[i].currentTerm, i>> \in leaderOfTerm
  /\ \A e \in leaderOfTerm :
       \E Q \in SUBSET InitialMembers : Electors(Q) /\ VotesFor(Q, e[1], e[2])

\* A granted vote in flight was cast, and only members are asked.
VotesOnWire ==
  \A m \in msgs :
    /\ m.type = "RequestVote" => m.dst \in InitialMembers
    /\ m.type = "RequestVoteResp" /\ m.granted =>
         <<m.src, m.term, m.dst>> \in votesByTerm

\* What an event at one node preserves.
StateInv ==
  /\ StateTyped
  /\ DiskCurrent
  /\ VotesKept
  /\ VoteSafety
  /\ ~MembershipChanges => MembersVote /\ CandidatesBacked /\ LeadersElected

\* What the messages in flight carry.
MessageInv == MessagesTyped /\ (~MembershipChanges => VotesOnWire)

\* The invariant.  The parts about the electorate are for a fixed one.
IInv == StateInv /\ MessageInv /\ CountersTyped

-----------------------------------------------------------------------------
(* One event *)

\* The vote of a later moment: a newer term, or the same vote, or a first one.
LaterVote(o, n) ==
  \/ n.currentTerm > o.currentTerm
  \/ /\ n.currentTerm = o.currentTerm
     /\ n.votedFor = o.votedFor \/ o.votedFor = Nil

\* The votes that n has counted were cast, or n casts its own in this event.
OwnOrCast(i, n) ==
  \A p \in n.votes : \/ <<p, n.currentTerm, i>> \in votesByTerm
                     \/ p = i /\ n.votedFor = i

\* What a handler at node i may make of the node.
Proper(i, n) ==
  /\ Sane(n)
  /\ Persists(node[i], n)
  /\ LaterVote(node[i], n)
  /\ ~MembershipChanges =>
       /\ n.votedFor # Nil => i \in InitialMembers
       /\ n.role = PreCandidate => i \in InitialMembers
       /\ n.role = Candidate => OwnOrCast(i, n)
       /\ n.role = Leader =>
            \/ node[i].role = Leader /\ n.currentTerm = node[i].currentTerm
            \/ Electors(n.votes) /\ OwnOrCast(i, n)

\* What it may send.
Lawful(i, n, out) ==
  \A m \in out :
    m.type # "ClientReply" =>
      /\ m \in NodeMessage
      /\ ~MembershipChanges =>
           /\ m.type = "RequestVote" => m.dst \in InitialMembers
           /\ m.type = "RequestVoteResp" /\ m.granted =>
                m.src = i /\ m.term = n.currentTerm /\ m.dst = n.votedFor

\* Messages that are not about votes.
Quiet(out) ==
  \A m \in out :
    m.type # "ClientReply" =>
      m \in NodeMessage /\ m.type \notin {"RequestVote", "RequestVoteResp"}

\* A save and the observation that follows keep the part of the invariant about the state:
\* the disk is current after it (Simulator.post), and a vote that is observed agrees with
\* those observed before.
LEMMA SaveStep ==
  ASSUME StateInv, NEW i \in Server, NEW n, NEW a, Proper(i, a),
         Save(i, a), Observe(i, n, a)
  PROVE  /\ StateInv'
         /\ votesByTerm \subseteq votesByTerm'
         /\ a.votedFor # Nil => <<i, a.currentTerm, a.votedFor>> \in votesByTerm'
<1> DEFINE b == [a EXCEPT !.dirty = FALSE]
<1>0. a \in NodeState /\ a.snapshotIndex <= a.lastApplied
  BY DEF Proper, Sane
<1>1. b \in NodeState
  BY <1>0, ZenonT(90) DEF NodeState
<1>2. /\ b.currentTerm = a.currentTerm /\ b.votedFor = a.votedFor /\ b.log = a.log
      /\ b.snapshotIndex = a.snapshotIndex /\ b.snapshotTerm = a.snapshotTerm
      /\ b.snapshotData = a.snapshotData /\ b.snapshotMembers = a.snapshotMembers
      /\ b.role = a.role /\ b.votes = a.votes /\ b.lastApplied = a.lastApplied
  BY <1>0, SMTT(30) DEF NodeState
<1>3. node' = [node EXCEPT ![i] = b]
  BY DEF Save
<1> HIDE DEF b
<1>4. node \in [Server -> NodeState] /\ disk \in [Server -> DurableState]
  BY DEF StateInv, StateTyped
<1>5. node'[i] = b /\ \A j \in Server : j # i => node'[j] = node[j]
  BY <1>3, <1>4
<1>6. Durable(a) \in DurableState /\ Durable(b) = Durable(a)
  BY <1>0, <1>2, SMTT(30) DEF Durable, DurableState, NodeState
<1>7. disk'[i] = Durable(b) /\ \A j \in Server : j # i => disk'[j] = disk[j]
  <2>1. CASE a.dirty
    BY <2>1, <1>4, <1>6 DEF Save
  <2>2. CASE ~a.dirty
    <3>1. Durable(a) = Durable(node[i])
      BY <2>2 DEF Proper, Persists
    <3>2. disk[i] = Durable(node[i])
      BY DEF StateInv, DiskCurrent
    <3> QED BY <2>2, <3>1, <3>2, <1>6 DEF Save
  <2> QED BY <2>1, <2>2
<1>8. StateTyped'
  <2>1. node' \in [Server -> NodeState]
    BY <1>1, <1>3, <1>4
  <2>2. \A j \in Server : node'[j].snapshotIndex <= node'[j].lastApplied
    BY <1>0, <1>2, <1>5 DEF StateInv, StateTyped
  <2>3. disk' \in [Server -> DurableState]
    BY <1>4, <1>6 DEF Save
  <2>4. a.currentTerm \in Nat /\ a.votedFor \in Server \cup {Nil}
    BY <1>0 DEF NodeState
  <2>5. leaderOfTerm' \subseteq Nat \X Server
    BY <2>4 DEF Observe, StateInv, StateTyped
  <2>6. votesByTerm' \subseteq Server \X Nat \X Server
    BY <2>4 DEF Observe, StateInv, StateTyped
  <2> QED BY <2>1, <2>2, <2>3, <2>5, <2>6 DEF StateTyped
<1>9. DiskCurrent'
  BY <1>5, <1>7 DEF DiskCurrent, StateInv
<1>10. votesByTerm' = votesByTerm \cup
         (IF a.votedFor # Nil THEN {<<i, a.currentTerm, a.votedFor>>} ELSE {})
  BY DEF Observe
<1>11. votesByTerm \subseteq Server \X Nat \X Server
  BY DEF StateInv, StateTyped
<1>12. a.currentTerm \in Nat /\ node[i].currentTerm \in Nat /\ LaterVote(node[i], a)
  BY <1>0, <1>4 DEF NodeState, Proper
<1>13. VotesKept'
  <2> SUFFICES ASSUME NEW v \in votesByTerm'
               PROVE  \/ node'[v[1]].currentTerm > v[2]
                      \/ node'[v[1]].currentTerm = v[2] /\ node'[v[1]].votedFor = v[3]
    BY DEF VotesKept
  <2>1. CASE v \in votesByTerm
    <3>1. v[1] \in Server /\ v[2] \in Nat /\ v[3] \in Server /\ v[3] # Nil
      BY <2>1, <1>11, ServerAssumption
    <3>2. \/ node[v[1]].currentTerm > v[2]
          \/ node[v[1]].currentTerm = v[2] /\ node[v[1]].votedFor = v[3]
      BY <2>1 DEF StateInv, VotesKept
    <3>3. CASE v[1] # i
      BY <3>1, <3>2, <3>3, <1>5
    <3>4. CASE v[1] = i
      BY <3>1, <3>2, <3>4, <1>2, <1>5, <1>12 DEF LaterVote
    <3> QED BY <3>3, <3>4
  <2>2. CASE v \notin votesByTerm
    <3>1. v = <<i, a.currentTerm, a.votedFor>>
      BY <2>2, <1>10
    <3> QED BY <3>1, <1>2, <1>5
  <2> QED BY <2>1, <2>2
<1>14. VoteSafety'
  <2>1. ASSUME NEW v \in votesByTerm, v[1] = i, v[2] = a.currentTerm, a.votedFor # Nil
        PROVE  v[3] = a.votedFor
    <3>1. v[2] \in Nat /\ v[3] # Nil
      BY <1>11, ServerAssumption
    <3>2. \/ node[i].currentTerm > v[2]
          \/ node[i].currentTerm = v[2] /\ node[i].votedFor = v[3]
      BY <2>1 DEF StateInv, VotesKept
    <3> QED BY <2>1, <3>1, <3>2, <1>12 DEF LaterVote
  <2>2. \A v, w \in votesByTerm : v[1] = w[1] /\ v[2] = w[2] => v[3] = w[3]
    BY DEF StateInv, VoteSafety
  <2> QED BY <2>1, <2>2, <1>10 DEF VoteSafety
<1>15. ASSUME ~MembershipChanges
       PROVE  (MembersVote /\ CandidatesBacked /\ LeadersElected)'
  <2>1. MembersVote /\ CandidatesBacked /\ LeadersElected
    BY <1>15 DEF StateInv
  <2>2. /\ a.votedFor # Nil => i \in InitialMembers
        /\ a.role = PreCandidate => i \in InitialMembers
        /\ a.role = Candidate => OwnOrCast(i, a)
        /\ a.role = Leader =>
             \/ node[i].role = Leader /\ a.currentTerm = node[i].currentTerm
             \/ Electors(a.votes) /\ OwnOrCast(i, a)
    BY <1>15 DEF Proper
  <2>3. OwnOrCast(i, a) => \A p \in a.votes : <<p, a.currentTerm, i>> \in votesByTerm'
    BY <1>10, ServerAssumption DEF OwnOrCast
  <2>4. MembersVote'
    <3>1. \A v \in votesByTerm' : v[1] \in InitialMembers
      BY <2>1, <2>2, <1>10 DEF MembersVote
    <3>2. \A j \in Server : /\ node'[j].votedFor # Nil => j \in InitialMembers
                            /\ node'[j].role = PreCandidate => j \in InitialMembers
      BY <2>1, <2>2, <1>2, <1>5 DEF MembersVote
    <3> QED BY <3>1, <3>2 DEF MembersVote
  <2>5. CandidatesBacked'
    <3> SUFFICES ASSUME NEW j \in Server, node'[j].role = Candidate,
                        NEW p \in node'[j].votes
                 PROVE  <<p, node'[j].currentTerm, j>> \in votesByTerm'
      BY DEF CandidatesBacked, VotesFor
    <3>1. CASE j = i
      BY <3>1, <2>2, <2>3, <1>2, <1>5
    <3>2. CASE j # i
      BY <3>2, <2>1, <1>5, <1>10 DEF CandidatesBacked, VotesFor
    <3> QED BY <3>1, <3>2
  <2>6. leaderOfTerm' = leaderOfTerm \cup
          (IF a.role = Leader THEN {<<a.currentTerm, i>>} ELSE {})
    BY DEF Observe
  <2>7. \A j \in Server : node'[j].role = Leader
                            => <<node'[j].currentTerm, j>> \in leaderOfTerm'
    BY <2>1, <2>6, <1>2, <1>5 DEF LeadersElected
  <2>8. ASSUME NEW e \in leaderOfTerm'
        PROVE  \E Q \in SUBSET InitialMembers :
                 Electors(Q) /\ \A p \in Q : <<p, e[1], e[2]>> \in votesByTerm'
    <3>1. CASE e \in leaderOfTerm
      BY <3>1, <2>1, <1>10 DEF LeadersElected, VotesFor
    <3>2. CASE e \notin leaderOfTerm
      <4>1. e = <<a.currentTerm, i>> /\ a.role = Leader
        BY <3>2, <2>6
      <4>2. Electors(a.votes) /\ OwnOrCast(i, a)
        BY <3>2, <4>1, <2>1, <2>2 DEF LeadersElected
      <4>3. a.votes \in SUBSET InitialMembers
        BY <4>2, <2>1, <2>2, ServerAssumption DEF OwnOrCast, MembersVote
      <4> QED BY <4>1, <4>2, <4>3, <2>3
    <3> QED BY <3>1, <3>2
  <2>9. LeadersElected'
    BY <2>7, <2>8 DEF LeadersElected, VotesFor
  <2> QED BY <2>4, <2>5, <2>9
<1> QED BY <1>8, <1>9, <1>10, <1>13, <1>14, <1>15 DEF StateInv

\* apply_committed, which keeps term and vote, keeps a node proper.
LEMMA ProperKept ==
  ASSUME NEW i \in Server, NEW n, NEW a, Proper(i, n), Sane(a), Persists(n, a), Keeps(n, a)
  PROVE  Proper(i, a)
<1>1. Persists(node[i], a)
  BY RelationsCompose DEF Proper
<1>2. LaterVote(node[i], a)
  BY DEF Proper, LaterVote, Keeps
<1>3. OwnOrCast(i, n) /\ a.votes = n.votes => OwnOrCast(i, a)
  BY DEF OwnOrCast, Keeps
<1>4. Follower # PreCandidate /\ Follower # Candidate /\ Follower # Leader
  BY DEF Follower, PreCandidate, Candidate, Leader
<1> QED BY <1>1, <1>2, <1>3, <1>4 DEF Proper, Keeps

\* A whole event keeps the invariant if its handler is proper and its messages lawful.
LEMMA FinishStep ==
  ASSUME IInv, timeouts' \in Nat, NEW i \in Server, NEW n, NEW out,
         Proper(i, n), Lawful(i, n, out), Finish(i, n, out)
  PROVE  IInv'
<1> DEFINE a == ApplyCommitted(i, n)
           sent == out \cup AppliedOut(i, n)
<1>1. Sane(a) /\ Persists(n, a) /\ Keeps(n, a)
  BY ApplyCommittedFacts DEF Proper
<1>2. Save(i, a) /\ Observe(i, n, a) /\ Send(i, a, sent)
      /\ UNCHANGED <<alive, clientSeq, operatorSeq, crashes>>
  BY DEF Finish
<1> HIDE DEF a
<1>3. Proper(i, a)
  BY <1>1, ProperKept
<1>4. /\ StateInv'
      /\ votesByTerm \subseteq votesByTerm'
      /\ a.votedFor # Nil => <<i, a.currentTerm, a.votedFor>> \in votesByTerm'
  BY <1>2, <1>3, SaveStep DEF IInv
<1>5. CountersTyped'
  BY <1>2 DEF IInv, CountersTyped
<1>6. ASSUME NEW m \in msgs', m.type # "ClientReply"
      PROVE  m \in msgs \/ m \in out
  <2>1. \A q \in AppliedOut(i, n) : q.type = "ClientReply"
    BY DEF AppliedOut, ClientReplyMsg
  <2>2. msgs' \subseteq msgs \cup sent
    BY <1>2 DEF Send
  <2> QED BY <1>6, <2>1, <2>2
<1>7. MessagesTyped'
  BY <1>6 DEF MessagesTyped, IInv, MessageInv, Lawful
<1>8. ASSUME ~MembershipChanges
      PROVE  VotesOnWire'
  <2> SUFFICES ASSUME NEW m \in msgs'
               PROVE  /\ m.type = "RequestVote" => m.dst \in InitialMembers
                      /\ m.type = "RequestVoteResp" /\ m.granted =>
                           <<m.src, m.term, m.dst>> \in votesByTerm'
    BY DEF VotesOnWire
  <2>1. CASE m \in msgs
    BY <2>1, <1>4, <1>8 DEF IInv, MessageInv, VotesOnWire
  <2>2. CASE m \in out
    <3>1. ASSUME m.type = "RequestVote" PROVE m.dst \in InitialMembers
      BY <2>2, <3>1, <1>8 DEF Lawful
    <3>2. ASSUME m.type = "RequestVoteResp", m.granted
          PROVE  <<m.src, m.term, m.dst>> \in votesByTerm'
      <4>1. m \in NodeMessage /\ m.src = i /\ m.term = n.currentTerm /\ m.dst = n.votedFor
        BY <2>2, <3>2, <1>8 DEF Lawful
      <4>2. m.dst # Nil
        BY <4>1, MessageOfType, ServerAssumption
      <4> QED BY <4>1, <4>2, <1>1, <1>4 DEF Keeps
    <3> QED BY <3>1, <3>2
  <2>3. CASE m.type = "ClientReply"
    BY <2>3
  <2> QED BY <2>1, <2>2, <2>3, <1>6
<1> QED BY <1>4, <1>5, <1>7, <1>8 DEF IInv, MessageInv

\* A handler that yields is proper: it casts no vote and wins nothing.
LEMMA YieldIsProper ==
  ASSUME StateInv, NEW i \in Server, NEW n, Sane(n), Persists(node[i], n), Yields(node[i], n)
  PROVE  Proper(i, n)
<1>1. LaterVote(node[i], n)
  BY DEF LaterVote, Yields
<1>2. Follower # PreCandidate /\ Follower # Candidate /\ Follower # Leader
  BY DEF Follower, PreCandidate, Candidate, Leader
<1>3. ASSUME ~MembershipChanges
      PROVE  /\ n.votedFor # Nil => i \in InitialMembers
             /\ n.role = PreCandidate => i \in InitialMembers
             /\ n.role = Candidate => OwnOrCast(i, n)
             /\ n.role = Leader =>
                  node[i].role = Leader /\ n.currentTerm = node[i].currentTerm
  <2>1. MembersVote /\ CandidatesBacked
    BY <1>3 DEF StateInv
  <2>2. n.votedFor # Nil => i \in InitialMembers
    BY <2>1 DEF MembersVote, Yields
  <2>3. n.role = PreCandidate => i \in InitialMembers
    BY <2>1, <1>2 DEF MembersVote, Yields
  <2>4. n.role = Candidate => OwnOrCast(i, n)
    BY <2>1, <1>2 DEF CandidatesBacked, VotesFor, OwnOrCast, Yields
  <2>5. n.role = Leader => node[i].role = Leader /\ n.currentTerm = node[i].currentTerm
    BY <1>2 DEF Yields
  <2> QED BY <2>2, <2>3, <2>4, <2>5
<1> QED BY <1>1, <1>3 DEF Proper

\* Messages that are not about votes are lawful.
LEMMA QuietIsLawful ==
  ASSUME NEW i, NEW n, NEW out, Quiet(out)
  PROVE  Lawful(i, n, out)
  BY DEF Quiet, Lawful

\* What a leader sends to its peers is not about votes.
LEMMA AppendsQuiet ==
  ASSUME NEW i \in Server, NEW n \in NodeState, NEW P \in SUBSET Server
  PROVE  Quiet(Appends(i, n, P))
<1> SUFFICES ASSUME NEW p \in P
             PROVE  /\ MakeAppend(i, n, p) \in NodeMessage
                    /\ MakeAppend(i, n, p).type \notin {"RequestVote", "RequestVoteResp"}
  BY DEF Quiet, Appends
<1>1. MakeAppend(i, n, p) \in AppendEntries \cup InstallSnapshot
  BY MakeAppendType
<1> QED BY <1>1 DEF NodeMessage, AppendEntries, InstallSnapshot

\* Neither are the answers of a follower, nor a poll.
LEMMA QuietReplies ==
  ASSUME NEW i \in Server, NEW n \in NodeState, NEW p \in Server
  PROVE  /\ \A t \in Nat, g \in BOOLEAN : Quiet({PreVoteRespMsg(i, p, t, g)})
         /\ \A k \in Nat : Quiet({InstallSnapshotRespMsg(i, p, n, k)})
         /\ \A m \in AppendEntries, ok \in BOOLEAN, k \in Nat, ci \in Nat, ct \in TermOrNone :
              Quiet({AppendEntriesRespMsg(i, n, m, ok, k, ci, ct)})
         /\ \A P \in SUBSET Server : Quiet({PreVoteMsg(i, q, n) : q \in P})
<1>0. n.currentTerm \in Nat /\ n.preTerm \in Nat
  BY DEF NodeState
<1>1. ASSUME NEW t \in Nat, NEW g \in BOOLEAN
      PROVE  Quiet({PreVoteRespMsg(i, p, t, g)})
  <2>1. PreVoteRespMsg(i, p, t, g) \in VoteResponse
    BY DEF PreVoteRespMsg, VoteResponse
  <2> QED BY <2>1 DEF Quiet, NodeMessage, PreVoteRespMsg
<1>2. ASSUME NEW k \in Nat
      PROVE  Quiet({InstallSnapshotRespMsg(i, p, n, k)})
  <2>1. InstallSnapshotRespMsg(i, p, n, k) \in InstallSnapshotResp
    BY <1>0 DEF InstallSnapshotRespMsg, InstallSnapshotResp
  <2> QED BY <2>1 DEF Quiet, NodeMessage, InstallSnapshotRespMsg
<1>3. ASSUME NEW m \in AppendEntries, NEW ok \in BOOLEAN, NEW k \in Nat, NEW ci \in Nat,
             NEW ct \in TermOrNone
      PROVE  Quiet({AppendEntriesRespMsg(i, n, m, ok, k, ci, ct)})
  <2>1. m.src \in Server /\ m.prevLogIndex \in Nat
    BY DEF AppendEntries
  <2>2. AppendEntriesRespMsg(i, n, m, ok, k, ci, ct) \in AppendEntriesResp
    BY <1>0, <2>1 DEF AppendEntriesRespMsg, AppendEntriesResp
  <2> QED BY <2>2 DEF Quiet, NodeMessage, AppendEntriesRespMsg
<1>4. ASSUME NEW P \in SUBSET Server
      PROVE  Quiet({PreVoteMsg(i, q, n) : q \in P})
  <2>1. \A q \in P : PreVoteMsg(i, q, n) \in VoteRequest
    BY <1>0, LogFacts DEF PreVoteMsg, VoteRequest
  <2> QED BY <2>1 DEF Quiet, NodeMessage, PreVoteMsg
<1> QED BY <1>1, <1>2, <1>3, <1>4

\* An event that casts no vote and wins nothing keeps the invariant.
LEMMA QuietStep ==
  ASSUME IInv, timeouts' \in Nat, NEW i \in Server, NEW n, NEW out,
         Sane(n), Persists(node[i], n), Yields(node[i], n), Quiet(out), Finish(i, n, out)
  PROVE  IInv'
<1>1. Proper(i, n)
  BY YieldIsProper DEF IInv
<1>2. Lawful(i, n, out)
  BY QuietIsLawful
<1> QED BY <1>1, <1>2, FinishStep

\* The same for an event that is not an election timeout.
LEMMA PostStep ==
  ASSUME IInv, NEW i \in Server, NEW n, NEW out,
         Sane(n), Persists(node[i], n), Yields(node[i], n), Quiet(out), Post(i, n, out)
  PROVE  IInv'
<1>1. timeouts' \in Nat
  BY DEF IInv, CountersTyped, Post
<1> QED BY <1>1, QuietStep DEF Post

\* What the invariant says of one node.
LEMMA NodeFacts ==
  ASSUME IInv, NEW i \in Server
  PROVE  /\ node[i] \in NodeState /\ Sane(node[i])
         /\ Persists(node[i], node[i]) /\ Yields(node[i], node[i])
         /\ Peers(i, node[i]) \in SUBSET Server
         /\ node[i].currentTerm \in Nat
<1>1. node[i] \in NodeState /\ node[i].snapshotIndex <= node[i].lastApplied
  BY DEF IInv, StateInv, StateTyped
<1>2. Peers(i, node[i]) \in SUBSET Server
  BY <1>1, ServerAssumption DEF Peers, NodeState, Configuration
<1>3. node[i].currentTerm \in Nat
  BY <1>1 DEF NodeState
<1> QED BY <1>1, <1>2, <1>3, RelationsCompose DEF Sane, Yields

\* An event that ends in sending entries to peers keeps the invariant.
LEMMA SentStep ==
  ASSUME IInv, NEW i \in Server, NEW n, Sane(n), Persists(node[i], n), Yields(node[i], n),
         NEW P \in SUBSET Server, Post(i, Sent(i, n, P), Appends(i, n, P))
  PROVE  IInv'
<1> DEFINE s == Sent(i, n, P)
<1>0. n \in NodeState /\ node[i] \in NodeState
  BY NodeFacts DEF Sane
<1>1. s \in NodeState /\ Tracked(n, s)
  BY <1>0, SentFacts
<1>2. Quiet(Appends(i, n, P))
  BY <1>0, AppendsQuiet
<1> HIDE DEF s
<1>3. Sane(s)
  BY <1>1 DEF Sane, Tracked
<1>4. Persists(node[i], s) /\ Yields(node[i], s)
  BY <1>0, <1>1, RelationsCompose, YieldsCompose
<1> QED BY <1>2, <1>3, <1>4, PostStep DEF s

\* An event that is no more than step_down keeps the invariant.
LEMMA StepDownStep ==
  ASSUME IInv, NEW i \in Server, NEW t \in Nat, Post(i, StepDown(node[i], t), {})
  PROVE  IInv'
<1>1. /\ Sane(StepDown(node[i], t)) /\ Persists(node[i], StepDown(node[i], t))
      /\ Yields(node[i], StepDown(node[i], t))
  BY NodeFacts, StepDownYields
<1>2. Quiet({})
  BY DEF Quiet
<1> QED BY <1>1, <1>2, PostStep

-----------------------------------------------------------------------------
(* Elections *)

\* become_candidate is proper, with its requests for votes, whatever led to it.
LEMMA CandidacyProper ==
  ASSUME IInv, NEW i \in Server, NEW n, Sane(n), Persists(node[i], n),
         n.currentTerm = node[i].currentTerm,
         ~MembershipChanges => i \in InitialMembers
  PROVE  /\ Proper(i, BecomeCandidate(i, n))
         /\ Lawful(i, BecomeCandidate(i, n), BecomeCandidateOut(i, n))
<1> DEFINE c == BecomeCandidate(i, n)
           a == Campaign(i, n)
<1>0. n \in NodeState /\ n.snapshotIndex <= n.lastApplied /\ n.currentTerm \in Nat
  BY DEF Sane, NodeState
<1>1. /\ c \in NodeState
      /\ c.currentTerm = n.currentTerm + 1 /\ c.votedFor = i
      /\ c.votes = {i} /\ c.dirty = TRUE
      /\ \/ c.role = Candidate /\ c.leaderId = Nil
         \/ c.role = Leader /\ c.leaderId = i /\ 1 >= Majority(n)
      /\ c.members = n.members
      /\ c.snapshotIndex = n.snapshotIndex /\ c.lastApplied = n.lastApplied
  BY <1>0, BecomeCandidateFacts, Zenon
<1>2. a \in NodeState
  BY <1>0, CampaignFacts, Zenon
<1>3. BecomeCandidateOut(i, n)
        = {RequestVoteMsg(i, p, a) : p \in Peers(i, n)}
          \cup (IF 1 >= Majority(n) THEN BecomeLeaderOut(i, a) ELSE {})
  BY Zenon DEF BecomeCandidateOut
<1>4. ~MembershipChanges => n.members = InitialMembers
  BY <1>0 DEF NodeState, Configuration
<1> HIDE DEF c, a
<1>5. Sane(c) /\ Persists(node[i], c) /\ LaterVote(node[i], c)
  BY <1>0, <1>1 DEF Sane, Persists, LaterVote
<1>6. OwnOrCast(i, c)
  BY <1>1 DEF OwnOrCast
<1>7. ~MembershipChanges /\ c.role = Leader => Electors(c.votes)
  <2>1. Cardinality({i}) = 1
    BY FS_Singleton
  <2>2. Candidate # Leader
    BY DEF Candidate, Leader
  <2> QED BY <1>1, <1>4, <2>1, <2>2 DEF Electors, Majority
<1>8. c.role # PreCandidate
  BY <1>1 DEF Candidate, Leader, PreCandidate
<1>9. Proper(i, c)
  BY <1>5, <1>6, <1>7, <1>8 DEF Proper
<1>10. Quiet(BecomeLeaderOut(i, a))
  <2>1. Elected(i, a) \in NodeState
    BY <1>2, ElectedFacts, Zenon
  <2>2. Peers(i, a) \in SUBSET Server
    BY <1>2, ServerAssumption DEF Peers, NodeState, Configuration
  <2> QED BY <2>1, <2>2, AppendsQuiet DEF BecomeLeaderOut
<1>11. ASSUME NEW p \in Peers(i, n)
       PROVE  /\ RequestVoteMsg(i, p, a) \in NodeMessage
              /\ RequestVoteMsg(i, p, a).type = "RequestVote"
              /\ RequestVoteMsg(i, p, a).dst = p
              /\ p \in n.members
  <2>1. p \in Server /\ p \in n.members
    BY <1>0, ServerAssumption DEF Peers, NodeState, Configuration
  <2>2. a.currentTerm \in Nat /\ LastIndex(a) \in Nat /\ LastTerm(a) \in TermOrNone
    BY <1>2, LogFacts DEF NodeState
  <2>3. RequestVoteMsg(i, p, a) \in VoteRequest
    BY <2>1, <2>2 DEF RequestVoteMsg, VoteRequest
  <2> QED BY <2>1, <2>3 DEF NodeMessage, RequestVoteMsg
<1>12. Lawful(i, c, {RequestVoteMsg(i, p, a) : p \in Peers(i, n)})
  BY <1>4, <1>11 DEF Lawful
<1>13. Lawful(i, c, BecomeCandidateOut(i, n))
  BY <1>3, <1>10, <1>12, QuietIsLawful DEF Lawful
<1> QED BY <1>9, <1>13 DEF c

\* A poll is proper.
LEMMA PollIsProper ==
  ASSUME IInv, NEW i \in Server, NEW n, Sane(n), Persists(node[i], n),
         n.currentTerm = node[i].currentTerm, n.votedFor = node[i].votedFor,
         n.role = PreCandidate, ~MembershipChanges => i \in InitialMembers
  PROVE  Proper(i, n)
<1>1. PreCandidate # Candidate /\ PreCandidate # Leader
  BY DEF PreCandidate, Candidate, Leader
<1> QED BY <1>1 DEF Proper, LaterVote

\* The answer to a request for a vote is lawful: it grants the vote that was cast.
LEMMA VoteReplyLawful ==
  ASSUME NEW i \in Server, NEW n \in NodeState, NEW x \in Server, NEW g \in BOOLEAN,
         g => n.votedFor = x
  PROVE  Lawful(i, n, {RequestVoteRespMsg(i, x, n, g)})
<1> DEFINE m == RequestVoteRespMsg(i, x, n, g)
<1>1. n.currentTerm \in Nat
  BY DEF NodeState
<1>2. m \in VoteResponse
  BY <1>1 DEF RequestVoteRespMsg, VoteResponse
<1>3. m.type = "RequestVoteResp" /\ m.src = i /\ m.term = n.currentTerm /\ m.dst = x
      /\ m.granted = g
  BY DEF RequestVoteRespMsg
<1> HIDE DEF m
<1>4. Lawful(i, n, {m})
  BY <1>2, <1>3 DEF Lawful, NodeMessage
<1> QED BY <1>4 DEF m

\* start_election keeps the invariant.
LEMMA TimeoutStep ==
  ASSUME IInv, NEW i \in Server, Timeout(i)
  PROVE  IInv'
<1> DEFINE n == node[i]
           p == Poll(i, n)
<1>1. n \in NodeState /\ Sane(n) /\ Persists(n, n) /\ Peers(i, n) \in SUBSET Server
  BY NodeFacts
<1>2. timeouts' \in Nat
  BY DEF Timeout, IInv, CountersTyped
<1>3. ~MembershipChanges => i \in InitialMembers
  BY <1>1 DEF Timeout, NodeState, Configuration
<1>4. /\ Sane(p) /\ Persists(n, p)
      /\ p.currentTerm = n.currentTerm /\ p.votedFor = n.votedFor
      /\ p.role = PreCandidate /\ p.members = n.members
  BY <1>1, PollFacts, Zenon
<1>5. \/ Finish(i, BecomeCandidate(i, n), BecomeCandidateOut(i, n))
      \/ Finish(i, BecomeCandidate(i, p), BecomeCandidateOut(i, p))
      \/ Finish(i, p, {PreVoteMsg(i, q, p) : q \in Peers(i, n)})
  BY Zenon DEF Timeout
<1> HIDE DEF p
<1>6. CASE Finish(i, BecomeCandidate(i, n), BecomeCandidateOut(i, n))
  <2>1. /\ Proper(i, BecomeCandidate(i, n))
        /\ Lawful(i, BecomeCandidate(i, n), BecomeCandidateOut(i, n))
    BY <1>1, <1>3, CandidacyProper
  <2> QED BY <1>2, <1>6, <2>1, FinishStep
<1>7. CASE Finish(i, BecomeCandidate(i, p), BecomeCandidateOut(i, p))
  <2>1. /\ Proper(i, BecomeCandidate(i, p))
        /\ Lawful(i, BecomeCandidate(i, p), BecomeCandidateOut(i, p))
    BY <1>3, <1>4, CandidacyProper
  <2> QED BY <1>2, <1>7, <2>1, FinishStep
<1>8. CASE Finish(i, p, {PreVoteMsg(i, q, p) : q \in Peers(i, n)})
  <2>1. Proper(i, p)
    BY <1>3, <1>4, PollIsProper
  <2>2. p \in NodeState
    BY <1>4 DEF Sane
  <2>3. Lawful(i, p, {PreVoteMsg(i, q, p) : q \in Peers(i, n)})
    BY <1>1, <2>2, QuietReplies, QuietIsLawful
  <2> QED BY <1>2, <1>8, <2>1, <2>3, FinishStep
<1> QED BY <1>5, <1>6, <1>7, <1>8

\* handle_pre_vote keeps the invariant.
LEMMA PreVoteStep ==
  ASSUME IInv, NEW i \in Server, NEW m \in msgs, HandlePreVote(i, m)
  PROVE  IInv'
<1>1. m \in NodeMessage /\ m.type = "PreVote"
  BY DEF HandlePreVote, IInv, MessageInv, MessagesTyped
<1>2. m.src \in Server /\ m.term \in Nat
  BY <1>1, MessageOfType DEF VoteRequest
<1>3. PICK t \in {m.term, node[i].currentTerm}, g \in BOOLEAN :
        Post(i, node[i], {PreVoteRespMsg(i, m.src, t, g)})
  BY DEF HandlePreVote
<1>4. Quiet({PreVoteRespMsg(i, m.src, t, g)})
  BY <1>2, NodeFacts, QuietReplies
<1> QED BY <1>3, <1>4, NodeFacts, PostStep

\* handle_pre_vote_resp keeps the invariant.
LEMMA PreVoteRespStep ==
  ASSUME IInv, NEW i \in Server, NEW m \in msgs, HandlePreVoteResp(i, m)
  PROVE  IInv'
<1> DEFINE n == node[i]
           pv == n.preVotes \cup {m.src}
           polled == [n EXCEPT !.preVotes = pv]
<1>1. m \in NodeMessage /\ m.type = "PreVoteResp"
  BY DEF HandlePreVoteResp, IInv, MessageInv, MessagesTyped
<1>2. m.src \in Server /\ m.term \in Nat
  BY <1>1, MessageOfType DEF VoteResponse
<1>3. n \in NodeState /\ Sane(n) /\ timeouts \in Nat
  BY NodeFacts DEF IInv, CountersTyped
<1>4. CASE Post(i, StepDown(n, m.term), {})
  BY <1>2, <1>4, StepDownStep
<1>5. CASE PollAnswered(n, m)
  <2>1. n.role = PreCandidate
    BY <1>5 DEF PollAnswered
  <2>2. pv \in SUBSET Server
    BY <1>2, <1>3 DEF NodeState
  <2>3. \/ Post(i, BecomeCandidate(i, polled), BecomeCandidateOut(i, polled))
        \/ Post(i, polled, {})
        \/ Post(i, StepDown(n, m.term), {})
    BY Zenon DEF HandlePreVoteResp
  <2> HIDE DEF pv
  <2>4. polled \in NodeState
    BY <1>3, <2>2, ZenonT(90) DEF NodeState
  <2>5. Tracked(n, polled)
    BY <1>3, SMTT(30) DEF NodeState, Tracked
  <2> HIDE DEF polled
  <2>6. /\ Sane(polled) /\ Persists(n, polled)
        /\ polled.currentTerm = n.currentTerm /\ polled.votedFor = n.votedFor
        /\ polled.role = PreCandidate
    BY <1>3, <2>1, <2>4, <2>5, RelationsCompose DEF Sane, Tracked
  <2>7. ~MembershipChanges => i \in InitialMembers
    BY <2>1 DEF IInv, StateInv, MembersVote
  <2>8. CASE Post(i, BecomeCandidate(i, polled), BecomeCandidateOut(i, polled))
    <3>1. /\ Proper(i, BecomeCandidate(i, polled))
          /\ Lawful(i, BecomeCandidate(i, polled), BecomeCandidateOut(i, polled))
      BY <2>6, <2>7, CandidacyProper
    <3> QED BY <1>3, <2>8, <3>1, FinishStep DEF Post
  <2>9. CASE Post(i, polled, {})
    <3>1. Proper(i, polled)
      BY <2>6, <2>7, PollIsProper
    <3>2. Lawful(i, polled, {})
      BY DEF Lawful
    <3> QED BY <1>3, <2>9, <3>1, <3>2, FinishStep DEF Post
  <2> QED BY <2>3, <2>8, <2>9, <1>4
<1> QED BY <1>4, <1>5, Zenon DEF HandlePreVoteResp

\* handle_request_vote keeps the invariant: it grants a vote only if it has none in that
\* term, or repeats the one it has.
LEMMA RequestVoteStep ==
  ASSUME IInv, NEW i \in Server, NEW m \in msgs, m.dst = i, HandleRequestVote(i, m)
  PROVE  IInv'
<1> DEFINE n == node[i]
           s == IF m.term > n.currentTerm THEN StepDown(n, m.term) ELSE n
           granted == s.votedFor \in {Nil, m.src} /\ LogIsCurrent(s, m)
           v == IF granted THEN VoteFor(s, m.src) ELSE s
<1>1. m \in NodeMessage /\ m.type = "RequestVote"
  BY DEF HandleRequestVote, IInv, MessageInv, MessagesTyped
<1>2. m.src \in Server /\ m.term \in Nat /\ m.dst \in Server
  BY <1>1, MessageOfType DEF VoteRequest
<1>3. n \in NodeState /\ Sane(n) /\ timeouts \in Nat
      /\ Persists(n, n) /\ Yields(n, n)
  BY NodeFacts DEF IInv, CountersTyped
<1>4. \/ Post(i, n, {RequestVoteRespMsg(i, m.src, n, FALSE)})
      \/ Post(i, v, {RequestVoteRespMsg(i, m.src, v, granted)})
  BY ZenonT(60) DEF HandleRequestVote
<1>5. CASE Post(i, n, {RequestVoteRespMsg(i, m.src, n, FALSE)})
  <2>1. Proper(i, n)
    BY <1>3, YieldIsProper DEF IInv
  <2>2. Lawful(i, n, {RequestVoteRespMsg(i, m.src, n, FALSE)})
    BY <1>2, <1>3, VoteReplyLawful
  <2> QED BY <1>3, <1>5, <2>1, <2>2, FinishStep DEF Post
<1>6. CASE Post(i, v, {RequestVoteRespMsg(i, m.src, v, granted)})
  <2>1. Sane(s) /\ Persists(n, s) /\ Yields(n, s)
    BY <1>2, <1>3, StepDownYields
  <2>2. granted \in BOOLEAN
    BY DEF LogIsCurrent
  <2>3. granted => s.votedFor \in {Nil, m.src}
    OBVIOUS
  <2> HIDE DEF s, granted
  <2>4. Proper(i, s)
    BY <2>1, YieldIsProper DEF IInv
  <2>5. CASE granted
    <3> DEFINE w == VoteFor(s, m.src)
    <3>1. /\ Sane(w) /\ Persists(s, w)
          /\ w.currentTerm = s.currentTerm /\ w.votedFor = m.src
          /\ w.role = s.role /\ w.votes = s.votes
      BY <1>2, <2>1, VoteForFacts, Zenon
    <3>2. v = w
      BY <2>5
    <3> HIDE DEF w, v
    <3>3. Persists(n, w)
      BY <2>1, <3>1, RelationsCompose
    <3>4. LaterVote(n, w)
      <4>1. s.votedFor \in {Nil, m.src}
        BY <2>3, <2>5
      <4> QED BY <2>1, <3>1, <4>1 DEF LaterVote, Yields
    <3>5. ~MembershipChanges => m.dst \in InitialMembers
      BY <1>1 DEF IInv, MessageInv, VotesOnWire
    <3>6. OwnOrCast(i, s) => OwnOrCast(i, w)
      BY <3>1, <2>3, <2>5, <1>2, ServerAssumption DEF OwnOrCast
    <3>7. Proper(i, w)
      BY <2>4, <3>1, <3>3, <3>4, <3>5, <3>6 DEF Proper
    <3>8. Lawful(i, w, {RequestVoteRespMsg(i, m.src, w, granted)})
      BY <1>2, <2>2, <3>1, VoteReplyLawful DEF Sane
    <3> QED BY <1>3, <1>6, <3>2, <3>7, <3>8, FinishStep DEF Post
  <2>6. CASE ~granted
    <3>1. v = s
      BY <2>6
    <3>2. Lawful(i, s, {RequestVoteRespMsg(i, m.src, s, granted)})
      BY <1>2, <2>1, <2>2, <2>6, VoteReplyLawful DEF Sane
    <3> HIDE DEF v
    <3> QED BY <1>3, <1>6, <2>4, <3>1, <3>2, FinishStep DEF Post
  <2> QED BY <2>5, <2>6
<1> QED BY <1>4, <1>5, <1>6

\* handle_request_vote_resp keeps the invariant: the votes that make a leader were cast in
\* its term, for it.
LEMMA RequestVoteRespStep ==
  ASSUME IInv, NEW i \in Server, NEW m \in msgs, m.dst = i, HandleRequestVoteResp(i, m)
  PROVE  IInv'
<1> DEFINE n == node[i]
           votes == n.votes \cup {m.src}
           counted == [n EXCEPT !.votes = votes]
           won == BecomeLeader(i, counted)
<1>1. m \in NodeMessage /\ m.type = "RequestVoteResp"
  BY DEF HandleRequestVoteResp, IInv, MessageInv, MessagesTyped
<1>2. m.src \in Server /\ m.term \in Nat
  BY <1>1, MessageOfType DEF VoteResponse
<1>3. n \in NodeState /\ Sane(n) /\ timeouts \in Nat
  BY NodeFacts DEF IInv, CountersTyped
<1>4. CASE Post(i, StepDown(n, m.term), {})
  BY <1>2, <1>4, StepDownStep
<1>5. CASE /\ m.term = n.currentTerm /\ n.role = Candidate /\ m.granted
           /\ IF Cardinality(counted.votes) >= Majority(n)
              THEN Post(i, won, BecomeLeaderOut(i, counted))
              ELSE Post(i, counted, {})
  <2>1. votes \in SUBSET Server
    BY <1>2, <1>3 DEF NodeState
  <2>2. ~MembershipChanges =>
          \A p \in votes : <<p, n.currentTerm, i>> \in votesByTerm
    BY <1>1, <1>5 DEF IInv, StateInv, MessageInv, CandidatesBacked, VotesFor, VotesOnWire
  <2> HIDE DEF votes
  <2>3. counted \in NodeState
    BY <1>3, <2>1, ZenonT(90) DEF NodeState
  <2>4. /\ counted.currentTerm = n.currentTerm /\ counted.votedFor = n.votedFor
        /\ counted.role = Candidate /\ counted.votes = votes
        /\ counted.members = n.members /\ counted.log = n.log
        /\ counted.snapshotIndex = n.snapshotIndex /\ counted.snapshotTerm = n.snapshotTerm
        /\ counted.snapshotData = n.snapshotData
        /\ counted.snapshotMembers = n.snapshotMembers
        /\ counted.lastApplied = n.lastApplied /\ counted.dirty = n.dirty
    BY <1>3, <1>5, SMTT(30) DEF NodeState
  <2> HIDE DEF counted
  <2>5. Sane(counted) /\ Persists(n, counted)
    BY <1>3, <2>3, <2>4 DEF Sane, Persists, Durable
  <2>6. Candidate # Leader /\ Candidate # PreCandidate /\ Leader # PreCandidate
    BY DEF Candidate, Leader, PreCandidate
  <2>7. ~MembershipChanges => (n.votedFor # Nil => i \in InitialMembers)
    BY DEF IInv, StateInv, MembersVote
  <2>8. CASE Post(i, counted, {})
    <3>1. ~MembershipChanges => OwnOrCast(i, counted)
      BY <2>2, <2>4 DEF OwnOrCast
    <3>2. Proper(i, counted)
      BY <2>4, <2>5, <2>6, <2>7, <3>1 DEF Proper, LaterVote
    <3>3. Lawful(i, counted, {})
      BY DEF Lawful
    <3> QED BY <1>3, <2>8, <3>2, <3>3, FinishStep DEF Post
  <2>9. CASE /\ Cardinality(counted.votes) >= Majority(n)
             /\ Post(i, won, BecomeLeaderOut(i, counted))
    <3>1. /\ won \in NodeState
          /\ won.currentTerm = counted.currentTerm /\ won.votedFor = counted.votedFor
          /\ won.role = Leader /\ won.leaderId = i /\ won.votes = counted.votes
          /\ won.members = counted.members
          /\ won.snapshotIndex = counted.snapshotIndex
          /\ won.lastApplied = counted.lastApplied
          /\ Persists(counted, won)
      BY <2>3, BecomeLeaderFacts, Zenon
    <3> HIDE DEF won
    <3>2. Sane(won) /\ Persists(n, won)
      BY <2>5, <3>1, RelationsCompose DEF Sane
    <3>3. ~MembershipChanges => OwnOrCast(i, won)
      BY <2>2, <2>4, <3>1 DEF OwnOrCast
    <3>4. ~MembershipChanges => Electors(won.votes)
      <4>1. ~MembershipChanges => n.members = InitialMembers
        BY <1>3 DEF NodeState, Configuration
      <4> QED BY <2>4, <2>9, <3>1, <4>1 DEF Electors, Majority
    <3>5. Proper(i, won)
      BY <2>4, <2>6, <2>7, <3>1, <3>2, <3>3, <3>4 DEF Proper, LaterVote
    <3>6. Lawful(i, won, BecomeLeaderOut(i, counted))
      <4>1. Elected(i, counted) \in NodeState
        BY <2>3, ElectedFacts, Zenon
      <4>2. Peers(i, counted) \in SUBSET Server
        BY <2>3, ServerAssumption DEF Peers, NodeState, Configuration
      <4> QED BY <4>1, <4>2, AppendsQuiet, QuietIsLawful DEF BecomeLeaderOut
    <3> QED BY <1>3, <2>9, <3>5, <3>6, FinishStep DEF Post
  <2> QED BY <1>5, <2>8, <2>9
<1> QED BY <1>4, <1>5, Zenon DEF HandleRequestVoteResp

-----------------------------------------------------------------------------
(* Replication and snapshots *)

\* A heartbeat keeps the invariant.
LEMMA HeartbeatStep ==
  ASSUME IInv, NEW i \in Server, Heartbeat(i)
  PROVE  IInv'
  BY NodeFacts, SentStep DEF Heartbeat

\* handle_append_entries keeps the invariant.
LEMMA AppendEntriesStep ==
  ASSUME IInv, NEW i \in Server, NEW m \in msgs, HandleAppendEntries(i, m)
  PROVE  IInv'
<1> DEFINE n == node[i]
           r == Recognise(n, m)
           Answer(s, ok, upto, ci, term) ==
             Post(i, s, {AppendEntriesRespMsg(i, s, m, ok, upto, ci, term)})
<1>1. m \in NodeMessage /\ m.type = "AppendEntries"
  BY DEF HandleAppendEntries, IInv, MessageInv, MessagesTyped
<1>2. m \in AppendEntries
  BY <1>1, MessageOfType
<1>3. m.src \in Server /\ m.term \in Nat /\ m.prevLogIndex \in Nat
      /\ Len(m.entries) \in Nat
  BY <1>2 DEF AppendEntries
<1>4. ASSUME NEW s, Sane(s), Persists(n, s), Yields(n, s), NEW ok \in BOOLEAN,
             NEW upto \in Nat, NEW ci \in Nat, NEW ct \in TermOrNone,
             Answer(s, ok, upto, ci, ct)
      PROVE  IInv'
  <2>1. Quiet({AppendEntriesRespMsg(i, s, m, ok, upto, ci, ct)})
    BY <1>2, <1>3, <1>4, QuietReplies DEF Sane
  <2> QED BY <1>4, <2>1, PostStep
<1>5. Sane(r) /\ Persists(n, r) /\ Yields(n, r)
  BY <1>3, NodeFacts, RecogniseFacts
<1>6. r \in NodeState /\ r.snapshotIndex \in Nat /\ LastIndex(r) + 1 \in Nat
  <2>1. r \in NodeState
    BY <1>5 DEF Sane
  <2> HIDE DEF r
  <2>2. r.snapshotIndex \in Nat /\ LastIndex(r) \in Nat
    BY <2>1, LogFacts DEF NodeState
  <2> QED BY <2>1, <2>2
<1>7. 0 \in Nat /\ 0 \in TermOrNone
  BY DEF TermOrNone
<1>8. CASE Answer(n, FALSE, 0, 0, 0)
  BY <1>4, <1>7, <1>8, NodeFacts
<1>9. CASE Answer(r, TRUE, r.snapshotIndex, 0, 0)
  BY <1>4, <1>5, <1>6, <1>7, <1>9
<1>10. CASE Answer(r, FALSE, 0, LastIndex(r) + 1, 0)
  BY <1>4, <1>5, <1>6, <1>7, <1>10
<1>11. CASE Answer(r, FALSE, 0, ConflictIndex(r, m.prevLogIndex), TermAt(r, m.prevLogIndex))
  <2>1. TermAt(r, m.prevLogIndex) \in TermOrNone
    BY <1>3, <1>6, LogFacts
  <2>2. ConflictIndex(r, m.prevLogIndex) \in Nat
    <3> DEFINE run == {k \in r.snapshotIndex + 1 .. m.prevLogIndex :
                         \A j \in k .. m.prevLogIndex :
                           TermAt(r, j) = TermAt(r, m.prevLogIndex)}
    <3>1. run \in SUBSET Nat
      BY <1>3, <1>6
    <3>2. run # {} => Smallest(run) \in Nat
      BY <3>1, SmallestType
    <3>3. ConflictIndex(r, m.prevLogIndex) = IF run = {} THEN m.prevLogIndex ELSE Smallest(run)
      BY Zenon DEF ConflictIndex
    <3> HIDE DEF run
    <3> QED BY <3>2, <3>3, <1>3
  <2> QED BY <1>4, <1>5, <1>7, <1>11, <2>1, <2>2
<1>12. CASE /\ PrevMatches(r, m)
            /\ Answer(LearnCommit(MergeEntries(i, r, m), m), TRUE,
                      m.prevLogIndex + Len(m.entries), 0, 0)
  <2> DEFINE e == MergeEntries(i, r, m)
             c == LearnCommit(e, m)
  <2>1. Sane(e) /\ Persists(r, e) /\ Keeps(r, e)
    BY <1>2, <1>5, <1>12, MergeEntriesFacts
  <2>2. Sane(c) /\ Persists(e, c) /\ Keeps(e, c)
    BY <1>2, <2>1, LearnCommitFacts
  <2>3. n \in NodeState /\ e \in NodeState /\ c \in NodeState
    BY <2>1, <2>2, NodeFacts DEF Sane
  <2> HIDE DEF r
  <2>4. Persists(n, c) /\ Yields(n, c)
    BY <1>5, <1>6, <2>1, <2>2, <2>3, RelationsCompose, YieldsCompose
  <2>5. m.prevLogIndex + Len(m.entries) \in Nat
    BY <1>3
  <2> QED BY <1>4, <1>7, <1>12, <2>2, <2>4, <2>5 DEF r
<1>13. \/ Answer(n, FALSE, 0, 0, 0)
       \/ Answer(r, TRUE, r.snapshotIndex, 0, 0)
       \/ Answer(r, FALSE, 0, LastIndex(r) + 1, 0)
       \/ Answer(r, FALSE, 0, ConflictIndex(r, m.prevLogIndex), TermAt(r, m.prevLogIndex))
       \/ /\ PrevMatches(r, m)
          /\ Answer(LearnCommit(MergeEntries(i, r, m), m), TRUE,
                    m.prevLogIndex + Len(m.entries), 0, 0)
  BY Zenon DEF HandleAppendEntries
<1> QED BY <1>8, <1>9, <1>10, <1>11, <1>12, <1>13

\* Counting an acknowledgement and sending more keeps the invariant.
LEMMA AcknowledgeStep ==
  ASSUME IInv, NEW i \in Server, NEW p \in Server, NEW match \in Nat, Acknowledge(i, p, match)
  PROVE  IInv'
<1> DEFINE a == Acknowledged(i, node[i], p, match)
           more == IF WindowOpen(a, p) THEN {p} ELSE {}
<1>1. Sane(a) /\ Persists(node[i], a) /\ Keeps(node[i], a)
  BY NodeFacts, AcknowledgedFacts
<1>2. Post(i, Sent(i, a, more), Appends(i, a, more))
  BY Zenon DEF Acknowledge
<1> HIDE DEF a
<1>3. Yields(node[i], a)
  BY <1>1, NodeFacts, YieldsCompose DEF Sane
<1>4. more \in SUBSET Server
  OBVIOUS
<1> QED BY <1>1, <1>2, <1>3, <1>4, SentStep

\* handle_append_entries_resp keeps the invariant.
LEMMA AppendEntriesRespStep ==
  ASSUME IInv, NEW i \in Server, NEW m \in msgs, HandleAppendEntriesResp(i, m)
  PROVE  IInv'
<1> DEFINE n == node[i]
           b == BackUp(n, m)
<1>1. m \in NodeMessage /\ m.type = "AppendEntriesResp"
  BY DEF HandleAppendEntriesResp, IInv, MessageInv, MessagesTyped
<1>2. m \in AppendEntriesResp
  BY <1>1, MessageOfType
<1>3. m.src \in Server /\ m.term \in Nat /\ m.matchIndex \in Nat
  BY <1>2 DEF AppendEntriesResp
<1>4. CASE Post(i, StepDown(n, m.term), {})
  BY <1>3, <1>4, StepDownStep
<1>5. CASE Acknowledge(i, m.src, m.matchIndex)
  BY <1>3, <1>5, AcknowledgeStep
<1>6. CASE Post(i, Sent(i, b, {m.src}), Appends(i, b, {m.src}))
  <2>1. Sane(b) /\ Persists(n, b) /\ Keeps(n, b)
    BY <1>2, NodeFacts, BackUpFacts
  <2>2. Yields(n, b)
    BY <2>1, NodeFacts, YieldsCompose DEF Sane
  <2> HIDE DEF b
  <2> QED BY <1>3, <1>6, <2>1, <2>2, SentStep
<1> QED BY <1>4, <1>5, <1>6 DEF HandleAppendEntriesResp

\* handle_install_snapshot keeps the invariant.
LEMMA InstallSnapshotStep ==
  ASSUME IInv, NEW i \in Server, NEW m \in msgs, HandleInstallSnapshot(i, m)
  PROVE  IInv'
<1> DEFINE n == node[i]
           r == Recognise(n, m)
           held == [r EXCEPT !.commitIndex = m.lastIncludedIndex]
           installed == InstallState(i, r, m)
           Answer(s, k) == Post(i, s, {InstallSnapshotRespMsg(i, m.src, s, k)})
<1>1. m \in NodeMessage /\ m.type = "InstallSnapshot"
  BY DEF HandleInstallSnapshot, IInv, MessageInv, MessagesTyped
<1>2. m \in InstallSnapshot
  BY <1>1, MessageOfType
<1>3. m.src \in Server /\ m.term \in Nat /\ m.lastIncludedIndex \in Nat
  BY <1>2 DEF InstallSnapshot
<1>4. ASSUME NEW s, Sane(s), Persists(n, s), Yields(n, s), NEW k \in Nat, Answer(s, k)
      PROVE  IInv'
  <2>1. Quiet({InstallSnapshotRespMsg(i, m.src, s, k)})
    BY <1>3, <1>4, QuietReplies DEF Sane
  <2> QED BY <1>4, <2>1, PostStep
<1>5. Sane(r) /\ Persists(n, r) /\ Yields(n, r)
  BY <1>3, NodeFacts, RecogniseFacts
<1>6. n \in NodeState
  BY NodeFacts
<1>7. \/ Answer(n, 0)
      \/ Answer(r, Smaller(LastIndex(r), r.commitIndex))
      \/ Answer(held, m.lastIncludedIndex)
      \/ Answer(installed, m.lastIncludedIndex)
  BY Zenon DEF HandleInstallSnapshot
<1>8. CASE Answer(n, 0)
  BY <1>4, <1>8, NodeFacts
<1>9. Sane(installed) /\ Persists(r, installed) /\ Keeps(r, installed)
  BY <1>2, <1>5, InstallStateFacts
<1> HIDE DEF r, installed
<1>10. r \in NodeState /\ r.snapshotIndex <= r.lastApplied
  BY <1>5 DEF Sane
<1>11. CASE Answer(r, Smaller(LastIndex(r), r.commitIndex))
  <2>1. LastIndex(r) \in Nat /\ r.commitIndex \in Nat
    BY <1>10, LogFacts DEF NodeState
  <2>2. Smaller(LastIndex(r), r.commitIndex) \in Nat
    BY <2>1 DEF Smaller
  <2> QED BY <1>4, <1>5, <1>11, <2>2
<1>12. CASE Answer(held, m.lastIncludedIndex)
  <2>1. held \in NodeState
    BY <1>3, <1>10, ZenonT(90) DEF NodeState
  <2>2. Sane(held) /\ Persists(r, held) /\ Keeps(r, held)
    BY <1>10, <2>1 DEF Sane, Persists, Keeps, Durable, NodeState
  <2> HIDE DEF held
  <2>3. Persists(n, held) /\ Yields(n, held)
    BY <1>5, <1>6, <1>10, <2>1, <2>2, RelationsCompose, YieldsCompose
  <2> QED BY <1>3, <1>4, <1>12, <2>2, <2>3
<1>13. CASE Answer(installed, m.lastIncludedIndex)
  <2>1. Persists(n, installed) /\ Yields(n, installed)
    BY <1>5, <1>6, <1>9, <1>10, RelationsCompose, YieldsCompose DEF Sane
  <2> QED BY <1>3, <1>4, <1>9, <1>13, <2>1
<1> QED BY <1>7, <1>8, <1>11, <1>12, <1>13

\* handle_install_snapshot_resp keeps the invariant.
LEMMA InstallSnapshotRespStep ==
  ASSUME IInv, NEW i \in Server, NEW m \in msgs, HandleInstallSnapshotResp(i, m)
  PROVE  IInv'
<1>1. m \in NodeMessage /\ m.type = "InstallSnapshotResp"
  BY DEF HandleInstallSnapshotResp, IInv, MessageInv, MessagesTyped
<1>2. m \in InstallSnapshotResp
  BY <1>1, MessageOfType
<1>3. m.src \in Server /\ m.term \in Nat /\ m.matchIndex \in Nat
  BY <1>2 DEF InstallSnapshotResp
<1>4. Post(i, StepDown(node[i], m.term), {}) \/ Acknowledge(i, m.src, m.matchIndex)
  BY Zenon DEF HandleInstallSnapshotResp
<1> QED BY <1>3, <1>4, StepDownStep, AcknowledgeStep

-----------------------------------------------------------------------------
(* Clients, the operator and crashes *)

\* handle_client_request keeps the invariant.
LEMMA ClientRequestStep ==
  ASSUME IInv, NEW i \in Server, NEW addr \in Nat, NEW cmd \in PutCommand \cup ConfigChange,
         HandleClientRequest(i, addr, cmd)
  PROVE  IInv'
<1> DEFINE n == node[i]
           p == Propose(i, n, addr, cmd)
           unsent == {q \in Peers(i, p) : HasUnsent(p, q)}
           result == IF cmd.seq = SessionSeq(n.sm, cmd.client)
                     THEN SessionResult(n.sm, cmd.client) ELSE Nil
           Repointed(r) ==
             [n EXCEPT !.pending =
                {q \in @ : q.index # r.index} \cup
                {[index |-> r.index, addr |-> addr, seq |-> cmd.seq]}]
<1>1. cmd.seq \in Nat /\ cmd.client \in Int
  <2>1. CASE cmd \in PutCommand
    <3>1. cmd.seq \in Nat /\ cmd.client \in Client
      BY <2>1 DEF PutCommand
    <3>2. \A c \in 0 .. ClientBase - 1 : c \in Int
      BY DEF ClientBase
    <3> QED BY <3>1, <3>2, ClientAssumption, Zenon
  <2>2. CASE cmd \in ConfigChange
    BY <2>2 DEF ConfigChange
  <2> QED BY <2>1, <2>2
<1>2. n \in NodeState /\ Sane(n) /\ Persists(n, n) /\ Yields(n, n)
  BY NodeFacts
<1>3. \/ Post(i, n, {ClientReplyMsg(i, addr, cmd.client, cmd.seq, result)})
      \/ \E r \in n.pendingByReq : Post(i, Repointed(r), {})
      \/ /\ IsConfig(cmd) => MembershipChanges
         /\ Post(i, Sent(i, p, unsent), Appends(i, p, unsent))
  BY ZenonT(60) DEF HandleClientRequest
<1>4. CASE Post(i, n, {ClientReplyMsg(i, addr, cmd.client, cmd.seq, result)})
  <2>1. Quiet({ClientReplyMsg(i, addr, cmd.client, cmd.seq, result)})
    BY DEF Quiet, ClientReplyMsg
  <2> HIDE DEF result
  <2> QED BY <1>2, <1>4, <2>1, PostStep
<1>5. CASE \E r \in n.pendingByReq : Post(i, Repointed(r), {})
  <2>1. PICK r \in n.pendingByReq : Post(i, Repointed(r), {})
    BY <1>5
  <2> DEFINE new == [index |-> r.index, addr |-> addr, seq |-> cmd.seq]
             pend == {q \in n.pending : q.index # r.index} \cup {new}
             s == [n EXCEPT !.pending = pend]
  <2>2. r.index \in Nat /\ n.pending \in SUBSET [index : Nat, addr : Nat, seq : Nat]
    BY <1>2 DEF NodeState
  <2>3. new \in [index : Nat, addr : Nat, seq : Nat]
    BY <1>1, <2>2
  <2>4. pend \in SUBSET [index : Nat, addr : Nat, seq : Nat]
    BY <2>2, <2>3
  <2>5. Post(i, s, {})
    BY <2>1
  <2> HIDE DEF pend
  <2>6. s \in NodeState
    BY <1>2, <2>4, ZenonT(90) DEF NodeState
  <2>7. Tracked(n, s)
    BY <1>2, SMTT(30) DEF NodeState, Tracked
  <2> HIDE DEF s
  <2>8. Sane(s)
    BY <1>2, <2>6, <2>7 DEF Sane, Tracked
  <2>9. Persists(n, s) /\ Yields(n, s)
    BY <1>2, <2>6, <2>7, RelationsCompose, YieldsCompose
  <2>10. Quiet({})
    BY DEF Quiet
  <2> QED BY <2>5, <2>8, <2>9, <2>10, PostStep
<1>6. CASE /\ IsConfig(cmd) => MembershipChanges
           /\ Post(i, Sent(i, p, unsent), Appends(i, p, unsent))
  <2>1. cmd \in Command
    BY <1>6 DEF Command, ConfigChange, IsConfig
  <2>2. Sane(p) /\ Persists(n, p) /\ Keeps(n, p)
    BY <1>1, <1>2, <2>1, ProposeFacts
  <2> HIDE DEF p
  <2>3. p \in NodeState /\ Yields(n, p)
    BY <1>2, <2>2, YieldsCompose DEF Sane
  <2>4. unsent \in SUBSET Server
    BY <2>3, ServerAssumption DEF Peers, NodeState, Configuration
  <2> HIDE DEF unsent
  <2> QED BY <1>6, <2>2, <2>3, <2>4, SentStep
<1> QED BY <1>3, <1>4, <1>5, <1>6

\* on_message keeps the invariant.
LEMMA ReceiveStep ==
  ASSUME IInv, NEW m \in msgs, Receive(m.dst, m)
  PROVE  IInv'
<1> DEFINE i == m.dst
<1>1. ASSUME m.type # "ClientReply" PROVE m \in NodeMessage /\ i \in Server
  BY <1>1, MessageOfType DEF IInv, MessageInv, MessagesTyped
<1>2. CASE HandleMemberRequest(i, m)
  <2>1. m.type = "ClientRequest" /\ HandleClientRequest(i, m.src, m.cmd)
    BY <1>2 DEF HandleMemberRequest
  <2>2. i \in Server /\ m \in MemberRequest
    BY <1>1, <2>1, MessageOfType
  <2>3. m.src \in Nat /\ m.cmd \in ConfigChange
    BY <2>2 DEF MemberRequest, OperatorAddress, ClientBase
  <2> QED BY <2>1, <2>2, <2>3, ClientRequestStep
<1>3. CASE \/ HandlePreVote(i, m)
           \/ HandlePreVoteResp(i, m)
           \/ HandleRequestVote(i, m)
           \/ HandleRequestVoteResp(i, m)
           \/ HandleAppendEntries(i, m)
           \/ HandleAppendEntriesResp(i, m)
           \/ HandleInstallSnapshot(i, m)
           \/ HandleInstallSnapshotResp(i, m)
  <2>1. m.type # "ClientReply"
    BY <1>3 DEF HandlePreVote, HandlePreVoteResp, HandleRequestVote, HandleRequestVoteResp,
                HandleAppendEntries, HandleAppendEntriesResp, HandleInstallSnapshot,
                HandleInstallSnapshotResp
  <2>2. i \in Server
    BY <1>1, <2>1
  <2> QED BY <1>3, <2>2, PreVoteStep, PreVoteRespStep, RequestVoteStep, RequestVoteRespStep,
             AppendEntriesStep, AppendEntriesRespStep, InstallSnapshotStep,
             InstallSnapshotRespStep
<1> QED BY <1>2, <1>3 DEF Receive

\* A client's request keeps the invariant.
LEMMA ClientStep ==
  ASSUME IInv, NEW c \in Client, NEW i \in Server, NEW s \in 1 .. MaxSeq, ClientRequest(i, c, s)
  PROVE  IInv'
<1>1. ClientCommand(c, s) \in PutCommand
  BY BoundAssumption DEF ClientCommand, PutCommand
<1>2. ClientAddress(c) \in Nat
  <2>1. \A k \in 0 .. ClientBase - 1 : ClientBase + k \in Nat
    BY DEF ClientBase
  <2> QED BY <2>1, ClientAssumption, Zenon DEF ClientAddress
<1> QED BY <1>1, <1>2, ClientRequestStep DEF ClientRequest

\* A step that leaves nodes, disks and messages alone keeps the invariant.
LEMMA IdleStep ==
  ASSUME IInv, CountersTyped', UNCHANGED <<node, disk, msgs, leaderOfTerm, votesByTerm>>
  PROVE  IInv'
<1>1. StateInv'
  BY DEF IInv, StateInv, StateTyped, DiskCurrent, VotesKept, VoteSafety, MembersVote,
         CandidatesBacked, VotesFor, LeadersElected
<1>2. MessageInv'
  BY DEF IInv, MessageInv, MessagesTyped, VotesOnWire
<1> QED BY <1>1, <1>2 DEF IInv

\* ev_member_change keeps the invariant.
LEMMA MemberChangeStep ==
  ASSUME IInv, NEW i \in Server, MemberChange(i)
  PROVE  IInv'
<1>1. /\ UNCHANGED <<node, disk, alive, clientSeq, crashes, timeouts,
                     leaderOfTerm, votesByTerm, committed>>
      /\ operatorSeq' = operatorSeq + 1
  BY DEF MemberChange
<1>2. operatorSeq \in Nat
  BY DEF IInv, CountersTyped
<1>3. PICK cmd \in Changes(node[i].members, operatorSeq + 1) :
        msgs' = msgs \cup {[type |-> "ClientRequest", src |-> OperatorAddress,
                            dst |-> i, cmd |-> cmd]}
  BY DEF MemberChange
<1>4. node[i].members \in SUBSET Server
  BY NodeFacts, ServerAssumption DEF NodeState, Configuration
<1>5. cmd \in ConfigChange
  BY <1>2, <1>4 DEF Changes, ConfigCommand, ConfigChange
<1> DEFINE r == [type |-> "ClientRequest", src |-> OperatorAddress, dst |-> i, cmd |-> cmd]
<1>6. r \in MemberRequest /\ r.type = "ClientRequest"
  BY <1>5 DEF MemberRequest
<1>7. r \in NodeMessage /\ msgs' = msgs \cup {r}
  BY <1>3, <1>6 DEF NodeMessage
<1> HIDE DEF r
<1>8. MessageInv'
  BY <1>1, <1>6, <1>7 DEF IInv, MessageInv, MessagesTyped, VotesOnWire
<1>9. StateInv'
  BY <1>1 DEF IInv, StateInv, StateTyped, DiskCurrent, VotesKept, VoteSafety, MembersVote,
              CandidatesBacked, VotesFor, LeadersElected
<1>10. CountersTyped'
  BY <1>1, <1>2 DEF IInv, CountersTyped
<1> QED BY <1>8, <1>9, <1>10 DEF IInv

\* A crash keeps the invariant.
LEMMA CrashStep ==
  ASSUME IInv, NEW i \in Server, Crash(i)
  PROVE  IInv'
<1>1. CountersTyped'
  BY DEF IInv, CountersTyped, Crash
<1> QED BY <1>1, IdleStep DEF Crash

\* The start of a client's operation keeps the invariant.
LEMMA ClientBeginStep ==
  ASSUME IInv, NEW c \in Client, ClientBegin(c)
  PROVE  IInv'
<1>1. CountersTyped'
  BY DEF IInv, CountersTyped, ClientBegin
<1> QED BY <1>1, IdleStep DEF ClientBegin

\* A restart keeps the invariant, because the disk was current: the node comes back with
\* the term and the vote that it crashed with.
LEMMA RestartStep ==
  ASSUME IInv, NEW i \in Server, Restart(i)
  PROVE  IInv'
<1> DEFINE o == node[i]
           d == disk[i]
           n == Restarted(i, o, d)
<1>1. o.preTerm \in Nat
  BY NodeFacts DEF NodeState
<1>2. d \in DurableState
  BY DEF IInv, StateInv, StateTyped
<1>3. d = Durable(o)
  BY DEF IInv, StateInv, DiskCurrent
<1>4. Save(i, n) /\ Observe(i, n, n)
      /\ alive' = [alive EXCEPT ![i] = TRUE]
      /\ UNCHANGED <<msgs, clientSeq, operatorSeq, crashes, timeouts>>
  BY DEF Restart
<1> HIDE DEF o, d
<1>5. /\ Sane(n) /\ n.dirty = TRUE
      /\ n.currentTerm = d.currentTerm /\ n.votedFor = d.votedFor
      /\ n.role = Follower
  BY <1>1, <1>2, RestartedFacts
<1> HIDE DEF n
<1>6. n.currentTerm = o.currentTerm /\ n.votedFor = o.votedFor
  BY <1>3, <1>5 DEF Durable
<1>7. Yields(o, n) /\ Persists(o, n)
  BY <1>5, <1>6 DEF Yields, Persists
<1>8. Proper(i, n)
  BY <1>5, <1>7, YieldIsProper DEF IInv, o
<1>9. StateInv' /\ votesByTerm \subseteq votesByTerm'
  BY <1>4, <1>8, SaveStep DEF IInv
<1>10. MessageInv'
  BY <1>4, <1>9 DEF IInv, MessageInv, MessagesTyped, VotesOnWire
<1>11. CountersTyped'
  BY <1>4 DEF IInv, CountersTyped
<1> QED BY <1>9, <1>10, <1>11 DEF IInv

-----------------------------------------------------------------------------
(* The theorems *)

\* The invariant holds initially.
LEMMA InitInv == Init => IInv
<1> SUFFICES ASSUME Init PROVE IInv
  OBVIOUS
<1>1. /\ Sane(InitNode)
      /\ InitNode.currentTerm = 0 /\ InitNode.votedFor = Nil
      /\ InitNode.role = Follower /\ InitNode.votes = {}
  BY InitNodeFacts
<1>2. \A i \in Server : node[i] = InitNode /\ disk[i] = Durable(InitNode)
  BY DEF Init
<1>3. InitNode \in NodeState
  BY <1>1 DEF Sane
<1>4. Durable(InitNode) \in DurableState
  BY <1>3, SMTT(30) DEF Durable, DurableState, NodeState
<1>5. StateTyped
  BY <1>1, <1>2, <1>3, <1>4 DEF Init, StateTyped, Sane
<1>6. DiskCurrent /\ VotesKept /\ VoteSafety
  BY <1>2 DEF Init, DiskCurrent, VotesKept, VoteSafety
<1>7. MembersVote /\ CandidatesBacked /\ LeadersElected
  BY <1>1, <1>2 DEF Init, MembersVote, CandidatesBacked, LeadersElected,
                    Follower, PreCandidate, Candidate, Leader
<1>8. MessageInv /\ CountersTyped
  BY DEF Init, MessageInv, MessagesTyped, VotesOnWire, CountersTyped
<1> QED BY <1>5, <1>6, <1>7, <1>8 DEF IInv, StateInv

\* Every step keeps it.
LEMMA NextInv == IInv /\ [Next]_vars => IInv'
<1> SUFFICES ASSUME IInv, [Next]_vars PROVE IInv'
  OBVIOUS
<1>1. ASSUME NEW i \in Server,
             Timeout(i) \/ Heartbeat(i) \/ MemberChange(i) \/ Crash(i) \/ Restart(i)
      PROVE  IInv'
  BY <1>1, TimeoutStep, HeartbeatStep, MemberChangeStep, CrashStep, RestartStep
<1>2. ASSUME NEW m \in msgs, Receive(m.dst, m)
      PROVE  IInv'
  BY <1>2, ReceiveStep
<1>3. ASSUME NEW c \in Client, ClientBegin(c)
      PROVE  IInv'
  BY <1>3, ClientBeginStep
<1>4. ASSUME NEW c \in Client, NEW i \in Server, NEW s \in 1 .. MaxSeq, ClientRequest(i, c, s)
      PROVE  IInv'
  BY <1>4, ClientStep
<1>5. CASE UNCHANGED vars
  <2>1. CountersTyped'
    BY <1>5 DEF vars, IInv, CountersTyped
  <2> QED BY <1>5, <2>1, IdleStep DEF vars
<1> QED BY <1>1, <1>2, <1>3, <1>4, <1>5, Zenon DEF Next

\* The invariant holds in every reachable state.
THEOREM Invariance == Spec => []IInv
  BY InitInv, NextInv, PTL DEF Spec

\* Every reachable state is well typed, and no state machine is behind its snapshot (the
\* operators of node.py are total on the states that occur).
THEOREM TypeCorrect == Spec => []TypeOK
<1>1. IInv => TypeOK
  BY DEF IInv, StateInv, StateTyped, MessageInv, MessagesTyped, CountersTyped, TypeOK
<1> QED BY <1>1, Invariance, PTL

\* Between two events the disk of every node is what the node would need to come back
\* with: no handler of node.py changes durable state without marking it dirty.
THEOREM DiskNeverStale == Spec => []DiskCurrent
<1>1. IInv => DiskCurrent
  BY DEF IInv, StateInv
<1> QED BY <1>1, Invariance, PTL

\* No node ever votes for two candidates in one term, through any number of crashes and
\* with any loss, duplication and reordering of messages, also when the membership changes.
THEOREM OneVotePerTerm == Spec => []VoteSafety
<1>1. IInv => VoteSafety
  BY DEF IInv, StateInv
<1> QED BY <1>1, Invariance, PTL

\* With a fixed membership no term ever has two leaders, for any number of servers.
THEOREM OneLeaderPerTerm ==
  ASSUME ~MembershipChanges
  PROVE  Spec => []ElectionSafety
<1>1. ASSUME IInv PROVE ElectionSafety
  <2> SUFFICES ASSUME NEW e \in leaderOfTerm, NEW f \in leaderOfTerm, e[1] = f[1]
               PROVE  e[2] = f[2]
    BY DEF ElectionSafety
  <2>1. LeadersElected /\ VoteSafety
    BY <1>1 DEF IInv, StateInv
  <2>2. PICK Q \in SUBSET InitialMembers : Electors(Q) /\ VotesFor(Q, e[1], e[2])
    BY <2>1 DEF LeadersElected
  <2>3. PICK R \in SUBSET InitialMembers : Electors(R) /\ VotesFor(R, f[1], f[2])
    BY <2>1 DEF LeadersElected
  <2>7. Q \cap R # {}
    BY <2>2, <2>3, ElectorsMeet
  <2>8. PICK p \in Q \cap R : TRUE
    BY <2>7
  <2>9. <<p, e[1], e[2]>> \in votesByTerm /\ <<p, f[1], f[2]>> \in votesByTerm
    BY <2>2, <2>3, <2>8 DEF VotesFor
  <2> QED BY <2>1, <2>9 DEF VoteSafety
<1> QED BY <1>1, Invariance, PTL

-----------------------------------------------------------------------------
(* Polls *)

\* What node i, having become n, counts as promised was promised: the answers are still in
\* flight, for its next term is newer than the one it is in.
PollHeld(i, n) ==
  n.role = PreCandidate =>
    /\ n.preTerm = n.currentTerm + 1
    /\ \A p \in n.preVotes \ {i} :
         p \in InitialMembers /\ PreVoteRespMsg(p, i, n.preTerm, TRUE) \in msgs

\* Only members are polled and answer, and nobody asks itself for a vote.
PollFits(m) ==
  /\ m.type = "PreVote" => m.dst \in InitialMembers
  /\ m.type = "PreVoteResp" /\ m.granted => m.src \in InitialMembers
  /\ m.type = "RequestVote" => m.src # m.dst

\* The invariant under CampaignPolled, for a fixed membership.
PollInv ==
  /\ \A i \in Server : PollHeld(i, node[i])
  /\ \A m \in msgs : PollFits(m)

\* A majority of the configuration of i said that it would vote for i in term t.
Support(i, t) ==
  Cardinality({i} \cup {p \in node[i].members : PreVoteRespMsg(p, i, t, TRUE) \in msgs})
    >= Majority(node[i])

\* What CampaignPolled says of one step.
Campaigns ==
  \A i \in Server :
    PreVoteOn /\ node'[i].currentTerm > node[i].currentTerm /\ node'[i].votedFor = i
      => Support(i, node'[i].currentTerm)

\* Messages that have no part in a poll and ask for no vote.
Unpolled(out) == \A m \in out : m.type \notin {"PreVote", "PreVoteResp", "RequestVote"}

\* apply_committed leaves a poll that goes on as it was.
LEMMA ApplyPolls ==
  ASSUME NEW i \in Server, NEW n, Sane(n), ApplyCommitted(i, n).role = PreCandidate
  PROVE  /\ n.role = PreCandidate
         /\ ApplyCommitted(i, n).preTerm = n.preTerm
         /\ ApplyCommitted(i, n).preVotes = n.preVotes
<1> DEFINE b == Applied(i, n)
           c == ApplyCommitted(i, n)
           top == Largest(ToApply(n))
           hist == HistoryUpto(n, top)
           pend == n.pending \ {p \in n.pending : p.index \in ToApply(n)}
           reqs == {r \in n.pendingByReq :
                      \A p \in {p \in n.pending : p.index \in ToApply(n)} :
                        r.client # p.addr \/ r.seq # p.seq}
           fed == [n EXCEPT !.lastApplied = top, !.sm = hist, !.pending = pend,
                            !.pendingByReq = reqs]
<1>1. n \in NodeState /\ Sane(b) /\ Keeps(n, b) /\ Sane(c) /\ Keeps(b, c)
  BY AppliedFacts, MaybeCompactFacts DEF Sane, ApplyCommitted
<1>2. b = n \/ b = fed \/ b = StepDown(fed, n.currentTerm)
  BY Zenon DEF Applied
<1>3. Follower # PreCandidate
  BY DEF Follower, PreCandidate
<1>4. c.preTerm = b.preTerm /\ c.preVotes = b.preVotes
  <2>1. b \in NodeState /\ c = MaybeCompact(b)
    BY <1>1 DEF Sane, ApplyCommitted
  <2> HIDE DEF b, c
  <2> QED BY <2>1, SMTT(30) DEF MaybeCompact, NodeState
<1>5. b.role = PreCandidate /\ n.role = PreCandidate
  BY <1>1, <1>3 DEF Keeps
<1> HIDE DEF top, hist, pend, reqs
<1>6. fed.preTerm = n.preTerm /\ fed.preVotes = n.preVotes
  BY <1>1, SMTT(30) DEF NodeState
<1>7. b # StepDown(fed, n.currentTerm)
  <2>1. StepDown(fed, n.currentTerm).role # PreCandidate
    BY <1>1, <1>3, SMTT(30) DEF StepDown, NodeState
  <2> HIDE DEF b, fed
  <2> QED BY <1>5, <2>1
<1> QED BY <1>2, <1>4, <1>5, <1>6, <1>7

\* An event keeps the polls if its handler left node i with a poll that is held and sends
\* what fits, and campaigns only with support: the answers counted are not lost meanwhile.
LEMMA EventPolls ==
  ASSUME IInv, PollInv, NEW i \in Server, NEW n, NEW out, Sane(n), PollHeld(i, n),
         \A m \in out : PollFits(m), Finish(i, n, out),
         PreVoteOn /\ n.currentTerm > node[i].currentTerm /\ n.votedFor = i
           => Support(i, n.currentTerm)
  PROVE  PollInv' /\ Campaigns
<1> DEFINE a == ApplyCommitted(i, n)
           sent == out \cup AppliedOut(i, n)
           saved == [a EXCEPT !.dirty = FALSE]
<1>1. Sane(a) /\ Keeps(n, a)
  BY ApplyCommittedFacts
<1>2. Save(i, a) /\ Send(i, a, sent)
  BY DEF Finish
<1>3. a.role = PreCandidate =>
        n.role = PreCandidate /\ a.preTerm = n.preTerm /\ a.preVotes = n.preVotes
  BY ApplyPolls
<1>4. node \in [Server -> NodeState]
  BY DEF IInv, StateInv, StateTyped
<1>5. a \in NodeState /\ n \in NodeState
  BY <1>1 DEF Sane
<1> HIDE DEF a
<1>6. /\ saved.role = a.role /\ saved.currentTerm = a.currentTerm
      /\ saved.votedFor = a.votedFor
      /\ saved.preTerm = a.preTerm /\ saved.preVotes = a.preVotes
  BY <1>5, SMTT(30) DEF NodeState
<1>7. node' = [node EXCEPT ![i] = saved]
  BY <1>2 DEF Save
<1> HIDE DEF saved
<1>8. node'[i] = saved /\ \A j \in Server \ {i} : node'[j] = node[j]
  BY <1>4, <1>7
<1>9. /\ saved.currentTerm = n.currentTerm /\ saved.votedFor = n.votedFor
      /\ saved.role = PreCandidate =>
           n.role = PreCandidate /\ saved.preTerm = n.preTerm /\ saved.preVotes = n.preVotes
  BY <1>1, <1>3, <1>6 DEF Keeps
<1>10. msgs' = {m \in msgs \cup sent :
                  \/ m.type = "ClientReply"
                  \/ Matters(m, IF m.dst = i THEN a ELSE node[m.dst])}
  BY <1>2 DEF Send
<1>11. ASSUME NEW p \in Server, NEW j \in Server, NEW t \in Nat,
              PreVoteRespMsg(p, j, t, TRUE) \in msgs,
              t > IF j = i THEN n.currentTerm ELSE node[j].currentTerm
       PROVE  PreVoteRespMsg(p, j, t, TRUE) \in msgs'
  <2> DEFINE r == PreVoteRespMsg(p, j, t, TRUE)
             to == IF r.dst = i THEN a ELSE node[r.dst]
  <2>1. r.type = "PreVoteResp" /\ r.dst = j /\ r.term = t
    BY DEF PreVoteRespMsg
  <2>2. t > to.currentTerm
    BY <1>1, <1>11, <2>1 DEF Keeps
  <2> HIDE DEF r
  <2>3. Matters(r, to)
    BY <2>1, <2>2 DEF Matters
  <2>4. r \in msgs
    BY <1>11 DEF r
  <2>5. r \in msgs'
    BY <1>10, <2>3, <2>4
  <2> QED BY <2>5 DEF r
<1>12. ASSUME NEW j \in Server PROVE PollHeld(j, node[j])'
  <2> DEFINE o == IF j = i THEN n ELSE node[j]
  <2>1. PollHeld(j, o)
    BY DEF PollInv
  <2>2. o \in NodeState
    BY <1>4, <1>5
  <2>3. node'[j].role = PreCandidate =>
          /\ o.role = PreCandidate /\ node'[j].currentTerm = o.currentTerm
          /\ node'[j].preTerm = o.preTerm /\ node'[j].preVotes = o.preVotes
    BY <1>8, <1>9
  <2>4. o.currentTerm = IF j = i THEN n.currentTerm ELSE node[j].currentTerm
    OBVIOUS
  <2>5. o.currentTerm \in Nat /\ o.preTerm \in Nat
    BY <2>2 DEF NodeState
  <2> HIDE DEF o
  <2>6. ASSUME o.role = PreCandidate, NEW p \in o.preVotes \ {j}
        PROVE  p \in InitialMembers /\ PreVoteRespMsg(p, j, o.preTerm, TRUE) \in msgs'
    <3>1. /\ o.preTerm = o.currentTerm + 1 /\ p \in InitialMembers
          /\ PreVoteRespMsg(p, j, o.preTerm, TRUE) \in msgs
      BY <2>1, <2>6 DEF PollHeld
    <3>2. o.preTerm > IF j = i THEN n.currentTerm ELSE node[j].currentTerm
      BY <2>4, <2>5, <3>1
    <3>3. p \in Server
      BY <3>1, ServerAssumption
    <3> QED BY <1>11, <2>5, <3>1, <3>2, <3>3
  <2>7. o.role = PreCandidate => o.preTerm = o.currentTerm + 1
    BY <2>1 DEF PollHeld
  <2> QED BY <2>3, <2>6, <2>7 DEF PollHeld
<1>13. ASSUME NEW m \in msgs' PROVE PollFits(m)
  <2>1. m \in msgs \/ m \in out \/ m \in AppliedOut(i, n)
    BY <1>10
  <2>2. CASE m \in AppliedOut(i, n)
    BY <2>2 DEF AppliedOut, ClientReplyMsg, PollFits
  <2> QED BY <2>1, <2>2 DEF PollInv
<1>14. Campaigns
  <2> SUFFICES ASSUME NEW j \in Server, PreVoteOn,
                      node'[j].currentTerm > node[j].currentTerm, node'[j].votedFor = j
               PROVE  Support(j, node'[j].currentTerm)
    BY Zenon DEF Campaigns
  <2>1. node[j].currentTerm \in Nat
    BY <1>4 DEF NodeState
  <2>2. j = i
    BY <1>8, <2>1
  <2> QED BY <1>8, <1>9, <2>2
<1> QED BY <1>12, <1>13, <1>14 DEF PollInv

\* An event keeps the polls if its handler yields, goes on with none and has no part in one.
LEMMA QuietPolls ==
  ASSUME IInv, PollInv, NEW i \in Server, NEW n, NEW out, Sane(n), Yields(node[i], n),
         n.role # PreCandidate \/ n = node[i], Unpolled(out), Finish(i, n, out)
  PROVE  PollInv' /\ Campaigns
<1>1. PollHeld(i, n)
  BY DEF PollHeld, PollInv
<1>2. \A m \in out : PollFits(m)
  BY DEF Unpolled, PollFits
<1>3. ~(n.currentTerm > node[i].currentTerm /\ n.votedFor = i)
  <2>1. node[i].currentTerm \in Nat
    BY NodeFacts
  <2> QED BY <2>1, ServerAssumption DEF Yields
<1> QED BY <1>1, <1>2, <1>3, EventPolls

\* Entries and snapshots have no part in a poll.
LEMMA AppendsUnpolled ==
  ASSUME NEW i \in Server, NEW n \in NodeState, NEW P \in SUBSET Server
  PROVE  Unpolled(Appends(i, n, P))
<1> SUFFICES ASSUME NEW p \in P
             PROVE  MakeAppend(i, n, p).type \notin {"PreVote", "PreVoteResp", "RequestVote"}
  BY DEF Unpolled, Appends
<1>1. MakeAppend(i, n, p) \in AppendEntries \cup InstallSnapshot
  BY MakeAppendType
<1> QED BY <1>1 DEF AppendEntries, InstallSnapshot

\* An event that ends in sending entries to peers keeps the polls.
LEMMA SentPolls ==
  ASSUME IInv, PollInv, NEW i \in Server, NEW n, Sane(n), Yields(node[i], n),
         n.role # PreCandidate, NEW P \in SUBSET Server,
         Post(i, Sent(i, n, P), Appends(i, n, P))
  PROVE  PollInv' /\ Campaigns
<1> DEFINE s == Sent(i, n, P)
<1>1. n \in NodeState
  BY DEF Sane
<1>2. s \in NodeState /\ Tracked(n, s)
  BY <1>1, SentFacts
<1>3. Unpolled(Appends(i, n, P))
  BY <1>1, AppendsUnpolled
<1>4. Finish(i, s, Appends(i, n, P))
  BY DEF Post
<1> HIDE DEF s
<1>5. Sane(s) /\ Yields(node[i], s) /\ s.role # PreCandidate
  BY <1>2 DEF Sane, Tracked, Yields
<1> QED BY <1>3, <1>4, <1>5, QuietPolls

\* An event that is no more than step_down keeps the polls.
LEMMA StepDownPolls ==
  ASSUME IInv, PollInv, NEW i \in Server, NEW t \in Nat, Post(i, StepDown(node[i], t), {})
  PROVE  PollInv' /\ Campaigns
<1> DEFINE s == StepDown(node[i], t)
<1>1. Sane(s) /\ Yields(node[i], s)
  BY NodeFacts, StepDownYields
<1>2. s.role # PreCandidate
  BY NodeFacts, StepDownFacts DEF Follower, PreCandidate
<1>3. Unpolled({})
  BY DEF Unpolled
<1> QED BY <1>1, <1>2, <1>3, QuietPolls DEF Post

\* Becoming a candidate ends a poll; with pre-vote on it takes a majority that supports it.
LEMMA CandidacyPolls ==
  ASSUME IInv, PollInv, NEW i \in Server, NEW n, Sane(n),
         n.currentTerm = node[i].currentTerm,
         PreVoteOn => Support(i, node[i].currentTerm + 1),
         Finish(i, BecomeCandidate(i, n), BecomeCandidateOut(i, n))
  PROVE  PollInv' /\ Campaigns
<1> DEFINE b == BecomeCandidate(i, n)
           c == Campaign(i, n)
<1>1. n \in NodeState
  BY DEF Sane
<1>2. /\ b \in NodeState
      /\ b.currentTerm = node[i].currentTerm + 1
      /\ b.role # PreCandidate
      /\ b.snapshotIndex <= b.lastApplied
  <2>1. /\ b \in NodeState /\ b.currentTerm = n.currentTerm + 1
        /\ b.role = Candidate \/ b.role = Leader
        /\ b.snapshotIndex = n.snapshotIndex /\ b.lastApplied = n.lastApplied
    BY <1>1, BecomeCandidateFacts, Zenon
  <2> HIDE DEF b
  <2> QED BY <2>1 DEF Sane, Leader, Candidate, PreCandidate
<1>3. c \in NodeState
  BY <1>1, CampaignFacts, Zenon
<1>4. Peers(i, n) \in SUBSET Server /\ i \notin Peers(i, n)
  BY <1>1, ServerAssumption DEF Peers, NodeState, Configuration
<1>5. Peers(i, c) \in SUBSET Server
  BY <1>3, ServerAssumption DEF Peers, NodeState, Configuration
<1>6. Unpolled(BecomeLeaderOut(i, c))
  <2>1. Elected(i, c) \in NodeState
    BY <1>3, ElectedFacts, Zenon
  <2> QED BY <1>5, <2>1, AppendsUnpolled DEF BecomeLeaderOut
<1>7. ASSUME NEW m \in BecomeCandidateOut(i, n) PROVE PollFits(m)
  <2>1. \/ \E p \in Peers(i, n) : m = RequestVoteMsg(i, p, c)
        \/ m \in BecomeLeaderOut(i, c)
    BY <1>7, Zenon DEF BecomeCandidateOut
  <2>2. CASE \E p \in Peers(i, n) : m = RequestVoteMsg(i, p, c)
    BY <1>4, <2>2 DEF RequestVoteMsg, PollFits
  <2>3. CASE m \in BecomeLeaderOut(i, c)
    BY <1>6, <2>3 DEF Unpolled, PollFits
  <2> QED BY <2>1, <2>2, <2>3
<1> HIDE DEF b, c
<1>8. Finish(i, b, BecomeCandidateOut(i, n))
  BY DEF b
<1>9. Sane(b) /\ PollHeld(i, b)
  BY <1>2 DEF Sane, PollHeld
<1> QED BY <1>2, <1>7, <1>8, <1>9, EventPolls

\* A set of promises is support when it is a majority.
LEMMA SupportEnough ==
  ASSUME IInv, NEW i \in Server, NEW t, NEW S,
         S \subseteq {i} \cup {p \in node[i].members : PreVoteRespMsg(p, i, t, TRUE) \in msgs},
         Cardinality(S) >= Majority(node[i])
  PROVE  Support(i, t)
<1> DEFINE all == {i} \cup {p \in node[i].members : PreVoteRespMsg(p, i, t, TRUE) \in msgs}
<1>1. node[i].members \in SUBSET Server
  BY NodeFacts, ServerAssumption DEF NodeState, Configuration
<1>2. IsFiniteSet(all)
  <2>1. all \subseteq Server
    BY <1>1
  <2> QED BY <2>1, ServerAssumption, FS_Subset
<1>3. Cardinality(all) \in Nat /\ Cardinality(S) \in Nat /\ Cardinality(S) <= Cardinality(all)
  BY <1>2, FS_Subset, FS_CardinalityType
<1>4. Majority(node[i]) \in Nat
  <2>1. IsFiniteSet(node[i].members)
    BY <1>1, ServerAssumption, FS_Subset
  <2>2. Cardinality(node[i].members) \in Nat
    BY <2>1, FS_CardinalityType
  <2> QED BY <2>2 DEF Majority
<1> HIDE DEF all
<1>5. Cardinality(all) >= Majority(node[i])
  BY <1>3, <1>4
<1> QED BY <1>5 DEF all, Support

\* start_election keeps the polls: it opens one, and campaigns without one only if pre-vote is
\* off or its own vote is a majority.
LEMMA TimeoutPolls ==
  ASSUME ~MembershipChanges, IInv, PollInv, NEW i \in Server, Timeout(i)
  PROVE  PollInv' /\ Campaigns
<1> DEFINE n == node[i]
           p == Poll(i, n)
           asked == {PreVoteMsg(i, q, p) : q \in Peers(i, n)}
<1>1. n \in NodeState /\ Sane(n) /\ Peers(i, n) \in SUBSET Server
  BY NodeFacts
<1>2. n.members = InitialMembers
  BY <1>1 DEF NodeState, Configuration
<1>3. /\ Sane(p) /\ p.currentTerm = n.currentTerm /\ p.role = PreCandidate
  BY <1>1, PollFacts, Zenon
<1>4. p.preTerm = n.currentTerm + 1 /\ p.preVotes = {i}
  BY <1>1, SMTT(30) DEF Poll, NodeState
<1>5. \/ ~PreVoteOn /\ Finish(i, BecomeCandidate(i, n), BecomeCandidateOut(i, n))
      \/ 1 >= Majority(n) /\ Finish(i, BecomeCandidate(i, p), BecomeCandidateOut(i, p))
      \/ Finish(i, p, asked)
  BY Zenon DEF Timeout
<1> HIDE DEF p, asked
<1>6. CASE ~PreVoteOn /\ Finish(i, BecomeCandidate(i, n), BecomeCandidateOut(i, n))
  BY <1>1, <1>6, CandidacyPolls
<1>7. CASE 1 >= Majority(n) /\ Finish(i, BecomeCandidate(i, p), BecomeCandidateOut(i, p))
  <2>1. Cardinality({i}) = 1
    BY FS_Singleton
  <2>2. Support(i, n.currentTerm + 1)
    BY <1>7, <2>1, SupportEnough
  <2> QED BY <1>3, <1>7, <2>2, CandidacyPolls
<1>8. CASE Finish(i, p, asked)
  <2>1. PollHeld(i, p)
    BY <1>3, <1>4 DEF PollHeld
  <2>2. ASSUME NEW m \in asked PROVE PollFits(m)
    <3>1. PICK q \in Peers(i, n) : m = PreVoteMsg(i, q, p)
      BY <2>2 DEF asked
    <3>2. q \in InitialMembers
      BY <1>2 DEF Peers
    <3> QED BY <3>1, <3>2 DEF PreVoteMsg, PollFits
  <2>3. ~(p.currentTerm > n.currentTerm)
    BY <1>1, <1>3 DEF NodeState
  <2> QED BY <1>3, <1>8, <2>1, <2>2, <2>3, EventPolls
<1> QED BY <1>5, <1>6, <1>7, <1>8

\* handle_pre_vote keeps the polls: the member that was asked answers.
LEMMA PreVotePolls ==
  ASSUME IInv, PollInv, NEW i \in Server, NEW m \in msgs, m.dst = i, HandlePreVote(i, m)
  PROVE  PollInv' /\ Campaigns
<1>1. m.type = "PreVote" /\ m.dst \in InitialMembers
  BY DEF HandlePreVote, PollInv, PollFits
<1>2. PICK t \in {m.term, node[i].currentTerm}, g \in BOOLEAN :
        Post(i, node[i], {PreVoteRespMsg(i, m.src, t, g)})
  BY DEF HandlePreVote
<1>3. Sane(node[i]) /\ node[i].currentTerm \in Nat
  BY NodeFacts
<1>4. PollHeld(i, node[i])
  BY DEF PollInv
<1>5. \A q \in {PreVoteRespMsg(i, m.src, t, g)} : PollFits(q)
  BY <1>1 DEF PreVoteRespMsg, PollFits
<1>6. ~(node[i].currentTerm > node[i].currentTerm)
  BY <1>3
<1> QED BY <1>2, <1>3, <1>4, <1>5, <1>6, EventPolls DEF Post

\* handle_pre_vote_resp keeps the polls: it counts the promise that it holds in its hands, and
\* campaigns when those it counted are a majority.
LEMMA PreVoteRespPolls ==
  ASSUME ~MembershipChanges, IInv, PollInv, NEW i \in Server, NEW m \in msgs, m.dst = i,
         HandlePreVoteResp(i, m)
  PROVE  PollInv' /\ Campaigns
<1> DEFINE n == node[i]
           pv == n.preVotes \cup {m.src}
           polled == [n EXCEPT !.preVotes = pv]
<1>1. m \in VoteResponse /\ m.type = "PreVoteResp"
  BY MessageOfType DEF HandlePreVoteResp, IInv, MessageInv, MessagesTyped
<1>2. m.src \in Server /\ m.term \in Nat
  BY <1>1 DEF VoteResponse
<1>3. n \in NodeState /\ Sane(n)
  BY NodeFacts
<1>4. CASE Post(i, StepDown(n, m.term), {})
  BY <1>2, <1>4, StepDownPolls
<1>5. CASE /\ PollAnswered(n, m)
           /\ IF Cardinality(polled.preVotes) >= Majority(n)
              THEN Post(i, BecomeCandidate(i, polled), BecomeCandidateOut(i, polled))
              ELSE Post(i, polled, {})
  <2>1. n.role = PreCandidate /\ m.term = n.preTerm /\ m.granted
    BY <1>5 DEF PollAnswered
  <2>2. pv \in SUBSET Server
    BY <1>2, <1>3 DEF NodeState
  <2>3. PollHeld(i, n)
    BY DEF PollInv
  <2>4. n.preTerm = n.currentTerm + 1
    BY <2>1, <2>3 DEF PollHeld
  <2>5. m.src \in InitialMembers
    BY <1>1, <2>1 DEF PollInv, PollFits
  <2>6. m = PreVoteRespMsg(m.src, i, n.preTerm, TRUE)
    BY <1>1, <2>1 DEF VoteResponse, PreVoteRespMsg
  <2>7. \A p \in pv \ {i} :
          p \in InitialMembers /\ PreVoteRespMsg(p, i, n.preTerm, TRUE) \in msgs
    BY <2>1, <2>3, <2>5, <2>6 DEF PollHeld
  <2> HIDE DEF pv
  <2>8. polled \in NodeState
    BY <1>3, <2>2, ZenonT(90) DEF NodeState
  <2>9. /\ polled.currentTerm = n.currentTerm /\ polled.role = n.role
        /\ polled.preTerm = n.preTerm /\ polled.preVotes = pv
        /\ polled.snapshotIndex = n.snapshotIndex /\ polled.lastApplied = n.lastApplied
    BY <1>3, SMTT(30) DEF NodeState
  <2> HIDE DEF polled
  <2>10. Sane(polled) /\ PollHeld(i, polled)
    BY <1>3, <2>4, <2>7, <2>8, <2>9 DEF Sane, PollHeld
  <2>11. CASE /\ Cardinality(polled.preVotes) >= Majority(n)
              /\ Post(i, BecomeCandidate(i, polled), BecomeCandidateOut(i, polled))
    <3>1. n.members = InitialMembers
      BY <1>3 DEF NodeState, Configuration
    <3>2. pv \subseteq {i} \cup {p \in n.members :
                                  PreVoteRespMsg(p, i, n.currentTerm + 1, TRUE) \in msgs}
      BY <2>4, <2>7, <3>1
    <3>3. Support(i, n.currentTerm + 1)
      BY <2>9, <2>11, <3>2, SupportEnough
    <3> QED BY <2>9, <2>10, <2>11, <3>3, CandidacyPolls DEF Post
  <2>12. CASE Post(i, polled, {})
    <3>1. ~(polled.currentTerm > n.currentTerm)
      BY <1>3, <2>9 DEF NodeState
    <3> QED BY <2>10, <2>12, <3>1, EventPolls DEF Post
  <2> QED BY <1>5, <2>11, <2>12
<1> QED BY <1>4, <1>5, Zenon DEF HandlePreVoteResp

\* handle_request_vote keeps the polls: the vote that it casts in a newer term is not its own.
LEMMA RequestVotePolls ==
  ASSUME IInv, PollInv, NEW i \in Server, NEW m \in msgs, m.dst = i, HandleRequestVote(i, m)
  PROVE  PollInv' /\ Campaigns
<1> DEFINE n == node[i]
           s == IF m.term > n.currentTerm THEN StepDown(n, m.term) ELSE n
           granted == s.votedFor \in {Nil, m.src} /\ LogIsCurrent(s, m)
           v == IF granted THEN VoteFor(s, m.src) ELSE s
           w == VoteFor(s, m.src)
<1>1. m \in NodeMessage /\ m.type = "RequestVote"
  BY DEF HandleRequestVote, IInv, MessageInv, MessagesTyped
<1>2. m.src \in Server /\ m.term \in Nat /\ m.src # i
  BY <1>1, MessageOfType DEF VoteRequest, PollInv, PollFits
<1>3. n \in NodeState /\ Sane(n) /\ Yields(n, n)
  BY NodeFacts
<1>4. \/ Post(i, n, {RequestVoteRespMsg(i, m.src, n, FALSE)})
      \/ Post(i, v, {RequestVoteRespMsg(i, m.src, v, granted)})
  BY ZenonT(60) DEF HandleRequestVote
<1>5. \A x, g : Unpolled({RequestVoteRespMsg(i, m.src, x, g)})
  BY DEF Unpolled, RequestVoteRespMsg
<1>6. CASE Post(i, n, {RequestVoteRespMsg(i, m.src, n, FALSE)})
  BY <1>3, <1>5, <1>6, QuietPolls DEF Post
<1>7. Sane(s) /\ Yields(n, s)
  BY <1>2, <1>3, StepDownYields
<1>8. s.role # PreCandidate \/ s = n
  BY <1>2, <1>3, StepDownFacts DEF Follower, PreCandidate
<1>9. /\ Sane(w) /\ w.currentTerm = s.currentTerm /\ w.votedFor = m.src /\ w.role = s.role
  BY <1>2, <1>7, VoteForFacts, Zenon
<1>10. w.preTerm = s.preTerm /\ w.preVotes = s.preVotes
  <2>1. s \in NodeState
    BY <1>7 DEF Sane
  <2> HIDE DEF s
  <2> QED BY <2>1, SMTT(30) DEF VoteFor, NodeState
<1>11. v = w \/ v = s
  OBVIOUS
<1> HIDE DEF s, w, v, granted
<1>12. CASE Post(i, s, {RequestVoteRespMsg(i, m.src, s, granted)})
  BY <1>5, <1>7, <1>8, <1>12, QuietPolls DEF Post
<1>13. CASE Post(i, w, {RequestVoteRespMsg(i, m.src, w, granted)})
  <2>1. PollHeld(i, n)
    BY DEF PollInv
  <2>2. PollHeld(i, w)
    BY <1>8, <1>9, <1>10, <2>1 DEF PollHeld
  <2>3. \A q \in {RequestVoteRespMsg(i, m.src, w, granted)} : PollFits(q)
    BY <1>5 DEF Unpolled, PollFits
  <2>4. w.votedFor # i
    BY <1>2, <1>9
  <2> QED BY <1>9, <1>13, <2>2, <2>3, <2>4, EventPolls DEF Post
<1> QED BY <1>4, <1>6, <1>11, <1>12, <1>13

\* handle_request_vote_resp keeps the polls.
LEMMA RequestVoteRespPolls ==
  ASSUME IInv, PollInv, NEW i \in Server, NEW m \in msgs, HandleRequestVoteResp(i, m)
  PROVE  PollInv' /\ Campaigns
<1> DEFINE n == node[i]
           votes == n.votes \cup {m.src}
           counted == [n EXCEPT !.votes = votes]
           won == BecomeLeader(i, counted)
<1>1. m \in NodeMessage /\ m.type = "RequestVoteResp"
  BY DEF HandleRequestVoteResp, IInv, MessageInv, MessagesTyped
<1>2. m.src \in Server /\ m.term \in Nat
  BY <1>1, MessageOfType DEF VoteResponse
<1>3. n \in NodeState /\ Sane(n)
  BY NodeFacts
<1>4. CASE Post(i, StepDown(n, m.term), {})
  BY <1>2, <1>4, StepDownPolls
<1>5. CASE /\ n.role = Candidate
           /\ \/ Post(i, won, BecomeLeaderOut(i, counted))
              \/ Post(i, counted, {})
  <2>1. votes \in SUBSET Server
    BY <1>2, <1>3 DEF NodeState
  <2> HIDE DEF votes
  <2>2. counted \in NodeState
    BY <1>3, <2>1, ZenonT(90) DEF NodeState
  <2>3. /\ counted.currentTerm = n.currentTerm
        /\ counted.role = Candidate
        /\ counted.snapshotIndex = n.snapshotIndex /\ counted.lastApplied = n.lastApplied
    BY <1>3, <1>5, SMTT(30) DEF NodeState
  <2>4. /\ won \in NodeState /\ won.currentTerm = counted.currentTerm
        /\ won.role = Leader
        /\ won.snapshotIndex = counted.snapshotIndex
        /\ won.lastApplied = counted.lastApplied
    BY <2>2, BecomeLeaderFacts, Zenon
  <2> HIDE DEF counted, won
  <2>5. n.currentTerm \in Nat /\ Candidate # PreCandidate /\ Leader # PreCandidate
    BY <1>3 DEF NodeState, Candidate, PreCandidate, Leader
  <2>6. CASE Post(i, counted, {})
    <3>1. Sane(counted)
      BY <1>3, <2>2, <2>3 DEF Sane
    <3>2. PollHeld(i, counted)
      BY <2>3, <2>5 DEF PollHeld
    <3>3. ~(counted.currentTerm > n.currentTerm)
      BY <2>3, <2>5
    <3>4. \A q \in {} : PollFits(q)
      OBVIOUS
    <3> QED BY <2>6, <3>1, <3>2, <3>3, <3>4, EventPolls DEF Post
  <2>7. CASE Post(i, won, BecomeLeaderOut(i, counted))
    <3>1. Sane(won)
      BY <1>3, <2>3, <2>4 DEF Sane
    <3>5. PollHeld(i, won)
      BY <2>4, <2>5 DEF PollHeld
    <3>6. ~(won.currentTerm > n.currentTerm)
      BY <2>3, <2>4, <2>5
    <3>2. Elected(i, counted) \in NodeState
      BY <2>2, ElectedFacts, Zenon
    <3>3. Peers(i, counted) \in SUBSET Server
      BY <2>2, ServerAssumption DEF Peers, NodeState, Configuration
    <3>4. \A q \in BecomeLeaderOut(i, counted) : PollFits(q)
      BY <3>2, <3>3, AppendsUnpolled DEF BecomeLeaderOut, Unpolled, PollFits
    <3> QED BY <2>7, <3>1, <3>4, <3>5, <3>6, EventPolls DEF Post
  <2> QED BY <1>5, <2>6, <2>7
<1> QED BY <1>4, <1>5, Zenon DEF HandleRequestVoteResp

\* A node that has heard from a leader polls nobody.
LEMMA RecogniseEndsPoll ==
  ASSUME NEW n \in NodeState, NEW m, m.term \in Nat
  PROVE  Recognise(n, m).role # PreCandidate
<1> DEFINE s == IF m.term > n.currentTerm THEN StepDown(n, m.term) ELSE n
           role == IF s.role \in {Candidate, PreCandidate} THEN Follower ELSE s.role
           r == [s EXCEPT !.role = role, !.leaderId = m.src, !.heardLeader = LeaderStickiness]
<1>1. s \in NodeState
  BY StepDownFacts
<1>2. role # PreCandidate
  BY DEF Follower, PreCandidate
<1>3. Recognise(n, m) = r
  BY Zenon DEF Recognise
<1> HIDE DEF s, role
<1>4. r.role = role
  BY <1>1, SMTT(30) DEF NodeState
<1> QED BY <1>2, <1>3, <1>4

\* handle_append_entries keeps the polls: a leader that is recognised ends one.
LEMMA AppendEntriesPolls ==
  ASSUME IInv, PollInv, NEW i \in Server, NEW m \in msgs, HandleAppendEntries(i, m)
  PROVE  PollInv' /\ Campaigns
<1> DEFINE n == node[i]
           r == Recognise(n, m)
           e == MergeEntries(i, r, m)
           c == LearnCommit(e, m)
<1>1. m \in AppendEntries
  BY MessageOfType DEF HandleAppendEntries, IInv, MessageInv, MessagesTyped
<1>2. m.src \in Server /\ m.term \in Nat
  BY <1>1 DEF AppendEntries
<1>3. n \in NodeState /\ Sane(n) /\ Yields(n, n)
  BY NodeFacts
<1>4. Sane(r) /\ Yields(n, r)
  BY <1>2, <1>3, RecogniseFacts
<1>5. r.role # PreCandidate
  BY <1>2, <1>3, RecogniseEndsPoll
<1>6. PICK s, ok, upto, ci, ct :
        /\ s = n \/ s = r \/ (s = c /\ PrevMatches(r, m))
        /\ Post(i, s, {AppendEntriesRespMsg(i, s, m, ok, upto, ci, ct)})
  BY ZenonT(60) DEF HandleAppendEntries
<1>7. Unpolled({AppendEntriesRespMsg(i, s, m, ok, upto, ci, ct)})
  BY DEF Unpolled, AppendEntriesRespMsg
<1>8. CASE s = n
  BY <1>3, <1>6, <1>7, <1>8, QuietPolls DEF Post
<1>9. CASE s = r
  BY <1>4, <1>5, <1>6, <1>7, <1>9, QuietPolls DEF Post
<1>10. CASE s = c /\ PrevMatches(r, m)
  <2>1. Sane(e) /\ Keeps(r, e)
    BY <1>1, <1>4, <1>10, MergeEntriesFacts
  <2>2. Sane(c) /\ Keeps(e, c)
    BY <1>1, <2>1, LearnCommitFacts
  <2>3. r \in NodeState /\ e \in NodeState /\ c \in NodeState
    BY <1>4, <2>1, <2>2 DEF Sane
  <2> HIDE DEF r, e, c
  <2>4. Keeps(r, c)
    BY <2>1, <2>2, RelationsCompose
  <2>5. Yields(n, c) /\ c.role # PreCandidate
    BY <1>3, <1>4, <1>5, <2>3, <2>4, YieldsCompose DEF Keeps, Follower, PreCandidate
  <2> QED BY <1>6, <1>7, <1>10, <2>2, <2>5, QuietPolls DEF Post
<1> QED BY <1>6, <1>8, <1>9, <1>10

\* Counting an acknowledgement and sending more keeps the polls.
LEMMA AcknowledgePolls ==
  ASSUME IInv, PollInv, NEW i \in Server, NEW p \in Server, NEW match \in Nat,
         node[i].role = Leader, Acknowledge(i, p, match)
  PROVE  PollInv' /\ Campaigns
<1> DEFINE a == Acknowledged(i, node[i], p, match)
           more == IF WindowOpen(a, p) THEN {p} ELSE {}
<1>1. Sane(a) /\ Keeps(node[i], a)
  BY NodeFacts, AcknowledgedFacts
<1>2. Post(i, Sent(i, a, more), Appends(i, a, more))
  BY Zenon DEF Acknowledge
<1>3. more \in SUBSET Server
  OBVIOUS
<1> HIDE DEF a, more
<1>4. Yields(node[i], a) /\ a.role # PreCandidate
  BY <1>1, NodeFacts, YieldsCompose DEF Sane, Keeps, Follower, PreCandidate, Leader
<1> QED BY <1>1, <1>2, <1>3, <1>4, SentPolls

\* handle_append_entries_resp keeps the polls.
LEMMA AppendEntriesRespPolls ==
  ASSUME IInv, PollInv, NEW i \in Server, NEW m \in msgs, HandleAppendEntriesResp(i, m)
  PROVE  PollInv' /\ Campaigns
<1> DEFINE n == node[i]
           b == BackUp(n, m)
<1>1. m \in AppendEntriesResp
  BY MessageOfType DEF HandleAppendEntriesResp, IInv, MessageInv, MessagesTyped
<1>2. m.src \in Server /\ m.term \in Nat /\ m.matchIndex \in Nat
  BY <1>1 DEF AppendEntriesResp
<1>3. CASE Post(i, StepDown(n, m.term), {})
  BY <1>2, <1>3, StepDownPolls
<1>4. CASE n.role = Leader /\ Acknowledge(i, m.src, m.matchIndex)
  BY <1>2, <1>4, AcknowledgePolls
<1>5. CASE n.role = Leader /\ Post(i, Sent(i, b, {m.src}), Appends(i, b, {m.src}))
  <2>1. Sane(b) /\ Keeps(n, b)
    BY <1>1, NodeFacts, BackUpFacts
  <2> HIDE DEF b
  <2>2. Yields(n, b) /\ b.role # PreCandidate
    BY <1>5, <2>1, NodeFacts, YieldsCompose DEF Sane, Keeps, Follower, PreCandidate, Leader
  <2> QED BY <1>2, <1>5, <2>1, <2>2, SentPolls
<1> QED BY <1>3, <1>4, <1>5 DEF HandleAppendEntriesResp

\* handle_install_snapshot keeps the polls.
LEMMA InstallSnapshotPolls ==
  ASSUME IInv, PollInv, NEW i \in Server, NEW m \in msgs, HandleInstallSnapshot(i, m)
  PROVE  PollInv' /\ Campaigns
<1> DEFINE n == node[i]
           r == Recognise(n, m)
           held == [r EXCEPT !.commitIndex = m.lastIncludedIndex]
           installed == InstallState(i, r, m)
<1>1. m \in InstallSnapshot
  BY MessageOfType DEF HandleInstallSnapshot, IInv, MessageInv, MessagesTyped
<1>2. m.src \in Server /\ m.term \in Nat /\ m.lastIncludedIndex \in Nat
  BY <1>1 DEF InstallSnapshot
<1>3. n \in NodeState /\ Sane(n) /\ Yields(n, n)
  BY NodeFacts
<1>4. Sane(r) /\ Yields(n, r)
  BY <1>2, <1>3, RecogniseFacts
<1>5. r.role # PreCandidate
  BY <1>2, <1>3, RecogniseEndsPoll
<1>6. PICK s \in {n, r, held, installed},
           k \in {0, Smaller(LastIndex(r), r.commitIndex), m.lastIncludedIndex} :
        Post(i, s, {InstallSnapshotRespMsg(i, m.src, s, k)})
  BY ZenonT(60) DEF HandleInstallSnapshot
<1>7. Unpolled({InstallSnapshotRespMsg(i, m.src, s, k)})
  BY DEF Unpolled, InstallSnapshotRespMsg
<1>8. Sane(installed) /\ Keeps(r, installed)
  BY <1>1, <1>4, InstallStateFacts
<1> HIDE DEF r, installed
<1>9. r \in NodeState /\ r.snapshotIndex <= r.lastApplied
  BY <1>4 DEF Sane
<1>10. Sane(held) /\ Keeps(r, held)
  <2>1. held \in NodeState
    BY <1>2, <1>9, ZenonT(90) DEF NodeState
  <2> QED BY <1>9, <2>1 DEF Sane, Keeps, NodeState
<1> HIDE DEF held
<1>11. ASSUME NEW q, Sane(q), Keeps(r, q) PROVE Yields(n, q) /\ q.role # PreCandidate
  BY <1>3, <1>4, <1>5, <1>9, <1>11, YieldsCompose DEF Sane, Keeps, Follower, PreCandidate
<1>12. CASE s = n
  BY <1>3, <1>6, <1>7, <1>12, QuietPolls DEF Post
<1>13. CASE s \in {r, held, installed}
  <2>1. Sane(s) /\ Yields(n, s) /\ s.role # PreCandidate
    BY <1>4, <1>5, <1>8, <1>10, <1>11, <1>13
  <2> QED BY <1>6, <1>7, <2>1, QuietPolls DEF Post
<1> QED BY <1>6, <1>12, <1>13

\* handle_install_snapshot_resp keeps the polls.
LEMMA InstallSnapshotRespPolls ==
  ASSUME IInv, PollInv, NEW i \in Server, NEW m \in msgs, HandleInstallSnapshotResp(i, m)
  PROVE  PollInv' /\ Campaigns
<1>1. m \in InstallSnapshotResp
  BY MessageOfType DEF HandleInstallSnapshotResp, IInv, MessageInv, MessagesTyped
<1>2. m.src \in Server /\ m.term \in Nat /\ m.matchIndex \in Nat
  BY <1>1 DEF InstallSnapshotResp
<1>3. \/ Post(i, StepDown(node[i], m.term), {})
      \/ node[i].role = Leader /\ Acknowledge(i, m.src, m.matchIndex)
  BY Zenon DEF HandleInstallSnapshotResp
<1> QED BY <1>2, <1>3, StepDownPolls, AcknowledgePolls

\* handle_client_request keeps the polls: only a leader takes one.
LEMMA ClientRequestPolls ==
  ASSUME IInv, PollInv, NEW i \in Server, NEW addr \in Nat,
         NEW cmd \in PutCommand \cup ConfigChange, HandleClientRequest(i, addr, cmd)
  PROVE  PollInv' /\ Campaigns
<1> DEFINE n == node[i]
           p == Propose(i, n, addr, cmd)
           unsent == {q \in Peers(i, p) : HasUnsent(p, q)}
           Pend(r) == {q \in n.pending : q.index # r.index} \cup
                      {[index |-> r.index, addr |-> addr, seq |-> cmd.seq]}
           Repointed(r) == [n EXCEPT !.pending = Pend(r)]
<1>1. cmd.seq \in Nat /\ cmd.client \in Int
  <2>1. CASE cmd \in PutCommand
    <3>1. cmd.seq \in Nat /\ cmd.client \in Client
      BY <2>1 DEF PutCommand
    <3>2. \A c \in 0 .. ClientBase - 1 : c \in Int
      BY DEF ClientBase
    <3> QED BY <3>1, <3>2, ClientAssumption, Zenon
  <2>2. CASE cmd \in ConfigChange
    BY <2>2 DEF ConfigChange
  <2> QED BY <2>1, <2>2
<1>2. n \in NodeState /\ Sane(n) /\ Yields(n, n)
  BY NodeFacts
<1>3. n.role = Leader /\ Leader # PreCandidate /\ Follower # PreCandidate
  BY DEF HandleClientRequest, Leader, PreCandidate, Follower
<1>4. \/ \E s : Post(i, n, {ClientReplyMsg(i, addr, cmd.client, cmd.seq, s)})
      \/ \E r \in n.pendingByReq : Post(i, Repointed(r), {})
      \/ /\ IsConfig(cmd) => MembershipChanges
         /\ Post(i, Sent(i, p, unsent), Appends(i, p, unsent))
  BY ZenonT(60) DEF HandleClientRequest
<1>5. CASE \E s : Post(i, n, {ClientReplyMsg(i, addr, cmd.client, cmd.seq, s)})
  <2>1. \A s : Unpolled({ClientReplyMsg(i, addr, cmd.client, cmd.seq, s)})
    BY DEF Unpolled, ClientReplyMsg
  <2> QED BY <1>2, <1>5, <2>1, QuietPolls DEF Post
<1>6. CASE \E r \in n.pendingByReq : Post(i, Repointed(r), {})
  <2>1. PICK r \in n.pendingByReq : Post(i, Repointed(r), {})
    BY <1>6
  <2> DEFINE new == [index |-> r.index, addr |-> addr, seq |-> cmd.seq]
             pend == {q \in n.pending : q.index # r.index} \cup {new}
             s == [n EXCEPT !.pending = pend]
  <2>2. r.index \in Nat /\ n.pending \in SUBSET [index : Nat, addr : Nat, seq : Nat]
    BY <1>2 DEF NodeState
  <2>3. new \in [index : Nat, addr : Nat, seq : Nat]
    BY <1>1, <2>2
  <2>4. pend \in SUBSET [index : Nat, addr : Nat, seq : Nat]
    BY <2>2, <2>3
  <2>5. Post(i, s, {})
    BY <2>1
  <2> HIDE DEF pend
  <2>6. s \in NodeState
    BY <1>2, <2>4, ZenonT(90) DEF NodeState
  <2>7. Tracked(n, s)
    BY <1>2, SMTT(30) DEF NodeState, Tracked
  <2> HIDE DEF s
  <2>8. Sane(s) /\ Yields(n, s) /\ s.role # PreCandidate
    BY <1>2, <1>3, <2>6, <2>7 DEF Sane, Tracked, Yields
  <2>9. Unpolled({})
    BY DEF Unpolled
  <2> QED BY <2>5, <2>8, <2>9, QuietPolls DEF Post
<1>7. CASE /\ IsConfig(cmd) => MembershipChanges
           /\ Post(i, Sent(i, p, unsent), Appends(i, p, unsent))
  <2>1. cmd \in Command
    BY <1>7 DEF Command, ConfigChange, IsConfig
  <2>2. Sane(p) /\ Keeps(n, p)
    BY <1>1, <1>2, <2>1, ProposeFacts
  <2> HIDE DEF p
  <2>3. p \in NodeState /\ Yields(n, p) /\ p.role # PreCandidate
    BY <1>2, <1>3, <2>2, YieldsCompose DEF Sane, Keeps
  <2>4. unsent \in SUBSET Server
    BY <2>3, ServerAssumption DEF Peers, NodeState, Configuration
  <2> HIDE DEF unsent
  <2> QED BY <1>7, <2>2, <2>3, <2>4, SentPolls
<1> QED BY <1>4, <1>5, <1>6, <1>7

\* on_message keeps the polls.
LEMMA ReceivePolls ==
  ASSUME ~MembershipChanges, IInv, PollInv, NEW m \in msgs, Receive(m.dst, m)
  PROVE  PollInv' /\ Campaigns
<1> DEFINE i == m.dst
<1>1. ASSUME m.type # "ClientReply" PROVE m \in NodeMessage /\ i \in Server
  BY <1>1, MessageOfType DEF IInv, MessageInv, MessagesTyped
<1>2. CASE HandleMemberRequest(i, m)
  <2>1. m.type = "ClientRequest" /\ HandleClientRequest(i, m.src, m.cmd)
    BY <1>2 DEF HandleMemberRequest
  <2>2. i \in Server /\ m \in MemberRequest
    BY <1>1, <2>1, MessageOfType
  <2>3. m.src \in Nat /\ m.cmd \in ConfigChange
    BY <2>2 DEF MemberRequest, OperatorAddress, ClientBase
  <2> QED BY <2>1, <2>2, <2>3, ClientRequestPolls
<1>3. CASE \/ HandlePreVote(i, m)
           \/ HandlePreVoteResp(i, m)
           \/ HandleRequestVote(i, m)
           \/ HandleRequestVoteResp(i, m)
           \/ HandleAppendEntries(i, m)
           \/ HandleAppendEntriesResp(i, m)
           \/ HandleInstallSnapshot(i, m)
           \/ HandleInstallSnapshotResp(i, m)
  <2>1. m.type # "ClientReply"
    BY <1>3 DEF HandlePreVote, HandlePreVoteResp, HandleRequestVote, HandleRequestVoteResp,
                HandleAppendEntries, HandleAppendEntriesResp, HandleInstallSnapshot,
                HandleInstallSnapshotResp
  <2>2. i \in Server
    BY <1>1, <2>1
  <2> QED BY <1>3, <2>2, PreVotePolls, PreVoteRespPolls, RequestVotePolls,
             RequestVoteRespPolls, AppendEntriesPolls, AppendEntriesRespPolls,
             InstallSnapshotPolls, InstallSnapshotRespPolls
<1> QED BY <1>2, <1>3 DEF Receive

\* A client's request keeps the polls.
LEMMA ClientPolls ==
  ASSUME IInv, PollInv, NEW c \in Client, NEW i \in Server, NEW s \in 1 .. MaxSeq,
         ClientRequest(i, c, s)
  PROVE  PollInv' /\ Campaigns
<1>1. ClientCommand(c, s) \in PutCommand
  BY BoundAssumption DEF ClientCommand, PutCommand
<1>2. ClientAddress(c) \in Nat
  <2>1. \A k \in 0 .. ClientBase - 1 : ClientBase + k \in Nat
    BY DEF ClientBase
  <2> QED BY <2>1, ClientAssumption, Zenon DEF ClientAddress
<1> QED BY <1>1, <1>2, ClientRequestPolls DEF ClientRequest

\* A heartbeat keeps the polls.
LEMMA HeartbeatPolls ==
  ASSUME IInv, PollInv, NEW i \in Server, Heartbeat(i)
  PROVE  PollInv' /\ Campaigns
  BY NodeFacts, SentPolls DEF Heartbeat, Leader, PreCandidate

\* A step that leaves the nodes alone and sends no message of a poll keeps the polls.
LEMMA IdlePolls ==
  ASSUME IInv, PollInv, NEW out, Unpolled(out), msgs' = msgs \cup out, UNCHANGED node
  PROVE  PollInv' /\ Campaigns
<1>1. PollInv'
  BY DEF PollInv, PollHeld, PollFits, Unpolled
<1>2. \A j \in Server : node[j].currentTerm \in Nat
  BY NodeFacts
<1>3. \A j \in Server : ~(node'[j].currentTerm > node[j].currentTerm)
  BY <1>2
<1> QED BY <1>1, <1>3 DEF Campaigns

\* A restart keeps the polls: the node comes back with none, in the term of its disk.
LEMMA RestartPolls ==
  ASSUME IInv, PollInv, NEW i \in Server, Restart(i)
  PROVE  PollInv' /\ Campaigns
<1> DEFINE o == node[i]
           d == disk[i]
           n == Restarted(i, o, d)
           saved == [n EXCEPT !.dirty = FALSE]
<1>1. o.preTerm \in Nat /\ o.currentTerm \in Nat
  BY NodeFacts DEF NodeState
<1>2. d \in DurableState
  BY DEF IInv, StateInv, StateTyped
<1>3. d = Durable(o)
  BY DEF IInv, StateInv, DiskCurrent
<1>4. Save(i, n) /\ UNCHANGED msgs
  BY DEF Restart
<1> HIDE DEF o, d
<1>5. Sane(n) /\ n.currentTerm = d.currentTerm /\ n.role = Follower
  BY <1>1, <1>2, RestartedFacts
<1> HIDE DEF n
<1>6. saved.role = Follower /\ saved.currentTerm = o.currentTerm
  BY <1>3, <1>5, SMTT(30) DEF Durable, Sane, NodeState
<1>7. node \in [Server -> NodeState]
  BY DEF IInv, StateInv, StateTyped
<1>8. node' = [node EXCEPT ![i] = saved]
  BY <1>4 DEF Save
<1> HIDE DEF saved
<1>9. node'[i] = saved /\ \A j \in Server \ {i} : node'[j] = node[j]
  BY <1>7, <1>8
<1>10. \A j \in Server : node'[j] = node[j] \/ node'[j].role # PreCandidate
  BY <1>6, <1>9 DEF Follower, PreCandidate
<1>11. PollInv'
  BY <1>4, <1>10 DEF PollInv, PollHeld, PollFits
<1>12. \A j \in Server : node'[j].currentTerm = node[j].currentTerm
  BY <1>6, <1>9 DEF o
<1>13. \A j \in Server : node[j].currentTerm \in Nat
  BY NodeFacts
<1>14. \A j \in Server : ~(node'[j].currentTerm > node[j].currentTerm)
  BY <1>12, <1>13
<1> QED BY <1>11, <1>14 DEF Campaigns

\* Every step keeps the polls.
LEMMA NextPolls ==
  ASSUME ~MembershipChanges
  PROVE  IInv /\ PollInv /\ [Next]_vars => PollInv' /\ Campaigns
<1> SUFFICES ASSUME IInv, PollInv, [Next]_vars PROVE PollInv' /\ Campaigns
  OBVIOUS
<1>1. Unpolled({})
  BY DEF Unpolled
<1>2. ASSUME NEW i \in Server, MemberChange(i) PROVE PollInv' /\ Campaigns
  <2>1. PICK cmd : msgs' = msgs \cup {[type |-> "ClientRequest", src |-> OperatorAddress,
                                      dst |-> i, cmd |-> cmd]}
    BY <1>2 DEF MemberChange
  <2>2. Unpolled({[type |-> "ClientRequest", src |-> OperatorAddress, dst |-> i, cmd |-> cmd]})
    BY DEF Unpolled
  <2>3. UNCHANGED node
    BY <1>2 DEF MemberChange
  <2> QED BY <2>1, <2>2, <2>3, IdlePolls
<1>3. ASSUME NEW i \in Server, Timeout(i) \/ Heartbeat(i) \/ Restart(i)
      PROVE  PollInv' /\ Campaigns
  BY <1>3, TimeoutPolls, HeartbeatPolls, RestartPolls
<1>4. ASSUME NEW m \in msgs, Receive(m.dst, m) PROVE PollInv' /\ Campaigns
  BY <1>4, ReceivePolls
<1>5. ASSUME NEW c \in Client, NEW i \in Server, NEW s \in 1 .. MaxSeq, ClientRequest(i, c, s)
      PROVE  PollInv' /\ Campaigns
  BY <1>5, ClientPolls
<1>6. ASSUME UNCHANGED <<node, msgs>> PROVE PollInv' /\ Campaigns
  BY <1>1, <1>6, IdlePolls
<1>7. ASSUME NEW i \in Server, Crash(i) PROVE PollInv' /\ Campaigns
  BY <1>6, <1>7 DEF Crash
<1>8. ASSUME NEW c \in Client, ClientBegin(c) PROVE PollInv' /\ Campaigns
  BY <1>6, <1>8 DEF ClientBegin
<1>9. CASE UNCHANGED vars
  BY <1>6, <1>9 DEF vars
<1> QED BY <1>2, <1>3, <1>4, <1>5, <1>7, <1>8, <1>9, Zenon DEF Next

\* With a fixed membership and pre-vote on, no node ever raises its term to campaign before a
\* majority has said that it would vote for it in that very term, whatever is lost, duplicated,
\* reordered or forgotten in a crash.
THEOREM CampaignsPolled ==
  ASSUME ~MembershipChanges
  PROVE  Spec => CampaignPolled
<1> DEFINE A == \A i \in Server :
                  /\ PreVoteOn
                  /\ node'[i].currentTerm > node[i].currentTerm
                  /\ node'[i].votedFor = i
                  => Cardinality({i} \cup
                       {p \in node[i].members :
                          PreVoteRespMsg(p, i, node'[i].currentTerm, TRUE) \in msgs})
                     >= Majority(node[i])
<1>1. Init => PollInv
  <2>1. InitNode.role # PreCandidate
    BY InitNodeFacts DEF Follower, PreCandidate
  <2> QED BY <2>1 DEF Init, PollInv, PollHeld
<1>2. IInv /\ PollInv /\ [Next]_vars => PollInv'
  BY NextPolls
<1>3. IInv /\ PollInv /\ [Next]_vars => [A]_vars
  <2>1. Campaigns => A
    BY Zenon DEF Campaigns, Support
  <2> HIDE DEF A
  <2> QED BY <2>1, NextPolls
<1> QED BY <1>1, <1>2, <1>3, Invariance, PTL DEF CampaignPolled, Spec

=============================================================================
