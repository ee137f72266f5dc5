---------------------------- MODULE RaftSafetyProofs ----------------------------
(***************************************************************************)
(* The safety of the replicated log, for a fixed membership.               *)
(*                                                                         *)
(* The inductive invariant LInv says that the state of the cluster has an  *)
(* explanation: a sound history (module RaftLogProofs) in which every      *)
(* server keeps its part (RaftHistoryProofs), the messages in flight speak *)
(* of it, and what the oracle holds to be committed was chosen in it.      *)
(* Every event goes on from an explanation to another one; that the log    *)
(* properties of module Raft hold of a state with an explanation is shown  *)
(* at the end.  The invariant IInv of module RaftProofs, about terms and   *)
(* votes, is used throughout.                                              *)
(***************************************************************************)
EXTENDS RaftProofs, RaftHistoryProofs

-----------------------------------------------------------------------------
(* The inductive invariant *)

\* The commands s are on the record of committed entries, from the first on.
Recorded(s) ==
  \A k \in 1 .. Len(s) : \E r \in committed : r.index = k /\ r.cmd = s[k]

\* A committed entry was chosen in a term up to the one in which it was recorded.
RecordSound(h, r) ==
  /\ r.index \in Nat \ {0} /\ r.committedIn \in Nat
  /\ \E t, k \in Nat :
       /\ t <= r.committedIn /\ r.index <= k /\ Chosen(h, t, k)
       /\ r.term = h.led[t][r.index].term /\ r.cmd = h.led[t][r.index].cmd

\* The record of committed entries has no gap.
NoGap == \A r \in committed : \A k \in 1 .. r.index : \E q \in committed : q.index = k

\* It has an end.
Bounded == \E b \in Nat : \A r \in committed : r.index <= b

\* Leaders of the past are past their campaign.
LeadersPast ==
  \A e \in leaderOfTerm :
    /\ e[1] <= node[e[2]].currentTerm
    /\ node[e[2]].currentTerm = e[1] => node[e[2]].role # Candidate

\* A node's vote has been observed.
VotesSeen ==
  \A i \in Server : node[i].votedFor # Nil =>
    <<i, node[i].currentTerm, node[i].votedFor>> \in votesByTerm

\* A vote of p in term t for x, of which n is the node, came after x had asked for it; and
\* as long as nobody has won the term, p backs the candidate.
Ballot(h, n, p, t, x) ==
  /\ t <= n.currentTerm
  /\ n.role = Candidate /\ n.currentTerm = t /\ t \notin h.terms =>
       Backs(h, p, t, h.whole[x], Len(h.whole[x]))

\* A request for a vote shows the log that its sender n has as long as it is a candidate.
Request(h, n, m) ==
  m.type = "RequestVote" =>
    /\ m.term <= n.currentTerm
    /\ n.role = Candidate /\ n.currentTerm = m.term =>
         /\ m.lastLogIndex = Len(h.whole[m.src])
         /\ m.lastLogTerm = TermOf(h.whole[m.src], Len(h.whole[m.src]))

\* Entries and snapshots come from leaders, and a snapshot is of what was committed.
FromLeader(m) ==
  /\ m.type \in {"AppendEntries", "InstallSnapshot"} => <<m.term, m.src>> \in leaderOfTerm
  /\ m.type = "InstallSnapshot" => Recorded(m.data)

\* The servers, their offices, the messages and the record that history h explains.
NodesExplained(h) ==
  /\ h.terms = {e[1] : e \in leaderOfTerm}
  /\ \A i \in Server : Rooted(h, i, node[i]) /\ Recorded(node[i].sm)
  /\ \A i \in Server : node[i].lastApplied >= node[i].commitIndex

OfficesExplained(h) ==
  /\ LeadersPast /\ VotesSeen /\ LeaderHintSound
  /\ \A v \in votesByTerm : Ballot(h, node[v[3]], v[1], v[2], v[3])

MessagesExplained(h) ==
  \A m \in msgs : m.type # "ClientReply" =>
    Request(h, node[m.src], m) /\ MessageSound(h, m) /\ FromLeader(m)

RecordsExplained(h) == NoGap /\ Bounded /\ \A r \in committed : RecordSound(h, r)

\* History h explains the state of the cluster.
Explains(h) ==
  /\ Sound(h)
  /\ NodesExplained(h) /\ OfficesExplained(h) /\ MessagesExplained(h) /\ RecordsExplained(h)

\* The inductive invariant.
LInv == \E h \in History : Explains(h)

\* A live node does not go back to an earlier state machine.
Onward(i, n) == alive[i] => node[i].lastApplied <= n.lastApplied

\* What an event leaves in place.
Evolves(h, g) ==
  /\ Follows(h, g)
  /\ \A i \in Server :
       /\ node[i].lastApplied # 0 => Share(h.whole[i], g.whole[i], node[i].lastApplied)
       /\ node[i].snapshotIndex <= node[i]'.snapshotIndex
       /\ Onward(i, node[i]')
       /\ node[i]'.role = Leader => Share(h.whole[i], g.whole[i], Len(h.whole[i]))

-----------------------------------------------------------------------------
(* One event *)

\* What a handler at node i may make of the hint and the vote, and of the state machine.
Fits(h, i, n) ==
  /\ Recorded(n.sm) /\ Onward(i, n)
  /\ \/ n.leaderId = Nil
     \/ n.leaderId = node[i].leaderId /\ n.currentTerm = node[i].currentTerm
     \/ <<n.currentTerm, n.leaderId>> \in leaderOfTerm
     \/ n.leaderId = i /\ n.role = Leader
  /\ \/ n.votedFor \in {Nil, i}
     \/ n.votedFor = node[i].votedFor /\ n.currentTerm = node[i].currentTerm
     \/ Ballot(h, node[n.votedFor], i, n.currentTerm, n.votedFor)

\* What it may send.
Sendable(h, i, n, m) ==
  /\ MessageSound(h, m)
  /\ m.type \in {"AppendEntries", "InstallSnapshot"} =>
       m.src = i /\ m.term = n.currentTerm /\ n.role = Leader
  /\ m.type = "InstallSnapshot" => Recorded(m.data)
  /\ m.type = "RequestVote" => m.src = i /\ Request(h, n, m)

\* The handler makes n of node i and apply_committed makes a of n, the history goes on from
\* h to g, and a is saved, n is observed and lawful messages are sent.
Event(h, g, i, n, a) ==
  /\ Carried(h, g, i, node[i], n) /\ Carried(h, g, i, node[i], a)
  /\ SameOffice(n, a) /\ a.commitIndex = n.commitIndex
  /\ a.lastApplied = Larger(n.lastApplied, n.commitIndex)
  /\ Fits(g, i, n)
  /\ Save(i, a) /\ Observe(i, n, a)
  /\ \A m \in msgs' : m.type # "ClientReply" => m \in msgs \/ Sendable(g, i, n, m)

\* Node b is what apply_committed has made of n, a as it was saved.
Became(n, a, b) ==
  /\ SameOffice(n, b) /\ b.sm = a.sm /\ b.commitIndex = n.commitIndex
  /\ b.lastApplied = Larger(n.lastApplied, n.commitIndex)

\* No node but i moves, nor does its log.
Apart(h, g, i) ==
  \A p \in Server \ {i} : node'[p] = node[p] /\ g.whole[p] = h.whole[p]

\* Where nobody votes twice in a term, no two nodes are elected in one.
LEMMA OneElected ==
  ASSUME NEW L, NEW V,
         \A e \in L : \E Q \in SUBSET InitialMembers :
           Electors(Q) /\ \A p \in Q : <<p, e[1], e[2]>> \in V,
         \A v, w \in V : v[1] = w[1] /\ v[2] = w[2] => v[3] = w[3]
  PROVE  \A e, f \in L : e[1] = f[1] => e[2] = f[2]
<1> SUFFICES ASSUME NEW e \in L, NEW f \in L, e[1] = f[1]
             PROVE  e[2] = f[2]
  OBVIOUS
<1>1. PICK Q \in SUBSET InitialMembers :
        Electors(Q) /\ \A p \in Q : <<p, e[1], e[2]>> \in V
  OBVIOUS
<1>2. PICK R \in SUBSET InitialMembers :
        Electors(R) /\ \A p \in R : <<p, f[1], f[2]>> \in V
  OBVIOUS
<1>3. Q \cap R # {}
  BY <1>1, <1>2, ElectorsMeet
<1>4. PICK p : p \in Q /\ p \in R
  BY <1>3
<1> QED BY <1>1, <1>2, <1>4

\* The node after an event is what was saved, and the others are as they were.
LEMMA EventNodes ==
  ASSUME IInv, IInv', ~MembershipChanges, NEW h, Explains(h), NEW g, NEW i \in Server,
         NEW n, NEW a, Event(h, g, i, n, a)
  PROVE  /\ \A p \in Server : Rooted(g, p, node'[p])
         /\ Apart(h, g, i)
         /\ Carried(h, g, i, node[i], node'[i])
         /\ Became(n, a, node'[i])
<1> DEFINE b == [a EXCEPT !.dirty = FALSE]
<1>0. /\ node \in [Server -> NodeState] /\ node' \in [Server -> NodeState]
      /\ node' = [node EXCEPT ![i] = b]
  BY DEF IInv, StateInv, StateTyped, Event, Save
<1>1. node'[i] = b /\ \A p \in Server \ {i} : node'[p] = node[p]
  BY <1>0
<1>2. Carried(h, g, i, node[i], a) /\ Rooted(g, i, a) /\ a \in NodeState /\ Sane(a)
  BY DEF Event, Carried, Rooted, Sane
<1>3. b \in NodeState
  BY <1>2, ZenonT(90) DEF NodeState
<1>4. /\ SameLog(a, b) /\ SameOffice(a, b) /\ SamePeers(a, b)
  BY <1>2, SMTT(30) DEF NodeState, SameLog, SameOffice, SamePeers
<1> HIDE DEF b
<1>5. Sane(b) /\ KeepsLog(a, b)
  <2>1. a.currentTerm \in Nat /\ b.currentTerm = a.currentTerm
    BY <1>2, <1>4 DEF NodeState, SameOffice
  <2> QED BY <1>2, <1>3, <1>4, <2>1 DEF Sane, KeepsLog, SameLog, SameOffice
<1>6. Carried(h, g, i, node[i], b)
  BY <1>2, <1>4, <1>5, CarriedIdle DEF SameOffice
<1>7. /\ Follows(h, g) /\ Sound(g) /\ g \in History
      /\ \A p \in Server \ {i} : g.now[p] = h.now[p] /\ g.whole[p] = h.whole[p]
      /\ \A t \in h.terms : g.led[t] = h.led[t] \/ (b.role = Leader /\ t = b.currentTerm)
  BY <1>6 DEF Carried, Rooted, Sound
<1>8. ASSUME NEW p \in Server \ {i}
      PROVE  Rooted(g, p, node'[p])
  <2> DEFINE o == node[p]
  <2>1. /\ Rooted(h, p, o) /\ h \in History /\ o \in NodeState /\ node'[p] = o
        /\ NodeSound(h, p, o)
    BY <1>0, <1>1, <1>8 DEF Explains, NodesExplained, Sound, Rooted
  <2>2. o.role = Leader => g.led[o.currentTerm] = h.led[o.currentTerm]
    <3> SUFFICES ASSUME o.role = Leader, b.role = Leader, o.currentTerm = b.currentTerm
                 PROVE  FALSE
      <4>1. o.role = Leader => o.currentTerm \in h.terms
        BY <2>1 DEF NodeSound, LeaderSound
      <4> QED BY <1>7, <4>1
    <3>1. <<b.currentTerm, i>> \in leaderOfTerm' /\ <<b.currentTerm, p>> \in leaderOfTerm'
      BY <1>1, <2>1 DEF IInv, StateInv, LeadersElected
    <3>2. LeadersElected' /\ VoteSafety'
      BY DEF IInv, StateInv
    <3>3. /\ \A e \in leaderOfTerm' : \E Q \in SUBSET InitialMembers :
               Electors(Q) /\ \A q \in Q : <<q, e[1], e[2]>> \in votesByTerm'
          /\ \A v, w \in votesByTerm' : v[1] = w[1] /\ v[2] = w[2] => v[3] = w[3]
      BY <3>2 DEF LeadersElected, VotesFor, VoteSafety
    <3>4. \A e, f \in leaderOfTerm' : e[1] = f[1] => e[2] = f[2]
      <4> DEFINE L == leaderOfTerm'
                 V == votesByTerm'
      <4> HIDE DEF L, V
      <4>1. /\ \A e \in L : \E Q \in SUBSET InitialMembers :
                 Electors(Q) /\ \A q \in Q : <<q, e[1], e[2]>> \in V
            /\ \A v, w \in V : v[1] = w[1] /\ v[2] = w[2] => v[3] = w[3]
        BY <3>3 DEF L, V
      <4> QED BY <4>1, OneElected, ZenonT(60) DEF L
    <3>5. <<b.currentTerm, i>>[2] = <<b.currentTerm, p>>[2]
      BY <3>1, <3>4
    <3> QED BY <3>5
  <2>3. KeepsLog(o, o)
    BY <2>1, LogUntouched
  <2>4. NodeSound(g, p, o)
    <3> HIDE DEF o
    <3> QED BY <1>7, <2>1, <2>2, <2>3, NodeSoundStays
  <2> QED BY <1>7, <2>1, <2>4 DEF Rooted
<1>9. Rooted(g, i, b)
  BY <1>6 DEF Carried
<1>10. Became(n, a, b)
  BY <1>4 DEF Event, SameOffice, SameLog, Became
<1>11. Apart(h, g, i)
  BY <1>1, <1>7 DEF Apart
<1> QED BY <1>1, <1>6, <1>8, <1>9, <1>10, <1>11
\* What n, of which w is the log, has committed and not compacted is on the record S.
Noted(S, n, w) ==
  \A k \in n.snapshotIndex + 1 .. n.commitIndex :
    \E r \in S : r.index = k /\ r.cmd = w[k].cmd

\* What a node that keeps log w makes of the record: all that it holds to be committed and
\* has not compacted is on it afterwards, and nothing else is new.
LEMMA CommittedSeen ==
  ASSUME NEW n \in NodeState, NEW w \in Seq(LogEntry), Keeping(n, w), n.commitIndex <= Len(w),
         NEW S, S = committed \cup CommittedBy(n)
  PROVE  /\ Noted(S, n, w)
         /\ \A r \in CommittedBy(n) :
              /\ r.index \in 1 .. n.commitIndex /\ r.committedIn = n.currentTerm
              /\ r.term = w[r.index].term /\ r.cmd = w[r.index].cmd
<1> DEFINE rec(k) == [index |-> k, term |-> TermAt(n, k), cmd |-> CommandAt(n, k),
                      committedIn |-> n.currentTerm]
           old(k) == \E r \in committed : /\ r.index = k /\ r.term = TermAt(n, k)
                                          /\ r.cmd = CommandAt(n, k)
<1>1. /\ n.snapshotIndex \in Nat /\ n.commitIndex \in Nat /\ Len(w) \in Nat
      /\ LastIndex(n) = Len(w)
  BY DEF NodeState, Keeping
<1>2. Smaller(n.commitIndex, LastIndex(n)) = n.commitIndex
  BY <1>1 DEF Smaller
<1>3. CommittedBy(n) = {r \in {rec(k) : k \in n.snapshotIndex + 1 .. n.commitIndex} : ~old(r.index)}
  <2>1. \A k : /\ rec(k).index = k /\ rec(k).term = TermAt(n, k)
               /\ rec(k).cmd = CommandAt(n, k)
    OBVIOUS
  <2>2. CommittedBy(n) = {r \in {rec(k) : k \in n.snapshotIndex + 1 .. n.commitIndex} :
                            ~ \E q \in committed : /\ q.index = r.index /\ q.term = r.term
                                                   /\ q.cmd = r.cmd}
    BY <1>2, Zenon DEF CommittedBy
  <2>3. ASSUME NEW r \in {rec(k) : k \in n.snapshotIndex + 1 .. n.commitIndex}
        PROVE  r.term = TermAt(n, r.index) /\ r.cmd = CommandAt(n, r.index)
    <3>1. PICK k : r = rec(k)
      OBVIOUS
    <3> QED BY <3>1, <2>1
  <2> QED BY <2>2, <2>3
<1>4. \A k \in n.snapshotIndex + 1 .. n.commitIndex :
        TermAt(n, k) = w[k].term /\ CommandAt(n, k) = w[k].cmd
  <2> SUFFICES ASSUME NEW k \in n.snapshotIndex + 1 .. n.commitIndex
               PROVE  TermAt(n, k) = w[k].term /\ CommandAt(n, k) = w[k].cmd
    OBVIOUS
  <2>1. k \in n.snapshotIndex .. Len(w) /\ k \in n.snapshotIndex + 1 .. Len(w) /\ k # 0
    BY <1>1
  <2> QED BY <2>1, KeepingReads DEF TermOf
<1>5. ASSUME NEW k \in n.snapshotIndex + 1 .. n.commitIndex
      PROVE  \E r \in S : r.index = k /\ r.cmd = w[k].cmd
  <2>1. CommandAt(n, k) = w[k].cmd
    BY <1>4
  <2>2. CASE old(k)
    BY <2>1, <2>2
  <2>3. CASE ~old(k)
    <3>1. rec(k) \in CommittedBy(n)
      BY <1>3, <2>3
    <3> QED BY <2>1, <3>1
  <2> QED BY <2>2, <2>3
<1>6. ASSUME NEW r \in CommittedBy(n)
      PROVE  /\ r.index \in 1 .. n.commitIndex /\ r.committedIn = n.currentTerm
             /\ r.term = w[r.index].term /\ r.cmd = w[r.index].cmd
  <2>1. PICK k \in n.snapshotIndex + 1 .. n.commitIndex : r = rec(k)
    BY <1>3
  <2>2. k \in 1 .. n.commitIndex
    BY <1>1
  <2> QED BY <1>4, <2>1, <2>2
<1> QED BY <1>5, <1>6 DEF Noted

\* After an event every state machine has been fed what is on the record.
LEMMA EventMachines ==
  ASSUME IInv, IInv', ~MembershipChanges, NEW h, Explains(h), NEW g, NEW i \in Server,
         NEW n, NEW a, Event(h, g, i, n, a)
  PROVE  \A p \in Server : Recorded(node[p].sm)'
<1>1. committed' = committed \cup CommittedBy(n)
  BY DEF Event, Observe
<1>2. ASSUME NEW s, Recorded(s), NEW k \in 1 .. Len(s)
      PROVE  \E r \in committed' : r.index = k /\ r.cmd = s[k]
  BY <1>1, <1>2 DEF Recorded
<1>3. ASSUME NEW p \in Server \ {i}
      PROVE  Recorded(node[p].sm)'
  <2>1. node'[p] = node[p]
    BY EventNodes DEF Apart
  <2>2. Recorded(node[p].sm)
    BY DEF Explains, NodesExplained
  <2>3. \A k \in 1 .. Len(node[p].sm) :
          \E r \in committed' : r.index = k /\ r.cmd = node[p].sm[k]
    BY <1>2, <2>2
  <2> QED BY <2>1, <2>3 DEF Recorded
<1> DEFINE w == g.whole[i]
           s == a.sm
<1>4. /\ Rooted(g, i, n) /\ Rooted(g, i, a) /\ Recorded(n.sm)
      /\ a.lastApplied = Larger(n.lastApplied, n.commitIndex)
  BY DEF Event, Carried, Fits
<1>5. /\ g \in History /\ n \in NodeState /\ a \in NodeState
      /\ Keeping(n, w) /\ Keeping(a, w) /\ n.commitIndex <= Len(w)
  BY <1>4 DEF Rooted, Sound, Sane, NodeSound, CommitSound
<1>6. /\ w \in Seq(LogEntry) /\ n.snapshotIndex \in Nat /\ n.lastApplied \in Nat
      /\ n.commitIndex \in Nat /\ a.lastApplied \in Nat
  BY <1>5, HistoryTypes DEF NodeState
<1>7. /\ s = Commands(w, a.lastApplied) /\ n.sm = Commands(w, n.lastApplied)
      /\ n.snapshotIndex <= n.lastApplied
  BY <1>5 DEF Keeping
<1>12. Became(n, a, node'[i])
  BY EventNodes
<1>8. node'[i].sm = a.sm
  BY <1>12 DEF Became
<1>11. Noted(committed', n, w)
  <2> DEFINE S == committed'
  <2>1. S = committed \cup CommittedBy(n)
    BY <1>1
  <2> HIDE DEF S, w
  <2> QED BY <2>1, <1>5, <1>6, CommittedSeen DEF S
<1> HIDE DEF w, s
<1>9. ASSUME NEW k \in 1 .. Len(s)
      PROVE  \E r \in committed' : r.index = k /\ r.cmd = s[k]
  <2>1. k \in 1 .. a.lastApplied /\ s[k] = w[k].cmd
    BY <1>6, <1>7 DEF Commands
  <2>2. CASE k <= n.lastApplied
    <3>1. k \in 1 .. Len(n.sm) /\ n.sm[k] = w[k].cmd
      BY <1>6, <1>7, <2>1, <2>2 DEF Commands
    <3> QED BY <1>2, <1>4, <2>1, <3>1
  <2>3. CASE ~(k <= n.lastApplied)
    <3>1. k \in n.snapshotIndex + 1 .. n.commitIndex
      BY <1>4, <1>6, <1>7, <2>1, <2>3 DEF Larger
    <3> QED BY <2>1, <3>1, <1>11 DEF Noted
  <2> QED BY <2>2, <2>3
<1>10. Recorded(node[i].sm)'
  BY <1>8, <1>9 DEF Recorded, s
<1> QED BY <1>3, <1>10

\* After an event, all that is on the record was chosen, and it has no gap.
LEMMA EventRecords ==
  ASSUME IInv, IInv', ~MembershipChanges, NEW h, Explains(h), NEW g, NEW i \in Server,
         NEW n, NEW a, Event(h, g, i, n, a)
  PROVE  RecordsExplained(g)'
<1> DEFINE w == g.whole[i]
<1>1. committed' = committed \cup CommittedBy(n)
  BY DEF Event, Observe
<1>2. /\ h \in History /\ g \in History /\ Follows(h, g) /\ Rooted(g, i, n)
  BY DEF Event, Carried, Explains, Sound, Rooted
<1>3. /\ n \in NodeState /\ Keeping(n, w) /\ n.commitIndex <= Len(w)
      /\ Covered(g, w, n.commitIndex, n.currentTerm)
  BY <1>2 DEF Rooted, Sane, NodeSound, CommitSound
<1>4. /\ w \in Seq(LogEntry) /\ n.commitIndex \in Nat /\ n.currentTerm \in Nat
  BY <1>2, <1>3, HistoryTypes DEF NodeState
<1>5. \A r \in CommittedBy(n) :
        /\ r.index \in 1 .. n.commitIndex /\ r.committedIn = n.currentTerm
        /\ r.term = w[r.index].term /\ r.cmd = w[r.index].cmd
  BY <1>3, <1>4, CommittedSeen
<1>6. ASSUME NEW r \in committed
      PROVE  RecordSound(g, r)
  <2>1. RecordSound(h, r)
    BY DEF Explains, RecordsExplained
  <2>2. /\ r.index \in Nat \ {0} /\ r.committedIn \in Nat
    BY <2>1 DEF RecordSound
  <2>3. PICK t \in Nat, k \in Nat :
          /\ t <= r.committedIn /\ r.index <= k /\ Chosen(h, t, k)
          /\ r.term = h.led[t][r.index].term /\ r.cmd = h.led[t][r.index].cmd
    BY <2>1 DEF RecordSound
  <2>4. Chosen(g, t, k)
    BY <1>2, <2>3, ChosenStays
  <2>5. t \in h.terms /\ k <= Len(h.led[t]) /\ Len(h.led[t]) \in Nat
    BY <1>2, <2>3, HistoryTypes DEF Chosen
  <2>6. r.index \in 1 .. Len(h.led[t])
    BY <2>2, <2>3, <2>5
  <2>7. g.led[t][r.index] = h.led[t][r.index]
    BY <1>2, <2>5, <2>6, LedPart
  <2>8. r.term = g.led[t][r.index].term /\ r.cmd = g.led[t][r.index].cmd
    BY <2>3, <2>7
  <2> HIDE DEF w
  <2> QED BY <2>2, <2>3, <2>4, <2>8 DEF RecordSound
<1>7. ASSUME NEW r \in CommittedBy(n)
      PROVE  RecordSound(g, r)
  <2>1. /\ r.index \in 1 .. n.commitIndex /\ r.committedIn = n.currentTerm
        /\ r.term = w[r.index].term /\ r.cmd = w[r.index].cmd
    BY <1>5
  <2>2. n.commitIndex # 0 /\ r.index \in Nat \ {0}
    BY <1>4, <2>1
  <2>3. PICK t \in Nat, k \in Nat :
          t <= n.currentTerm /\ n.commitIndex <= k /\ Chosen(g, t, k)
            /\ Share(w, g.led[t], n.commitIndex)
    BY <1>3, <2>2 DEF Covered
  <2>4. w[r.index] = g.led[t][r.index]
    BY <2>1, <2>3 DEF Share
  <2>5. r.index <= k
    BY <1>4, <2>1, <2>3
  <2> HIDE DEF w
  <2> QED BY <1>4, <2>1, <2>2, <2>3, <2>4, <2>5 DEF RecordSound
<1>8. \A r \in committed' : RecordSound(g, r)
  BY <1>1, <1>6, <1>7
<1>9. NoGap'
  <2>1. ASSUME NEW r \in CommittedBy(n), NEW k \in 1 .. r.index
        PROVE  \E q \in committed' : q.index = k
    <3>1. Recorded(node[i].sm)'
      BY EventMachines
    <3>5. Rooted(g, i, node'[i]) /\ Became(n, a, node'[i])
      BY EventNodes
    <3>2. /\ Rooted(g, i, node'[i])
          /\ node'[i].lastApplied = Larger(n.lastApplied, n.commitIndex)
      BY <3>5 DEF Became
    <3>3. node'[i].sm = Commands(w, node'[i].lastApplied) /\ n.lastApplied \in Nat
      BY <1>3, <3>2 DEF Rooted, NodeSound, Keeping, NodeState
    <3>4. k \in 1 .. node'[i].lastApplied /\ node'[i].lastApplied \in Nat
      BY <1>4, <1>5, <3>2, <3>3 DEF Larger
    <3>6. k \in 1 .. Len(node'[i].sm)
      BY <3>3, <3>4 DEF Commands
    <3> QED BY <3>1, <3>6 DEF Recorded
  <2>2. ASSUME NEW r \in committed, NEW k \in 1 .. r.index
        PROVE  \E q \in committed' : q.index = k
    BY <1>1 DEF Explains, RecordsExplained, NoGap
  <2> QED BY <1>1, <2>1, <2>2 DEF NoGap
<1>10. Bounded'
  <2>1. PICK b \in Nat : \A r \in committed : r.index <= b
    BY DEF Explains, RecordsExplained, Bounded
  <2>2. \A r \in committed : r.index \in Nat
    BY DEF Explains, RecordsExplained, RecordSound
  <2>3. Larger(b, n.commitIndex) \in Nat
    BY <1>4 DEF Larger
  <2>4. \A r \in committed' : r.index <= Larger(b, n.commitIndex)
    BY <1>1, <1>4, <1>5, <2>1, <2>2 DEF Larger
  <2> QED BY <2>3, <2>4 DEF Bounded
<1> QED BY <1>8, <1>9, <1>10 DEF RecordsExplained, RecordSound

\* After an event the history explains every server.
LEMMA EventServers ==
  ASSUME IInv, IInv', ~MembershipChanges, NEW h, Explains(h), NEW g, NEW i \in Server,
         NEW n, NEW a, Event(h, g, i, n, a)
  PROVE  NodesExplained(g)'
<1>1. leaderOfTerm' = leaderOfTerm \cup (IF a.role = Leader THEN {<<a.currentTerm, i>>} ELSE {})
  BY DEF Event, Observe
<1>2. g.terms = h.terms \cup (IF a.role = Leader THEN {a.currentTerm} ELSE {})
  BY DEF Event, Carried
<1>3. h.terms = {e[1] : e \in leaderOfTerm}
  BY DEF Explains, NodesExplained
<1>4. g.terms = {e[1] : e \in leaderOfTerm'}
  <2>1. CASE a.role = Leader
    <3>1. /\ g.terms = h.terms \cup {a.currentTerm}
          /\ leaderOfTerm' = leaderOfTerm \cup {<<a.currentTerm, i>>}
      BY <1>1, <1>2, <2>1
    <3>2. <<a.currentTerm, i>>[1] = a.currentTerm
      OBVIOUS
    <3> HIDE DEF Leader
    <3> QED BY <1>3, <3>1, <3>2
  <2>2. CASE a.role # Leader
    BY <1>1, <1>2, <1>3, <2>2
  <2> QED BY <2>1, <2>2
<1>5. \A p \in Server : Rooted(g, p, node'[p])
  BY EventNodes
<1>6. \A p \in Server : Recorded(node[p].sm)'
  BY EventMachines
<1>7. ASSUME NEW p \in Server
      PROVE  node'[p].lastApplied >= node'[p].commitIndex
  <2>1. CASE p # i
    <3>1. node'[p] = node[p]
      BY <2>1, EventNodes, ZenonT(60) DEF Apart
    <3> QED BY <3>1 DEF Explains, NodesExplained
  <2>2. CASE p = i
    <3>1. Became(n, a, node'[i])
      BY EventNodes
    <3>2. n.lastApplied \in Nat /\ n.commitIndex \in Nat
      BY DEF Event, Carried, Rooted, Sane, NodeState
    <3> QED BY <2>2, <3>1, <3>2 DEF Became, Larger
  <2> QED BY <2>1, <2>2
<1> QED BY <1>4, <1>5, <1>6, <1>7 DEF NodesExplained

\* After an event leaders are past their campaign, votes have been seen and hints are right.
LEMMA EventHints ==
  ASSUME IInv, IInv', ~MembershipChanges, NEW h, Explains(h), NEW g, NEW i \in Server,
         NEW n, NEW a, Event(h, g, i, n, a)
  PROVE  LeadersPast' /\ VotesSeen' /\ LeaderHintSound'
<1> DEFINE b == node'[i]
           o == node[i]
<1>1. leaderOfTerm' = leaderOfTerm \cup (IF a.role = Leader THEN {<<a.currentTerm, i>>} ELSE {})
  BY DEF Event, Observe
<1>2. /\ votesByTerm \subseteq votesByTerm'
      /\ a.votedFor # Nil => <<i, a.currentTerm, a.votedFor>> \in votesByTerm'
  BY DEF Event, Observe
<1>0. Became(n, a, b) /\ Carried(h, g, i, o, b) /\ Apart(h, g, i)
  BY EventNodes
<1>3. Became(n, a, b) /\ Carried(h, g, i, o, b) /\ \A p \in Server \ {i} : node'[p] = node[p]
  BY <1>0 DEF Apart
<1>4. SameOffice(n, a) /\ SameOffice(n, b)
  BY <1>3 DEF Event, Became
<1>5. /\ a.currentTerm = b.currentTerm /\ a.votedFor = b.votedFor /\ a.role = b.role
      /\ n.currentTerm = b.currentTerm /\ n.leaderId = b.leaderId /\ n.role = b.role
  BY <1>4 DEF SameOffice
<1>6. LeadersPast /\ VotesSeen /\ LeaderHintSound
  BY DEF Explains, OfficesExplained
<1>7. /\ o.currentTerm \in Nat /\ b.currentTerm \in Nat /\ o.currentTerm <= b.currentTerm
      /\ b.role = Candidate => \/ o.currentTerm < b.currentTerm
                               \/ o.role = Candidate /\ o.currentTerm = b.currentTerm
  <2>1. o.currentTerm \in Nat /\ Rooted(h, i, o)
    BY NodeFacts DEF Explains, NodesExplained
  <2>2. Rooted(g, i, b) /\ Follows(h, g)
    BY <1>3 DEF Carried
  <2>3. b.currentTerm \in Nat
    BY <2>2 DEF Rooted, Sane, NodeState
  <2>4. o.currentTerm <= b.currentTerm
    BY <2>1, <2>2 DEF Rooted, Follows
  <2> QED BY <1>3, <2>1, <2>3, <2>4 DEF Carried
<1>8. leaderOfTerm \subseteq Nat \X Server
  BY DEF IInv, StateInv, StateTyped
<1> HIDE DEF o, b
<1>9. ASSUME NEW e \in leaderOfTerm'
      PROVE  /\ e[1] <= node'[e[2]].currentTerm
             /\ node'[e[2]].currentTerm = e[1] => node'[e[2]].role # Candidate
  <2>1. CASE e \in leaderOfTerm
    <3>1. /\ e[1] \in Nat /\ e[2] \in Server /\ e[1] <= node[e[2]].currentTerm
          /\ node[e[2]].currentTerm = e[1] => node[e[2]].role # Candidate
      BY <1>6, <1>8, <2>1 DEF LeadersPast
    <3>2. CASE e[2] = i
      BY <1>7, <3>1, <3>2 DEF o, b
    <3>3. CASE e[2] # i
      BY <1>3, <3>1, <3>3
    <3> QED BY <3>2, <3>3
  <2>2. CASE e \notin leaderOfTerm
    <3>1. a.role = Leader /\ e = <<a.currentTerm, i>>
      BY <1>1, <2>2
    <3>2. e[1] = b.currentTerm /\ e[2] = i /\ b.role # Candidate
      BY <1>5, <3>1 DEF Leader, Candidate
    <3> QED BY <1>7, <3>2 DEF b
  <2> QED BY <2>1, <2>2
<1>10. ASSUME NEW p \in Server
       PROVE  /\ node'[p].votedFor # Nil =>
                   <<p, node'[p].currentTerm, node'[p].votedFor>> \in votesByTerm'
              /\ node'[p].leaderId # Nil =>
                   <<node'[p].currentTerm, node'[p].leaderId>> \in leaderOfTerm'
  <2>1. CASE p # i
    <3>1. node'[p] = node[p]
      BY <1>3, <2>1
    <3> QED BY <1>1, <1>2, <1>6, <3>1 DEF VotesSeen, LeaderHintSound
  <2>2. CASE p = i
    <3>1. b.votedFor # Nil => <<i, b.currentTerm, b.votedFor>> \in votesByTerm'
      BY <1>2, <1>5
    <3>2. b.leaderId # Nil => <<b.currentTerm, b.leaderId>> \in leaderOfTerm'
      <4>1. \/ b.leaderId = Nil
            \/ b.leaderId = node[i].leaderId /\ b.currentTerm = node[i].currentTerm
            \/ <<b.currentTerm, b.leaderId>> \in leaderOfTerm
            \/ b.leaderId = i /\ b.role = Leader
        BY <1>5 DEF Event, Fits
      <4>2. CASE b.leaderId = node[i].leaderId /\ b.currentTerm = node[i].currentTerm
        BY <1>1, <1>6, <4>2 DEF LeaderHintSound
      <4>3. CASE b.leaderId = i /\ b.role = Leader
        BY <1>1, <1>5, <4>3
      <4> QED BY <1>1, <4>1, <4>2, <4>3
    <3> QED BY <2>2, <3>1, <3>2 DEF b
  <2> QED BY <2>1, <2>2
<1> QED BY <1>9, <1>10 DEF LeadersPast, VotesSeen, LeaderHintSound

\* A vote that had been cast before an event backs its candidate still.
LEMMA BallotStays ==
  ASSUME IInv, IInv', ~MembershipChanges, NEW h, Explains(h), NEW g, NEW i \in Server,
         NEW n, NEW a, Event(h, g, i, n, a),
         NEW p \in Server, NEW t \in Nat, t <= h.now[p], NEW x \in Server, Ballot(h, node[x], p, t, x)
  PROVE  Ballot(g, node'[x], p, t, x)
<1> DEFINE b == node'[i]
           o == node[i]
<1>0. Carried(h, g, i, o, b) /\ Apart(h, g, i)
  BY EventNodes
<1>1. /\ Carried(h, g, i, o, b)
      /\ \A q \in Server \ {i} : node'[q] = node[q] /\ g.whole[q] = h.whole[q]
  BY <1>0 DEF Apart
<1>2. /\ h \in History /\ g \in History /\ Follows(h, g) /\ LedSound(h) /\ HeldSound(h)
      /\ h.terms \subseteq g.terms
  BY <1>1 DEF Explains, Carried, Rooted, Sound, Follows
<1>3. ASSUME Backs(h, p, t, h.whole[x], Len(h.whole[x])), g.whole[x] = h.whole[x]
      PROVE  Backs(g, p, t, g.whole[x], Len(g.whole[x]))
  BY <1>2, <1>3, BacksStays
<1>4. CASE x # i
  <2>1. node'[x] = node[x] /\ g.whole[x] = h.whole[x]
    BY <1>1, <1>4
  <2> QED BY <1>2, <1>3, <2>1 DEF Ballot
<1>5. CASE x = i
  <2>1. /\ o.currentTerm \in Nat /\ Rooted(h, i, o) /\ Rooted(g, i, b)
    BY <1>1, NodeFacts DEF Explains, NodesExplained, Carried
  <2>2. b.currentTerm \in Nat /\ o.currentTerm <= b.currentTerm
    BY <1>2, <2>1 DEF Rooted, Sane, NodeState, Follows
  <2>3. b.role = Candidate =>
          \/ o.currentTerm < b.currentTerm
          \/ o.role = Candidate /\ o.currentTerm = b.currentTerm /\ g.whole[i] = h.whole[i]
    BY <1>1 DEF Carried
  <2>4. /\ t <= o.currentTerm
        /\ o.role = Candidate /\ o.currentTerm = t /\ t \notin h.terms =>
             Backs(h, p, t, h.whole[i], Len(h.whole[i]))
    BY <1>5 DEF Ballot
  <2> HIDE DEF o, b
  <2>5. t <= b.currentTerm
    BY <2>1, <2>2, <2>4
  <2>6. ASSUME b.role = Candidate, b.currentTerm = t, t \notin g.terms
        PROVE  Backs(g, p, t, g.whole[i], Len(g.whole[i]))
    <3>1. o.role = Candidate /\ o.currentTerm = t /\ g.whole[i] = h.whole[i]
      BY <2>1, <2>2, <2>3, <2>4, <2>6
    <3> QED BY <1>2, <1>3, <1>5, <2>4, <2>6, <3>1
  <2>7. Ballot(g, b, p, t, i)
    BY <2>5, <2>6 DEF Ballot
  <2> QED BY <1>5, <2>7 DEF b
<1> QED BY <1>4, <1>5

\* A request that was in flight before an event shows the log of its candidate still.
LEMMA RequestStays ==
  ASSUME IInv, IInv', ~MembershipChanges, NEW h, Explains(h), NEW g, NEW i \in Server,
         NEW n, NEW a, Event(h, g, i, n, a),
         NEW m \in NodeMessage, Request(h, node[m.src], m)
  PROVE  Request(g, node'[m.src], m)
<1> SUFFICES ASSUME m.type = "RequestVote" PROVE Request(g, node'[m.src], m)
  BY DEF Request
<1> DEFINE b == node'[i]
           o == node[i]
           t == m.term
<1>0. m.src \in Server /\ t \in Nat
  BY MessageOfType DEF VoteRequest
<1>1. Carried(h, g, i, o, b) /\ Apart(h, g, i)
  BY EventNodes
<1>2. \A q \in Server \ {i} : node'[q] = node[q] /\ g.whole[q] = h.whole[q]
  BY <1>1 DEF Apart
<1>3. CASE m.src # i
  <2>1. node'[m.src] = node[m.src] /\ g.whole[m.src] = h.whole[m.src]
    BY <1>0, <1>2, <1>3
  <2> QED BY <2>1 DEF Request
<1>4. CASE m.src = i
  <2>1. /\ o.currentTerm \in Nat /\ Rooted(h, i, o) /\ Rooted(g, i, b) /\ Follows(h, g)
    BY <1>1, NodeFacts DEF Explains, NodesExplained, Carried
  <2>2. b.currentTerm \in Nat /\ o.currentTerm <= b.currentTerm
    BY <2>1 DEF Rooted, Sane, NodeState, Follows
  <2>3. b.role = Candidate =>
          \/ o.currentTerm < b.currentTerm
          \/ o.role = Candidate /\ o.currentTerm = b.currentTerm /\ g.whole[i] = h.whole[i]
    BY <1>1 DEF Carried
  <2>4. /\ t <= o.currentTerm
        /\ o.role = Candidate /\ o.currentTerm = t =>
             /\ m.lastLogIndex = Len(h.whole[i])
             /\ m.lastLogTerm = TermOf(h.whole[i], Len(h.whole[i]))
    BY <1>4 DEF Request
  <2> HIDE DEF o, b
  <2>5. t <= b.currentTerm
    BY <1>0, <2>1, <2>2, <2>4
  <2>6. ASSUME b.role = Candidate, b.currentTerm = t
        PROVE  /\ m.lastLogIndex = Len(g.whole[i])
               /\ m.lastLogTerm = TermOf(g.whole[i], Len(g.whole[i]))
    <3>1. o.role = Candidate /\ o.currentTerm = t /\ g.whole[i] = h.whole[i]
      BY <1>0, <2>1, <2>2, <2>3, <2>4, <2>6
    <3> QED BY <2>4, <3>1
  <2>7. Request(g, b, m)
    BY <1>4, <2>5, <2>6 DEF Request
  <2> QED BY <1>4, <2>7 DEF b
<1> QED BY <1>3, <1>4

\* After an event every vote backs its candidate.
LEMMA EventBallots ==
  ASSUME IInv, IInv', ~MembershipChanges, NEW h, Explains(h), NEW g, NEW i \in Server,
         NEW n, NEW a, Event(h, g, i, n, a)
  PROVE  \A v \in votesByTerm' : Ballot(g, node'[v[3]], v[1], v[2], v[3])
<1> DEFINE t == n.currentTerm
           x == n.votedFor
<1>1. votesByTerm' = votesByTerm \cup
        (IF a.votedFor # Nil THEN {<<i, a.currentTerm, a.votedFor>>} ELSE {})
  BY DEF Event, Observe
<1>2. votesByTerm \subseteq Server \X Nat \X Server /\ VotesKept
  BY DEF IInv, StateInv, StateTyped
<1>3. \A v \in votesByTerm : Ballot(h, node[v[3]], v[1], v[2], v[3])
  BY DEF Explains, OfficesExplained
<1>4. \A p \in Server : h.now[p] = node[p].currentTerm /\ node[p].currentTerm \in Nat
  BY NodeFacts DEF Explains, NodesExplained, Rooted
<1>5. ASSUME NEW v \in votesByTerm
      PROVE  Ballot(g, node'[v[3]], v[1], v[2], v[3])
  <2> DEFINE p == v[1]
             s == v[2]
             y == v[3]
  <2>1. p \in Server /\ s \in Nat /\ y \in Server /\ Ballot(h, node[y], p, s, y)
    BY <1>2, <1>3
  <2>2. s <= h.now[p]
    BY <1>2, <1>4, <2>1 DEF VotesKept
  <2> HIDE DEF p, s, y
  <2>3. Ballot(g, node'[y], p, s, y)
    BY <2>1, <2>2, BallotStays
  <2> QED BY <2>3 DEF p, s, y
<1>6. ASSUME a.votedFor # Nil
      PROVE  Ballot(g, node'[x], i, t, x)
  <2> DEFINE b == node'[i]
  <2>1. Rooted(g, i, b) /\ Became(n, a, b) /\ SameOffice(n, a)
    BY EventNodes DEF Event
  <2>2. g.now[i] = t /\ b.currentTerm = t /\ Sound(g) /\ x # Nil
    BY <1>6, <2>1 DEF Rooted, Became, SameOffice
  <2>3. b \in NodeState /\ x = b.votedFor
    BY <2>1 DEF Rooted, Sane, Became, SameOffice
  <2>4. x \in Server /\ t \in Nat
    BY <2>2, <2>3 DEF NodeState
  <2>5. CASE x = i
    <3>1. Ballot(g, b, i, t, i)
      <4>1. t \notin g.terms => Backs(g, i, t, g.whole[i], Len(g.whole[i]))
        BY <2>2, OwnBacks
      <4>2. t <= t
        BY <2>4
      <4> HIDE DEF b, t
      <4> QED BY <2>2, <4>1, <4>2 DEF Ballot
    <3> QED BY <2>5, <3>1
  <2>6. CASE x = node[i].votedFor /\ t = node[i].currentTerm
    <3>1. <<i, t, x>> \in votesByTerm
      BY <2>2, <2>6 DEF Explains, OfficesExplained, VotesSeen
    <3> QED BY <1>5, <3>1
  <2>7. CASE x # i /\ Ballot(g, node[x], i, t, x)
    <3>1. Apart(h, g, i)
      BY EventNodes
    <3>2. node'[x] = node[x]
      BY <2>4, <2>7, <3>1 DEF Apart
    <3> QED BY <2>7, <3>2
  <2> QED BY <2>2, <2>5, <2>6, <2>7 DEF Event, Fits
<1>7. SameOffice(n, a)
  BY DEF Event
<1>8. ASSUME NEW v \in votesByTerm', v \notin votesByTerm
      PROVE  Ballot(g, node'[v[3]], v[1], v[2], v[3])
  <2>1. a.votedFor # Nil /\ v = <<i, t, x>>
    BY <1>1, <1>7, <1>8 DEF SameOffice
  <2> QED BY <1>6, <2>1
<1> QED BY <1>5, <1>8

\* After an event the messages are explained.
LEMMA EventMessages ==
  ASSUME IInv, IInv', ~MembershipChanges, NEW h, Explains(h), NEW g, NEW i \in Server,
         NEW n, NEW a, Event(h, g, i, n, a)
  PROVE  MessagesExplained(g)'
<1>1. ASSUME NEW m \in msgs, m.type # "ClientReply"
      PROVE  Request(g, node'[m.src], m) /\ MessageSound(g, m) /\ FromLeader(m)'
  <2>1. m \in NodeMessage
    BY <1>1 DEF IInv, MessageInv, MessagesTyped
  <2>2. Request(h, node[m.src], m) /\ MessageSound(h, m) /\ FromLeader(m)
    BY <1>1 DEF Explains, MessagesExplained
  <2>3. h \in History /\ g \in History /\ Follows(h, g)
    BY DEF Explains, Sound, Event, Carried, Rooted
  <2>4. MessageSound(g, m)
    BY <2>1, <2>2, <2>3, MessageStays
  <2>5. Request(g, node'[m.src], m)
    BY <2>1, <2>2, RequestStays
  <2>6. leaderOfTerm \subseteq leaderOfTerm' /\ committed \subseteq committed'
    BY DEF Event, Observe
  <2>7. FromLeader(m)'
    BY <2>2, <2>6 DEF FromLeader, Recorded
  <2> QED BY <2>4, <2>5, <2>7
<1>2. ASSUME NEW m, Sendable(g, i, n, m)
      PROVE  Request(g, node'[m.src], m) /\ MessageSound(g, m) /\ FromLeader(m)'
  <2>1. /\ leaderOfTerm' = leaderOfTerm \cup
             (IF a.role = Leader THEN {<<a.currentTerm, i>>} ELSE {})
        /\ committed \subseteq committed'
    BY DEF Event, Observe
  <2>2. SameOffice(n, a) /\ Became(n, a, node'[i])
    BY EventNodes DEF Event
  <2>3. MessageSound(g, m)
    BY <1>2 DEF Sendable
  <2>4. Request(g, node'[m.src], m)
    <3>1. m.type = "RequestVote" => m.src = i /\ Request(g, n, m)
      BY <1>2 DEF Sendable
    <3>2. /\ node'[i].currentTerm = n.currentTerm /\ node'[i].role = n.role
      BY <2>2 DEF Became, SameOffice
    <3> QED BY <3>1, <3>2 DEF Request
  <2>5. FromLeader(m)'
    <3>1. /\ m.type \in {"AppendEntries", "InstallSnapshot"} =>
               m.src = i /\ m.term = n.currentTerm /\ n.role = Leader
          /\ m.type = "InstallSnapshot" => Recorded(m.data)
      BY <1>2 DEF Sendable
    <3>2. n.role = Leader => <<n.currentTerm, i>> \in leaderOfTerm'
      BY <2>1, <2>2 DEF SameOffice
    <3>3. Recorded(m.data) => Recorded(m.data)'
      BY <2>1 DEF Recorded
    <3> QED BY <3>1, <3>2, <3>3 DEF FromLeader
  <2> QED BY <2>3, <2>4, <2>5
<1>3. ASSUME NEW m \in msgs', m.type # "ClientReply"
      PROVE  Request(g, node'[m.src], m) /\ MessageSound(g, m) /\ FromLeader(m)'
  BY <1>1, <1>2, <1>3 DEF Event
<1> QED BY <1>3 DEF MessagesExplained

\* An event goes on from an explanation to the next.
LEMMA EventStep ==
  ASSUME IInv, IInv', ~MembershipChanges, NEW h, Explains(h), NEW g, NEW i \in Server,
         NEW n, NEW a, Event(h, g, i, n, a)
  PROVE  Explains(g)' /\ Evolves(h, g)
<1>1. NodesExplained(g)'
  BY EventServers
<1>2. LeadersPast' /\ VotesSeen' /\ LeaderHintSound'
  BY EventHints
<1>3. \A v \in votesByTerm' : Ballot(g, node'[v[3]], v[1], v[2], v[3])
  BY EventBallots
<1>4. MessagesExplained(g)'
  BY EventMessages
<1>5. RecordsExplained(g)'
  BY EventRecords
<1>6. Sound(g) /\ Follows(h, g) /\ h \in History
  BY DEF Event, Carried, Rooted, Explains, Sound
<1>7. OfficesExplained(g)'
  BY <1>2, <1>3 DEF OfficesExplained
<1>8. Explains(g)'
  BY <1>1, <1>4, <1>5, <1>6, <1>7 DEF Explains
<1>9. ASSUME NEW p \in Server
      PROVE  /\ node[p].lastApplied # 0 => Share(h.whole[p], g.whole[p], node[p].lastApplied)
             /\ node[p].snapshotIndex <= node'[p].snapshotIndex
             /\ Onward(p, node'[p])
             /\ node'[p].role = Leader => Share(h.whole[p], g.whole[p], Len(h.whole[p]))
  <2>1. CASE p = i
    <3>1. Carried(h, g, i, node[i], node'[i]) /\ Became(n, a, node'[i])
      BY EventNodes
    <3>2. Onward(i, n) /\ Rooted(g, i, n)
      BY DEF Event, Fits, Carried
    <3>3. /\ node[i].lastApplied \in Nat /\ n.lastApplied \in Nat /\ n.commitIndex \in Nat
      BY <3>2, NodeFacts DEF Rooted, Sane, NodeState
    <3>4. Onward(i, node'[i])
      BY <3>1, <3>2, <3>3 DEF Onward, Became, Larger
    <3> QED BY <2>1, <3>1, <3>4 DEF Carried
  <2>2. CASE p # i
    <3>4. Apart(h, g, i)
      BY EventNodes
    <3>1. node'[p] = node[p] /\ g.whole[p] = h.whole[p]
      BY <2>2, <3>4 DEF Apart
    <3>2. Rooted(h, p, node[p])
      BY DEF Explains, NodesExplained
    <3>3. /\ node[p].lastApplied <= Len(h.whole[p]) /\ node[p].snapshotIndex \in Nat
          /\ node[p].lastApplied \in Nat
      BY <3>2 DEF Rooted, NodeSound, Keeping, Sane, NodeState
    <3>5. Len(h.whole[p]) \in Nat
      BY <1>6, HistoryTypes
    <3> QED BY <3>1, <3>3, <3>5 DEF Share, Onward
  <2> QED BY <2>1, <2>2
<1> QED BY <1>6, <1>8, <1>9 DEF Evolves

-----------------------------------------------------------------------------
(* Events of every kind *)

\* The next state has an explanation that goes on from h.
GoesOn(h) == \E g \in History : Explains(g)' /\ Evolves(h, g)

\* A handler of node i may make n of it and send out.
Allowed(h, g, i, n, out) ==
  /\ Carried(h, g, i, node[i], n) /\ Fits(g, i, n)
  /\ \A m \in out : m.type # "ClientReply" => Sendable(g, i, n, m)

\* Node a has what concerns the hint and the vote from o, or nothing.
KeepsOffice(i, o, a) ==
  /\ \/ a.leaderId = Nil
     \/ a.leaderId = o.leaderId /\ a.currentTerm = o.currentTerm
  /\ \/ a.votedFor \in {Nil, i}
     \/ a.votedFor = o.votedFor /\ a.currentTerm = o.currentTerm

\* Messages that carry no entries and ask for no vote, and acknowledge what is held.
Mute(h, out) ==
  \A m \in out : m.type # "ClientReply" =>
    ReplySound(h, m) /\ m.type \notin {"AppendEntries", "InstallSnapshot", "RequestVote"}

\* What a handler may do leads to a state with an explanation, once apply_committed has run
\* and the node is saved and observed.
LEMMA FinishLog ==
  ASSUME IInv, IInv', ~MembershipChanges, NEW h, Explains(h), NEW i \in Server,
         NEW g, NEW n, NEW out, Allowed(h, g, i, n, out), Finish(i, n, out)
  PROVE  GoesOn(h)
<1> DEFINE a == ApplyCommitted(i, n)
           sent == out \cup AppliedOut(i, n)
<1>1. Save(i, a) /\ Observe(i, n, a) /\ Send(i, a, sent)
  BY DEF Finish
<1>2. Carried(h, g, i, node[i], n) /\ Fits(g, i, n) /\ node[i] \in NodeState
  BY NodeFacts DEF Allowed
<1>3. /\ Carried(h, g, i, node[i], a) /\ SameOffice(n, a)
      /\ a.commitIndex = n.commitIndex
      /\ a.lastApplied = Larger(n.lastApplied, n.commitIndex)
  BY <1>2, FinishCarries
<1> HIDE DEF a
<1>4. \A m \in msgs' : m.type # "ClientReply" => m \in msgs \/ Sendable(g, i, n, m)
  <2>1. \A m \in AppliedOut(i, n) : m.type = "ClientReply"
    BY DEF AppliedOut, ClientReplyMsg
  <2>2. msgs' \subseteq msgs \cup sent
    BY <1>1 DEF Send
  <2> QED BY <2>1, <2>2 DEF Allowed
<1>5. Event(h, g, i, n, a)
  BY <1>1, <1>2, <1>3, <1>4 DEF Event
<1>6. Explains(g)' /\ Evolves(h, g)
  BY <1>5, EventStep
<1>7. g \in History
  BY <1>2 DEF Carried, Rooted, Sound
<1> QED BY <1>6, <1>7 DEF GoesOn

\* What history h says of node i, of which o is the record.
LEMMA NodeExplained ==
  ASSUME IInv, NEW h, Explains(h), NEW i \in Server
  PROVE  /\ Rooted(h, i, node[i]) /\ Recorded(node[i].sm) /\ Sound(h) /\ h \in History
         /\ node[i] \in NodeState /\ Sane(node[i])
  BY NodeFacts DEF Explains, NodesExplained, Rooted, Sound

\* A node whose state machine is that of node i goes onward.
LEMMA StaysOnward ==
  ASSUME IInv, NEW i \in Server, NEW n, n.lastApplied = node[i].lastApplied
  PROVE  Onward(i, n)
<1>1. node[i].lastApplied \in Nat
  BY NodeFacts DEF NodeState
<1> QED BY <1>1 DEF Onward

\* A handler that leaves the log alone and says nothing of it may do so.
LEMMA IdleAllowed ==
  ASSUME IInv, ~MembershipChanges, NEW h, Explains(h), NEW i \in Server,
         NEW n, Sane(n), KeepsLog(node[i], n),
         n.role = Candidate => \/ node[i].currentTerm < n.currentTerm
                               \/ node[i].role = Candidate,
         KeepsOffice(i, node[i], n), NEW out, Mute(h, out)
  PROVE  /\ Allowed(h, Raised(h, i, n.currentTerm), i, n, out)
         /\ Raised(h, i, n.currentTerm).whole = h.whole
<1> DEFINE g == Raised(h, i, n.currentTerm)
<1>1. Rooted(h, i, node[i]) /\ Recorded(node[i].sm)
  BY NodeExplained
<1>2. /\ Carried(h, g, i, node[i], n) /\ g.held = h.held /\ g.whole = h.whole
  BY <1>1, IdleCarries
<1> HIDE DEF g
<1>3. Fits(g, i, n)
  <2>1. n.sm = node[i].sm /\ n.lastApplied = node[i].lastApplied
    BY DEF KeepsLog, SameLog
  <2> QED BY <1>1, <2>1, StaysOnward DEF Fits, KeepsOffice
<1>4. ASSUME NEW m \in out, m.type # "ClientReply"
      PROVE  Sendable(g, i, n, m)
  <2>1. ReplySound(h, m) /\ m.type \notin {"AppendEntries", "InstallSnapshot", "RequestVote"}
    BY <1>4 DEF Mute
  <2>2. MessageSound(g, m)
    BY <1>2, <2>1 DEF MessageSound, AppendSound, SnapshotSound, ReplySound
  <2> QED BY <2>1, <2>2 DEF Sendable
<1> QED BY <1>2, <1>3, <1>4 DEF Allowed, g

\* Such an event goes on from an explanation.
LEMMA IdleLog ==
  ASSUME IInv, IInv', ~MembershipChanges, NEW h, Explains(h), NEW i \in Server,
         NEW n, Sane(n), KeepsLog(node[i], n),
         n.role = Candidate => \/ node[i].currentTerm < n.currentTerm
                               \/ node[i].role = Candidate,
         KeepsOffice(i, node[i], n), NEW out, Mute(h, out), Finish(i, n, out)
  PROVE  GoesOn(h)
<1>1. Allowed(h, Raised(h, i, n.currentTerm), i, n, out)
  BY IdleAllowed
<1> QED BY <1>1, FinishLog

\* So does step_down.
LEMMA StepDownLog ==
  ASSUME IInv, IInv', ~MembershipChanges, NEW h, Explains(h), NEW i \in Server,
         NEW t \in Nat, Post(i, StepDown(node[i], t), {})
  PROVE  GoesOn(h)
<1> DEFINE n == StepDown(node[i], t)
<1>1. node[i] \in NodeState /\ Sane(node[i])
  BY NodeExplained
<1>2. Sane(n)
  BY <1>1, StepDownYields
<1>3. KeepsLog(node[i], n)
  BY <1>1, LogUntouched
<1>4. /\ n.currentTerm = Larger(t, node[i].currentTerm)
      /\ n.votedFor = IF t > node[i].currentTerm THEN Nil ELSE node[i].votedFor
      /\ n.role = Follower /\ n.leaderId = Nil
  BY <1>1, StepDownFacts, Zenon
<1>5. node[i].currentTerm \in Nat
  BY <1>1 DEF NodeState
<1>6. Finish(i, n, {}) /\ Mute(h, {})
  BY DEF Post, Mute
<1> HIDE DEF n
<1>7. n.role # Candidate
  BY <1>4 DEF Follower, Candidate
<1>8. KeepsOffice(i, node[i], n)
  BY <1>4, <1>5 DEF KeepsOffice, Larger
<1> QED BY <1>2, <1>3, <1>6, <1>7, <1>8, IdleLog

\* A leader that is carried on may send entries and snapshots to anybody.
LEMMA LeaderSends ==
  ASSUME ~MembershipChanges, NEW h, NEW g, NEW i \in Server, NEW n,
         Allowed(h, g, i, n, {}), n.role = Leader, NEW P \in SUBSET Server
  PROVE  Allowed(h, g, i, Sent(i, n, P), Appends(i, n, P))
<1> DEFINE s == Sent(i, n, P)
<1>1. /\ Carried(h, g, i, node[i], n) /\ Fits(g, i, n) /\ Recorded(n.sm)
  BY DEF Allowed, Fits
<1>2. Rooted(g, i, n) /\ Sound(g) /\ Sane(n) /\ NodeSound(g, i, n) /\ n \in NodeState
  BY <1>1 DEF Carried, Rooted, Sane
<1>3. s \in NodeState /\ Tracked(n, s) /\ KeepsLog(n, s)
  BY <1>2, SentFacts, LogUntouched
<1> HIDE DEF s
<1>4. /\ Sane(s) /\ s.currentTerm = n.currentTerm /\ s.role = n.role
      /\ s.votedFor = n.votedFor /\ s.leaderId = n.leaderId /\ s.sm = n.sm
      /\ s.lastApplied = n.lastApplied
  BY <1>2, <1>3 DEF Sane, Tracked, KeepsLog, SameLog
<1>5. Carried(h, g, i, node[i], s)
  BY <1>1, <1>3, <1>4, CarriedIdle
<1>6. Fits(g, i, s)
  BY <1>1, <1>4 DEF Fits, Onward
<1>7. ASSUME NEW p \in P
      PROVE  Sendable(g, i, s, MakeAppend(i, n, p))
  <2> DEFINE m == MakeAppend(i, n, p)
  <2>1. /\ m \in AppendEntries \cup InstallSnapshot
        /\ m.src = i /\ m.term = n.currentTerm
    BY <1>2, MakeAppendType
  <2>2. MessageSound(g, m)
    BY <1>2, MakeAppendSound
  <2>3. m.type = "InstallSnapshot" => m.data = n.snapshotData
    BY DEF MakeAppend, InstallSnapshotMsg, AppendEntriesMsg
  <2>4. Recorded(n.snapshotData)
    <3>1. /\ n.sm = Commands(g.whole[i], n.lastApplied)
          /\ n.snapshotData = Commands(g.whole[i], n.snapshotIndex)
          /\ n.snapshotIndex <= n.lastApplied
      BY <1>2 DEF NodeSound, Keeping
    <3>2. n.snapshotIndex \in Nat /\ n.lastApplied \in Nat
      BY <1>2 DEF NodeState
    <3>3. /\ Len(n.sm) = n.lastApplied /\ Len(n.snapshotData) = n.snapshotIndex
          /\ \A k \in 1 .. n.snapshotIndex : n.snapshotData[k] = n.sm[k]
      BY <3>1, <3>2 DEF Commands
    <3> QED BY <1>1, <3>1, <3>2, <3>3 DEF Recorded
  <2> HIDE DEF m
  <2>5. m.type # "RequestVote"
    BY <2>1 DEF AppendEntries, InstallSnapshot
  <2> QED BY <1>4, <2>1, <2>2, <2>3, <2>4, <2>5 DEF Sendable, m
<1>8. \A m \in Appends(i, n, P) : Sendable(g, i, s, m)
  BY <1>7 DEF Appends
<1> QED BY <1>5, <1>6, <1>8 DEF Allowed, s

\* A node that stays as it is may send what says nothing of the log.
LEMMA StillAllowed ==
  ASSUME IInv, ~MembershipChanges, NEW h, Explains(h), NEW i \in Server, NEW out, Mute(h, out)
  PROVE  \E g : Allowed(h, g, i, node[i], out)
<1>1. Sane(node[i]) /\ KeepsLog(node[i], node[i])
  BY NodeExplained, LogUntouched
<1>2. KeepsOffice(i, node[i], node[i])
  BY DEF KeepsOffice
<1> QED BY <1>1, <1>2, IdleAllowed

\* A heartbeat goes on from an explanation.
LEMMA HeartbeatLog ==
  ASSUME IInv, IInv', ~MembershipChanges, NEW h, Explains(h), NEW i \in Server, Heartbeat(i)
  PROVE  GoesOn(h)
<1> DEFINE n == node[i]
           P == Peers(i, n)
<1>1. n.role = Leader /\ Finish(i, Sent(i, n, P), Appends(i, n, P))
  BY Zenon DEF Heartbeat, Post
<1>2. P \in SUBSET Server
  BY NodeFacts
<1>3. PICK g : Allowed(h, g, i, n, {})
  BY StillAllowed DEF Mute
<1> HIDE DEF P
<1>4. Allowed(h, g, i, Sent(i, n, P), Appends(i, n, P))
  BY <1>1, <1>2, <1>3, LeaderSends
<1> QED BY <1>1, <1>4, FinishLog

\* handle_pre_vote goes on from an explanation.
LEMMA PreVoteLog ==
  ASSUME IInv, IInv', ~MembershipChanges, NEW h, Explains(h), NEW i \in Server,
         NEW m \in msgs, HandlePreVote(i, m)
  PROVE  GoesOn(h)
<1>1. PICK t \in {m.term, node[i].currentTerm}, b \in BOOLEAN :
        Post(i, node[i], {PreVoteRespMsg(i, m.src, t, b)})
  BY DEF HandlePreVote
<1>2. Mute(h, {PreVoteRespMsg(i, m.src, t, b)})
  BY DEF Mute, PreVoteRespMsg, ReplySound
<1>3. PICK g : Allowed(h, g, i, node[i], {PreVoteRespMsg(i, m.src, t, b)})
  BY <1>2, StillAllowed
<1> QED BY <1>1, <1>3, FinishLog DEF Post

\* A candidate that a majority backs may become leader and send what become_leader sends.
LEMMA ElectedAllowed ==
  ASSUME IInv, ~MembershipChanges, NEW h, Explains(h), NEW i \in Server,
         NEW c, Sane(c), KeepsLog(node[i], c), KeepsOffice(i, node[i], c),
         NEW f, f = Raised(h, i, c.currentTerm),
         Carried(h, f, i, node[i], c), Elects(f, i)
  PROVE  \E g : Allowed(h, g, i, BecomeLeader(i, c), BecomeLeaderOut(i, c))
<1> DEFINE w == BecomeLeader(i, c)
           e == Elected(i, c)
<1>1. Rooted(f, i, c) /\ c \in NodeState
  BY DEF Carried, Rooted, Sane
<1>2. PICK g : Carried(f, g, i, c, w) /\ \A p \in Server : MessageSound(g, MakeAppend(i, e, p))
  BY <1>1, ElectedCarries, Zenon
<1>3. /\ w.currentTerm = c.currentTerm /\ w.votedFor = c.votedFor
      /\ w.role = Leader /\ w.leaderId = i /\ w.lastApplied = c.lastApplied
  BY <1>1, BecomeLeaderFacts, Zenon
<1>4. e \in NodeState /\ e.currentTerm = c.currentTerm
  BY <1>1, ElectedFacts, Zenon
<1>5. e.snapshotData = c.snapshotData
  <2> DEFINE nxt == [p \in Server |-> IF p \in Peers(i, c) THEN LastIndex(c) + 1 ELSE 0]
             zero == [p \in Server |-> 0]
             own == IF NoopOnElect THEN <<Entry(c.currentTerm, NOOP)>> ELSE <<>>
             lg == c.log \o own
             drt == c.dirty \/ NoopOnElect
  <2>1. e = [c EXCEPT !.role = Leader, !.leaderId = i, !.nextIndex = nxt, !.matchIndex = zero,
                      !.sentUpto = zero, !.pending = {}, !.pendingByReq = {},
                      !.log = lg, !.dirty = drt]
    BY Zenon DEF Elected
  <2> HIDE DEF e, nxt, zero, lg, drt
  <2> QED BY <1>1, <2>1, SMTT(30) DEF NodeState
<1>6. Peers(i, c) \in SUBSET Server
  BY <1>1, ServerAssumption DEF Peers, NodeState, Configuration
<1> HIDE DEF w, e
<1>7. Carried(h, g, i, node[i], w)
  <2>1. Rooted(h, i, node[i])
    BY NodeExplained
  <2>2. w.role # Candidate
    BY <1>3 DEF Leader, Candidate
  <2>3. Carried(Raised(h, i, c.currentTerm), g, i, c, w)
    BY <1>2
  <2> QED BY <2>1, <2>2, <2>3, CarriesOn
<1>8. w.sm = c.sm
  BY <1>1, <1>2, <1>3, CarriedMachine
<1>9. /\ c.sm = node[i].sm /\ c.snapshotData = node[i].snapshotData
      /\ c.lastApplied = node[i].lastApplied
  BY DEF KeepsLog, SameLog
<1>10. Recorded(node[i].sm) /\ Recorded(node[i].snapshotData)
  <2> DEFINE n == node[i]
  <2>1. Rooted(h, i, n) /\ Recorded(n.sm) /\ n \in NodeState
    BY NodeExplained
  <2>2. /\ n.sm = Commands(h.whole[i], n.lastApplied)
        /\ n.snapshotData = Commands(h.whole[i], n.snapshotIndex)
        /\ n.snapshotIndex <= n.lastApplied
    BY <2>1 DEF Rooted, NodeSound, Keeping
  <2>3. n.snapshotIndex \in Nat /\ n.lastApplied \in Nat
    BY <2>1 DEF NodeState
  <2> HIDE DEF n
  <2>4. /\ Len(n.sm) = n.lastApplied /\ Len(n.snapshotData) = n.snapshotIndex
        /\ \A k \in 1 .. n.snapshotIndex : n.snapshotData[k] = n.sm[k]
    BY <2>2, <2>3 DEF Commands
  <2>5. Recorded(n.snapshotData)
    BY <2>1, <2>2, <2>3, <2>4 DEF Recorded
  <2> QED BY <2>1, <2>5 DEF n
<1>11. Fits(g, i, w)
  BY <1>3, <1>8, <1>9, <1>10, StaysOnward DEF Fits, KeepsOffice
<1>12. ASSUME NEW p \in Server
       PROVE  Sendable(g, i, w, MakeAppend(i, e, p))
  <2> DEFINE m == MakeAppend(i, e, p)
  <2>1. /\ m \in AppendEntries \cup InstallSnapshot
        /\ m.src = i /\ m.term = e.currentTerm
    BY <1>4, MakeAppendType
  <2>2. MessageSound(g, m)
    BY <1>2
  <2>3. m.type = "InstallSnapshot" => m.data = e.snapshotData
    BY DEF MakeAppend, InstallSnapshotMsg, AppendEntriesMsg
  <2> HIDE DEF m
  <2>4. m.type # "RequestVote"
    BY <2>1 DEF AppendEntries, InstallSnapshot
  <2> QED BY <1>3, <1>4, <1>5, <1>9, <1>10, <2>1, <2>2, <2>3, <2>4 DEF Sendable, m
<1>13. \A m \in BecomeLeaderOut(i, c) : Sendable(g, i, w, m)
  BY <1>6, <1>12 DEF BecomeLeaderOut, Appends, e
<1> QED BY <1>7, <1>11, <1>13 DEF Allowed, w

\* A node may become candidate, and leader at once when it is the only member.
LEMMA CandidacyAllowed ==
  ASSUME IInv, ~MembershipChanges, NEW h, Explains(h), NEW i \in InitialMembers, i \in Server,
         NEW n, Sane(n), KeepsLog(node[i], n), n.currentTerm = node[i].currentTerm
  PROVE  \E g : Allowed(h, g, i, BecomeCandidate(i, n), BecomeCandidateOut(i, n))
<1> DEFINE c == Campaign(i, n)
           f == Raised(h, i, c.currentTerm)
<1>1. n \in NodeState /\ n.snapshotIndex <= n.lastApplied /\ n.currentTerm \in Nat
  BY DEF Sane, NodeState
<1>2. /\ c \in NodeState /\ c.currentTerm = n.currentTerm + 1 /\ c.votedFor = i
      /\ c.role = Candidate /\ c.leaderId = Nil /\ c.members = n.members
      /\ c.snapshotIndex = n.snapshotIndex /\ c.lastApplied = n.lastApplied
  BY <1>1, CampaignFacts, Zenon
<1>3. KeepsLog(n, c)
  BY <1>1, LogUntouched
<1> HIDE DEF c
<1>4. Sane(c) /\ KeepsOffice(i, node[i], c) /\ node[i].currentTerm < c.currentTerm
  BY <1>1, <1>2 DEF Sane, KeepsOffice
<1>5. KeepsLog(node[i], c)
  BY <1>1, <1>2, <1>3 DEF KeepsLog, SameLog, Candidate, Leader
<1>6. Allowed(h, f, i, c, {}) /\ f.whole = h.whole
  BY <1>4, <1>5, IdleAllowed DEF Mute
<1>7. Carried(h, f, i, node[i], c) /\ Fits(f, i, c)
  BY <1>6 DEF Allowed
<1> HIDE DEF f
<1>8. /\ Rooted(f, i, c) /\ Sound(f) /\ f \in History /\ f.now[i] = c.currentTerm
      /\ Keeping(c, f.whole[i]) /\ f.whole[i] \in Seq(LogEntry)
  BY <1>7, HistoryTypes DEF Carried, Rooted, Sound, NodeSound
<1>9. ASSUME NEW p \in Server
      PROVE  /\ Sendable(f, i, c, RequestVoteMsg(i, p, c))
             /\ \A w : w.currentTerm = c.currentTerm /\ w.role = Leader =>
                  \A g : Sendable(g, i, w, RequestVoteMsg(i, p, c))
  <2> DEFINE m == RequestVoteMsg(i, p, c)
  <2>1. /\ m.type = "RequestVote" /\ m.src = i /\ m.term = c.currentTerm
        /\ m.lastLogIndex = LastIndex(c) /\ m.lastLogTerm = LastTerm(c)
    BY DEF RequestVoteMsg
  <2> HIDE DEF m
  <2>2. \A g : MessageSound(g, m)
    BY <2>1 DEF MessageSound, AppendSound, SnapshotSound, ReplySound
  <2>3. /\ LastIndex(c) = Len(f.whole[i])
        /\ LastTerm(c) = TermOf(f.whole[i], Len(f.whole[i]))
    BY <1>2, <1>8, KeepingReads DEF Keeping
  <2>4. c.currentTerm <= c.currentTerm
    BY <1>1, <1>2
  <2>5. Request(f, c, m)
    BY <2>1, <2>3, <2>4 DEF Request
  <2>6. \A w : w.currentTerm = c.currentTerm /\ w.role = Leader => \A g : Request(g, w, m)
    BY <2>1, <2>4 DEF Request, Leader, Candidate
  <2> QED BY <2>1, <2>2, <2>5, <2>6 DEF Sendable, m
<1>10. Peers(i, n) \in SUBSET Server
  BY <1>1, ServerAssumption DEF Peers, NodeState, Configuration
<1>11. CASE ~(1 >= Majority(n))
  <2>1. BecomeCandidate(i, n) = c
    BY <1>11 DEF BecomeCandidate, c
  <2>2. BecomeCandidateOut(i, n) = {RequestVoteMsg(i, p, c) : p \in Peers(i, n)}
    BY <1>11 DEF BecomeCandidateOut, c
  <2>3. \A m \in BecomeCandidateOut(i, n) : Sendable(f, i, c, m)
    BY <1>9, <1>10, <2>2
  <2> QED BY <1>7, <2>1, <2>3 DEF Allowed
<1>12. CASE 1 >= Majority(n)
  <2>1. /\ BecomeCandidate(i, n) = BecomeLeader(i, c)
        /\ BecomeCandidateOut(i, n) =
             {RequestVoteMsg(i, p, c) : p \in Peers(i, n)} \cup BecomeLeaderOut(i, c)
    BY <1>12 DEF BecomeCandidate, BecomeCandidateOut, c
  <2>2. Electors({i})
    <3>1. n.members = InitialMembers
      BY <1>1, FixedMembers
    <3>2. Cardinality({i}) = 1
      BY FS_Singleton
    <3> QED BY <1>12, <3>1, <3>2 DEF Electors, Majority
  <2>3. f.terms = h.terms
    BY <1>2, <1>7 DEF Carried, Candidate, Leader
  <2>4. c.currentTerm \notin h.terms
    <3> SUFFICES ASSUME NEW e \in leaderOfTerm, e[1] = c.currentTerm PROVE FALSE
      BY DEF Explains, NodesExplained
    <3>1. PICK Q \in SUBSET InitialMembers : Electors(Q) /\ VotesFor(Q, e[1], e[2])
      BY DEF IInv, StateInv, LeadersElected
    <3>2. {i} \in SUBSET InitialMembers
      OBVIOUS
    <3>3. i \in Q
      BY <2>2, <3>1, <3>2, ElectorsMeet
    <3>4. <<i, c.currentTerm, e[2]>> \in votesByTerm
      BY <3>1, <3>3 DEF VotesFor
    <3>5. \/ node[i].currentTerm > c.currentTerm
          \/ node[i].currentTerm = c.currentTerm
      BY <3>4 DEF IInv, StateInv, VotesKept
    <3> QED BY <1>1, <1>2, <3>5
  <2>5. Elects(f, i)
    <3>1. f.now[i] \notin f.terms
      BY <1>8, <2>3, <2>4
    <3>2. Backs(f, i, f.now[i], f.whole[i], Len(f.whole[i]))
      BY <1>8, <3>1, OwnBacks
    <3>3. f.now[i] >= f.now[i]
      BY <1>1, <1>2, <1>8
    <3>4. {i} \in SUBSET InitialMembers
      OBVIOUS
    <3> QED BY <2>2, <3>1, <3>2, <3>3, <3>4 DEF Elects
  <2>6. PICK g : Allowed(h, g, i, BecomeLeader(i, c), BecomeLeaderOut(i, c))
    BY <1>4, <1>5, <1>7, <2>5, ElectedAllowed DEF f
  <2>7. BecomeLeader(i, c).currentTerm = c.currentTerm /\ BecomeLeader(i, c).role = Leader
    BY <1>2, BecomeLeaderFacts, Zenon
  <2>8. \A m \in BecomeCandidateOut(i, n) :
          m.type # "ClientReply" => Sendable(g, i, BecomeLeader(i, c), m)
    BY <1>9, <1>10, <2>1, <2>6, <2>7 DEF Allowed
  <2> QED BY <2>1, <2>6, <2>8 DEF Allowed
<1> QED BY <1>11, <1>12

\* start_election goes on from an explanation.
LEMMA TimeoutLog ==
  ASSUME IInv, IInv', ~MembershipChanges, NEW h, Explains(h), NEW i \in Server, Timeout(i)
  PROVE  GoesOn(h)
<1> DEFINE n == node[i]
           p == Poll(i, n)
           out == {PreVoteMsg(i, q, p) : q \in Peers(i, n)}
<1>1. n \in NodeState /\ Sane(n) /\ KeepsLog(n, n) /\ KeepsLog(n, p)
  BY NodeExplained, LogUntouched
<1>2. i \in InitialMembers
  BY <1>1 DEF Timeout, NodeState, Configuration
<1>3. /\ Sane(p) /\ p.currentTerm = n.currentTerm /\ p.votedFor = n.votedFor
      /\ p.role = PreCandidate
  BY <1>1, PollFacts, Zenon
<1>4. p.leaderId = Nil
  <2> DEFINE term == n.currentTerm + 1
  <2>1. p = [n EXCEPT !.role = PreCandidate, !.leaderId = Nil, !.preTerm = term,
                      !.preVotes = {i}]
    BY Zenon DEF Poll
  <2> HIDE DEF p, n, term
  <2> QED BY <1>1, <2>1, SMTT(30) DEF NodeState
<1>5. \/ Finish(i, BecomeCandidate(i, n), BecomeCandidateOut(i, n))
      \/ Finish(i, BecomeCandidate(i, p), BecomeCandidateOut(i, p))
      \/ Finish(i, p, out)
  BY Zenon DEF Timeout
<1> HIDE DEF p
<1>6. CASE Finish(i, BecomeCandidate(i, n), BecomeCandidateOut(i, n))
  <2>1. PICK g : Allowed(h, g, i, BecomeCandidate(i, n), BecomeCandidateOut(i, n))
    BY <1>1, <1>2, CandidacyAllowed
  <2> QED BY <1>6, <2>1, FinishLog
<1>7. CASE Finish(i, BecomeCandidate(i, p), BecomeCandidateOut(i, p))
  <2>1. PICK g : Allowed(h, g, i, BecomeCandidate(i, p), BecomeCandidateOut(i, p))
    BY <1>1, <1>2, <1>3, CandidacyAllowed
  <2> QED BY <1>7, <2>1, FinishLog
<1>8. CASE Finish(i, p, out)
  <2>1. Mute(h, out)
    BY DEF Mute, PreVoteMsg, ReplySound
  <2>2. p.role # Candidate
    BY <1>3 DEF PreCandidate, Candidate
  <2>3. KeepsOffice(i, n, p)
    BY <1>3, <1>4 DEF KeepsOffice
  <2> HIDE DEF out
  <2> QED BY <1>1, <1>3, <1>8, <2>1, <2>2, <2>3, IdleLog
<1> QED BY <1>5, <1>6, <1>7, <1>8

\* handle_pre_vote_resp goes on from an explanation.
LEMMA PreVoteRespLog ==
  ASSUME IInv, IInv', ~MembershipChanges, NEW h, Explains(h), NEW i \in Server,
         NEW m \in msgs, HandlePreVoteResp(i, m)
  PROVE  GoesOn(h)
<1> DEFINE n == node[i]
           pv == n.preVotes \cup {m.src}
           polled == [n EXCEPT !.preVotes = pv]
<1>1. m \in NodeMessage /\ m.type = "PreVoteResp"
  BY DEF HandlePreVoteResp, IInv, MessageInv, MessagesTyped
<1>2. m.src \in Server /\ m.term \in Nat
  BY <1>1, MessageOfType DEF VoteResponse
<1>3. n \in NodeState /\ Sane(n)
  BY NodeExplained
<1>4. CASE Post(i, StepDown(n, m.term), {})
  BY <1>2, <1>4, StepDownLog
<1>5. CASE PollAnswered(n, m)
  <2>1. n.role = PreCandidate
    BY <1>5 DEF PollAnswered
  <2>2. pv \in SUBSET Server
    BY <1>2, <1>3 DEF NodeState
  <2>3. \/ Post(i, BecomeCandidate(i, polled), BecomeCandidateOut(i, polled))
        \/ Post(i, polled, {})
        \/ Post(i, StepDown(n, m.term), {})
    BY Zenon DEF HandlePreVoteResp
  <2> HIDE DEF pv
  <2>4. polled \in NodeState
    BY <1>3, <2>2, ZenonT(90) DEF NodeState
  <2>5. KeepsLog(n, polled)
    BY <1>3, LogUntouched
  <2>6. SameOffice(n, polled)
    BY <1>3, SMTT(30) DEF NodeState, SameOffice
  <2> HIDE DEF polled
  <2>7. Sane(polled) /\ polled.currentTerm = n.currentTerm /\ polled.role = PreCandidate
    BY <1>3, <2>1, <2>4, <2>5, <2>6 DEF Sane, KeepsLog, SameLog, SameOffice
  <2>8. i \in InitialMembers
    BY <2>1 DEF IInv, StateInv, MembersVote
  <2>9. CASE Post(i, BecomeCandidate(i, polled), BecomeCandidateOut(i, polled))
    <3>1. PICK g : Allowed(h, g, i, BecomeCandidate(i, polled), BecomeCandidateOut(i, polled))
      BY <2>5, <2>7, <2>8, CandidacyAllowed
    <3> QED BY <2>9, <3>1, FinishLog DEF Post
  <2>10. CASE Post(i, polled, {})
    <3>1. polled.role # Candidate /\ KeepsOffice(i, n, polled)
      BY <2>6, <2>7 DEF KeepsOffice, SameOffice, PreCandidate, Candidate
    <3>2. Mute(h, {}) /\ Finish(i, polled, {})
      BY <2>10 DEF Mute, Post
    <3> QED BY <2>5, <2>7, <3>1, <3>2, IdleLog
  <2> QED BY <2>3, <2>9, <2>10, <1>4
<1> QED BY <1>4, <1>5, Zenon DEF HandlePreVoteResp

\* The term of an entry of a log, and of none, is a number.
LEMMA TermOfType ==
  ASSUME NEW u \in Seq(LogEntry), NEW k \in 0 .. Len(u)
  PROVE  TermOf(u, k) \in Nat
<1>1. CASE k = 0
  BY <1>1 DEF TermOf
<1>2. CASE k # 0
  <2>1. k \in 1 .. Len(u)
    BY <1>2
  <2> QED BY <1>2, <2>1, EntryTypes DEF TermOf
<1> QED BY <1>1, <1>2

\* A node may vote for a candidate whose log it has found to be up to date.
LEMMA GrantAllowed ==
  ASSUME IInv, ~MembershipChanges, NEW h, Explains(h), NEW i \in Server,
         NEW m \in VoteRequest, m.type = "RequestVote", Request(h, node[m.src], m),
         NEW s, Sane(s), KeepsLog(node[i], s), s.currentTerm = m.term, LogIsCurrent(s, m),
         s.role = Candidate => node[i].role = Candidate,
         s.leaderId = Nil \/ (s.leaderId = node[i].leaderId /\ s.currentTerm = node[i].currentTerm),
         NEW out, Mute(h, out)
  PROVE  \E g : Allowed(h, g, i, VoteFor(s, m.src), out)
<1> DEFINE v == VoteFor(s, m.src)
           g == Raised(h, i, v.currentTerm)
           x == m.src
           t == m.term
<1>1. x \in Server /\ t \in Nat /\ m.lastLogIndex \in Nat /\ m.lastLogTerm \in TermOrNone
  BY DEF VoteRequest
<1>2. /\ Sane(v) /\ v.currentTerm = s.currentTerm /\ v.votedFor = x /\ v.role = s.role
  BY <1>1, VoteForFacts, Zenon
<1>3. s \in NodeState /\ KeepsLog(s, v)
  BY LogUntouched DEF Sane
<1>4. v.leaderId = s.leaderId
  <2>1. v = [s EXCEPT !.votedFor = x, !.dirty = TRUE]
    BY Zenon DEF VoteFor
  <2> HIDE DEF v, x
  <2> QED BY <1>3, <2>1, SMTT(30) DEF NodeState
<1> HIDE DEF v
<1>5. KeepsLog(node[i], v)
  <2>1. node[i].currentTerm \in Nat /\ s.currentTerm \in Nat /\ v.currentTerm \in Nat
    BY <1>2, <1>3, NodeExplained DEF NodeState
  <2> QED BY <1>3, <2>1 DEF KeepsLog, SameLog, SamePeers
<1>6. Rooted(h, i, node[i]) /\ Recorded(node[i].sm)
  BY NodeExplained
<1>7. /\ Carried(h, g, i, node[i], v)
      /\ g.whole = h.whole /\ g.led = h.led /\ g.held = h.held /\ g.terms = h.terms
  BY <1>2, <1>5, <1>6, IdleCarries
<1> HIDE DEF g
<1>8. /\ Rooted(g, i, v) /\ Sound(g) /\ g \in History /\ g.now[i] = t
      /\ Keeping(v, g.whole[i])
  BY <1>2, <1>7 DEF Carried, Rooted, Sound, NodeSound
<1>9. /\ g.whole[i] \in Seq(LogEntry) /\ g.whole[x] \in Seq(LogEntry)
      /\ Len(g.whole[i]) \in Nat /\ Len(g.whole[x]) \in Nat
  BY <1>1, <1>8, HistoryTypes
<1>10. Ballot(g, node[x], i, t, x)
  <2>1. t <= node[x].currentTerm
    BY DEF Request
  <2>2. ASSUME node[x].role = Candidate, node[x].currentTerm = t, t \notin g.terms
        PROVE  Backs(g, i, t, g.whole[x], Len(g.whole[x]))
    <3> DEFINE u == g.whole[i]
               w == g.whole[x]
    <3>1. m.lastLogIndex = Len(w) /\ m.lastLogTerm = TermOf(w, Len(w))
      BY <1>7, <2>2 DEF Request
    <3>2. Keeping(s, u)
      BY <1>3, <1>8 DEF Keeping, KeepsLog, SameLog, LastIndex
    <3>3. LastIndex(s) = Len(u) /\ LastTerm(s) = TermOf(u, Len(u))
      BY <1>3, <1>9, <3>2, KeepingReads DEF Keeping
    <3>4. UpToDate(w, Len(w), u, Len(u))
      BY <3>1, <3>3 DEF LogIsCurrent, UpToDate
    <3>5. TermOf(u, Len(u)) \in Nat /\ TermOf(w, Len(w)) \in Nat
      BY <1>9, TermOfType
    <3>6. Backs(g, i, t, u, Len(u))
      BY <1>8, <2>2, OwnBacks
    <3>7. LedSound(g) /\ HeldSound(g)
      BY <1>8 DEF Sound
    <3> HIDE DEF u, w
    <3>8. Backs(g, i, t, w, Len(w))
      BY <1>1, <1>8, <1>9, <3>4, <3>5, <3>6, <3>7, BacksMore DEF u, w
    <3> QED BY <3>8 DEF w
  <2> QED BY <2>1, <2>2 DEF Ballot
<1>11. Fits(g, i, v)
  <2>1. v.sm = node[i].sm /\ v.lastApplied = node[i].lastApplied
    BY <1>5 DEF KeepsLog, SameLog
  <2> QED BY <1>2, <1>4, <1>6, <1>10, <2>1, StaysOnward DEF Fits
<1>12. ASSUME NEW q \in out, q.type # "ClientReply"
       PROVE  Sendable(g, i, v, q)
  <2>1. ReplySound(h, q) /\ q.type \notin {"AppendEntries", "InstallSnapshot", "RequestVote"}
    BY <1>12 DEF Mute
  <2>2. MessageSound(g, q)
    BY <1>7, <2>1 DEF MessageSound, AppendSound, SnapshotSound, ReplySound
  <2> QED BY <2>1, <2>2 DEF Sendable
<1> QED BY <1>7, <1>11, <1>12 DEF Allowed, v

\* handle_request_vote goes on from an explanation.
LEMMA RequestVoteLog ==
  ASSUME IInv, IInv', ~MembershipChanges, NEW h, Explains(h), NEW i \in Server,
         NEW m \in msgs, HandleRequestVote(i, m)
  PROVE  GoesOn(h)
<1> DEFINE n == node[i]
           s == IF m.term > n.currentTerm THEN StepDown(n, m.term) ELSE n
           granted == s.votedFor \in {Nil, m.src} /\ LogIsCurrent(s, m)
           v == IF granted THEN VoteFor(s, m.src) ELSE s
<1>1. m \in NodeMessage /\ m.type = "RequestVote"
  BY DEF HandleRequestVote, IInv, MessageInv, MessagesTyped
<1>2. m \in VoteRequest /\ m.src \in Server /\ m.term \in Nat
  BY <1>1, MessageOfType DEF VoteRequest
<1>3. n \in NodeState /\ Sane(n) /\ n.currentTerm \in Nat /\ KeepsLog(n, n)
  BY NodeExplained, LogUntouched DEF NodeState
<1>4. \/ Post(i, n, {RequestVoteRespMsg(i, m.src, n, FALSE)})
      \/ ~Stale(n, m) /\ Post(i, v, {RequestVoteRespMsg(i, m.src, v, granted)})
  BY ZenonT(60) DEF HandleRequestVote
<1>5. \A a, b : Mute(h, {RequestVoteRespMsg(i, m.src, a, b)})
  BY DEF Mute, RequestVoteRespMsg, ReplySound
<1>6. CASE Post(i, n, {RequestVoteRespMsg(i, m.src, n, FALSE)})
  <2>1. PICK g : Allowed(h, g, i, n, {RequestVoteRespMsg(i, m.src, n, FALSE)})
    BY <1>5, StillAllowed
  <2> QED BY <1>6, <2>1, FinishLog DEF Post
<1>7. CASE ~Stale(n, m) /\ Post(i, v, {RequestVoteRespMsg(i, m.src, v, granted)})
  <2>1. /\ Sane(s) /\ KeepsLog(n, s) /\ KeepsOffice(i, n, s) /\ s.currentTerm = m.term
        /\ s.role = Candidate => n.role = Candidate
    <3>1. CASE m.term > n.currentTerm
      <4> DEFINE d == StepDown(n, m.term)
      <4>1. s = d
        BY <3>1
      <4>2. Sane(d) /\ KeepsLog(n, d)
        BY <1>2, <1>3, StepDownYields, LogUntouched
      <4>3. /\ d.currentTerm = Larger(m.term, n.currentTerm)
            /\ d.votedFor = IF m.term > n.currentTerm THEN Nil ELSE n.votedFor
            /\ d.role = Follower /\ d.leaderId = Nil
        BY <1>2, <1>3, StepDownFacts, Zenon
      <4> HIDE DEF d, s
      <4>4. d.currentTerm = m.term /\ d.votedFor = Nil /\ d.role # Candidate
        BY <1>2, <1>3, <3>1, <4>3 DEF Larger, Follower, Candidate
      <4> QED BY <4>1, <4>2, <4>3, <4>4 DEF KeepsOffice
    <3>2. CASE ~(m.term > n.currentTerm)
      <4>1. s = n /\ m.term = n.currentTerm
        BY <1>2, <1>3, <1>7, <3>2 DEF Stale
      <4> HIDE DEF s
      <4> QED BY <1>3, <4>1 DEF KeepsOffice
    <3> QED BY <3>1, <3>2
  <2>2. granted => LogIsCurrent(s, m)
    OBVIOUS
  <2> DEFINE out == {RequestVoteRespMsg(i, m.src, v, granted)}
  <2>3. Mute(h, out)
    BY <1>5
  <2>4. v = (IF granted THEN VoteFor(s, m.src) ELSE s) /\ Finish(i, v, out)
    BY <1>7 DEF Post
  <2> HIDE DEF s, granted, v, out
  <2>5. CASE granted
    <3>1. Request(h, node[m.src], m)
      BY <1>1 DEF Explains, MessagesExplained
    <3>2. s.leaderId = Nil \/ (s.leaderId = n.leaderId /\ s.currentTerm = n.currentTerm)
      BY <2>1 DEF KeepsOffice
    <3>3. LogIsCurrent(s, m)
      BY <2>2, <2>5
    <3>4. PICK g : Allowed(h, g, i, VoteFor(s, m.src), out)
      BY <1>1, <1>2, <2>1, <2>3, <3>1, <3>2, <3>3, GrantAllowed
    <3> QED BY <2>4, <2>5, <3>4, FinishLog
  <2>6. CASE ~granted
    <3>1. v = s
      BY <2>4, <2>6
    <3> QED BY <2>1, <2>3, <2>4, <3>1, IdleLog
  <2> QED BY <2>5, <2>6
<1> QED BY <1>4, <1>6, <1>7

\* A candidate that has counted the votes of a majority is elected by the history.
LEMMA CountedElects ==
  ASSUME IInv, ~MembershipChanges, NEW h, Explains(h), NEW i \in Server,
         node[i].role = Candidate, NEW Q \in SUBSET InitialMembers, Electors(Q),
         VotesFor(Q, node[i].currentTerm, i),
         NEW f \in History, Follows(h, f), f.terms = h.terms, f.whole = h.whole,
         f.now[i] = node[i].currentTerm
  PROVE  Elects(f, i)
<1> DEFINE t == node[i].currentTerm
<1>1. /\ t \in Nat /\ h \in History /\ LedSound(h) /\ HeldSound(h)
      /\ \A p \in Server : h.now[p] = node[p].currentTerm /\ h.now[p] \in Nat
  BY NodeFacts, HistoryTypes DEF Explains, NodesExplained, Rooted, Sound
<1>2. t \notin h.terms
  <2> SUFFICES ASSUME NEW e \in leaderOfTerm, e[1] = t PROVE FALSE
    BY DEF Explains, NodesExplained
  <2>1. PICK R \in SUBSET InitialMembers : Electors(R) /\ VotesFor(R, e[1], e[2])
    BY DEF IInv, StateInv, LeadersElected
  <2>2. Q \cap R # {}
    BY <2>1, ElectorsMeet
  <2>3. PICK p : p \in Q /\ p \in R
    BY <2>2
  <2>4. <<p, t, i>> \in votesByTerm /\ <<p, t, e[2]>> \in votesByTerm
    BY <2>1, <2>3 DEF VotesFor
  <2>5. <<p, t, i>>[3] = <<p, t, e[2]>>[3]
    BY <2>4 DEF IInv, StateInv, VoteSafety
  <2>6. e[2] = i
    BY <2>5
  <2> QED BY <2>6 DEF Explains, OfficesExplained, LeadersPast
<1>3. ASSUME NEW q \in Q
      PROVE  f.now[q] >= t /\ Backs(f, q, t, f.whole[i], Len(f.whole[i]))
  <2>1. <<q, t, i>> \in votesByTerm /\ q \in Server
    BY ServerAssumption DEF VotesFor
  <2>2. h.now[q] >= t
    <3>1. node[q].currentTerm > t \/ node[q].currentTerm = t
      BY <2>1 DEF IInv, StateInv, VotesKept
    <3> QED BY <1>1, <2>1, <3>1
  <2>3. f.now[q] >= t
    <3>1. h.now[q] <= f.now[q] /\ f.now[q] \in Nat /\ h.now[q] \in Nat
      BY <1>1, <2>1, HistoryTypes DEF Follows
    <3> QED BY <1>1, <2>2, <3>1
  <2>4. Ballot(h, node[i], q, t, i)
    <3>1. \A v \in votesByTerm : Ballot(h, node[v[3]], v[1], v[2], v[3])
      BY DEF Explains, OfficesExplained
    <3> QED BY <2>1, <3>1
  <2>5. Backs(h, q, t, h.whole[i], Len(h.whole[i]))
    BY <1>2, <2>4 DEF Ballot
  <2>6. t <= h.now[q]
    BY <1>1, <2>1, <2>2
  <2> DEFINE u == h.whole[i]
             l == Len(u)
  <2>7. Backs(h, q, t, u, l)
    BY <2>5
  <2> HIDE DEF u, l, t
  <2>8. Backs(f, q, t, u, l)
    BY <1>1, <2>1, <2>6, <2>7, BacksStays
  <2> QED BY <2>3, <2>8 DEF u, l
<1> QED BY <1>2, <1>3 DEF Elects

\* handle_request_vote_resp goes on from an explanation.
LEMMA RequestVoteRespLog ==
  ASSUME IInv, IInv', ~MembershipChanges, NEW h, Explains(h), NEW i \in Server,
         NEW m \in msgs, m.dst = i, HandleRequestVoteResp(i, m)
  PROVE  GoesOn(h)
<1> DEFINE n == node[i]
           votes == n.votes \cup {m.src}
           c == [n EXCEPT !.votes = votes]
<1>1. m \in NodeMessage /\ m.type = "RequestVoteResp"
  BY DEF HandleRequestVoteResp, IInv, MessageInv, MessagesTyped
<1>2. m.src \in Server /\ m.term \in Nat
  BY <1>1, MessageOfType DEF VoteResponse
<1>3. n \in NodeState /\ Sane(n)
  BY NodeExplained
<1>4. CASE Post(i, StepDown(n, m.term), {})
  BY <1>2, <1>4, StepDownLog
<1>5. CASE /\ m.term = n.currentTerm /\ n.role = Candidate /\ m.granted
           /\ IF Cardinality(c.votes) >= Majority(n)
              THEN Post(i, BecomeLeader(i, c), BecomeLeaderOut(i, c))
              ELSE Post(i, c, {})
  <2>1. votes \in SUBSET Server
    BY <1>2, <1>3 DEF NodeState
  <2>2. VotesFor(votes, n.currentTerm, i)
    BY <1>1, <1>5 DEF IInv, StateInv, MessageInv, CandidatesBacked, VotesFor, VotesOnWire
  <2>3. votes \in SUBSET InitialMembers
    <3>1. \A p \in votes : <<p, n.currentTerm, i>>[1] \in InitialMembers
      BY <2>2 DEF VotesFor, IInv, StateInv, MembersVote
    <3> QED BY <3>1
  <2> HIDE DEF votes
  <2>4. c \in NodeState
    BY <1>3, <2>1, ZenonT(90) DEF NodeState
  <2>5. KeepsLog(n, c)
    BY <1>3, LogUntouched
  <2>6. SameOffice(n, c) /\ c.votes = votes
    BY <1>3, SMTT(30) DEF NodeState, SameOffice
  <2> HIDE DEF c
  <2>7. Sane(c) /\ c.currentTerm = n.currentTerm /\ KeepsOffice(i, n, c)
    BY <1>3, <2>4, <2>5, <2>6 DEF Sane, KeepsLog, SameLog, SameOffice, KeepsOffice
  <2>8. CASE Post(i, c, {})
    <3>1. Mute(h, {}) /\ Finish(i, c, {})
      BY <2>8 DEF Mute, Post
    <3> QED BY <1>5, <2>5, <2>7, <3>1, IdleLog
  <2>9. CASE /\ Cardinality(c.votes) >= Majority(n)
             /\ Post(i, BecomeLeader(i, c), BecomeLeaderOut(i, c))
    <3> DEFINE f == Raised(h, i, c.currentTerm)
    <3>1. Electors(votes)
      <4>1. n.members = InitialMembers
        BY <1>3, FixedMembers
      <4> QED BY <2>6, <2>9, <4>1 DEF Electors, Majority
    <3>2. Rooted(h, i, n)
      BY NodeExplained
    <3>3. Carried(h, f, i, n, c) /\ f.whole = h.whole /\ f.terms = h.terms
      BY <1>5, <2>5, <2>7, <3>2, IdleCarries
    <3> HIDE DEF f
    <3>4. f \in History /\ Follows(h, f) /\ f.now[i] = n.currentTerm
      BY <2>7, <3>3 DEF Carried, Rooted, Sound
    <3>5. Elects(f, i)
      BY <1>5, <2>2, <2>3, <3>1, <3>3, <3>4, CountedElects
    <3>6. PICK g : Allowed(h, g, i, BecomeLeader(i, c), BecomeLeaderOut(i, c))
      BY <2>5, <2>7, <3>3, <3>5, ElectedAllowed DEF f
    <3> QED BY <2>9, <3>6, FinishLog DEF Post
  <2> QED BY <1>5, <2>8, <2>9
<1> QED BY <1>4, <1>5, Zenon DEF HandleRequestVoteResp

\* A node that has recognised the leader of a term is part of the same history, at most
\* one in which it has reached that term.
LEMMA Recognised ==
  ASSUME IInv, ~MembershipChanges, NEW h, Explains(h), NEW i \in Server,
         NEW m \in AppendEntries \cup InstallSnapshot, FromLeader(m), ~Stale(node[i], m)
  PROVE  LET r == Recognise(node[i], m)
             f == Raised(h, i, r.currentTerm)
         IN /\ Sane(r) /\ KeepsLog(node[i], r)
            /\ r.currentTerm = m.term /\ r.leaderId = m.src /\ r.role \in {Follower, Leader}
            /\ r.votedFor = Nil \/ (r.votedFor = node[i].votedFor
                                      /\ r.currentTerm = node[i].currentTerm)
            /\ Carried(h, f, i, node[i], r) /\ Rooted(f, i, r)
            /\ m.term \in f.terms
<1> DEFINE n == node[i]
           r == Recognise(n, m)
           f == Raised(h, i, r.currentTerm)
<1>1. m.term \in Nat /\ m.src \in Server /\ m.type \in {"AppendEntries", "InstallSnapshot"}
  BY DEF AppendEntries, InstallSnapshot
<1>2. n \in NodeState /\ Sane(n) /\ Rooted(h, i, n) /\ n.currentTerm \in Nat
  BY NodeExplained DEF NodeState
<1>3. Sane(r)
  BY <1>1, <1>2, RecogniseFacts
<1>4. /\ KeepsLog(n, r) /\ r.currentTerm = m.term /\ r.leaderId = m.src
      /\ r.role \in {Follower, Leader}
      /\ r.votedFor = IF m.term > n.currentTerm THEN Nil ELSE n.votedFor
  BY <1>1, <1>2, RecogniseKeeps
<1> HIDE DEF r
<1>5. r.role # Candidate
  BY <1>4 DEF Candidate, Follower, Leader
<1>6. Carried(h, f, i, n, r) /\ f.terms = h.terms
  BY <1>2, <1>3, <1>4, <1>5, IdleCarries
<1> HIDE DEF f
<1>7. m.term \in h.terms
  <2>1. <<m.term, m.src>> \in leaderOfTerm
    BY <1>1 DEF FromLeader
  <2>2. <<m.term, m.src>>[1] = m.term
    OBVIOUS
  <2> QED BY <2>1, <2>2 DEF Explains, NodesExplained
<1>8. r.votedFor = Nil \/ (r.votedFor = n.votedFor /\ r.currentTerm = n.currentTerm)
  BY <1>1, <1>2, <1>4 DEF Stale
<1>9. Rooted(f, i, r)
  BY <1>6 DEF Carried
<1> QED BY <1>3, <1>4, <1>6, <1>7, <1>8, <1>9 DEF r, f

\* What follows at such a node is allowed if the history carries it on.
LEMMA FollowerAllowed ==
  ASSUME IInv, ~MembershipChanges, NEW h, Explains(h), NEW i \in Server,
         NEW m \in AppendEntries \cup InstallSnapshot, FromLeader(m), ~Stale(node[i], m),
         NEW r, r = Recognise(node[i], m), NEW f, f = Raised(h, i, r.currentTerm),
         NEW g, NEW a, Carried(f, g, i, r, a), SameOffice(r, a), Recorded(a.sm),
         r.lastApplied <= a.lastApplied, NEW out, Mute(g, out)
  PROVE  Allowed(h, g, i, a, out)
<1>1. /\ Sane(r) /\ KeepsLog(node[i], r)
      /\ r.currentTerm = m.term /\ r.leaderId = m.src /\ r.role \in {Follower, Leader}
      /\ r.votedFor = Nil \/ (r.votedFor = node[i].votedFor
                                /\ r.currentTerm = node[i].currentTerm)
  BY Recognised
<1>2. Rooted(h, i, node[i])
  BY NodeExplained
<1>3. a.role # Candidate
  BY <1>1 DEF SameOffice, Candidate, Follower, Leader
<1>4. Carried(h, g, i, node[i], a)
  BY <1>1, <1>2, <1>3, CarriesOn
<1>5. <<m.term, m.src>> \in leaderOfTerm
  BY DEF FromLeader, AppendEntries, InstallSnapshot
<1>6. Fits(g, i, a)
  <2>1. Onward(i, a)
    BY <1>1 DEF Onward, KeepsLog, SameLog
  <2> QED BY <1>1, <1>5, <2>1 DEF Fits, SameOffice
<1>7. ASSUME NEW q \in out, q.type # "ClientReply"
      PROVE  Sendable(g, i, a, q)
  <2>1. ReplySound(g, q) /\ q.type \notin {"AppendEntries", "InstallSnapshot", "RequestVote"}
    BY <1>7 DEF Mute
  <2>2. MessageSound(g, q)
    BY <2>1 DEF MessageSound, AppendSound, SnapshotSound
  <2> QED BY <2>1, <2>2 DEF Sendable
<1> QED BY <1>4, <1>6, <1>7 DEF Allowed

\* A node that is rooted in a history is carried on by it as it is.
LEMMA RootedCarries ==
  ASSUME ~MembershipChanges, NEW h, NEW i \in Server, NEW n, Rooted(h, i, n),
         n.role \in {Follower, Leader}
  PROVE  Carried(h, h, i, n, n)
<1>1. Sane(n) /\ NodeSound(h, i, n)
  BY DEF Rooted
<1>2. CASE n.role = Leader
  <2>1. SameOffice(n, n)
    BY DEF SameOffice
  <2> QED BY <1>1, <1>2, <2>1, LeaderLearns
<1>3. CASE n.role = Follower
  <2>1. h \in History /\ n.snapshotIndex \in Nat /\ n.lastApplied <= Len(h.whole[i])
    BY <1>1 DEF Rooted, Sound, Sane, NodeState, NodeSound, Keeping
  <2>2. Follows(h, h)
    BY <2>1, FollowsReflexive
  <2>3. Share(h.whole[i], h.whole[i], n.lastApplied)
    BY <2>1 DEF Share
  <2>4. n.role # Leader /\ n.role # Candidate
    BY <1>3 DEF Follower, Leader, Candidate
  <2>5. n.snapshotIndex <= n.snapshotIndex
    BY <2>1
  <2> QED BY <2>2, <2>3, <2>4, <2>5 DEF Carried
<1> QED BY <1>2, <1>3

\* handle_append_entries goes on from an explanation: a refusal points back, a success
\* acknowledges what is held now.
LEMMA AppendEntriesLog ==
  ASSUME IInv, IInv', ~MembershipChanges, NEW h, Explains(h), NEW i \in Server,
         NEW m \in msgs, HandleAppendEntries(i, m)
  PROVE  GoesOn(h)
<1> DEFINE n == node[i]
           r == Recognise(n, m)
           f == Raised(h, i, r.currentTerm)
           prev == m.prevLogIndex
           reply(s, ok, upto, ci, ct) == {AppendEntriesRespMsg(i, s, m, ok, upto, ci, ct)}
<1>1. m \in NodeMessage /\ m.type = "AppendEntries"
  BY DEF HandleAppendEntries, IInv, MessageInv, MessagesTyped
<1>2. m \in AppendEntries
  BY <1>1, MessageOfType
<1>3. m.src \in Server /\ m.term \in Nat /\ prev \in Nat /\ Len(m.entries) \in Nat
  BY <1>2 DEF AppendEntries
<1>4. FromLeader(m) /\ MessageSound(h, m)
  BY <1>1 DEF Explains, MessagesExplained
<1>5. ASSUME NEW g, NEW s, NEW ci, ci <= prev, NEW ct
      PROVE  Mute(g, reply(s, FALSE, 0, ci, ct))
  BY <1>5 DEF Mute, AppendEntriesRespMsg, ReplySound
<1>6. ASSUME NEW g, NEW s, NEW upto, upto <= g.held[i][s.currentTerm]
      PROVE  Mute(g, reply(s, TRUE, upto, 0, 0))
  BY <1>6 DEF Mute, AppendEntriesRespMsg, ReplySound
<1>7. CASE Post(i, n, reply(n, FALSE, 0, 0, 0))
  <2>0. 0 <= prev
    BY <1>3
  <2>1. Mute(h, reply(n, FALSE, 0, 0, 0))
    BY <2>0, <1>5
  <2> HIDE DEF reply
  <2>2. PICK g : Allowed(h, g, i, n, reply(n, FALSE, 0, 0, 0))
    BY <2>1, StillAllowed
  <2> QED BY <1>7, <2>2, FinishLog DEF Post
<1>8. ASSUME ~Stale(n, m)
      PROVE  /\ Sane(r) /\ r.currentTerm = m.term /\ r.role \in {Follower, Leader}
             /\ Rooted(f, i, r) /\ m.term \in f.terms /\ Recorded(r.sm)
             /\ h \in History /\ f \in History /\ Follows(h, f)
  <2>1. /\ Sane(r) /\ KeepsLog(n, r) /\ r.currentTerm = m.term /\ r.role \in {Follower, Leader}
        /\ Carried(h, f, i, n, r) /\ Rooted(f, i, r) /\ m.term \in f.terms
    BY <1>2, <1>4, <1>8, Recognised
  <2>2. Recorded(n.sm) /\ h \in History
    BY NodeExplained
  <2>3. r.sm = n.sm
    BY <2>1 DEF KeepsLog, SameLog
  <2> QED BY <2>1, <2>2, <2>3 DEF Carried, Rooted, Sound
<1>9. ASSUME ~Stale(n, m), NEW g, NEW a, Carried(f, g, i, r, a), SameOffice(r, a),
             Recorded(a.sm), a.lastApplied = r.lastApplied,
             NEW out, Mute(g, out), Post(i, a, out)
      PROVE  GoesOn(h)
  <2>2. r.lastApplied \in Nat
    BY <1>8, <1>9 DEF Sane, NodeState
  <2> HIDE DEF r, f
  <2>3. r.lastApplied <= a.lastApplied
    BY <1>9, <2>2
  <2>1. Allowed(h, g, i, a, out)
    BY <1>2, <1>4, <1>9, <2>3, FollowerAllowed DEF r, f
  <2> QED BY <1>9, <2>1, FinishLog DEF Post
<1>10. CASE ~Stale(n, m) /\ Post(i, r, reply(r, TRUE, r.snapshotIndex, 0, 0))
  <2>1. r.snapshotIndex \in Nat /\ r.snapshotIndex <= r.commitIndex
    BY <1>8, <1>10 DEF Rooted, NodeSound, CommitSound, Sane, NodeState
  <2>2. PICK g : Carried(f, g, i, r, r) /\ r.snapshotIndex <= g.held[i][r.currentTerm]
    <3> HIDE DEF r, f
    <3> QED BY <1>8, <1>10, <2>1, CoveredCarries
  <2>3. Mute(g, reply(r, TRUE, r.snapshotIndex, 0, 0))
    BY <1>6, <2>2
  <2>4. SameOffice(r, r) /\ Recorded(r.sm)
    BY <1>8, <1>10 DEF SameOffice
  <2> HIDE DEF r, f, reply
  <2> QED BY <1>9, <1>10, <2>2, <2>3, <2>4
<1>11. ASSUME ~Stale(n, m), NEW ci, ci <= prev, NEW ct, Post(i, r, reply(r, FALSE, 0, ci, ct))
       PROVE  GoesOn(h)
  <2>1. Carried(f, f, i, r, r)
    <3> HIDE DEF r, f
    <3> QED BY <1>8, <1>11, RootedCarries
  <2>2. Mute(f, reply(r, FALSE, 0, ci, ct))
    BY <1>5, <1>11
  <2>3. SameOffice(r, r) /\ Recorded(r.sm)
    BY <1>8, <1>11 DEF SameOffice
  <2> HIDE DEF r, f, reply
  <2> QED BY <1>9, <1>11, <2>1, <2>2, <2>3
<1>12. CASE ~Stale(n, m) /\ prev > LastIndex(r) /\ Post(i, r, reply(r, FALSE, 0, LastIndex(r) + 1, 0))
  <2>1. LastIndex(r) \in Nat
    <3> HIDE DEF r
    <3> QED BY <1>8, <1>12, LogFacts DEF Sane
  <2>2. LastIndex(r) + 1 <= prev
    BY <1>3, <1>12, <2>1
  <2> HIDE DEF r, f, reply
  <2> QED BY <1>11, <1>12, <2>2
<1>13. CASE /\ ~Stale(n, m)
            /\ Post(i, r, reply(r, FALSE, 0, ConflictIndex(r, prev), TermAt(r, prev)))
  <2>1. ConflictIndex(r, prev) <= prev
    <3> DEFINE run == {k \in r.snapshotIndex + 1 .. prev :
                         \A j \in k .. prev : TermAt(r, j) = TermAt(r, prev)}
    <3>1. r.snapshotIndex \in Nat
      BY <1>8, <1>13 DEF Sane, NodeState
    <3>2. run \in SUBSET Nat /\ \A k \in run : k <= prev
      BY <1>3, <3>1
    <3>3. ConflictIndex(r, prev) = IF run = {} THEN prev ELSE Smallest(run)
      BY Zenon DEF ConflictIndex
    <3> HIDE DEF run
    <3>4. run # {} => Smallest(run) <= prev
      BY <3>2, SmallestType
    <3> QED BY <1>3, <3>3, <3>4
  <2> HIDE DEF r, f, reply
  <2> QED BY <1>11, <1>13, <2>1
<1>14. CASE /\ ~Stale(n, m) /\ PrevMatches(r, m)
            /\ Post(i, LearnCommit(MergeEntries(i, r, m), m),
                    reply(LearnCommit(MergeEntries(i, r, m), m), TRUE,
                          prev + Len(m.entries), 0, 0))
  <2> DEFINE a == LearnCommit(MergeEntries(i, r, m), m)
             match == prev + Len(m.entries)
  <2>1. AppendSound(f, m)
    <3>1. h \in History /\ f \in History /\ Follows(h, f)
      BY <1>8, <1>14
    <3> HIDE DEF f
    <3> QED BY <1>1, <1>4, <3>1, MessageStays DEF MessageSound
  <2>2. PICK g : /\ Carried(f, g, i, r, a) /\ SameOffice(r, a)
                 /\ a.lastApplied = r.lastApplied
                 /\ match <= g.held[i][r.currentTerm]
    <3>1. Rooted(f, i, r) /\ r.role \in {Follower, Leader} /\ m.term = r.currentTerm
      BY <1>8, <1>14
    <3> HIDE DEF r, f
    <3> QED BY <1>2, <1>14, <2>1, <3>1, AppendCarries
  <2> HIDE DEF a
  <2>3. a.sm = r.sm
    <3>1. Rooted(f, i, r)
      BY <1>8, <1>14
    <3> HIDE DEF r, f
    <3> QED BY <2>2, <3>1, CarriedMachine
  <2>4. a.currentTerm = r.currentTerm /\ Recorded(a.sm)
    BY <1>8, <1>14, <2>2, <2>3 DEF SameOffice
  <2>5. Mute(g, reply(a, TRUE, match, 0, 0))
    BY <1>6, <2>2, <2>4
  <2>6. Post(i, a, reply(a, TRUE, match, 0, 0))
    BY <1>14 DEF a
  <2> HIDE DEF r, f, reply, match
  <2> QED BY <1>9, <1>14, <2>2, <2>4, <2>5, <2>6
<1>15. \/ Post(i, n, reply(n, FALSE, 0, 0, 0))
       \/ ~Stale(n, m) /\ Post(i, r, reply(r, TRUE, r.snapshotIndex, 0, 0))
       \/ ~Stale(n, m) /\ prev > LastIndex(r) /\ Post(i, r, reply(r, FALSE, 0, LastIndex(r) + 1, 0))
       \/ /\ ~Stale(n, m)
          /\ Post(i, r, reply(r, FALSE, 0, ConflictIndex(r, prev), TermAt(r, prev)))
       \/ /\ ~Stale(n, m) /\ PrevMatches(r, m)
          /\ Post(i, LearnCommit(MergeEntries(i, r, m), m),
                  reply(LearnCommit(MergeEntries(i, r, m), m), TRUE,
                        prev + Len(m.entries), 0, 0))
  BY ZenonT(60) DEF HandleAppendEntries
<1> HIDE DEF r, f, reply
<1> QED BY <1>7, <1>10, <1>12, <1>13, <1>14, <1>15

\* handle_install_snapshot goes on from an explanation: what the node is then fed, or holds
\* to be committed, is what the leader of its term had committed.
LEMMA InstallSnapshotLog ==
  ASSUME IInv, IInv', ~MembershipChanges, NEW h, Explains(h), NEW i \in Server,
         NEW m \in msgs, HandleInstallSnapshot(i, m)
  PROVE  GoesOn(h)
<1> DEFINE n == node[i]
           r == Recognise(n, m)
           f == Raised(h, i, r.currentTerm)
           lii == m.lastIncludedIndex
           reply(s, match) == {InstallSnapshotRespMsg(i, m.src, s, match)}
<1>1. m \in NodeMessage /\ m.type = "InstallSnapshot"
  BY DEF HandleInstallSnapshot, IInv, MessageInv, MessagesTyped
<1>2. m \in InstallSnapshot
  BY <1>1, MessageOfType
<1>3. m.src \in Server /\ m.term \in Nat /\ lii \in Nat
  BY <1>2 DEF InstallSnapshot
<1>4. FromLeader(m) /\ MessageSound(h, m)
  BY <1>1 DEF Explains, MessagesExplained
<1>5. ASSUME NEW g, NEW s, NEW match, match <= g.held[i][s.currentTerm]
      PROVE  Mute(g, reply(s, match))
  BY <1>5 DEF Mute, InstallSnapshotRespMsg, ReplySound
<1>6. ASSUME ~Stale(n, m)
      PROVE  /\ Sane(r) /\ r.currentTerm = m.term /\ r.role \in {Follower, Leader}
             /\ Rooted(f, i, r) /\ m.term \in f.terms /\ Recorded(r.sm)
             /\ SnapshotSound(f, m)
  <2>1. /\ Sane(r) /\ KeepsLog(n, r) /\ r.currentTerm = m.term /\ r.role \in {Follower, Leader}
        /\ Carried(h, f, i, n, r) /\ Rooted(f, i, r) /\ m.term \in f.terms
    BY <1>2, <1>4, <1>6, Recognised
  <2>2. Recorded(n.sm) /\ h \in History
    BY NodeExplained
  <2>3. r.sm = n.sm
    BY <2>1 DEF KeepsLog, SameLog
  <2>4. f \in History /\ Follows(h, f)
    BY <2>1 DEF Carried, Rooted, Sound
  <2>5. SnapshotSound(f, m)
    <3> HIDE DEF f
    <3> QED BY <1>1, <1>4, <2>2, <2>4, MessageStays DEF MessageSound
  <2> QED BY <2>1, <2>2, <2>3, <2>5
<1>7. ASSUME ~Stale(n, m), NEW g, NEW a, Carried(f, g, i, r, a), SameOffice(r, a),
             Recorded(a.sm), r.lastApplied <= a.lastApplied,
             NEW match, match <= g.held[i][r.currentTerm],
             Post(i, a, reply(a, match))
      PROVE  GoesOn(h)
  <2>1. a.currentTerm = r.currentTerm
    BY <1>7 DEF SameOffice
  <2>2. Mute(g, reply(a, match))
    BY <1>5, <1>7, <2>1
  <2> HIDE DEF r, f, reply
  <2>3. Allowed(h, g, i, a, reply(a, match))
    BY <1>2, <1>4, <1>7, <2>2, FollowerAllowed DEF r, f
  <2> QED BY <1>7, <2>3, FinishLog DEF Post
<1>8. CASE Post(i, n, reply(n, 0))
  <2>1. 0 <= h.held[i][n.currentTerm]
    <3>1. h \in History /\ n.currentTerm \in Nat
      BY NodeExplained DEF NodeState
    <3>2. h.held[i][n.currentTerm] \in Nat
      BY <3>1, HistoryTypes
    <3> QED BY <3>2
  <2>2. Mute(h, reply(n, 0))
    BY <1>5, <2>1
  <2> HIDE DEF reply
  <2>3. PICK g : Allowed(h, g, i, n, reply(n, 0))
    BY <2>2, StillAllowed
  <2> QED BY <1>8, <2>3, FinishLog DEF Post
<1>9. CASE ~Stale(n, m) /\ Post(i, r, reply(r, Smaller(LastIndex(r), r.commitIndex)))
  <2> DEFINE k == Smaller(LastIndex(r), r.commitIndex)
  <2>1. Sane(r) /\ Rooted(f, i, r) /\ r.role \in {Follower, Leader} /\ r.currentTerm \in f.terms
        /\ Recorded(r.sm)
    BY <1>6, <1>9
  <2> HIDE DEF r, f
  <2>2. k \in Nat /\ k <= r.commitIndex
    <3>1. LastIndex(r) \in Nat /\ r.commitIndex \in Nat
      BY <2>1, LogFacts DEF Sane, NodeState
    <3> QED BY <3>1 DEF Smaller
  <2> HIDE DEF k
  <2>3. PICK g : Carried(f, g, i, r, r) /\ k <= g.held[i][r.currentTerm]
    BY <2>1, <2>2, CoveredCarries
  <2>4. SameOffice(r, r)
    BY DEF SameOffice
  <2>5. Post(i, r, reply(r, k))
    BY <1>9 DEF k
  <2>6. r.lastApplied <= r.lastApplied
    BY <2>1 DEF Sane, NodeState
  <2> HIDE DEF reply
  <2> QED BY <1>7, <1>9, <2>1, <2>3, <2>4, <2>5, <2>6
<1>10. CASE /\ ~Stale(n, m) /\ lii > r.commitIndex /\ TermAt(r, lii) = m.lastIncludedTerm
            /\ Post(i, [r EXCEPT !.commitIndex = lii], reply([r EXCEPT !.commitIndex = lii], lii))
  <2> DEFINE a == [r EXCEPT !.commitIndex = lii]
  <2>1. /\ Rooted(f, i, r) /\ r.role \in {Follower, Leader} /\ m.term = r.currentTerm
        /\ Recorded(r.sm) /\ SnapshotSound(f, m) /\ r.lastApplied \in Nat
    BY <1>6, <1>10 DEF Sane, NodeState
  <2>2. /\ SameOffice(r, a) /\ a.lastApplied = r.lastApplied
        /\ \E g : Carried(f, g, i, r, a) /\ lii <= g.held[i][r.currentTerm]
    <3> HIDE DEF r, f
    <3> QED BY <1>2, <1>10, <2>1, HeldCarries
  <2>3. PICK g : Carried(f, g, i, r, a) /\ lii <= g.held[i][r.currentTerm]
    BY <2>2
  <2>4. Post(i, a, reply(a, lii))
    BY <1>10
  <2> HIDE DEF a
  <2>5. a.sm = r.sm
    <3> HIDE DEF r, f
    <3> QED BY <2>1, <2>2, <2>3, CarriedMachine
  <2>6. Recorded(a.sm) /\ r.lastApplied <= a.lastApplied
    BY <2>1, <2>2, <2>5
  <2> HIDE DEF r, f, reply
  <2> QED BY <1>7, <1>10, <2>2, <2>3, <2>4, <2>6
<1>11. CASE /\ ~Stale(n, m) /\ lii > r.commitIndex /\ TermAt(r, lii) # m.lastIncludedTerm
            /\ Post(i, InstallState(i, r, m), reply(InstallState(i, r, m), lii))
  <2> DEFINE a == InstallState(i, r, m)
             t == r.currentTerm
  <2>1. /\ Rooted(f, i, r) /\ r.role \in {Follower, Leader} /\ m.term = t
        /\ Recorded(r.sm) /\ SnapshotSound(f, m)
    BY <1>6, <1>11
  <2>2. /\ SameOffice(r, a) /\ a.lastApplied = lii /\ r.lastApplied <= lii
        /\ \E g : /\ Carried(f, g, i, r, a) /\ lii <= g.held[i][t]
                  /\ Share(g.whole[i], f.led[t], lii)
    <3> HIDE DEF r, f
    <3> QED BY <1>2, <1>11, <2>1, InstallCarries
  <2>3. PICK g : /\ Carried(f, g, i, r, a) /\ lii <= g.held[i][t]
                 /\ Share(g.whole[i], f.led[t], lii)
    BY <2>2
  <2>4. Post(i, a, reply(a, lii))
    BY <1>11
  <2> HIDE DEF a
  <2>5. a.sm = m.data
    <3>1. a.sm = Commands(g.whole[i], lii)
      BY <2>2, <2>3 DEF Carried, Rooted, NodeSound, Keeping
    <3>2. m.data = Commands(f.led[t], lii)
      BY <1>1, <2>1 DEF SnapshotSound
    <3>3. Commands(g.whole[i], lii) = Commands(f.led[t], lii)
      BY <2>3 DEF Commands, Share
    <3> QED BY <3>1, <3>2, <3>3
  <2>6. Recorded(a.sm)
    BY <1>1, <1>4, <2>5 DEF FromLeader
  <2> HIDE DEF r, f, reply
  <2> QED BY <1>7, <1>11, <2>2, <2>3, <2>4, <2>6
<1>12. \/ Post(i, n, reply(n, 0))
       \/ ~Stale(n, m) /\ Post(i, r, reply(r, Smaller(LastIndex(r), r.commitIndex)))
       \/ /\ ~Stale(n, m) /\ lii > r.commitIndex /\ TermAt(r, lii) = m.lastIncludedTerm
          /\ Post(i, [r EXCEPT !.commitIndex = lii], reply([r EXCEPT !.commitIndex = lii], lii))
       \/ /\ ~Stale(n, m) /\ lii > r.commitIndex /\ TermAt(r, lii) # m.lastIncludedTerm
          /\ Post(i, InstallState(i, r, m), reply(InstallState(i, r, m), lii))
  BY ZenonT(60) DEF HandleInstallSnapshot
<1> HIDE DEF r, f, reply
<1> QED BY <1>8, <1>9, <1>10, <1>11, <1>12

\* A leader that learns of its peers goes on from an explanation and may send more.
LEMMA LearnedLog ==
  ASSUME IInv, IInv', ~MembershipChanges, NEW h, Explains(h), NEW i \in Server,
         node[i].role = Leader, NEW a, Sane(a), NodeSound(h, i, a), SameOffice(node[i], a),
         a.lastApplied = node[i].lastApplied, a.snapshotIndex = node[i].snapshotIndex,
         NEW P \in SUBSET Server, Post(i, Sent(i, a, P), Appends(i, a, P))
  PROVE  GoesOn(h)
<1>1. Rooted(h, i, node[i]) /\ Recorded(node[i].sm)
  BY NodeExplained
<1>2. Carried(h, h, i, node[i], a)
  BY <1>1, LeaderLearns
<1>3. a.sm = node[i].sm
  BY <1>1, <1>2, CarriedMachine
<1>4. Fits(h, i, a)
  BY <1>1, <1>3, StaysOnward DEF Fits, SameOffice
<1>5. Allowed(h, h, i, a, {})
  BY <1>2, <1>4 DEF Allowed
<1>6. a.role = Leader
  BY DEF SameOffice
<1>7. Allowed(h, h, i, Sent(i, a, P), Appends(i, a, P))
  BY <1>5, <1>6, LeaderSends
<1> QED BY <1>7, FinishLog DEF Post

\* A success is taken for what it says, and that was held when it was said.
LEMMA AcknowledgeLog ==
  ASSUME IInv, IInv', ~MembershipChanges, NEW h, Explains(h), NEW i \in Server,
         node[i].role = Leader, NEW p \in Server, NEW match \in Nat,
         match <= h.held[p][node[i].currentTerm], Acknowledge(i, p, match)
  PROVE  GoesOn(h)
<1> DEFINE n == node[i]
           a == Acknowledged(i, n, p, match)
           more == IF WindowOpen(a, p) THEN {p} ELSE {}
<1>1. Sound(h) /\ Sane(n) /\ NodeSound(h, i, n)
  BY NodeExplained DEF Rooted
<1>2. Sane(a)
  BY NodeFacts, AcknowledgedFacts
<1>3. /\ NodeSound(h, i, a) /\ SameOffice(n, a)
      /\ a.lastApplied = n.lastApplied /\ a.snapshotIndex = n.snapshotIndex
  BY <1>1, AcknowledgedKeeps
<1>4. Post(i, Sent(i, a, more), Appends(i, a, more))
  BY Zenon DEF Acknowledge
<1>5. more \in SUBSET Server
  OBVIOUS
<1> HIDE DEF a, more
<1> QED BY <1>2, <1>3, <1>4, <1>5, LearnedLog

\* handle_append_entries_resp goes on from an explanation.
LEMMA AppendEntriesRespLog ==
  ASSUME IInv, IInv', ~MembershipChanges, NEW h, Explains(h), NEW i \in Server,
         NEW m \in msgs, HandleAppendEntriesResp(i, m)
  PROVE  GoesOn(h)
<1> DEFINE n == node[i]
           b == BackUp(n, m)
<1>1. m \in NodeMessage /\ m.type = "AppendEntriesResp"
  BY DEF HandleAppendEntriesResp, IInv, MessageInv, MessagesTyped
<1>2. m \in AppendEntriesResp
  BY <1>1, MessageOfType
<1>3. m.src \in Server /\ m.term \in Nat /\ m.matchIndex \in Nat
  BY <1>2 DEF AppendEntriesResp
<1>4. IF m.success THEN m.matchIndex <= h.held[m.src][m.term] ELSE m.conflictIndex <= m.repliesTo
  BY <1>1 DEF Explains, MessagesExplained, MessageSound, ReplySound
<1>5. CASE Post(i, StepDown(n, m.term), {})
  BY <1>3, <1>5, StepDownLog
<1>6. CASE /\ m.term = n.currentTerm /\ n.role = Leader /\ m.success
           /\ Acknowledge(i, m.src, m.matchIndex)
  BY <1>3, <1>4, <1>6, AcknowledgeLog
<1>7. CASE /\ m.term = n.currentTerm /\ n.role = Leader /\ ~m.success
           /\ m.repliesTo = NextIndex(n, m.src) - 1
           /\ Post(i, Sent(i, b, {m.src}), Appends(i, b, {m.src}))
  <2>1. Sane(b)
    BY <1>2, NodeFacts, BackUpFacts
  <2>2. Sound(h) /\ Sane(n) /\ NodeSound(h, i, n)
    BY NodeExplained DEF Rooted
  <2>3. NodeSound(h, i, b) /\ SameLog(n, b) /\ SameOffice(n, b)
    BY <1>2, <1>4, <1>7, <2>2, BackUpKeeps
  <2> HIDE DEF b
  <2>4. b.lastApplied = n.lastApplied /\ b.snapshotIndex = n.snapshotIndex
    BY <2>3 DEF SameLog
  <2>5. {m.src} \in SUBSET Server
    BY <1>3
  <2> QED BY <1>7, <2>1, <2>3, <2>4, <2>5, LearnedLog
<1> QED BY <1>5, <1>6, <1>7, Zenon DEF HandleAppendEntriesResp

\* handle_install_snapshot_resp goes on from an explanation.
LEMMA InstallSnapshotRespLog ==
  ASSUME IInv, IInv', ~MembershipChanges, NEW h, Explains(h), NEW i \in Server,
         NEW m \in msgs, HandleInstallSnapshotResp(i, m)
  PROVE  GoesOn(h)
<1>1. m \in NodeMessage /\ m.type = "InstallSnapshotResp"
  BY DEF HandleInstallSnapshotResp, IInv, MessageInv, MessagesTyped
<1>2. m \in InstallSnapshotResp
  BY <1>1, MessageOfType
<1>3. m.src \in Server /\ m.term \in Nat /\ m.matchIndex \in Nat
  BY <1>2 DEF InstallSnapshotResp
<1>4. m.matchIndex <= h.held[m.src][m.term]
  BY <1>1 DEF Explains, MessagesExplained, MessageSound, ReplySound
<1>5. \/ Post(i, StepDown(node[i], m.term), {})
      \/ /\ m.term = node[i].currentTerm /\ node[i].role = Leader
         /\ Acknowledge(i, m.src, m.matchIndex)
  BY Zenon DEF HandleInstallSnapshotResp
<1> QED BY <1>3, <1>4, <1>5, StepDownLog, AcknowledgeLog

\* handle_client_request goes on from an explanation: the leader appends to the log of its
\* term, or nothing happens to any log.
LEMMA ClientRequestLog ==
  ASSUME IInv, IInv', ~MembershipChanges, NEW h, Explains(h), NEW i \in Server,
         NEW addr \in Nat, NEW cmd \in PutCommand \cup ConfigChange,
         HandleClientRequest(i, addr, cmd)
  PROVE  GoesOn(h)
<1> DEFINE n == node[i]
           p == Propose(i, n, addr, cmd)
           unsent == {q \in Peers(i, p) : HasUnsent(p, q)}
           result == IF cmd.seq = SessionSeq(n.sm, cmd.client)
                     THEN SessionResult(n.sm, cmd.client) ELSE Nil
           Repointed(r) ==
             [n EXCEPT !.pending =
                {q \in @ : q.index # r.index} \cup
                {[index |-> r.index, addr |-> addr, seq |-> cmd.seq]}]
<1>1. cmd.seq \in Nat /\ cmd.client \in Int
  <2>1. CASE cmd \in PutCommand
    <3>1. cmd.seq \in Nat /\ cmd.client \in Client
      BY <2>1 DEF PutCommand
    <3>2. \A c \in 0 .. ClientBase - 1 : c \in Int
      BY DEF ClientBase
    <3> QED BY <3>1, <3>2, ClientAssumption, Zenon
  <2>2. CASE cmd \in ConfigChange
    BY <2>2 DEF ConfigChange
  <2> QED BY <2>1, <2>2
<1>2. n \in NodeState /\ Sane(n) /\ Rooted(h, i, n) /\ Recorded(n.sm)
  BY NodeExplained
<1>3. \/ Post(i, n, {ClientReplyMsg(i, addr, cmd.client, cmd.seq, result)})
      \/ \E r \in n.pendingByReq : Post(i, Repointed(r), {})
      \/ /\ IsConfig(cmd) => MembershipChanges
         /\ n.role = Leader
         /\ Post(i, Sent(i, p, unsent), Appends(i, p, unsent))
  BY ZenonT(60) DEF HandleClientRequest
<1>4. CASE Post(i, n, {ClientReplyMsg(i, addr, cmd.client, cmd.seq, result)})
  <2> DEFINE out == {ClientReplyMsg(i, addr, cmd.client, cmd.seq, result)}
  <2>1. Mute(h, out)
    BY DEF Mute, ClientReplyMsg
  <2> HIDE DEF out
  <2>2. PICK g : Allowed(h, g, i, n, out)
    BY <2>1, StillAllowed
  <2> QED BY <1>4, <2>2, FinishLog DEF Post, out
<1>5. CASE \E r \in n.pendingByReq : Post(i, Repointed(r), {})
  <2>1. PICK r \in n.pendingByReq : Post(i, Repointed(r), {})
    BY <1>5
  <2> DEFINE new == [index |-> r.index, addr |-> addr, seq |-> cmd.seq]
             pend == {q \in n.pending : q.index # r.index} \cup {new}
             s == [n EXCEPT !.pending = pend]
  <2>2. r.index \in Nat /\ n.pending \in SUBSET [index : Nat, addr : Nat, seq : Nat]
    BY <1>2 DEF NodeState
  <2>3. pend \in SUBSET [index : Nat, addr : Nat, seq : Nat]
    BY <1>1, <2>2
  <2>4. Finish(i, s, {})
    BY <2>1 DEF Post
  <2> HIDE DEF pend
  <2>5. s \in NodeState
    BY <1>2, <2>3, ZenonT(90) DEF NodeState
  <2>6. KeepsLog(n, s)
    BY <1>2, LogUntouched
  <2>7. SameOffice(n, s)
    BY <1>2, SMTT(30) DEF NodeState, SameOffice
  <2> HIDE DEF s
  <2>8. Sane(s) /\ KeepsOffice(i, n, s) /\ (s.role = Candidate => n.role = Candidate)
    BY <1>2, <2>5, <2>6, <2>7 DEF Sane, KeepsLog, SameLog, SameOffice, KeepsOffice
  <2>9. Mute(h, {})
    BY DEF Mute
  <2> QED BY <2>4, <2>6, <2>8, <2>9, IdleLog
<1>6. CASE /\ IsConfig(cmd) => MembershipChanges
           /\ n.role = Leader
           /\ Post(i, Sent(i, p, unsent), Appends(i, p, unsent))
  <2>1. cmd \in Command
    BY <1>6 DEF Command, ConfigChange, IsConfig
  <2>2. p \in NodeState
    BY <1>1, <1>2, <2>1, ProposeFacts DEF Sane
  <2>3. /\ SameOffice(n, p) /\ p.lastApplied = n.lastApplied
        /\ \E g : Carried(h, g, i, n, p)
    BY <1>1, <1>2, <1>6, <2>1, ProposeCarries
  <2> HIDE DEF p
  <2>4. unsent \in SUBSET Server
    BY <2>2, ServerAssumption DEF Peers, NodeState, Configuration
  <2> HIDE DEF unsent
  <2>5. PICK g : Carried(h, g, i, n, p)
    BY <2>3
  <2>6. p.sm = n.sm
    BY <1>2, <2>3, <2>5, CarriedMachine
  <2>7. Fits(g, i, p)
    BY <1>2, <2>3, <2>6, StaysOnward DEF Fits, SameOffice
  <2>8. Allowed(h, g, i, p, {})
    BY <2>5, <2>7 DEF Allowed
  <2>9. p.role = Leader
    BY <1>6, <2>3 DEF SameOffice
  <2>10. Allowed(h, g, i, Sent(i, p, unsent), Appends(i, p, unsent))
    BY <2>4, <2>8, <2>9, LeaderSends
  <2> QED BY <1>6, <2>10, FinishLog DEF Post
<1> QED BY <1>3, <1>4, <1>5, <1>6

\* A restart goes on from the explanation it finds, because the disk was current: the node
\* comes back with its log, less what it had applied beyond its snapshot.
LEMMA RestartLog ==
  ASSUME IInv, IInv', ~MembershipChanges, NEW h, Explains(h), NEW i \in Server, Restart(i)
  PROVE  GoesOn(h)
<1> DEFINE n == node[i]
           a == Restarted(i, n, Durable(n))
<1>1. /\ h \in History /\ Rooted(h, i, n) /\ Recorded(n.sm) /\ n \in NodeState
  BY NodeExplained
<1>2. Save(i, a) /\ Observe(i, a, a) /\ UNCHANGED msgs
  <2>1. disk[i] = Durable(n)
    BY DEF IInv, StateInv, DiskCurrent
  <2> QED BY <2>1 DEF Restart
<1>3. /\ Carried(h, h, i, n, a)
      /\ a.currentTerm = n.currentTerm /\ a.votedFor = n.votedFor
      /\ a.role = Follower /\ a.leaderId = Nil
      /\ a.lastApplied = n.snapshotIndex /\ a.commitIndex = n.snapshotIndex
  BY <1>1, RestartedCarries
<1> HIDE DEF a
<1>4. Recorded(a.sm)
  <2>1. /\ a.sm = Commands(h.whole[i], n.snapshotIndex)
        /\ n.sm = Commands(h.whole[i], n.lastApplied) /\ n.snapshotIndex <= n.lastApplied
    BY <1>1, <1>3 DEF Carried, Rooted, NodeSound, Keeping
  <2>2. n.snapshotIndex \in Nat /\ n.lastApplied \in Nat
    BY <1>1 DEF NodeState
  <2>3. /\ Len(n.sm) = n.lastApplied /\ Len(a.sm) = n.snapshotIndex
        /\ \A k \in 1 .. n.snapshotIndex : a.sm[k] = n.sm[k]
    BY <2>1, <2>2 DEF Commands
  <2> QED BY <1>1, <2>1, <2>2, <2>3 DEF Recorded
<1>5. Fits(h, i, a)
  <2>1. ~alive[i]
    BY DEF Restart
  <2> QED BY <1>3, <1>4, <2>1 DEF Fits, Onward
<1>6. SameOffice(a, a) /\ a.lastApplied = Larger(a.lastApplied, a.commitIndex)
  BY <1>3 DEF SameOffice, Larger
<1>7. Event(h, h, i, a, a)
  BY <1>2, <1>3, <1>5, <1>6 DEF Event
<1> QED BY <1>1, <1>7, EventStep DEF GoesOn

\* A step that leaves the nodes and what was observed of them alone, and sends nothing to a
\* node but requests of the operator, has the explanation it finds.
LEMMA QuietLog ==
  ASSUME IInv, ~MembershipChanges, NEW h, Explains(h),
         UNCHANGED <<node, leaderOfTerm, votesByTerm, committed>>,
         \A m \in msgs' : m \in msgs \/ m.type = "ClientRequest"
  PROVE  GoesOn(h)
<1>0. h \in History
  BY DEF Explains, Sound
<1>1. NodesExplained(h)'
  BY DEF Explains, NodesExplained, Recorded
<1>2. OfficesExplained(h)'
  BY DEF Explains, OfficesExplained, LeadersPast, VotesSeen, LeaderHintSound, Ballot
<1>3. MessagesExplained(h)'
  <2> SUFFICES ASSUME NEW m \in msgs', m.type # "ClientReply"
               PROVE  (Request(h, node[m.src], m) /\ MessageSound(h, m) /\ FromLeader(m))'
    BY DEF MessagesExplained
  <2>1. CASE m \in msgs
    <3>1. Request(h, node[m.src], m) /\ MessageSound(h, m) /\ FromLeader(m)
      BY <2>1 DEF Explains, MessagesExplained
    <3> QED BY <3>1 DEF Request, FromLeader, Recorded
  <2>2. CASE m.type = "ClientRequest"
    BY <2>2 DEF Request, FromLeader, MessageSound, AppendSound, SnapshotSound, ReplySound
  <2> QED BY <2>1, <2>2
<1>4. RecordsExplained(h)'
  BY DEF Explains, RecordsExplained, NoGap, Bounded, RecordSound
<1>5. Evolves(h, h)
  <2>1. Follows(h, h)
    BY <1>0, FollowsReflexive
  <2>2. ASSUME NEW i \in Server
        PROVE  /\ node[i].lastApplied # 0 => Share(h.whole[i], h.whole[i], node[i].lastApplied)
               /\ node[i].snapshotIndex <= node[i]'.snapshotIndex
               /\ Onward(i, node[i]')
               /\ node[i]'.role = Leader => Share(h.whole[i], h.whole[i], Len(h.whole[i]))
    <3>1. /\ node[i].lastApplied <= Len(h.whole[i]) /\ node[i].snapshotIndex \in Nat
          /\ node[i].lastApplied \in Nat /\ Len(h.whole[i]) \in Nat
      BY <1>0, NodeExplained, HistoryTypes DEF Rooted, NodeSound, Keeping, NodeState
    <3> QED BY <3>1 DEF Share, Onward
  <2> QED BY <2>1, <2>2 DEF Evolves
<1> QED BY <1>0, <1>1, <1>2, <1>3, <1>4, <1>5 DEF Explains, GoesOn

\* on_message goes on from an explanation.
LEMMA ReceiveLog ==
  ASSUME IInv, IInv', ~MembershipChanges, NEW h, Explains(h), NEW m \in msgs,
         Receive(m.dst, m)
  PROVE  GoesOn(h)
<1> DEFINE i == m.dst
<1>1. ASSUME m.type # "ClientReply" PROVE m \in NodeMessage /\ i \in Server
  BY <1>1, MessageOfType DEF IInv, MessageInv, MessagesTyped
<1>2. CASE HandleMemberRequest(i, m)
  <2>1. m.type = "ClientRequest" /\ HandleClientRequest(i, m.src, m.cmd)
    BY <1>2 DEF HandleMemberRequest
  <2>2. i \in Server /\ m \in MemberRequest
    BY <1>1, <2>1, MessageOfType
  <2>3. m.src \in Nat /\ m.cmd \in ConfigChange
    BY <2>2 DEF MemberRequest, OperatorAddress, ClientBase
  <2> QED BY <2>1, <2>2, <2>3, ClientRequestLog
<1>3. CASE \/ HandlePreVote(i, m)
           \/ HandlePreVoteResp(i, m)
           \/ HandleRequestVote(i, m)
           \/ HandleRequestVoteResp(i, m)
           \/ HandleAppendEntries(i, m)
           \/ HandleAppendEntriesResp(i, m)
           \/ HandleInstallSnapshot(i, m)
           \/ HandleInstallSnapshotResp(i, m)
  <2>1. m.type # "ClientReply"
    BY <1>3 DEF HandlePreVote, HandlePreVoteResp, HandleRequestVote, HandleRequestVoteResp,
                HandleAppendEntries, HandleAppendEntriesResp, HandleInstallSnapshot,
                HandleInstallSnapshotResp
  <2>2. i \in Server
    BY <1>1, <2>1
  <2> QED BY <1>3, <2>2, PreVoteLog, PreVoteRespLog, RequestVoteLog, RequestVoteRespLog,
             AppendEntriesLog, AppendEntriesRespLog, InstallSnapshotLog,
             InstallSnapshotRespLog
<1> QED BY <1>2, <1>3 DEF Receive

\* Every step goes on from an explanation.
LEMMA NextLog ==
  ASSUME IInv, ~MembershipChanges, NEW h, Explains(h), [Next]_vars
  PROVE  GoesOn(h)
<1>0. IInv'
  BY NextInv
<1>1. CASE \E i \in Server : Timeout(i) \/ Heartbeat(i) \/ Restart(i)
  BY <1>0, <1>1, TimeoutLog, HeartbeatLog, RestartLog
<1>2. ASSUME NEW i \in Server, MemberChange(i)
      PROVE  GoesOn(h)
  <2>1. UNCHANGED <<node, leaderOfTerm, votesByTerm, committed>>
    BY <1>2 DEF MemberChange
  <2>2. \A m \in msgs' : m \in msgs \/ m.type = "ClientRequest"
    BY <1>2 DEF MemberChange
  <2> QED BY <2>1, <2>2, QuietLog
<1>3. CASE UNCHANGED <<node, leaderOfTerm, votesByTerm, committed, msgs>>
  BY <1>3, QuietLog
<1>4. CASE \E m \in msgs : Receive(m.dst, m)
  BY <1>0, <1>4, ReceiveLog
<1>5. ASSUME NEW c \in Client, NEW i \in Server, NEW s \in 1 .. MaxSeq, ClientRequest(i, c, s)
      PROVE  GoesOn(h)
  <2>1. ClientCommand(c, s) \in PutCommand
    BY BoundAssumption DEF ClientCommand, PutCommand
  <2>2. ClientAddress(c) \in Nat
    <3>1. \A k \in 0 .. ClientBase - 1 : ClientBase + k \in Nat
      BY DEF ClientBase
    <3> QED BY <3>1, ClientAssumption, Zenon DEF ClientAddress
  <2> QED BY <1>0, <1>5, <2>1, <2>2, ClientRequestLog DEF ClientRequest
<1>6. ASSUME NEW i \in Server, Crash(i)
      PROVE  UNCHANGED <<node, leaderOfTerm, votesByTerm, committed, msgs>>
  BY <1>6 DEF Crash
<1>7. ASSUME NEW c \in Client, ClientBegin(c)
      PROVE  UNCHANGED <<node, leaderOfTerm, votesByTerm, committed, msgs>>
  BY <1>7 DEF ClientBegin
<1>8. UNCHANGED vars => UNCHANGED <<node, leaderOfTerm, votesByTerm, committed, msgs>>
  BY DEF vars
<1> QED BY <1>1, <1>2, <1>3, <1>4, <1>5, <1>6, <1>7, <1>8, Zenon DEF Next

-----------------------------------------------------------------------------
(* The inductive invariant holds *)

\* The first state has an explanation.
LEMMA InitLog == ~MembershipChanges /\ Init => LInv
<1> SUFFICES ASSUME ~MembershipChanges, Init PROVE LInv
  OBVIOUS
<1> DEFINE h == Beginning
<1>1. /\ Sane(InitNode) /\ InitNode.role = Follower
  BY InitNodeFacts
<1>2. /\ InitNode.log = <<>> /\ InitNode.snapshotIndex = 0 /\ InitNode.snapshotTerm = 0
      /\ InitNode.snapshotData = <<>> /\ InitNode.sm = <<>>
      /\ InitNode.commitIndex = 0 /\ InitNode.lastApplied = 0
      /\ InitNode.currentTerm = 0 /\ InitNode.votedFor = Nil /\ InitNode.leaderId = Nil
  BY DEF InitNode
<1>3. /\ Sound(h) /\ h.terms = {}
      /\ \A p \in Server : h.whole[p] = <<>> /\ h.now[p] = 0
  BY BeginningSound
<1>4. /\ \A i \in Server : node[i] = InitNode
      /\ msgs = {} /\ leaderOfTerm = {} /\ votesByTerm = {} /\ committed = {}
  BY DEF Init
<1> HIDE DEF h
<1>5. Recorded(<<>>)
  BY DEF Recorded
<1>6. \A i \in Server : Rooted(h, i, node[i]) /\ Recorded(node[i].sm)
  BY <1>2, <1>4, <1>5, BeginningRooted DEF h
<1>7. NodesExplained(h)
  BY <1>2, <1>3, <1>4, <1>6 DEF NodesExplained
<1>8. OfficesExplained(h)
  BY <1>2, <1>4 DEF OfficesExplained, LeadersPast, VotesSeen, LeaderHintSound
<1>9. MessagesExplained(h) /\ RecordsExplained(h)
  BY <1>4 DEF MessagesExplained, RecordsExplained, NoGap, Bounded
<1> QED BY <1>3, <1>7, <1>8, <1>9 DEF LInv, Explains, Sound

\* With a fixed membership every reachable state has an explanation.
THEOREM LogInvariance ==
  ASSUME ~MembershipChanges
  PROVE  Spec => [](IInv /\ LInv)
<1>1. Init => IInv /\ LInv
  BY InitInv, InitLog
<1>2. IInv /\ LInv /\ [Next]_vars => IInv' /\ LInv'
  <2> SUFFICES ASSUME IInv, LInv, [Next]_vars PROVE IInv' /\ LInv'
    OBVIOUS
  <2>1. PICK h \in History : Explains(h)
    BY DEF LInv
  <2>2. GoesOn(h)
    BY <2>1, NextLog
  <2> QED BY <2>2, NextInv DEF GoesOn, LInv
<1> QED BY <1>1, <1>2, PTL DEF Spec
=============================================================================
