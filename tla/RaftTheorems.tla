----------------------------- MODULE RaftTheorems -----------------------------
(***************************************************************************)
(* The properties of the replicated log that module Raft states, for every *)
(* number of servers, clients, crashes and messages, and a fixed           *)
(* membership.  Each is read off the explanation that module               *)
(* RaftSafetyProofs finds for every reachable state and every step.  The   *)
(* last part is about clients: it needs an invariant of its own, on who    *)
(* waits where, on what was begun and on what was answered.                *)
(***************************************************************************)
EXTENDS RaftSafetyProofs, RaftImplementsLog

-----------------------------------------------------------------------------
(* What an explanation says of one state *)

\* What a node keeps of its whole log, field by field.
LEMMA NodeReads ==
  ASSUME IInv, NEW h, Explains(h), NEW i \in Server
  PROVE  /\ node[i] \in NodeState /\ h \in History /\ Sound(h)
         /\ h.whole[i] \in Seq(LogEntry) /\ LastIndex(node[i]) = Len(h.whole[i])
         /\ Len(h.whole[i]) \in Nat /\ Known(h, h.whole[i])
         /\ node[i].currentTerm \in Nat /\ h.now[i] = node[i].currentTerm
         /\ node[i].snapshotIndex \in Nat /\ node[i].lastApplied \in Nat
         /\ node[i].commitIndex \in Nat
         /\ node[i].snapshotIndex <= node[i].commitIndex
         /\ node[i].commitIndex <= node[i].lastApplied
         /\ node[i].lastApplied <= Len(h.whole[i])
         /\ Keeping(node[i], h.whole[i]) /\ LeaderSound(h, i, node[i])
<1>1. /\ Rooted(h, i, node[i]) /\ h \in History /\ node[i] \in NodeState /\ Sound(h)
  BY NodeExplained
<1>2. /\ Keeping(node[i], h.whole[i]) /\ LeaderSound(h, i, node[i])
      /\ node[i].snapshotIndex <= node[i].commitIndex /\ h.now[i] = node[i].currentTerm
  BY <1>1 DEF Rooted, NodeSound, CommitSound
<1>3. /\ node[i].currentTerm \in Nat /\ node[i].snapshotIndex \in Nat
      /\ node[i].lastApplied \in Nat /\ node[i].commitIndex \in Nat
  BY <1>1 DEF NodeState
<1>4. Known(h, h.whole[i]) /\ h.whole[i] \in Seq(LogEntry) /\ Len(h.whole[i]) \in Nat
  BY <1>1, HistoryTypes DEF Sound, WholeSound
<1>5. node[i].commitIndex <= node[i].lastApplied
  BY <1>3 DEF Explains, NodesExplained
<1> QED BY <1>1, <1>2, <1>3, <1>4, <1>5 DEF Keeping

\* Two nodes that have an entry of the same term at an index have the same log up to it.
LEMMA ExplainedMatch ==
  ASSUME IInv, NEW h, Explains(h)
  PROVE  LogMatching
<1> SUFFICES ASSUME NEW i \in Server, NEW j \in Server
             PROVE  LET low == Larger(node[i].snapshotIndex, node[j].snapshotIndex)
                        high == Smaller(LastIndex(node[i]), LastIndex(node[j]))
                    IN \A k \in low + 1 .. high :
                         TermAt(node[i], k) = TermAt(node[j], k) =>
                           \A l \in low + 1 .. k :
                             /\ TermAt(node[i], l) = TermAt(node[j], l)
                             /\ CommandAt(node[i], l) = CommandAt(node[j], l)
  BY DEF LogMatching
<1> DEFINE m == node[i]
           n == node[j]
           u == h.whole[i]
           v == h.whole[j]
           low == Larger(m.snapshotIndex, n.snapshotIndex)
           high == Smaller(LastIndex(m), LastIndex(n))
<1>1. /\ m \in NodeState /\ u \in Seq(LogEntry) /\ LastIndex(m) = Len(u) /\ Len(u) \in Nat
      /\ Known(h, u) /\ m.snapshotIndex \in Nat /\ Keeping(m, u)
  BY NodeReads
<1>2. /\ n \in NodeState /\ v \in Seq(LogEntry) /\ LastIndex(n) = Len(v) /\ Len(v) \in Nat
      /\ Known(h, v) /\ n.snapshotIndex \in Nat /\ Keeping(n, v)
  BY NodeReads
<1> HIDE DEF m, n, u, v
<1>3. ASSUME NEW k \in low + 1 .. high, TermAt(m, k) = TermAt(n, k),
             NEW l \in low + 1 .. k
      PROVE  TermAt(m, l) = TermAt(n, l) /\ CommandAt(m, l) = CommandAt(n, l)
  <2>1. \A x \in low + 1 .. high :
          /\ x \in m.snapshotIndex .. Len(u) /\ x \in m.snapshotIndex + 1 .. Len(u)
          /\ x \in n.snapshotIndex .. Len(v) /\ x \in n.snapshotIndex + 1 .. Len(v)
          /\ x \in 1 .. Len(u) /\ x <= Len(v) /\ x # 0 /\ x \in Nat
    BY <1>1, <1>2, SMTT(30) DEF Larger, Smaller
  <2>2. ASSUME NEW x \in low + 1 .. high
        PROVE  /\ TermAt(m, x) = u[x].term /\ CommandAt(m, x) = u[x].cmd
               /\ TermAt(n, x) = v[x].term /\ CommandAt(n, x) = v[x].cmd
    <3>1. /\ x \in m.snapshotIndex .. Len(u) /\ x \in m.snapshotIndex + 1 .. Len(u)
          /\ x \in n.snapshotIndex .. Len(v) /\ x \in n.snapshotIndex + 1 .. Len(v) /\ x # 0
      BY <2>1
    <3> QED BY <1>1, <1>2, <3>1, KeepingReads DEF TermOf
  <2>3. u[k].term = v[k].term
    BY <1>3, <2>2
  <2>4. Share(u, v, k)
    <3>1. k \in 1 .. Len(u) /\ k <= Len(v)
      BY <2>1
    <3> QED BY <1>1, <1>2, <2>3, <3>1, KnownMeet
  <2>5. l \in low + 1 .. high /\ l \in 1 .. k
    <3>1. low \in Nat /\ k \in Nat /\ k <= high /\ high \in Nat
      BY <1>1, <1>2 DEF Larger, Smaller
    <3> QED BY <3>1
  <2>6. u[l] = v[l]
    BY <2>4, <2>5 DEF Share
  <2> QED BY <2>2, <2>5, <2>6
<1> QED BY <1>3 DEF m, n

\* Entries that were committed at one index are one entry.
LEMMA ExplainedAgree ==
  ASSUME NEW h, Explains(h), NEW r \in committed, NEW q \in committed, r.index = q.index
  PROVE  r.term = q.term /\ r.cmd = q.cmd
<1>1. RecordSound(h, r) /\ RecordSound(h, q) /\ Sound(h) /\ h \in History
  BY DEF Explains, RecordsExplained, Sound
<1>2. PICK t, k \in Nat : /\ r.index <= k /\ Chosen(h, t, k)
                          /\ r.term = h.led[t][r.index].term /\ r.cmd = h.led[t][r.index].cmd
  BY <1>1 DEF RecordSound
<1>3. PICK s, l \in Nat : /\ q.index <= l /\ Chosen(h, s, l)
                          /\ q.term = h.led[s][q.index].term /\ q.cmd = h.led[s][q.index].cmd
  BY <1>1 DEF RecordSound
<1>4. t \in h.terms /\ s \in h.terms
  BY <1>2, <1>3 DEF Chosen
<1>5. r.index \in Nat \ {0}
  BY <1>1 DEF RecordSound
<1>6. h.led[t][r.index] = h.led[s][r.index]
  <2>1. CASE t < s
    <3>1. Share(h.led[s], h.led[t], k)
      BY <1>1, <1>2, <1>4, <2>1, Survives
    <3> QED BY <1>2, <1>5, <3>1 DEF Share
  <2>2. CASE s < t
    <3>1. Share(h.led[t], h.led[s], l)
      BY <1>1, <1>3, <1>4, <2>2, Survives
    <3> QED BY <1>3, <1>5, <3>1 DEF Share
  <2> QED BY <2>1, <2>2
<1> QED BY <1>2, <1>3, <1>6

\* A leader holds what was committed in an earlier term.
LEMMA ExplainedComplete ==
  ASSUME IInv, NEW h, Explains(h), NEW i \in Server, node[i].role = Leader,
         NEW r \in committed, r.committedIn < node[i].currentTerm
  PROVE  Holds(node[i], r)
<1> DEFINE n == node[i]
           w == h.whole[i]
           t == n.currentTerm
<1>1. /\ n \in NodeState /\ Sound(h) /\ w \in Seq(LogEntry) /\ Len(w) \in Nat
      /\ t \in Nat /\ n.snapshotIndex \in Nat /\ Keeping(n, w)
      /\ t \in h.terms /\ w = h.led[t]
  BY NodeReads DEF LeaderSound
<1>2. RecordSound(h, r)
  BY DEF Explains, RecordsExplained
<1>3. PICK s, k \in Nat : /\ s <= r.committedIn /\ r.index <= k /\ Chosen(h, s, k)
                          /\ r.term = h.led[s][r.index].term /\ r.cmd = h.led[s][r.index].cmd
  BY <1>2 DEF RecordSound
<1>4. r.index \in Nat \ {0} /\ r.committedIn \in Nat
  BY <1>2 DEF RecordSound
<1>5. Share(w, h.led[s], k)
  <2>1. s < t
    BY <1>1, <1>3, <1>4
  <2> QED BY <1>1, <1>3, <2>1, Survives
<1> HIDE DEF w, t, n
<1>6. r.index <= Len(w) /\ w[r.index].term = r.term /\ w[r.index].cmd = r.cmd
  <2>1. r.index \in 1 .. k /\ Len(w) \in Nat
    BY <1>1, <1>3, <1>4
  <2>2. k <= Len(w) /\ w[r.index] = h.led[s][r.index]
    BY <1>5, <2>1 DEF Share
  <2> QED BY <1>3, <2>1, <2>2
<1>7. CASE r.index <= n.snapshotIndex
  <2>1. n.snapshotData = Commands(w, n.snapshotIndex)
    BY <1>1 DEF Keeping
  <2>2. n.snapshotData[r.index] = w[r.index].cmd
    BY <1>1, <1>4, <1>7, <2>1 DEF Commands
  <2> QED BY <1>6, <1>7, <2>2 DEF Holds, n
<1>8. CASE ~(r.index <= n.snapshotIndex)
  <2>1. /\ r.index \in n.snapshotIndex .. Len(w) /\ r.index \in n.snapshotIndex + 1 .. Len(w)
        /\ r.index # 0
    BY <1>1, <1>4, <1>6, <1>8
  <2>2. TermAt(n, r.index) = w[r.index].term /\ CommandAt(n, r.index) = w[r.index].cmd
    BY <1>1, <2>1, KeepingReads DEF TermOf
  <2> QED BY <1>6, <1>8, <2>2 DEF Holds, n
<1> QED BY <1>7, <1>8

\* What a state machine and a snapshot have is what was committed.
LEMMA ExplainedMachines ==
  ASSUME IInv, NEW h, Explains(h)
  PROVE  StateMachineSafety
<1> SUFFICES ASSUME NEW i \in Server
             PROVE  /\ Len(node[i].sm) = node[i].lastApplied /\ Recorded(node[i].sm)
                    /\ Len(node[i].snapshotData) = node[i].snapshotIndex
                    /\ Recorded(node[i].snapshotData)
  BY DEF StateMachineSafety, Recorded
<1> DEFINE n == node[i]
           w == h.whole[i]
<1>1. /\ n.snapshotIndex \in Nat /\ n.lastApplied \in Nat /\ n.snapshotIndex <= n.lastApplied
      /\ n.sm = Commands(w, n.lastApplied) /\ n.snapshotData = Commands(w, n.snapshotIndex)
  BY NodeReads DEF Keeping
<1>2. Recorded(n.sm)
  BY NodeExplained
<1> HIDE DEF n, w
<1>3. /\ Len(n.sm) = n.lastApplied /\ Len(n.snapshotData) = n.snapshotIndex
      /\ \A k \in 1 .. n.snapshotIndex : n.snapshotData[k] = n.sm[k]
  BY <1>1 DEF Commands
<1>4. Recorded(n.snapshotData)
  BY <1>1, <1>2, <1>3 DEF Recorded
<1> QED BY <1>2, <1>3, <1>4 DEF n

\* What a leader knows of a peer in its term, the peer holds.
LEMMA ExplainedPeers ==
  ASSUME IInv, NEW h, Explains(h)
  PROVE  MatchSound
<1> SUFFICES ASSUME NEW i \in Server, NEW p \in Server, node[i].role = Leader,
                    node[p].currentTerm = node[i].currentTerm
             PROVE  /\ node[i].matchIndex[p] <= LastIndex(node[i])
                    /\ node[i].matchIndex[p] <= LastIndex(node[p])
                    /\ \A k \in Larger(node[i].snapshotIndex, node[p].snapshotIndex) + 1
                               .. node[i].matchIndex[p] :
                         TermAt(node[i], k) = TermAt(node[p], k)
  BY DEF MatchSound
<1> DEFINE n == node[i]
           o == node[p]
           u == h.whole[i]
           v == h.whole[p]
           t == n.currentTerm
           c == n.matchIndex[p]
<1>1. /\ n \in NodeState /\ Sound(h) /\ h \in History /\ u \in Seq(LogEntry) /\ Len(u) \in Nat
      /\ t \in Nat /\ n.snapshotIndex \in Nat /\ Keeping(n, u) /\ LastIndex(n) = Len(u)
      /\ t \in h.terms /\ u = h.led[t] /\ c <= h.held[p][t]
  BY NodeReads DEF LeaderSound
<1>2. /\ o \in NodeState /\ v \in Seq(LogEntry) /\ Len(v) \in Nat
      /\ o.snapshotIndex \in Nat /\ Keeping(o, v) /\ LastIndex(o) = Len(v) /\ h.now[p] = t
  BY NodeReads
<1>3. c \in Nat /\ h.held[p][t] \in Nat
  BY <1>1, HistoryTypes DEF NodeState
<1>4. c # 0 => Share(v, u, c)
  <2> SUFFICES ASSUME c # 0 PROVE Share(v, u, c)
    OBVIOUS
  <2>1. c \in 1 .. h.held[p][t]
    BY <1>1, <1>3
  <2>2. Kept(h)
    BY <1>1 DEF Sound
  <2> HIDE DEF c, t
  <2>3. Share(v, h.led[t], c) \/ \E r \in Nat : t < r /\ r <= h.now[p]
    BY <1>1, <2>1, <2>2 DEF Kept
  <2> QED BY <1>1, <1>2, <2>3
<1> HIDE DEF n, o, u, v, t, c
<1>5. c <= Len(u) /\ c <= Len(v)
  BY <1>1, <1>2, <1>3, <1>4 DEF Share
<1>6. ASSUME NEW k \in Larger(n.snapshotIndex, o.snapshotIndex) + 1 .. c
      PROVE  TermAt(n, k) = TermAt(o, k)
  <2>1. /\ k \in n.snapshotIndex .. Len(u) /\ k \in o.snapshotIndex .. Len(v)
        /\ k \in 1 .. c /\ k # 0 /\ c # 0
    BY <1>1, <1>2, <1>3, <1>5 DEF Larger
  <2>2. TermAt(n, k) = u[k].term /\ TermAt(o, k) = v[k].term
    BY <1>1, <1>2, <2>1, KeepingReads DEF TermOf
  <2>3. u[k] = v[k]
    BY <1>4, <2>1 DEF Share
  <2> QED BY <2>2, <2>3
<1> QED BY <1>1, <1>2, <1>5, <1>6 DEF n, o, c

-----------------------------------------------------------------------------
(* The invariants *)

\* With a fixed membership the node that a client is sent to did win the current term.
THEOREM HintsAreSound ==
  ASSUME ~MembershipChanges
  PROVE  Spec => []LeaderHintSound
<1>1. LInv => LeaderHintSound
  BY DEF LInv, Explains, OfficesExplained
<1> QED BY <1>1, LogInvariance, PTL

\* With a fixed membership logs that agree on an entry agree on everything before it.
THEOREM LogsMatch ==
  ASSUME ~MembershipChanges
  PROVE  Spec => []LogMatching
<1>1. IInv /\ LInv => LogMatching
  BY ExplainedMatch DEF LInv
<1> QED BY <1>1, LogInvariance, PTL

\* With a fixed membership a leader never takes for acknowledged what its peer does not
\* hold, however late, often or out of order the acknowledgements arrive.
THEOREM MatchesAreSound ==
  ASSUME ~MembershipChanges
  PROVE  Spec => []MatchSound
<1>1. IInv /\ LInv => MatchSound
  BY ExplainedPeers DEF LInv
<1> QED BY <1>1, LogInvariance, PTL

\* With a fixed membership the leader of a later term has every committed entry, whatever
\* it had when it was elected.
THEOREM LeadersComplete ==
  ASSUME ~MembershipChanges
  PROVE  Spec => []LeaderCompleteness
<1>1. IInv /\ LInv => LeaderCompleteness
  BY ExplainedComplete DEF LInv, LeaderCompleteness
<1> QED BY <1>1, LogInvariance, PTL

\* With a fixed membership no two nodes ever commit different entries at one index.
THEOREM CommitsAgree ==
  ASSUME ~MembershipChanges
  PROVE  Spec => []CommittedAgree
<1>1. LInv => CommittedAgree
  BY ExplainedAgree DEF LInv, CommittedAgree
<1> QED BY <1>1, LogInvariance, PTL

\* With a fixed membership every state machine has been fed the committed log, from its
\* first entry and without a gap, and every snapshot is a prefix of it.
THEOREM StateMachinesSafe ==
  ASSUME ~MembershipChanges
  PROVE  Spec => []StateMachineSafety
<1>1. IInv /\ LInv => StateMachineSafety
  BY ExplainedMachines DEF LInv
<1> QED BY <1>1, LogInvariance, PTL

\* With a fixed membership the commit index lies inside the log.
THEOREM CommitsInLog ==
  ASSUME ~MembershipChanges
  PROVE  Spec => []CommitInLog
<1>1. ASSUME IInv, LInv PROVE CommitInLog
  <2>1. PICK h : Explains(h)
    BY <1>1 DEF LInv
  <2>2. ASSUME NEW i \in Server
        PROVE  /\ node[i].snapshotIndex <= node[i].commitIndex
               /\ node[i].commitIndex <= LastIndex(node[i])
    <3>1. /\ node[i].snapshotIndex <= node[i].commitIndex
          /\ node[i].commitIndex <= node[i].lastApplied
          /\ node[i].lastApplied <= LastIndex(node[i])
          /\ node[i].commitIndex \in Nat /\ node[i].lastApplied \in Nat
          /\ LastIndex(node[i]) \in Nat
      BY <1>1, <2>1, NodeReads
    <3> QED BY <3>1
  <2> QED BY <2>2 DEF CommitInLog
<1> QED BY <1>1, LogInvariance, PTL

\* With a fixed membership nothing is left to apply or to compact between two events.
THEOREM NothingLeftToApply ==
  ASSUME ~MembershipChanges
  PROVE  Spec => []AppliedCaughtUp
<1>1. ASSUME IInv, LInv PROVE AppliedCaughtUp
  <2>1. PICK h : Explains(h)
    BY <1>1 DEF LInv
  <2>2. \A i \in Server : Rooted(h, i, node[i]) /\ node[i].lastApplied >= node[i].commitIndex
    BY <2>1 DEF Explains, NodesExplained
  <2> QED BY <2>2 DEF AppliedCaughtUp, Rooted, Compacted
<1> QED BY <1>1, LogInvariance, PTL

\* With a fixed membership a leader's next_index for every peer lies inside or just after
\* its log, whatever rejections have moved it.
THEOREM ProgressInLog ==
  ASSUME ~MembershipChanges
  PROVE  Spec => []ProgressTracksMembers
<1>1. ASSUME IInv, LInv PROVE ProgressTracksMembers
  <2>1. PICK h : Explains(h)
    BY <1>1 DEF LInv
  <2>2. ASSUME NEW i \in Server, node[i].role = Leader, NEW p \in Peers(i, node[i])
        PROVE  node[i].nextIndex[p] \in 1 .. LastIndex(node[i]) + 1
    <3>1. p \in Server
      BY <1>1, <2>2, NodeFacts
    <3>2. /\ node[i] \in NodeState /\ LeaderSound(h, i, node[i])
          /\ LastIndex(node[i]) \in Nat
      BY <1>1, <2>1, NodeReads
    <3>3. /\ node[i].nextIndex[p] \in Nat
          /\ node[i].nextIndex[p] <= LastIndex(node[i]) + 1 /\ node[i].nextIndex[p] # 0
      BY <2>2, <3>1, <3>2 DEF LeaderSound, NodeState
    <3> QED BY <3>2, <3>3
  <2> QED BY <2>2 DEF ProgressTracksMembers
<1> QED BY <1>1, LogInvariance, PTL

-----------------------------------------------------------------------------
(* The steps *)

\* What a step that goes on from history h to g does to the log of a node.
LEMMA StepReads ==
  ASSUME IInv, IInv', NEW h, NEW g, Explains(h), Explains(g)', Evolves(h, g), NEW i \in Server
  PROVE  /\ node'[i] \in NodeState /\ g \in History
         /\ g.whole[i] \in Seq(LogEntry) /\ LastIndex(node'[i]) = Len(g.whole[i])
         /\ Len(g.whole[i]) \in Nat /\ Keeping(node'[i], g.whole[i])
         /\ LeaderSound(g, i, node'[i])
         /\ node'[i].snapshotIndex \in Nat /\ node[i].snapshotIndex <= node'[i].snapshotIndex
         /\ node[i].currentTerm <= node'[i].currentTerm
         /\ node[i].lastApplied # 0 => Share(h.whole[i], g.whole[i], node[i].lastApplied)
<1>1. Rooted(g, i, node'[i])
  BY DEF Explains, NodesExplained
<1>2. /\ node'[i] \in NodeState /\ g \in History /\ g.now[i] = node'[i].currentTerm
      /\ Keeping(node'[i], g.whole[i]) /\ LeaderSound(g, i, node'[i])
  BY <1>1 DEF Rooted, Sane, Sound, NodeSound
<1>3. /\ g.whole[i] \in Seq(LogEntry) /\ Len(g.whole[i]) \in Nat
      /\ node'[i].snapshotIndex \in Nat /\ LastIndex(node'[i]) = Len(g.whole[i])
  BY <1>2, HistoryTypes DEF NodeState, Keeping
<1>4. h.now[i] = node[i].currentTerm
  BY NodeReads
<1> QED BY <1>2, <1>3, <1>4 DEF Evolves, Follows

\* A leader's log goes on from itself.
LEMMA StepAppends ==
  ASSUME IInv, IInv', NEW h, NEW g, Explains(h), Explains(g)', Evolves(h, g), NEW i \in Server,
         node[i].role = Leader, node'[i].role = Leader,
         node[i].currentTerm = node'[i].currentTerm
  PROVE  /\ LastIndex(node[i]) <= LastIndex(node'[i])
         /\ \A k \in node'[i].snapshotIndex + 1 .. LastIndex(node[i]) :
              /\ TermAt(node'[i], k) = TermAt(node[i], k)
              /\ CommandAt(node'[i], k) = CommandAt(node[i], k)
<1> DEFINE m == node[i]
           n == node'[i]
           u == h.whole[i]
           v == g.whole[i]
           t == m.currentTerm
<1>1. /\ m \in NodeState /\ u \in Seq(LogEntry) /\ LastIndex(m) = Len(u) /\ Len(u) \in Nat
      /\ m.snapshotIndex \in Nat /\ Keeping(m, u) /\ t \in h.terms /\ u = h.led[t]
  BY NodeReads DEF LeaderSound
<1>2. /\ n \in NodeState /\ v \in Seq(LogEntry) /\ LastIndex(n) = Len(v) /\ Len(v) \in Nat
      /\ n.snapshotIndex \in Nat /\ Keeping(n, v) /\ v = g.led[t]
      /\ m.snapshotIndex <= n.snapshotIndex
  BY StepReads DEF LeaderSound
<1>3. Share(u, v, Len(u))
  BY <1>1, <1>2 DEF Evolves, Follows
<1> HIDE DEF m, n, u, v, t
<1>4. Len(u) <= Len(v)
  BY <1>3 DEF Share
<1>5. ASSUME NEW k \in n.snapshotIndex + 1 .. Len(u)
      PROVE  TermAt(n, k) = TermAt(m, k) /\ CommandAt(n, k) = CommandAt(m, k)
  <2>1. /\ k \in m.snapshotIndex .. Len(u) /\ k \in m.snapshotIndex + 1 .. Len(u)
        /\ k \in n.snapshotIndex .. Len(v) /\ k \in n.snapshotIndex + 1 .. Len(v)
        /\ k # 0 /\ k \in 1 .. Len(u)
    BY <1>1, <1>2, <1>4
  <2>2. /\ TermAt(m, k) = u[k].term /\ CommandAt(m, k) = u[k].cmd
        /\ TermAt(n, k) = v[k].term /\ CommandAt(n, k) = v[k].cmd
    BY <1>1, <1>2, <2>1, KeepingReads, SMTT(30) DEF TermOf
  <2>3. u[k] = v[k]
    BY <1>3, <2>1 DEF Share
  <2> QED BY <2>2, <2>3
<1> QED BY <1>1, <1>2, <1>4, <1>5 DEF m, n

\* What a node holds to be committed it keeps.
LEMMA StepKeeps ==
  ASSUME IInv, IInv', NEW h, NEW g, Explains(h), Explains(g)', Evolves(h, g), NEW i \in Server
  PROVE  /\ node[i].commitIndex <= LastIndex(node'[i])
         /\ \A k \in node'[i].snapshotIndex + 1 .. node[i].commitIndex :
              TermAt(node'[i], k) = TermAt(node[i], k)
<1> DEFINE m == node[i]
           n == node'[i]
           u == h.whole[i]
           v == g.whole[i]
           c == m.commitIndex
<1>1. /\ m \in NodeState /\ u \in Seq(LogEntry) /\ LastIndex(m) = Len(u) /\ Len(u) \in Nat
      /\ m.snapshotIndex \in Nat /\ Keeping(m, u) /\ c \in Nat /\ m.lastApplied \in Nat
      /\ c <= m.lastApplied /\ m.lastApplied <= Len(u)
  BY NodeReads
<1>2. /\ n \in NodeState /\ v \in Seq(LogEntry) /\ LastIndex(n) = Len(v) /\ Len(v) \in Nat
      /\ n.snapshotIndex \in Nat /\ Keeping(n, v) /\ m.snapshotIndex <= n.snapshotIndex
      /\ m.lastApplied # 0 => Share(u, v, m.lastApplied)
  BY StepReads
<1> HIDE DEF m, n, u, v, c
<1>3. c <= Len(v) /\ \A k \in 1 .. c : u[k] = v[k]
  BY <1>1, <1>2 DEF Share
<1>4. ASSUME NEW k \in n.snapshotIndex + 1 .. c
      PROVE  TermAt(n, k) = TermAt(m, k)
  <2>1. /\ k \in m.snapshotIndex .. Len(u) /\ k \in n.snapshotIndex .. Len(v)
        /\ k # 0 /\ k \in 1 .. c
    BY <1>1, <1>2, <1>3
  <2>2. TermAt(m, k) = u[k].term /\ TermAt(n, k) = v[k].term
    BY <1>1, <1>2, <2>1, KeepingReads DEF TermOf
  <2> QED BY <1>3, <2>1, <2>2
<1> QED BY <1>2, <1>3, <1>4 DEF m, n, c

\* Every step has explanations before and after it that go on from one another.
LEMMA StepExplained ==
  ASSUME ~MembershipChanges, IInv, LInv, [Next]_vars
  PROVE  IInv' /\ \E h, g \in History : Explains(h) /\ Explains(g)' /\ Evolves(h, g)
<1>1. PICK h \in History : Explains(h)
  BY DEF LInv
<1>2. GoesOn(h)
  BY <1>1, NextLog
<1> QED BY <1>1, <1>2, NextInv DEF GoesOn

\* With a fixed membership a leader only ever appends to its log.
THEOREM LeadersAppendOnly ==
  ASSUME ~MembershipChanges
  PROVE  Spec => LeaderAppendOnly
<1> DEFINE A == \A i \in Server :
                  /\ node[i].role = Leader /\ node'[i].role = Leader
                  /\ node[i].currentTerm = node'[i].currentTerm
                  => /\ LastIndex(node[i]) <= LastIndex(node'[i])
                     /\ \A k \in node'[i].snapshotIndex + 1 .. LastIndex(node[i]) :
                          /\ TermAt(node'[i], k) = TermAt(node[i], k)
                          /\ CommandAt(node'[i], k) = CommandAt(node[i], k)
<1>1. IInv /\ LInv /\ [Next]_vars => [A]_vars
  <2> SUFFICES ASSUME IInv, LInv, [Next]_vars PROVE A
    OBVIOUS
  <2>1. IInv' /\ \E h, g \in History : Explains(h) /\ Explains(g)' /\ Evolves(h, g)
    BY StepExplained
  <2>2. PICK h, g \in History : Explains(h) /\ Explains(g)' /\ Evolves(h, g)
    BY <2>1
  <2> QED BY <2>1, <2>2, StepAppends
<1> QED BY <1>1, LogInvariance, PTL DEF LeaderAppendOnly, Spec

\* With a fixed membership no step takes back a term, a snapshot or an entry that the node
\* held to be committed.
THEOREM PromisesKept ==
  ASSUME ~MembershipChanges
  PROVE  Spec => NothingTakenBack
<1> DEFINE A == \A i \in Server :
                  /\ node[i].currentTerm <= node'[i].currentTerm
                  /\ node[i].snapshotIndex <= node'[i].snapshotIndex
                  /\ node[i].commitIndex <= LastIndex(node'[i])
                  /\ \A k \in node'[i].snapshotIndex + 1 .. node[i].commitIndex :
                       TermAt(node'[i], k) = TermAt(node[i], k)
<1>1. IInv /\ LInv /\ [Next]_vars => [A]_vars
  <2> SUFFICES ASSUME IInv, LInv, [Next]_vars PROVE A
    OBVIOUS
  <2>1. IInv' /\ \E h, g \in History : Explains(h) /\ Explains(g)' /\ Evolves(h, g)
    BY StepExplained
  <2>2. PICK h, g \in History : Explains(h) /\ Explains(g)' /\ Evolves(h, g)
    BY <2>1
  <2> QED BY <2>1, <2>2, StepKeeps, StepReads
<1> QED BY <1>1, LogInvariance, PTL DEF NothingTakenBack, Spec

-----------------------------------------------------------------------------
(* The refinement of module ReplicatedLog *)

\* A sequence that goes on as s does begins with s.
LEMMA BeginsWith ==
  ASSUME NEW S, NEW s \in Seq(S), NEW t \in Seq(S), Len(s) <= Len(t),
         \A k \in 1 .. Len(s) : s[k] = t[k]
  PROVE  s = SubSeq(t, 1, Len(s))
<1> DEFINE u == SubSeq(t, 1, Len(s))
<1>1. Len(s) \in Nat /\ Len(t) \in Nat
  OBVIOUS
<1>2. \A k \in 1 .. Len(s) : t[k] \in S
  BY <1>1
<1>3. /\ u \in Seq(S) /\ Len(u) = IF 1 <= Len(s) THEN Len(s) - 1 + 1 ELSE 0
      /\ \A k \in 1 .. Len(s) - 1 + 1 : u[k] = t[1 + k - 1]
  BY <1>1, <1>2, SubSeqProperties
<1>4. Len(u) = Len(s)
  BY <1>1, <1>3
<1>5. \A k \in 1 .. Len(s) : k \in 1 .. Len(s) - 1 + 1 /\ 1 + k - 1 = k
  BY <1>1
<1>6. \A k \in 1 .. Len(s) : u[k] = s[k]
  BY <1>3, <1>5
<1> HIDE DEF u
<1>7. u = s
  BY <1>3, <1>4, <1>6, SeqEqual
<1> QED BY <1>7 DEF u

\* The indices on the record are those from 1 to the length of the committed log.
LEMMA RecordIndices ==
  ASSUME NoGap, Bounded, \A r \in committed : r.index \in Nat \ {0}
  PROVE  /\ Cardinality({r.index : r \in committed}) \in Nat
         /\ {r.index : r \in committed} = 1 .. Cardinality({r.index : r \in committed})
<1> DEFINE S == {r.index : r \in committed}
<1>1. S \in SUBSET Nat /\ 0 \notin S
  OBVIOUS
<1>2. PICK b \in Nat : \A y \in S : y <= b
  BY DEF Bounded
<1>3. \A y \in S : \A k \in 1 .. y : k \in S
  BY DEF NoGap
<1> HIDE DEF S
<1>4. PICK top \in Nat : S = 1 .. top
  <2>1. CASE S = {}
    <3>1. S = 1 .. 0
      BY <2>1
    <3> QED BY <3>1
  <2>2. CASE S # {}
    <3> DEFINE top == Largest(S)
    <3>1. top \in S /\ \A y \in S : y <= top
      BY <1>1, <1>2, <2>2, LargestType
    <3> HIDE DEF top
    <3>2. top \in Nat /\ \A y \in S : y \in Nat /\ y # 0
      BY <1>1, <3>1
    <3>3. \A y \in S : y \in 1 .. top
      BY <3>1, <3>2
    <3>4. \A y \in 1 .. top : y \in S
      BY <1>3, <3>1
    <3>5. S = 1 .. top
      BY <3>3, <3>4
    <3> QED BY <3>2, <3>5
  <2> QED BY <2>1, <2>2
<1>5. Cardinality(1 .. top) = top
  <2>1. Cardinality(1 .. top) = IF 1 > top THEN 0 ELSE top - 1 + 1
    BY FS_Interval
  <2> QED BY <2>1
<1> QED BY <1>4, <1>5 DEF S

\* The committed log is the record in order, and every state machine is at a place in it.
LogFed ==
  /\ CommittedLog \in Seq(Command) /\ Len(CommittedLog) \in Nat
  /\ \A r \in committed :
       r.index \in 1 .. Len(CommittedLog) /\ CommittedLog[r.index] = r.cmd
  /\ \A k \in 1 .. Len(CommittedLog) : \E r \in committed : r.index = k
  /\ \A i \in Server :
       /\ Len(node[i].sm) = node[i].lastApplied /\ node[i].lastApplied \in Nat
       /\ Len(node[i].sm) <= Len(CommittedLog)
       /\ node[i].sm = SubSeq(CommittedLog, 1, Len(node[i].sm))

\* It is so in a state that has an explanation.
LEMMA ExplainedFed == IInv /\ LInv => LogFed
<1> SUFFICES ASSUME IInv, LInv PROVE LogFed
  OBVIOUS
<1>1. PICK h \in History : Explains(h)
  BY DEF LInv
<1> DEFINE N == Cardinality({r.index : r \in committed})
           at(k) == CHOOSE r \in committed : r.index = k
           c == CommittedLog
<1>2. \A r \in committed : RecordSound(h, r) /\ r.index \in Nat \ {0}
  BY <1>1 DEF Explains, RecordsExplained, RecordSound
<1>3. N \in Nat /\ {r.index : r \in committed} = 1 .. N
  BY <1>1, <1>2, RecordIndices DEF Explains, RecordsExplained
<1>4. ASSUME NEW r \in committed
      PROVE  r.cmd \in Command
  <2>1. PICK t, k \in Nat : r.index <= k /\ Chosen(h, t, k) /\ r.cmd = h.led[t][r.index].cmd
    BY <1>2 DEF RecordSound
  <2>2. t \in h.terms /\ k <= Len(h.led[t])
    BY <2>1 DEF Chosen
  <2>3. h.led[t] \in Seq(LogEntry) /\ Len(h.led[t]) \in Nat
    BY <1>1, <2>1, HistoryTypes
  <2>4. r.index \in 1 .. Len(h.led[t])
    BY <1>2, <2>1, <2>2, <2>3
  <2> QED BY <2>1, <2>3, <2>4, EntryTypes
<1>5. \A k \in 1 .. N : at(k) \in committed /\ at(k).index = k
  BY <1>3
<1>6. c = [k \in 1 .. N |-> at(k).cmd]
  BY Zenon DEF CommittedLog
<1> HIDE DEF N, at, c
<1>7. c \in [1 .. N -> Command]
  BY <1>4, <1>5, <1>6
<1>8. c \in Seq(Command)
  BY <1>3, <1>7, SeqDef
<1>9. Len(c) = N
  <2>1. DOMAIN c = 1 .. N /\ Len(c) \in Nat /\ DOMAIN c = 1 .. Len(c)
    BY <1>7, <1>8, LenProperties
  <2> QED BY <1>3, <2>1
<1>10. \A r \in committed : r.index \in 1 .. Len(c) /\ c[r.index] = r.cmd
  <2> SUFFICES ASSUME NEW r \in committed
               PROVE  r.index \in 1 .. Len(c) /\ c[r.index] = r.cmd
    OBVIOUS
  <2>1. r.index \in 1 .. N
    BY <1>3
  <2>2. at(r.index) \in committed /\ at(r.index).index = r.index
    BY <1>5, <2>1
  <2>3. at(r.index).cmd = r.cmd
    BY <1>1, <2>2, ExplainedAgree
  <2> QED BY <1>6, <1>9, <2>1, <2>3
<1>11. \A k \in 1 .. Len(c) : \E r \in committed : r.index = k
  BY <1>5, <1>9
<1>12. ASSUME NEW i \in Server
       PROVE  /\ Len(node[i].sm) = node[i].lastApplied /\ node[i].lastApplied \in Nat
              /\ Len(node[i].sm) <= Len(c)
              /\ node[i].sm = SubSeq(c, 1, Len(node[i].sm))
  <2> DEFINE s == node[i].sm
  <2>1. Len(s) = node[i].lastApplied /\ \A k \in 1 .. Len(s) : \E r \in committed :
                                            r.index = k /\ r.cmd = s[k]
    BY <1>1, ExplainedMachines DEF StateMachineSafety
  <2>2. node[i].lastApplied \in Nat /\ s \in Seq(Command)
    BY <1>1, NodeReads DEF NodeState
  <2> HIDE DEF s
  <2>3. \A k \in 1 .. Len(s) : k \in 1 .. Len(c) /\ s[k] = c[k]
    BY <1>10, <2>1
  <2>4. Len(s) <= Len(c)
    <3>1. CASE Len(s) = 0
      BY <1>3, <1>9, <3>1
    <3>2. CASE Len(s) # 0
      <4>1. Len(s) \in 1 .. Len(s)
        BY <2>1, <2>2, <3>2
      <4>2. Len(s) \in 1 .. Len(c)
        BY <2>3, <4>1
      <4> QED BY <1>3, <1>9, <4>2
    <3> QED BY <3>1, <3>2
  <2>5. s = SubSeq(c, 1, Len(s))
    BY <1>8, <2>2, <2>3, <2>4, BeginsWith
  <2> QED BY <2>1, <2>2, <2>4, <2>5 DEF s
<1> QED BY <1>3, <1>8, <1>9, <1>10, <1>11, <1>12 DEF LogFed, c

\* The event of a live node: it may change, and what was observed may grow.
Moves(i) ==
  /\ alive[i] /\ UNCHANGED alive
  /\ \A j \in Server \ {i} : node'[j] = node[j]
  /\ committed \subseteq committed'
  /\ leaderOfTerm \subseteq leaderOfTerm' /\ votesByTerm \subseteq votesByTerm'

\* Every handler that ends in post is such an event.
LEMMA FinishMoves ==
  ASSUME NEW i \in Server
  PROVE  /\ \A n, out : Finish(i, n, out) => Moves(i)
         /\ \A n, out : Post(i, n, out) => Moves(i)
<1>1. ASSUME NEW n, NEW out, Finish(i, n, out)
      PROVE  Moves(i)
  <2>1. \E a : alive[i] /\ Save(i, a) /\ Observe(i, n, a) /\ UNCHANGED alive
    BY <1>1, Zenon DEF Finish
  <2> QED BY <2>1 DEF Save, Observe, Moves
<1> QED BY <1>1, Zenon DEF Post

\* on_message is one.
LEMMA ReceiveMoves ==
  ASSUME IInv, NEW m \in msgs, Receive(m.dst, m)
  PROVE  m.dst \in Server /\ Moves(m.dst)
<1> DEFINE i == m.dst
<1>1. m.type # "ClientReply"
  BY DEF Receive, HandlePreVote, HandlePreVoteResp, HandleRequestVote, HandleRequestVoteResp,
         HandleAppendEntries, HandleAppendEntriesResp, HandleInstallSnapshot,
         HandleInstallSnapshotResp, HandleMemberRequest
<1>2. i \in Server
  BY <1>1, MessageOfType DEF IInv, MessageInv, MessagesTyped
<1> HIDE DEF i
<1>3. \A n, out : Post(i, n, out) => Moves(i)
  BY <1>2, FinishMoves
<1>4. HandlePreVote(i, m) => Moves(i)
  BY <1>3, Zenon DEF HandlePreVote
<1>5. HandlePreVoteResp(i, m) => Moves(i)
  BY <1>3, Zenon DEF HandlePreVoteResp
<1>6. HandleRequestVote(i, m) => Moves(i)
  BY <1>3, Zenon DEF HandleRequestVote
<1>7. HandleRequestVoteResp(i, m) => Moves(i)
  BY <1>3, Zenon DEF HandleRequestVoteResp
<1>8. HandleAppendEntries(i, m) => Moves(i)
  BY <1>3, Zenon DEF HandleAppendEntries
<1>9. \A p, match : Acknowledge(i, p, match) => Moves(i)
  BY <1>3, Zenon DEF Acknowledge
<1>10. HandleAppendEntriesResp(i, m) => Moves(i)
  BY <1>3, <1>9, Zenon DEF HandleAppendEntriesResp
<1>11. HandleInstallSnapshot(i, m) => Moves(i)
  BY <1>3, Zenon DEF HandleInstallSnapshot
<1>12. HandleInstallSnapshotResp(i, m) => Moves(i)
  BY <1>3, <1>9, Zenon DEF HandleInstallSnapshotResp
<1>13. HandleMemberRequest(i, m) => Moves(i)
  BY <1>3, Zenon DEF HandleMemberRequest, HandleClientRequest
<1> QED BY <1>2, <1>4, <1>5, <1>6, <1>7, <1>8, <1>10, <1>11, <1>12, <1>13, Zenon
        DEF Receive, i

\* A step is the event of a live node, a crash or a restart, or it changes neither the nodes
\* nor the record.
LEMMA StepShape ==
  ASSUME IInv, [Next]_vars
  PROVE  \/ \E i \in Server : Moves(i)
         \/ \E i \in Server : Crash(i) \/ Restart(i)
         \/ UNCHANGED <<node, alive, committed>>
<1>1. ASSUME NEW i \in Server, Timeout(i) PROVE Moves(i)
  <2>1. \E n, out : Finish(i, n, out)
    BY <1>1, Zenon DEF Timeout
  <2> QED BY <2>1, FinishMoves
<1>2. ASSUME NEW i \in Server, Heartbeat(i) PROVE Moves(i)
  <2>1. \E n, out : Post(i, n, out)
    BY <1>2, Zenon DEF Heartbeat
  <2> QED BY <2>1, FinishMoves
<1>3. ASSUME NEW i \in Server, NEW c, NEW s, ClientRequest(i, c, s) PROVE Moves(i)
  <2>1. \E n, out : Post(i, n, out)
    BY <1>3, Zenon DEF ClientRequest, HandleClientRequest
  <2> QED BY <2>1, FinishMoves
<1>4. ASSUME NEW i, MemberChange(i) PROVE UNCHANGED <<node, alive, committed>>
  BY <1>4 DEF MemberChange
<1>5. ASSUME NEW c, ClientBegin(c) PROVE UNCHANGED <<node, alive, committed>>
  BY <1>5 DEF ClientBegin
<1>6. UNCHANGED vars => UNCHANGED <<node, alive, committed>>
  BY DEF vars
<1>7. ASSUME NEW m \in msgs, Receive(m.dst, m) PROVE \E i \in Server : Moves(i)
  BY <1>7, ReceiveMoves
<1> QED BY <1>1, <1>2, <1>3, <1>4, <1>5, <1>6, <1>7, Zenon DEF Next

\* When the record grows the committed log is extended.
LEMMA RecordGrows ==
  ASSUME LogFed, LogFed', committed \subseteq committed'
  PROVE  Log!Commit
<1> DEFINE c == CommittedLog
           d == CommittedLog'
<1>1. c \in Seq(Command) /\ Len(c) \in Nat /\ d \in Seq(Command) /\ Len(d) \in Nat
  BY DEF LogFed
<1>2. ASSUME NEW k \in 1 .. Len(c)
      PROVE  k \in 1 .. Len(d) /\ c[k] = d[k]
  <2>1. PICK r \in committed : r.index = k
    BY DEF LogFed
  <2>2. c[k] = r.cmd
    BY <2>1 DEF LogFed
  <2>3. r \in committed'
    BY <2>1
  <2>4. r.index \in 1 .. Len(d) /\ d[r.index] = r.cmd
    BY <2>3 DEF LogFed
  <2> QED BY <2>1, <2>2, <2>4
<1> HIDE DEF c, d
<1>3. Len(c) <= Len(d)
  <2>1. CASE Len(c) = 0
    BY <1>1, <2>1
  <2>2. CASE Len(c) # 0
    <3>1. Len(c) \in 1 .. Len(c)
      BY <1>1, <2>2
    <3>2. Len(c) \in 1 .. Len(d)
      BY <1>2, <3>1
    <3> QED BY <1>1, <3>2
  <2> QED BY <2>1, <2>2
<1>4. c = SubSeq(d, 1, Len(c))
  BY <1>1, <1>2, <1>3, BeginsWith
<1>5. d \in Seq(Command) /\ Len(c) <= Len(d) /\ c = SubSeq(d, 1, Len(c))
  BY <1>1, <1>3, <1>4
<1> QED BY <1>5 DEF Log!Commit, Log!Prefix, c, d

\* The event of a live node applies more of the committed log there, or nothing.
LEMMA MovesApply ==
  ASSUME LogFed, LogFed', NEW i \in Server, Moves(i), Onward(i, node'[i])
  PROVE  Log!Apply(i)
<1> DEFINE f == [j \in Server |-> node[j].sm]
           g == [j \in Server |-> node'[j].sm]
           k == Len(node'[i].sm)
<1>1. alive[i] /\ alive' = alive
  BY DEF Moves
<1>2. Log!Commit
  BY RecordGrows DEF Moves
<1>3. /\ Len(node[i].sm) = node[i].lastApplied /\ node[i].lastApplied \in Nat
      /\ k = node'[i].lastApplied /\ node'[i].lastApplied \in Nat
      /\ k <= Len(CommittedLog') /\ Len(CommittedLog') \in Nat
      /\ node'[i].sm = SubSeq(CommittedLog', 1, k)
  BY DEF LogFed
<1>4. node[i].lastApplied <= node'[i].lastApplied
  BY <1>1 DEF Onward
<1>5. f[i] = node[i].sm
  OBVIOUS
<1>6. k \in Len(f[i]) .. Len(CommittedLog')
  BY <1>3, <1>4, <1>5
<1>7. \A j \in Server \ {i} : node'[j].sm = node[j].sm
  BY DEF Moves
<1>8. g = [f EXCEPT ![i] = SubSeq(CommittedLog', 1, k)]
  BY <1>3, <1>7
<1>9. f' = g
  OBVIOUS
<1> HIDE DEF k
<1>10. \E x \in Len(f[i]) .. Len(CommittedLog') : f' = [f EXCEPT ![i] = SubSeq(CommittedLog', 1, x)]
  BY <1>6, <1>8, <1>9
<1> QED BY <1>1, <1>2, <1>10 DEF Log!Apply

\* A server that comes back has the state machine of its snapshot, and commits nothing.
LEMMA RestartRecovers ==
  ASSUME ~MembershipChanges, IInv, IInv', NEW h, Explains(h), LogFed, LogFed',
         NEW i \in Server, Restart(i), node[i].snapshotIndex <= node'[i].snapshotIndex
  PROVE  Log!Recover(i)
<1> DEFINE n == node[i]
           a == Restarted(i, n, Durable(n))
           f == [j \in Server |-> node[j].sm]
           g == [j \in Server |-> node'[j].sm]
           k == Len(node'[i].sm)
<1>1. Save(i, a) /\ Observe(i, a, a)
  <2>1. disk[i] = Durable(n)
    BY DEF IInv, StateInv, DiskCurrent
  <2> QED BY <2>1 DEF Restart
<1>2. ~alive[i] /\ alive' = [alive EXCEPT ![i] = TRUE]
  BY DEF Restart
<1>3. /\ Carried(h, h, i, n, a)
      /\ a.lastApplied = n.snapshotIndex /\ a.commitIndex = n.snapshotIndex
  <2>1. Rooted(h, i, n)
    BY NodeExplained
  <2> QED BY <2>1, RestartedCarries
<1> HIDE DEF a
<1>4. a \in NodeState /\ n.snapshotIndex <= a.snapshotIndex
  BY <1>3 DEF Carried, Rooted, Sane
<1>5. n.snapshotIndex \in Nat /\ n.lastApplied \in Nat /\ n.snapshotIndex <= n.lastApplied
  BY DEF IInv, StateInv, StateTyped, NodeState
<1>6. a.snapshotIndex \in Nat /\ a.commitIndex \in Nat /\ LastIndex(a) \in Nat
  BY <1>4, SMTT(30) DEF NodeState, LastIndex
<1>7. committed' = committed
  <2>1. a.snapshotIndex + 1 .. Smaller(a.commitIndex, LastIndex(a)) = {}
    BY <1>3, <1>4, <1>6 DEF Smaller
  <2>2. CommittedBy(a) = {}
    BY <2>1, Zenon DEF CommittedBy
  <2> QED BY <1>1, <2>2 DEF Observe
<1>8. /\ node'[i].lastApplied = a.lastApplied
      /\ \A j \in Server \ {i} : node'[j] = node[j]
  <2>1. node' = [node EXCEPT ![i] = [a EXCEPT !.dirty = FALSE]]
    BY <1>1 DEF Save
  <2>2. node'[i] = [a EXCEPT !.dirty = FALSE] /\ \A j \in Server \ {i} : node'[j] = node[j]
    BY <2>1 DEF IInv, StateInv, StateTyped
  <2>3. [a EXCEPT !.dirty = FALSE].lastApplied = a.lastApplied
    BY <1>4 DEF NodeState
  <2> QED BY <2>2, <2>3
<1>9. CommittedLog' = CommittedLog
  BY <1>7 DEF CommittedLog
<1>10. /\ Len(n.sm) = n.lastApplied /\ k = node'[i].lastApplied
       /\ node'[i].sm = SubSeq(CommittedLog', 1, k)
  BY DEF LogFed
<1>11. f[i] = n.sm
  OBVIOUS
<1>12. k \in 0 .. Len(f[i])
  BY <1>3, <1>5, <1>8, <1>10, <1>11
<1>13. g = [f EXCEPT ![i] = SubSeq(CommittedLog, 1, k)]
  BY <1>8, <1>9, <1>10
<1>14. f' = g
  OBVIOUS
<1> HIDE DEF k
<1>15. \E x \in 0 .. Len(f[i]) : f' = [f EXCEPT ![i] = SubSeq(CommittedLog, 1, x)]
  BY <1>12, <1>13, <1>14
<1> QED BY <1>2, <1>9, <1>15 DEF Log!Recover

\* Every step of the cluster is a step of the replicated log, or leaves it alone.
LEMMA StepRefines ==
  ASSUME ~MembershipChanges, IInv, LInv, LogFed, LogFed', [Next]_vars
  PROVE  [Log!Next]_Log!vars
<1>1. IInv' /\ \E h, g \in History : Explains(h) /\ Explains(g)' /\ Evolves(h, g)
  BY StepExplained
<1>2. PICK h, g \in History : Explains(h) /\ Explains(g)' /\ Evolves(h, g)
  BY <1>1
<1>3. \A i \in Server : node[i].snapshotIndex <= node'[i].snapshotIndex /\ Onward(i, node'[i])
  BY <1>2 DEF Evolves
<1>4. ASSUME NEW i \in Server, Moves(i)
      PROVE  Log!Apply(i)
  BY <1>3, <1>4, MovesApply
<1>5. ASSUME NEW i \in Server, Restart(i)
      PROVE  Log!Recover(i)
  BY <1>1, <1>2, <1>3, <1>5, RestartRecovers
<1>6. ASSUME NEW i \in Server, Crash(i)
      PROVE  Log!Crash(i)
  <2>1. /\ alive[i] /\ alive' = [alive EXCEPT ![i] = FALSE]
        /\ node' = node /\ committed' = committed
    BY <1>6 DEF Crash
  <2> QED BY <2>1 DEF Log!Crash, CommittedLog
<1>7. CASE UNCHANGED <<node, alive, committed>>
  BY <1>7 DEF Log!vars, CommittedLog
<1>8. \/ \E i \in Server : Moves(i)
      \/ \E i \in Server : Crash(i) \/ Restart(i)
      \/ UNCHANGED <<node, alive, committed>>
  BY StepShape
<1> QED BY <1>4, <1>5, <1>6, <1>7, <1>8, Zenon DEF Log!Next

\* The first state is that of a replicated log.
LEMMA InitRefines == Init => Log!Init
<1> SUFFICES ASSUME Init PROVE Log!Init
  OBVIOUS
<1>1. committed = {} /\ node = [i \in Server |-> InitNode] /\ alive = [i \in Server |-> TRUE]
  BY DEF Init
<1>2. CommittedLog = <<>>
  <2>1. {r.index : r \in committed} = {}
    BY <1>1
  <2>2. Cardinality({r.index : r \in committed}) = 0
    BY <2>1, FS_EmptySet
  <2>3. 1 .. 0 = {}
    OBVIOUS
  <2>4. 1 .. Cardinality({r.index : r \in committed}) = {}
    BY <2>2, <2>3
  <2> QED BY <2>4 DEF CommittedLog
<1>3. [i \in Server |-> node[i].sm] = [i \in Server |-> <<>>]
  BY <1>1 DEF InitNode
<1> QED BY <1>1, <1>2, <1>3 DEF Log!Init

\* With a fixed membership every step of the cluster extends the committed log, or applies a
\* prefix of it at one live server, or crashes or restarts a server, or does nothing to them.
THEOREM StepsAreOfLog ==
  ASSUME ~MembershipChanges
  PROVE  Spec => GoesOnAsLog
<1>1. IInv /\ LInv => LogFed
  BY ExplainedFed
<1>2. IInv /\ LInv /\ LogFed /\ LogFed' /\ [Next]_vars => [Log!Next]_Log!vars
  BY StepRefines
<1> QED BY <1>1, <1>2, LogInvariance, PTL DEF Spec, GoesOnAsLog, Log!Steps

\* With a fixed membership the cluster implements the replicated log.
THEOREM ClusterImplementsLog ==
  ASSUME ~MembershipChanges
  PROVE  Spec => ImplementsLog
<1>1. Init => Log!Init
  BY InitRefines
<1>2. Spec => Log!Steps
  BY StepsAreOfLog DEF GoesOnAsLog
<1> QED BY <1>1, <1>2, PTL DEF Spec, ImplementsLog, Log!Spec


-----------------------------------------------------------------------------
(* Sessions: every operation is answered once *)

\* A client's command is one that the client has begun.
Begun(cmd) == cmd.client \in Client => cmd.seq <= clientSeq[cmd.client]

BegunAll(es) == \A k \in 1 .. Len(es) : Begun(es[k].cmd)

\* The requests that wait at node n wait for their own entries, and only a leader lets
\* anybody wait.  Where the entry has been compacted nothing is said: it was applied.
Awaiting(n) ==
  /\ \A p \in n.pending :
       /\ p.index <= LastIndex(n)
       /\ p.index > n.snapshotIndex =>
            \E c \in Client : CommandAt(n, p.index) = ClientCommand(c, p.seq)
  /\ \A r \in n.pendingByReq :
       /\ r.client \in Client /\ r.index <= LastIndex(n)
       /\ r.index > n.snapshotIndex => CommandAt(n, r.index) = ClientCommand(r.client, r.seq)
  /\ n.role # Leader => n.pending = {} /\ n.pendingByReq = {}

\* Index k is the first at which cmd is on record S.
FirstOf(S, cmd, k) ==
  /\ \E r \in S : r.index = k /\ r.cmd = cmd
  /\ \A r \in S : r.cmd = cmd => k <= r.index

\* A reply is to a command that is committed, and a reply to the command that its client
\* has begun last gives the first index at which it is.
Answers(m) ==
  /\ m.client \in Client
  /\ \E r \in committed : r.cmd = ClientCommand(m.client, m.seq)
  /\ m.seq = clientSeq[m.client] /\ m.result # Nil =>
       FirstOf(committed, ClientCommand(m.client, m.seq), m.result)

\* What is sent: entries that were begun, and true answers; and nobody writes to itself.
Fitting(m) ==
  /\ m.type = "AppendEntries" => BegunAll(m.entries)
  /\ m.type = "ClientReply" => Answers(m)
  /\ m.type \notin {"ClientReply", "ClientRequest"} => m.src # m.dst

\* The operations before the last one that a client has begun are committed.
EarlierCommitted ==
  \A c \in Client : \A s \in 1 .. clientSeq[c] - 1 :
    \E r \in committed : r.cmd = ClientCommand(c, s)

\* The inductive invariant, together with those before it.
SessionInv ==
  /\ \A i \in Server : BegunAll(node[i].log) /\ Awaiting(node[i])
  /\ \A m \in msgs : Fitting(m)
  /\ \A r \in committed : Begun(r.cmd)
  /\ EarlierCommitted

\* What a handler may make of its node and send.
Behaves(n, out) ==
  Sane(n) /\ BegunAll(n.log) /\ Awaiting(n) /\ \A m \in out : Fitting(m)

-----------------------------------------------------------------------------
(* Nodes on which requests wait *)

\* Node a has the log of o, and the same requests wait there, or none.
SameWaiting(o, a) ==
  /\ a.log = o.log /\ a.snapshotIndex = o.snapshotIndex
  /\ \/ a.pending = {} /\ a.pendingByReq = {}
     \/ a.role = o.role /\ a.pending = o.pending /\ a.pendingByReq = o.pendingByReq

\* Then they still wait for their own entries.
LEMMA WaitingStays ==
  ASSUME NEW o, NEW a, SameWaiting(o, a), BegunAll(o.log), Awaiting(o)
  PROVE  BegunAll(a.log) /\ Awaiting(a)
<1>1. a.log = o.log /\ a.snapshotIndex = o.snapshotIndex /\ BegunAll(a.log)
  BY DEF SameWaiting
<1>2. LastIndex(a) = LastIndex(o) /\ \A k : CommandAt(a, k) = CommandAt(o, k)
  BY <1>1 DEF LastIndex, CommandAt
<1>3. CASE a.pending = {} /\ a.pendingByReq = {}
  BY <1>1, <1>3 DEF Awaiting
<1>4. CASE a.role = o.role /\ a.pending = o.pending /\ a.pendingByReq = o.pendingByReq
  BY <1>1, <1>2, <1>4 DEF Awaiting
<1> QED BY <1>1, <1>3, <1>4 DEF SameWaiting

\* SameWaiting is reflexive and composes.
LEMMA WaitingComposes ==
  ASSUME NEW o, NEW n, NEW a
  PROVE  /\ SameWaiting(o, o)
         /\ SameWaiting(o, n) /\ SameWaiting(n, a) => SameWaiting(o, a)
BY DEF SameWaiting

\* Stepping down lets nobody wait, and voting, counting votes and sending let all wait on.
LEMMA WaitingUntouched ==
  ASSUME NEW n \in NodeState
  PROVE  /\ \A t \in Nat : SameWaiting(n, StepDown(n, t))
         /\ \A x : SameWaiting(n, VoteFor(n, x))
         /\ \A i, P : SameWaiting(n, Sent(i, n, P))
         /\ \A S : SameWaiting(n, [n EXCEPT !.preVotes = S])
         /\ \A S : SameWaiting(n, [n EXCEPT !.votes = S])
         /\ \A i, p, k : SameWaiting(n, Acknowledged(i, n, p, k))
         /\ \A m : SameWaiting(n, BackUp(n, m))
<1>1. ASSUME NEW t \in Nat PROVE SameWaiting(n, StepDown(n, t))
  BY SMTT(30) DEF NodeState, StepDown, SameWaiting
<1>2. ASSUME NEW x PROVE SameWaiting(n, VoteFor(n, x))
  BY SMTT(30) DEF NodeState, VoteFor, SameWaiting
<1>3. ASSUME NEW i, NEW P PROVE SameWaiting(n, Sent(i, n, P))
  <2> DEFINE f == [p \in Server |-> IF p \in P THEN SentUptoAfter(i, n, p) ELSE n.sentUpto[p]]
  <2>1. Sent(i, n, P) = [n EXCEPT !.sentUpto = f]
    BY Zenon DEF Sent
  <2> HIDE DEF f
  <2> QED BY <2>1, SMTT(30) DEF NodeState, SameWaiting
<1>4. ASSUME NEW S PROVE SameWaiting(n, [n EXCEPT !.preVotes = S])
  BY SMTT(30) DEF NodeState, SameWaiting
<1>5. ASSUME NEW S PROVE SameWaiting(n, [n EXCEPT !.votes = S])
  BY SMTT(30) DEF NodeState, SameWaiting
<1>6. ASSUME NEW i, NEW p, NEW k PROVE SameWaiting(n, Acknowledged(i, n, p, k))
  <2> DEFINE known == Larger(n.matchIndex[p], k)
             mat == [n.matchIndex EXCEPT ![p] = known]
             nxt == [n.nextIndex EXCEPT ![p] = known + 1]
             s == [n EXCEPT !.matchIndex = mat, !.nextIndex = nxt]
             top == Largest(Agreed(i, s))
             a == [s EXCEPT !.commitIndex = top]
  <2>1. Acknowledged(i, n, p, k) = AdvanceCommit(i, s)
    BY Zenon DEF Acknowledged
  <2>2. AdvanceCommit(i, s) = a \/ AdvanceCommit(i, s) = s
    BY Zenon DEF AdvanceCommit
  <2> HIDE DEF mat, nxt, top
  <2>3. SameWaiting(n, s) /\ SameWaiting(n, a)
    BY SMTT(30) DEF NodeState, SameWaiting
  <2> HIDE DEF s, a
  <2> QED BY <2>1, <2>2, <2>3
<1>7. ASSUME NEW m PROVE SameWaiting(n, BackUp(n, m))
  <2> DEFINE next == NextAfterRejection(n, m)
             nxt == [n.nextIndex EXCEPT ![m.src] = next]
             snt == [n.sentUpto EXCEPT ![m.src] = next - 1]
  <2>1. BackUp(n, m) = [n EXCEPT !.nextIndex = nxt, !.sentUpto = snt]
    BY Zenon DEF BackUp
  <2> HIDE DEF nxt, snt
  <2> QED BY <2>1, SMTT(30) DEF NodeState, SameWaiting
<1> QED BY <1>1, <1>2, <1>3, <1>4, <1>5, <1>6, <1>7

\* A node on which nobody waits may do anything with its log.
LEMMA NobodyWaits ==
  ASSUME NEW n, n.pending = {}, n.pendingByReq = {}
  PROVE  Awaiting(n)
BY DEF Awaiting

\* Polling and campaigning are for nodes that do not lead, on which nobody waits.
LEMMA CampaignWaiting ==
  ASSUME NEW n \in NodeState, n.role # Leader, Awaiting(n), NEW i
  PROVE  SameWaiting(n, Poll(i, n)) /\ SameWaiting(n, Campaign(i, n))
<1>1. n.pending = {} /\ n.pendingByReq = {}
  BY DEF Awaiting
<1>2. SameWaiting(n, Poll(i, n))
  BY <1>1, SMTT(30) DEF NodeState, Poll, SameWaiting
<1>3. SameWaiting(n, Campaign(i, n))
  BY <1>1, SMTT(30) DEF NodeState, Campaign, SameWaiting
<1> QED BY <1>2, <1>3
\* Part of a log that was begun was begun.
LEMMA BegunPart ==
  ASSUME NEW s, NEW t, BegunAll(t), \A k \in 1 .. Len(s) : \E j \in 1 .. Len(t) : s[k] = t[j]
  PROVE  BegunAll(s)
BY DEF BegunAll

\* What a leader sends to others are entries of its log.
LEMMA AppendsFit ==
  ASSUME NEW i \in Server, NEW n \in NodeState, BegunAll(n.log),
         NEW P \in SUBSET Server, i \notin P, NEW m \in Appends(i, n, P)
  PROVE  Fitting(m)
<1>1. PICK p \in P : m = MakeAppend(i, n, p)
  BY DEF Appends
<1>2. m \in AppendEntries \cup InstallSnapshot /\ m.src = i /\ m.dst = p
  BY <1>1, MakeAppendType
<1>3. m.src # m.dst /\ m.type \in {"AppendEntries", "InstallSnapshot"}
  BY <1>1, <1>2 DEF AppendEntries, InstallSnapshot
<1> DEFINE next == Larger(1, NextIndex(n, p))
           first == next - n.snapshotIndex
           last == Smaller(Len(n.log), first + MaxEntriesPerAppend - 1)
           es == SubSeq(n.log, first, last)
<1>4. ASSUME m.type = "AppendEntries"
      PROVE  BegunAll(m.entries)
  <2>1. ~(next <= n.snapshotIndex)
    BY <1>1, <1>4, Zenon DEF MakeAppend, InstallSnapshotMsg
  <2>2. m = AppendEntriesMsg(i, p, n, next - 1, es)
    BY <1>1, <2>1, Zenon DEF MakeAppend
  <2>3. m.entries = es
    BY <2>2 DEF AppendEntriesMsg
  <2>4. next \in Nat \ {0}
    BY NextIndexType DEF Larger
  <2>5. n.snapshotIndex \in Nat /\ n.log \in Seq(LogEntry) /\ Len(n.log) \in Nat
    BY DEF NodeState
  <2>6. first \in Nat \ {0} /\ last \in Int /\ last <= Len(n.log)
    BY <2>1, <2>4, <2>5, ConfigAssumption, SMTT(30) DEF Smaller
  <2> HIDE DEF first, last
  <2>7. \A k \in first .. last : n.log[k] \in LogEntry
    BY <2>5, <2>6
  <2>8. /\ Len(es) = IF first <= last THEN last - first + 1 ELSE 0
        /\ \A k \in 1 .. last - first + 1 : es[k] = n.log[first + k - 1]
    BY <2>6, <2>7, SubSeqProperties
  <2> HIDE DEF es
  <2>9. \A k \in 1 .. Len(es) : k \in 1 .. last - first + 1 /\ first + k - 1 \in 1 .. Len(n.log)
    BY <2>5, <2>6, <2>8
  <2>10. \A k \in 1 .. Len(es) : \E j \in 1 .. Len(n.log) : es[k] = n.log[j]
    BY <2>8, <2>9
  <2> QED BY <2>3, <2>10, BegunPart
<1> QED BY <1>3, <1>4 DEF Fitting

\* Applying takes requests off the list, and compacting leaves the rest waiting.
LEMMA ApplyWaiting ==
  ASSUME NEW i \in Server, NEW n, Sane(n), BegunAll(n.log), Awaiting(n)
  PROVE  BegunAll(ApplyCommitted(i, n).log) /\ Awaiting(ApplyCommitted(i, n))
<1> DEFINE a == Applied(i, n)
           b == MaybeCompact(a)
<1>0. n \in NodeState
  BY DEF Sane
<1>1. Sane(a) /\ BegunAll(a.log) /\ Awaiting(a)
  <2>1. Sane(a)
    BY AppliedFacts
  <2>2. CASE ToApply(n) = {}
    BY <2>1, <2>2 DEF Applied
  <2>3. CASE ToApply(n) # {}
    <3> DEFINE done == {p \in n.pending : p.index \in ToApply(n)}
               top == Largest(ToApply(n))
               hist == HistoryUpto(n, top)
               pend == n.pending \ done
               byReq == {r \in n.pendingByReq :
                           \A p \in done : r.client # p.addr \/ r.seq # p.seq}
               c == [n EXCEPT !.lastApplied = top, !.sm = hist, !.pending = pend,
                              !.pendingByReq = byReq]
    <3>1. a = IF SelfRemovals(i, n) = {} THEN c ELSE StepDown(c, n.currentTerm)
      BY <2>3, Zenon DEF Applied
    <3>2. pend \subseteq n.pending /\ byReq \subseteq n.pendingByReq
      OBVIOUS
    <3> HIDE DEF top, hist, pend, byReq
    <3>3. /\ c.log = n.log /\ c.snapshotIndex = n.snapshotIndex /\ c.role = n.role
          /\ c.pending = pend /\ c.pendingByReq = byReq
      BY <1>0, SMTT(30) DEF NodeState
    <3>4. LastIndex(c) = LastIndex(n) /\ \A k : CommandAt(c, k) = CommandAt(n, k)
      BY <3>3 DEF LastIndex, CommandAt
    <3>5. BegunAll(c.log) /\ Awaiting(c)
      BY <3>2, <3>3, <3>4 DEF Awaiting
    <3>6. CASE SelfRemovals(i, n) = {}
      BY <2>1, <3>1, <3>5, <3>6
    <3>7. CASE SelfRemovals(i, n) # {}
      <4> DEFINE d == StepDown(c, n.currentTerm)
      <4>1. d.log = c.log /\ d.pending = {} /\ d.pendingByReq = {}
        BY <1>0, SMTT(30) DEF NodeState, StepDown, c
      <4> HIDE DEF c
      <4>2. BegunAll(d.log) /\ Awaiting(d)
        BY <3>5, <4>1, NobodyWaits
      <4> QED BY <2>1, <3>1, <3>7, <4>2
    <3> QED BY <3>6, <3>7
  <2> QED BY <2>2, <2>3
<1> HIDE DEF a
<1>2. BegunAll(b.log) /\ Awaiting(b)
  <2> DEFINE lo == a.lastApplied - a.snapshotIndex + 1
             rest == SubSeq(a.log, lo, Len(a.log))
             term == TermAt(a, a.lastApplied)
             c == [a EXCEPT !.snapshotIndex = a.lastApplied, !.snapshotTerm = term,
                            !.snapshotData = a.sm, !.snapshotMembers = a.members,
                            !.log = rest, !.dirty = TRUE]
  <2>1. b = a \/ b = c
    BY Zenon DEF MaybeCompact
  <2>2. /\ a \in NodeState /\ a.snapshotIndex <= a.lastApplied
        /\ a.snapshotIndex \in Nat /\ a.lastApplied \in Nat
        /\ a.log \in Seq(LogEntry) /\ Len(a.log) \in Nat
    <3>1. a \in NodeState /\ a.snapshotIndex <= a.lastApplied
      BY <1>1 DEF Sane
    <3>2. a.snapshotIndex \in Nat /\ a.lastApplied \in Nat /\ a.log \in Seq(LogEntry)
      BY <3>1, SMTT(30) DEF NodeState
    <3>3. Len(a.log) \in Nat
      BY <3>2
    <3> QED BY <3>1, <3>2, <3>3
  <2>3. lo \in Nat \ {0}
    BY <2>2
  <2>4. \A k \in lo .. Len(a.log) : a.log[k] \in LogEntry
    BY <2>2, <2>3
  <2> HIDE DEF lo
  <2>5. /\ Len(rest) = IF lo <= Len(a.log) THEN Len(a.log) - lo + 1 ELSE 0
        /\ \A k \in 1 .. Len(a.log) - lo + 1 : rest[k] = a.log[lo + k - 1]
    BY <2>2, <2>3, <2>4, SubSeqProperties
  <2> HIDE DEF rest, term
  <2>6. \A k \in 1 .. Len(rest) : \E j \in 1 .. Len(a.log) : rest[k] = a.log[j]
    <3> TAKE k \in 1 .. Len(rest)
    <3>1. k \in 1 .. Len(a.log) - lo + 1 /\ lo + k - 1 \in 1 .. Len(a.log)
      <4>1. Len(rest) = IF lo <= Len(a.log) THEN Len(a.log) - lo + 1 ELSE 0
        BY <2>5
      <4>2. Len(a.log) \in Nat
        BY <2>2
      <4> QED BY <2>3, <4>1, <4>2
    <3> QED BY <2>5, <3>1
  <2>7. /\ c.log = rest /\ c.snapshotIndex = a.lastApplied /\ c.role = a.role
        /\ c.pending = a.pending /\ c.pendingByReq = a.pendingByReq
    BY <2>2, SMTT(30) DEF NodeState
  <2> HIDE DEF c
  <2>8. BegunAll(c.log)
    BY <1>1, <2>6, <2>7, BegunPart
  <2>14. /\ LastIndex(a) = a.snapshotIndex + Len(a.log)
         /\ LastIndex(c) = a.lastApplied + Len(rest)
         /\ Len(rest) = IF lo <= Len(a.log) THEN Len(a.log) - lo + 1 ELSE 0
         /\ lo = a.lastApplied - a.snapshotIndex + 1
         /\ a.snapshotIndex \in Nat /\ a.lastApplied \in Nat /\ Len(a.log) \in Nat
    BY <2>2, <2>5, <2>7 DEF LastIndex, lo
  <2>9. /\ LastIndex(a) <= LastIndex(c)
        /\ \A k \in Nat : k > a.lastApplied /\ k <= LastIndex(a) =>
             /\ k > a.snapshotIndex /\ k - a.lastApplied \in 1 .. Len(a.log) - lo + 1
             /\ lo + (k - a.lastApplied) - 1 = k - a.snapshotIndex
    <3> DEFINE s == a.snapshotIndex
               x == a.lastApplied
               w == Len(a.log)
    <3>1. s \in Nat /\ x \in Nat /\ w \in Nat /\ s <= x /\ lo = x - s + 1
      BY <2>2 DEF lo
    <3>2. LastIndex(a) = s + w /\ LastIndex(c) = x + (IF lo <= w THEN w - lo + 1 ELSE 0)
      BY <2>14
    <3> HIDE DEF s, x, w
    <3>3. /\ s + w <= x + (IF lo <= w THEN w - lo + 1 ELSE 0)
          /\ \A k \in Nat : k > x /\ k <= s + w =>
               k > s /\ k - x \in 1 .. w - lo + 1 /\ lo + (k - x) - 1 = k - s
      BY <3>1
    <3>4. /\ LastIndex(a) <= LastIndex(c)
          /\ \A k \in Nat : k > x /\ k <= LastIndex(a) =>
               k > s /\ k - x \in 1 .. w - lo + 1 /\ lo + (k - x) - 1 = k - s
      BY <3>2, <3>3
    <3> QED BY <3>4 DEF s, x, w
  <2>10. ASSUME NEW k \in Nat, k > c.snapshotIndex, k <= LastIndex(a)
         PROVE  k > a.snapshotIndex /\ CommandAt(c, k) = CommandAt(a, k)
    <3>1. k > a.snapshotIndex /\ k - a.lastApplied \in 1 .. Len(a.log) - lo + 1
          /\ lo + (k - a.lastApplied) - 1 = k - a.snapshotIndex
      BY <2>7, <2>9, <2>10
    <3>2. rest[k - a.lastApplied] = a.log[k - a.snapshotIndex]
      BY <2>5, <3>1
    <3> QED BY <2>7, <3>1, <3>2 DEF CommandAt
  <2>11. /\ \A p \in a.pending : p.index \in Nat
         /\ \A r \in a.pendingByReq : r.index \in Nat
    BY <2>2 DEF NodeState
  <2>12. LastIndex(a) \in Nat /\ LastIndex(c) \in Int
    BY <2>2, <2>5, <2>3, <2>7 DEF LastIndex
  <2>13. Awaiting(c)
    <3>1. ASSUME NEW p \in a.pending
          PROVE  /\ p.index <= LastIndex(c)
                 /\ p.index > c.snapshotIndex =>
                      \E x \in Client : CommandAt(c, p.index) = ClientCommand(x, p.seq)
      <4>1. p.index \in Nat /\ p.index <= LastIndex(a)
        BY <1>1, <2>11, <3>1 DEF Awaiting
      <4>2. p.index <= LastIndex(c)
        BY <2>9, <2>12, <4>1
      <4>3. p.index > a.snapshotIndex => \E x \in Client : CommandAt(a, p.index) = ClientCommand(x, p.seq)
        BY <1>1, <3>1 DEF Awaiting
      <4> QED BY <2>10, <4>1, <4>2, <4>3
    <3>2. ASSUME NEW r \in a.pendingByReq
          PROVE  /\ r.client \in Client /\ r.index <= LastIndex(c)
                 /\ r.index > c.snapshotIndex =>
                      CommandAt(c, r.index) = ClientCommand(r.client, r.seq)
      <4>1. r.index \in Nat /\ r.index <= LastIndex(a) /\ r.client \in Client
        BY <1>1, <2>11, <3>2 DEF Awaiting
      <4>2. r.index <= LastIndex(c)
        BY <2>9, <2>12, <4>1
      <4>3. r.index > a.snapshotIndex => CommandAt(a, r.index) = ClientCommand(r.client, r.seq)
        BY <1>1, <3>2 DEF Awaiting
      <4> QED BY <2>10, <4>1, <4>2, <4>3
    <3>3. c.role # Leader => c.pending = {} /\ c.pendingByReq = {}
      BY <1>1, <2>7 DEF Awaiting
    <3> QED BY <2>7, <3>1, <3>2, <3>3 DEF Awaiting
  <2> QED BY <1>1, <2>1, <2>8, <2>13
<1> QED BY <1>2 DEF ApplyCommitted, a

-----------------------------------------------------------------------------
(* Results *)

\* A command of a client is what a client sends.
LEMMA CommandOfClient ==
  ASSUME NEW cmd \in Command, cmd.client \in Client
  PROVE  cmd \in PutCommand /\ cmd.seq \in Nat /\ cmd = ClientCommand(cmd.client, cmd.seq)
<1>1. cmd.client \in 0 .. ClientBase - 1
  BY ClientAssumption
<1>2. cmd.client # -1 /\ cmd.client # -2
  <2>1. -1 \notin 0 .. ClientBase - 1 /\ -2 \notin 0 .. ClientBase - 1
    BY DEF ClientBase
  <2> QED BY <1>1, <2>1
<1>3. cmd # NOOP
  BY <1>2 DEF NOOP
<1>4. cmd \notin ConfigChange
  BY <1>2 DEF ConfigChange
<1>5. cmd \in PutCommand
  BY <1>3, <1>4, Zenon DEF Command
<1> QED BY <1>5 DEF PutCommand, ClientCommand

\* Where every command of history h is on record C at its place, and command s of client c
\* is the last of that client, the session has s, with the first index at which it is.
LEMMA FirstResult ==
  ASSUME NEW C, NEW h \in Seq(Command), NEW c \in Client, NEW s \in Nat,
         \A k \in 1 .. Len(h) : \E r \in C : r.index = k /\ r.cmd = h[k],
         \A r, q \in C : r.index = q.index => r.cmd = q.cmd,
         \A r \in C : r.index \in Nat \ {0},
         \A k \in 1 .. Len(h) : h[k].client = c => h[k].seq <= s,
         \E k \in 1 .. Len(h) : h[k].client = c /\ h[k].seq = s
  PROVE  SessionSeq(h, c) = s /\ FirstOf(C, ClientCommand(c, s), SessionResult(h, c))
<1> DEFINE mine == {j \in 1 .. Len(h) : h[j].client = c}
           seqs == {0} \cup {h[k].seq : k \in mine}
           firsts == {k \in 1 .. Len(h) : h[k].client = c /\ h[k].seq = s}
           first == Smallest(firsts)
<1>1. Len(h) \in Nat /\ \A k \in 1 .. Len(h) : h[k] \in Command
  OBVIOUS
<1>2. \A k \in mine : h[k].seq \in Nat /\ h[k] = ClientCommand(c, h[k].seq)
  BY <1>1, CommandOfClient
<1>3. SessionSeq(h, c) = s
  <2>1. seqs \in SUBSET Nat /\ seqs # {} /\ \A y \in seqs : y <= s
    BY <1>2
  <2>2. s \in seqs
    OBVIOUS
  <2>3. SessionSeq(h, c) = Largest(seqs)
    BY Zenon DEF SessionSeq
  <2> HIDE DEF seqs
  <2>4. Largest(seqs) \in seqs /\ \A y \in seqs : y <= Largest(seqs)
    BY <2>1, LargestType
  <2>5. Largest(seqs) \in Nat /\ Largest(seqs) <= s /\ s <= Largest(seqs)
    BY <2>1, <2>2, <2>4
  <2> QED BY <2>3, <2>5
<1>4. SessionResult(h, c) = first
  BY <1>3, Zenon DEF SessionResult
<1>5. firsts \in SUBSET Nat /\ firsts # {}
  BY <1>1
<1>6. \A k \in firsts : h[k] = ClientCommand(c, s)
  BY <1>2
<1> HIDE DEF firsts
<1>7. first \in firsts /\ \A y \in firsts : first <= y
  BY <1>5, SmallestType
<1> HIDE DEF first
<1>8. first \in 1 .. Len(h) /\ h[first] = ClientCommand(c, s)
  BY <1>6, <1>7 DEF firsts
<1>9. ASSUME NEW r \in C, r.cmd = ClientCommand(c, s)
      PROVE  first <= r.index
  <2>1. r.index \in Nat \ {0}
    OBVIOUS
  <2>2. CASE r.index \in 1 .. Len(h)
    <3>1. h[r.index] = ClientCommand(c, s)
      BY <1>9, <2>2
    <3>2. r.index \in firsts
      BY <2>2, <3>1 DEF firsts, ClientCommand
    <3> QED BY <1>7, <3>2
  <2>3. CASE r.index \notin 1 .. Len(h)
    BY <1>1, <1>8, <2>1, <2>3
  <2> QED BY <2>2, <2>3
<1>10. \E r \in C : r.index = first /\ r.cmd = ClientCommand(c, s)
  BY <1>8
<1> QED BY <1>3, <1>4, <1>9, <1>10 DEF FirstOf

\* What a node has to apply are commands.
LEMMA CommandsToApply ==
  ASSUME NEW n, Sane(n), NEW x \in n.lastApplied .. LastIndex(n)
  PROVE  [j \in 1 .. x - n.lastApplied |-> CommandAt(n, n.lastApplied + j)] \in Seq(Command)
<1>1. n \in NodeState /\ n.snapshotIndex <= n.lastApplied
  BY DEF Sane
<1>2. n.lastApplied \in Nat /\ n.snapshotIndex \in Nat /\ LastIndex(n) \in Nat
  BY <1>1, LogFacts DEF NodeState
<1>3. \A j \in 1 .. x - n.lastApplied : CommandAt(n, n.lastApplied + j) \in Command
  <2> TAKE j \in 1 .. x - n.lastApplied
  <2>1. n.lastApplied + j \in n.snapshotIndex + 1 .. LastIndex(n)
    BY <1>1, <1>2
  <2> QED BY <1>1, <2>1, LogFacts
<1>4. x - n.lastApplied \in Nat
  BY <1>2
<1> QED BY <1>3, <1>4

\* A node that applies gets as far as its commit index and its log go, and its state machine
\* is fed what is there; what it was fed at each index before comes first.
LEMMA AppliedMachine ==
  ASSUME NEW i \in Server, NEW n, Sane(n), NEW k \in ToApply(n),
         Len(ApplyCommitted(i, n).sm) = ApplyCommitted(i, n).lastApplied
  PROVE  LET a == ApplyCommitted(i, n)
             s == HistoryUpto(n, k)
         IN /\ k \in n.lastApplied + 1 .. LastIndex(n) /\ k <= n.commitIndex
            /\ s \in Seq(Command) /\ Len(s) = k /\ s[k] = CommandAt(n, k)
            /\ k <= Len(a.sm) /\ \A j \in 1 .. k : s[j] = a.sm[j]
<1> DEFINE hi == Smaller(n.commitIndex, LastIndex(n))
           top == Largest(ToApply(n))
           hist == HistoryUpto(n, top)
           s == HistoryUpto(n, k)
<1>0. n \in NodeState /\ n.lastApplied \in Nat /\ n.commitIndex \in Nat /\ LastIndex(n) \in Nat
      /\ n.sm \in Seq(Command)
  <2>1. n \in NodeState
    BY DEF Sane
  <2>2. n.lastApplied \in Nat /\ n.commitIndex \in Nat /\ n.sm \in Seq(Command)
    BY <2>1, SMTT(30) DEF NodeState
  <2> QED BY <2>1, <2>2, LogFacts
<1>1. hi \in Nat /\ hi <= LastIndex(n) /\ hi <= n.commitIndex
      /\ ToApply(n) = n.lastApplied + 1 .. hi
  BY <1>0 DEF ToApply, Smaller
<1> HIDE DEF hi
<1>2. ToApply(n) \in SUBSET Nat /\ ToApply(n) # {} /\ \A y \in ToApply(n) : y <= hi
  BY <1>0, <1>1
<1>3. top \in ToApply(n) /\ \A y \in ToApply(n) : y <= top
  BY <1>1, <1>2, LargestType
<1> HIDE DEF top
<1>4. k \in Nat /\ top \in Nat /\ k > n.lastApplied /\ k <= top /\ top <= LastIndex(n)
      /\ k <= n.commitIndex
  BY <1>0, <1>1, <1>3
<1>5. s \in Seq(Command) /\ hist \in Seq(Command)
  BY <1>0, <1>4, HistoryType
<1>6. ApplyCommitted(i, n).sm = hist /\ ApplyCommitted(i, n).lastApplied = top
  <2> DEFINE done == {p \in n.pending : p.index \in ToApply(n)}
             pend == n.pending \ done
             byReq == {r \in n.pendingByReq :
                         \A p \in done : r.client # p.addr \/ r.seq # p.seq}
             c == [n EXCEPT !.lastApplied = top, !.sm = hist, !.pending = pend,
                            !.pendingByReq = byReq]
             a == Applied(i, n)
             b == MaybeCompact(a)
  <2>1. a = c \/ a = StepDown(c, n.currentTerm)
    BY <1>2, Zenon DEF Applied, top
  <2> HIDE DEF pend, byReq
  <2>2. c.sm = hist /\ c.lastApplied = top
    BY <1>0, SMTT(30) DEF NodeState
  <2>3. StepDown(c, n.currentTerm).sm = hist /\ StepDown(c, n.currentTerm).lastApplied = top
    BY <1>0, SMTT(30) DEF NodeState, StepDown, c
  <2> HIDE DEF c
  <2>4. a.sm = hist /\ a.lastApplied = top
    BY <2>1, <2>2, <2>3
  <2>5. a \in NodeState
    BY AppliedFacts DEF Sane
  <2> HIDE DEF a
  <2> DEFINE rest == SubSeq(a.log, a.lastApplied - a.snapshotIndex + 1, Len(a.log))
             term == TermAt(a, a.lastApplied)
             d == [a EXCEPT !.snapshotIndex = a.lastApplied, !.snapshotTerm = term,
                            !.snapshotData = a.sm, !.snapshotMembers = a.members,
                            !.log = rest, !.dirty = TRUE]
  <2>6. b = a \/ b = d
    BY Zenon DEF MaybeCompact
  <2> HIDE DEF rest, term
  <2>7. d.sm = a.sm /\ d.lastApplied = a.lastApplied
    BY <2>5, SMTT(30) DEF NodeState
  <2> HIDE DEF d
  <2> QED BY <2>4, <2>6, <2>7 DEF ApplyCommitted, a
<1>7. Len(n.sm) = n.lastApplied
  <2> DEFINE d == top - n.lastApplied
             f == [j \in 1 .. d |-> CommandAt(n, n.lastApplied + j)]
  <2>1. d \in Nat /\ d = top - n.lastApplied
    BY <1>0, <1>4
  <2>2. hist = n.sm \o f
    BY DEF HistoryUpto
  <2>3. Len(f) = d
    BY <2>1
  <2>4. f \in Seq(Command)
    BY <1>0, <1>4, CommandsToApply
  <2> HIDE DEF f, d, hist
  <2>5. Len(n.sm \o f) = Len(n.sm) + Len(f)
    BY <1>0, <2>4, ConcatProperties, Zenon
  <2>6. Len(n.sm) \in Nat
    BY <1>0
  <2>7. Len(hist) = top
    BY <1>6
  <2>8. Len(n.sm) + d = top
    BY <2>2, <2>3, <2>5, <2>7
  <2> QED BY <1>0, <1>4, <2>1, <2>6, <2>8
<1>8. ASSUME NEW x \in Nat, x >= n.lastApplied, x <= LastIndex(n)
      PROVE  /\ Len(HistoryUpto(n, x)) = x
             /\ \A j \in 1 .. n.lastApplied : HistoryUpto(n, x)[j] = n.sm[j]
             /\ \A j \in n.lastApplied + 1 .. x : HistoryUpto(n, x)[j] = CommandAt(n, j)
  <2> DEFINE d == x - n.lastApplied
             f == [j \in 1 .. d |-> CommandAt(n, n.lastApplied + j)]
  <2>1. d \in Nat
    BY <1>0, <1>8
  <2>2. HistoryUpto(n, x) = n.sm \o f
    BY DEF HistoryUpto
  <2>3. Len(f) = d /\ \A j \in 1 .. d : f[j] = CommandAt(n, n.lastApplied + j)
    BY <2>1
  <2>4. f \in Seq(Command)
    BY <1>0, <1>8, CommandsToApply
  <2> HIDE DEF f
  <2> HIDE DEF d
  <2>9. /\ Len(n.sm \o f) = Len(n.sm) + Len(f)
        /\ \A j \in 1 .. Len(n.sm) + Len(f) :
             (n.sm \o f)[j] = IF j <= Len(n.sm) THEN n.sm[j] ELSE f[j - Len(n.sm)]
    BY <1>0, <2>4, ConcatProperties, Zenon
  <2>5. Len(n.sm \o f) = n.lastApplied + d
    BY <1>7, <2>3, <2>9
  <2>6. \A j \in 1 .. n.lastApplied : (n.sm \o f)[j] = n.sm[j]
    BY <1>0, <1>7, <2>1, <2>3, <2>9
  <2>7. ASSUME NEW j \in n.lastApplied + 1 .. x
        PROVE  (n.sm \o f)[j] = CommandAt(n, j)
    <3>1. j \in n.lastApplied + 1 .. n.lastApplied + d /\ j - n.lastApplied \in 1 .. d
          /\ n.lastApplied + (j - n.lastApplied) = j
      BY <1>0, <1>8 DEF d
    <3>2. (n.sm \o f)[j] = f[j - n.lastApplied]
      <4>1. Len(n.sm) = n.lastApplied /\ Len(f) = d /\ d \in Nat /\ n.lastApplied \in Nat
        BY <1>0, <1>7, <2>1, <2>3
      <4>2. j \in 1 .. Len(n.sm) + Len(f) /\ ~(j <= Len(n.sm))
        BY <3>1, <4>1
      <4>3. (n.sm \o f)[j] = f[j - Len(n.sm)]
        BY <2>9, <4>2
      <4> QED BY <4>1, <4>3
    <3> QED BY <2>3, <3>1, <3>2
  <2>8. n.lastApplied + d = x
    BY <1>0 DEF d
  <2> QED BY <2>2, <2>5, <2>6, <2>7, <2>8
<1>9. /\ Len(s) = k /\ s[k] = CommandAt(n, k) /\ Len(hist) = top
      /\ \A j \in 1 .. k : s[j] = hist[j]
  <2>1. /\ Len(s) = k /\ Len(hist) = top
        /\ \A j \in 1 .. n.lastApplied : s[j] = n.sm[j] /\ hist[j] = n.sm[j]
        /\ \A j \in n.lastApplied + 1 .. k : s[j] = CommandAt(n, j)
        /\ \A j \in n.lastApplied + 1 .. top : hist[j] = CommandAt(n, j)
    BY <1>0, <1>4, <1>8
  <2> HIDE DEF s, hist
  <2>2. k \in n.lastApplied + 1 .. k /\ n.lastApplied + 1 .. k \subseteq n.lastApplied + 1 .. top
    BY <1>0, <1>4
  <2>3. \A j \in 1 .. k : j \in 1 .. n.lastApplied \/ j \in n.lastApplied + 1 .. k
    BY <1>0, <1>4
  <2> QED BY <2>1, <2>2, <2>3
<1> HIDE DEF s, hist
<1>10. k \in n.lastApplied + 1 .. LastIndex(n)
  BY <1>0, <1>4
<1> QED BY <1>4, <1>5, <1>9, <1>6, <1>10 DEF s

\* A true answer stays true: the record grows at its end only.
LEMMA AnswerStays ==
  ASSUME LogFed, LogFed', committed \subseteq committed', clientSeq' = clientSeq,
         NEW m, Answers(m)
  PROVE  Answers(m)'
<1> DEFINE cmd == ClientCommand(m.client, m.seq)
<1>1. m.client \in Client /\ \E r \in committed' : r.cmd = cmd
  BY DEF Answers
<1>2. ASSUME m.seq = clientSeq[m.client], m.result # Nil
      PROVE  FirstOf(committed', cmd, m.result)
  <2>1. FirstOf(committed, cmd, m.result)
    BY <1>2 DEF Answers
  <2> HIDE DEF cmd
  <2>2. PICK q \in committed : q.index = m.result /\ q.cmd = cmd
    BY <2>1 DEF FirstOf
  <2>3. m.result \in 1 .. Len(CommittedLog) /\ Len(CommittedLog) \in Nat
    BY <2>2 DEF LogFed
  <2>4. ASSUME NEW r \in committed', r.cmd = cmd
        PROVE  m.result <= r.index
    <3>1. r.index \in 1 .. Len(CommittedLog') /\ CommittedLog'[r.index] = cmd
          /\ Len(CommittedLog') \in Nat
      BY <2>4 DEF LogFed
    <3>2. CASE r.index \in 1 .. Len(CommittedLog)
      <4>1. PICK p \in committed : p.index = r.index
        BY <3>2 DEF LogFed
      <4>2. p \in committed'
        OBVIOUS
      <4>3. p.cmd = CommittedLog'[p.index]
        BY <4>2 DEF LogFed
      <4>4. p.cmd = cmd
        BY <3>1, <4>1, <4>3
      <4> QED BY <2>1, <4>1, <4>4 DEF FirstOf
    <3>3. CASE r.index \notin 1 .. Len(CommittedLog)
      BY <2>3, <3>1, <3>3
    <3> QED BY <3>2, <3>3
  <2>5. q \in committed'
    OBVIOUS
  <2> QED BY <2>2, <2>4, <2>5 DEF FirstOf
<1> QED BY <1>1, <1>2 DEF Answers

\* The replies that apply_committed sends are true answers, once the entries are recorded.
LEMMA AppliedAnswers ==
  ASSUME LogFed', clientSeq' \in [Client -> Nat], \A r \in committed' : Begun(r.cmd)',
         NEW i \in Server, NEW n, Sane(n), Awaiting(n),
         ApplyCommitted(i, n).sm = node'[i].sm,
         ApplyCommitted(i, n).lastApplied = node'[i].lastApplied,
         NEW m \in AppliedOut(i, n)
  PROVE  m.type = "ClientReply" /\ Answers(m)'
<1> DEFINE a == ApplyCommitted(i, n)
<1>1. PICK p \in n.pending :
        /\ p.index \in ToApply(n)
        /\ m = ClientReplyMsg(i, p.addr, CommandAt(n, p.index).client, p.seq,
                              ApplyResult(HistoryUpto(n, p.index)))
  BY Zenon DEF AppliedOut
<1> DEFINE k == p.index
           h == HistoryUpto(n, k)
<1>2. /\ Len(a.sm) = a.lastApplied /\ Len(a.sm) <= Len(CommittedLog') /\ Len(CommittedLog') \in Nat
      /\ a.sm = SubSeq(CommittedLog', 1, Len(a.sm)) /\ Len(a.sm) \in Nat
      /\ CommittedLog' \in Seq(Command)
  BY DEF LogFed
<1>3. /\ k \in n.lastApplied + 1 .. LastIndex(n) /\ h \in Seq(Command) /\ Len(h) = k
      /\ h[k] = CommandAt(n, k) /\ k <= Len(a.sm) /\ \A j \in 1 .. k : h[j] = a.sm[j]
  BY <1>1, <1>2, AppliedMachine
<1> HIDE DEF h, a
<1>4. n.snapshotIndex \in Nat /\ n.lastApplied \in Nat /\ n.snapshotIndex <= n.lastApplied
  <2>1. n \in NodeState /\ n.snapshotIndex <= n.lastApplied
    BY DEF Sane
  <2> QED BY <2>1, SMTT(30) DEF NodeState
<1>5. k \in Nat \ {0} /\ k > n.snapshotIndex
  BY <1>3, <1>4
<1>6. PICK c \in Client : CommandAt(n, k) = ClientCommand(c, p.seq)
  BY <1>5 DEF Awaiting
<1>7. m.type = "ClientReply" /\ m.client = c /\ m.seq = p.seq /\ m.result = ApplyResult(h)
  BY <1>1, <1>6 DEF ClientReplyMsg, ClientCommand, h
<1>8. m.result = SessionResult(h, c)
  BY <1>3, <1>6, <1>7 DEF ApplyResult, ClientCommand
<1>9. ASSUME NEW j \in 1 .. Len(h)
      PROVE  \E r \in committed' : r.index = j /\ r.cmd = h[j]
  <2>1. j \in 1 .. Len(a.sm) /\ j \in 1 .. Len(CommittedLog') /\ h[j] = a.sm[j]
    BY <1>2, <1>3, <1>5
  <2>2. a.sm[j] = CommittedLog'[j]
    BY <1>2, <2>1
  <2>3. PICK r \in committed' : r.index = j
    BY <2>1 DEF LogFed
  <2>4. r.cmd = CommittedLog'[r.index]
    BY DEF LogFed
  <2> QED BY <2>1, <2>2, <2>3, <2>4
<1>10. k \in 1 .. Len(h) /\ h[k] = ClientCommand(c, p.seq)
  BY <1>3, <1>5, <1>6
<1>11. \E r \in committed' : r.cmd = ClientCommand(c, p.seq)
  BY <1>9, <1>10
<1>12. ASSUME p.seq = clientSeq'[c]
       PROVE  FirstOf(committed', ClientCommand(c, p.seq), m.result)
  <2> DEFINE s == p.seq
  <2>1. s \in Nat
    BY <1>12
  <2>2. \A r, q \in committed' : r.index = q.index => r.cmd = q.cmd
    BY DEF LogFed
  <2>3. \A r \in committed' : r.index \in Nat \ {0}
    BY <1>2 DEF LogFed
  <2>4. \A j \in 1 .. Len(h) : h[j].client = c => h[j].seq <= s
    <3> TAKE j \in 1 .. Len(h)
    <3>1. PICK r \in committed' : r.cmd = h[j]
      BY <1>9
    <3>2. Begun(r.cmd)'
      OBVIOUS
    <3> QED BY <1>12, <3>1, <3>2 DEF Begun
  <2>5. \E j \in 1 .. Len(h) : h[j].client = c /\ h[j].seq = s
    BY <1>10 DEF ClientCommand
  <2> HIDE DEF s
  <2>6. SessionSeq(h, c) = s /\ FirstOf(committed', ClientCommand(c, s), SessionResult(h, c))
    BY <1>3, <1>9, <2>1, <2>2, <2>3, <2>4, <2>5, FirstResult
  <2> QED BY <1>8, <2>6 DEF s
<1> QED BY <1>7, <1>11, <1>12 DEF Answers

\* What a node records as committed was begun if its log was.
LEMMA CommittedBegun ==
  ASSUME NEW n \in NodeState, BegunAll(n.log), NEW r \in CommittedBy(n)
  PROVE  Begun(r.cmd)
<1>1. PICK k \in n.snapshotIndex + 1 .. Smaller(n.commitIndex, LastIndex(n)) :
        r.cmd = CommandAt(n, k)
  BY DEF CommittedBy
<1>2. n.snapshotIndex \in Nat /\ n.commitIndex \in Nat /\ Len(n.log) \in Nat
  <2>1. n.snapshotIndex \in Nat /\ n.commitIndex \in Nat /\ n.log \in Seq(LogEntry)
    BY SMTT(30) DEF NodeState
  <2> QED BY <2>1
<1>3. k - n.snapshotIndex \in 1 .. Len(n.log)
  BY <1>1, <1>2 DEF LastIndex, Smaller
<1> QED BY <1>1, <1>3 DEF BegunAll, CommandAt

\* What was fit to be sent stays so.
LEMMA FittingStays ==
  ASSUME LogFed, LogFed', committed \subseteq committed', clientSeq' = clientSeq,
         NEW m, Fitting(m)
  PROVE  Fitting(m)'
<1>1. m.type = "AppendEntries" => BegunAll(m.entries)'
  BY DEF Fitting, BegunAll, Begun
<1>2. m.type = "ClientReply" => Answers(m)'
  BY AnswerStays DEF Fitting
<1> QED BY <1>1, <1>2 DEF Fitting

\* An event whose handler behaves keeps the invariant, the replies of apply_committed included.
LEMMA FinishSessions ==
  ASSUME IInv, LogFed, LogFed', SessionInv, NEW i \in Server, NEW n, NEW out,
         Behaves(n, out), Finish(i, n, out)
  PROVE  SessionInv'
<1> DEFINE a == ApplyCommitted(i, n)
           o == out \cup AppliedOut(i, n)
<1>1. Save(i, a) /\ Observe(i, n, a) /\ Send(i, a, o) /\ clientSeq' = clientSeq
  BY Zenon DEF Finish
<1>2. /\ Sane(n) /\ n \in NodeState /\ BegunAll(n.log) /\ Awaiting(n)
      /\ \A m \in out : Fitting(m)
  BY DEF Behaves, Sane
<1>3. a \in NodeState /\ BegunAll(a.log) /\ Awaiting(a)
  BY <1>2, ApplyWaiting, ApplyCommittedFacts DEF Sane
<1> HIDE DEF a
<1>4. /\ node'[i] = [a EXCEPT !.dirty = FALSE]
      /\ \A j \in Server \ {i} : node'[j] = node[j]
  BY <1>1 DEF Save, IInv, StateInv, StateTyped
<1>5. /\ node'[i].sm = a.sm /\ node'[i].lastApplied = a.lastApplied
      /\ SameWaiting(a, node'[i])
  BY <1>3, <1>4, SMTT(30) DEF NodeState, SameWaiting
<1>6. BegunAll(node'[i].log) /\ Awaiting(node'[i])
  BY <1>3, <1>5, WaitingStays
<1>7. \A j \in Server : BegunAll(node'[j].log) /\ Awaiting(node'[j])
  BY <1>4, <1>6 DEF SessionInv
<1>8. committed' = committed \cup CommittedBy(n) /\ committed \subseteq committed'
  BY <1>1 DEF Observe
<1>9. \A r \in committed' : Begun(r.cmd)
  <2> SUFFICES ASSUME NEW r \in CommittedBy(n) PROVE Begun(r.cmd)
    BY <1>8 DEF SessionInv
  <2> QED BY <1>2, CommittedBegun
<1>10. (\A r \in committed : Begun(r.cmd))'
  BY <1>1, <1>9 DEF Begun
<1>11. EarlierCommitted'
  BY <1>1, <1>8 DEF SessionInv, EarlierCommitted
<1>12. (\A j \in Server : BegunAll(node[j].log) /\ Awaiting(node[j]))'
  BY <1>1, <1>7 DEF BegunAll, Begun, Awaiting
<1>13. ASSUME NEW m, Fitting(m) PROVE Fitting(m)'
  BY <1>1, <1>8, <1>13, FittingStays
<1>14. ASSUME NEW m \in AppliedOut(i, n) PROVE Fitting(m)'
  <2>1. clientSeq' \in [Client -> Nat]
    BY <1>1 DEF IInv, CountersTyped
  <2>2. \A r \in committed' : Begun(r.cmd)'
    BY <1>10
  <2>3. m.type = "ClientReply" /\ Answers(m)'
    BY <1>2, <1>5, <2>1, <2>2, AppliedAnswers DEF a
  <2> QED BY <2>3 DEF Fitting
<1>15. \A m \in msgs' : m \in msgs \/ m \in out \/ m \in AppliedOut(i, n)
  BY <1>1 DEF Send
<1>16. \A m \in msgs' : Fitting(m)'
  BY <1>2, <1>13, <1>14, <1>15 DEF SessionInv
<1>17. (\A m \in msgs : Fitting(m))'
  BY <1>16
<1> QED BY <1>10, <1>11, <1>12, <1>17 DEF SessionInv

-----------------------------------------------------------------------------
(* Events that let no new request wait *)

\* What is neither entries nor a reply, and goes to somebody else, may be sent.
LEMMA OthersFit ==
  ASSUME NEW m, m.type \notin {"AppendEntries", "ClientReply"}, m.src # m.dst
  PROVE  Fitting(m)
BY DEF Fitting

\* An event that lets all who wait at a node wait on keeps the invariant.
LEMMA IdleSessions ==
  ASSUME IInv, LogFed, LogFed', SessionInv, NEW i \in Server, NEW n, NEW out,
         Sane(n), SameWaiting(node[i], n), \A m \in out : Fitting(m), Finish(i, n, out)
  PROVE  SessionInv'
<1>1. BegunAll(node[i].log) /\ Awaiting(node[i])
  BY DEF SessionInv
<1>2. BegunAll(n.log) /\ Awaiting(n)
  BY <1>1, WaitingStays
<1> QED BY <1>2, FinishSessions DEF Behaves

\* So does one that ends in sending entries to others.
LEMMA SendingSessions ==
  ASSUME IInv, LogFed, LogFed', SessionInv, NEW i \in Server, NEW n,
         Sane(n), BegunAll(n.log), Awaiting(n), NEW P \in SUBSET Server, i \notin P,
         Post(i, Sent(i, n, P), Appends(i, n, P))
  PROVE  SessionInv'
<1> DEFINE s == Sent(i, n, P)
<1>1. n \in NodeState /\ n.snapshotIndex <= n.lastApplied
  BY DEF Sane
<1>2. s \in NodeState /\ Tracked(n, s)
  BY <1>1, SentFacts
<1>3. SameWaiting(n, s)
  BY <1>1, WaitingUntouched
<1> HIDE DEF s
<1>4. BegunAll(s.log) /\ Awaiting(s)
  BY <1>3, WaitingStays
<1>5. Sane(s)
  BY <1>1, <1>2 DEF Sane, Tracked
<1>6. \A m \in Appends(i, n, P) : Fitting(m)
  BY <1>1, AppendsFit
<1> QED BY <1>4, <1>5, <1>6, FinishSessions DEF Behaves, Post, s

\* What the invariants say of one node.
LEMMA SessionFacts ==
  ASSUME IInv, SessionInv, NEW i \in Server
  PROVE  /\ node[i] \in NodeState /\ Sane(node[i]) /\ node[i].currentTerm \in Nat
         /\ BegunAll(node[i].log) /\ Awaiting(node[i])
         /\ Peers(i, node[i]) \in SUBSET Server /\ i \notin Peers(i, node[i])
<1>1. node[i] \in NodeState /\ Sane(node[i]) /\ node[i].currentTerm \in Nat
      /\ Peers(i, node[i]) \in SUBSET Server
  BY NodeFacts
<1>2. BegunAll(node[i].log) /\ Awaiting(node[i])
  BY DEF SessionInv
<1> QED BY <1>1, <1>2 DEF Peers

\* step_down keeps the invariant.
LEMMA StepDownSessions ==
  ASSUME IInv, LogFed, LogFed', SessionInv, NEW i \in Server, NEW t \in Nat,
         Post(i, StepDown(node[i], t), {})
  PROVE  SessionInv'
<1>1. Sane(StepDown(node[i], t))
  BY SessionFacts, StepDownYields
<1>2. SameWaiting(node[i], StepDown(node[i], t))
  BY SessionFacts, WaitingUntouched
<1> QED BY <1>1, <1>2, IdleSessions DEF Post

\* A new leader has nobody waiting, and its no-op is nobody's.
LEMMA ElectedBehaves ==
  ASSUME NEW i \in Server, NEW n, Sane(n), BegunAll(n.log)
  PROVE  Behaves(BecomeLeader(i, n), BecomeLeaderOut(i, n))
<1> DEFINE own == IF NoopOnElect THEN <<Entry(n.currentTerm, NOOP)>> ELSE <<>>
           nxt == [p \in Server |-> IF p \in Peers(i, n) THEN LastIndex(n) + 1 ELSE 0]
           zero == [p \in Server |-> 0]
           lg == n.log \o own
           drt == n.dirty \/ NoopOnElect
           e == Elected(i, n)
           s == Sent(i, e, Peers(i, n))
<1>1. n \in NodeState /\ n.snapshotIndex <= n.lastApplied
  BY DEF Sane
<1>2. e = [n EXCEPT !.role = Leader, !.leaderId = i, !.nextIndex = nxt,
                    !.matchIndex = zero, !.sentUpto = zero, !.pending = {},
                    !.pendingByReq = {}, !.log = lg, !.dirty = drt]
  BY Zenon DEF Elected
<1>3. n.log \in Seq(LogEntry)
  BY <1>1, SMTT(30) DEF NodeState
<1>4. BegunAll(lg)
  <2>1. CASE NoopOnElect
    <3> DEFINE x == Entry(n.currentTerm, NOOP)
    <3>1. x.cmd = NOOP
      BY DEF Entry
    <3>2. -1 \notin Client
      BY ClientAssumption DEF ClientBase
    <3>3. Begun(x.cmd)
      BY <3>1, <3>2 DEF Begun, NOOP
    <3> HIDE DEF x
    <3>4. /\ Len(n.log \o <<x>>) = Len(n.log) + 1 /\ Len(n.log) \in Nat
          /\ \A k \in 1 .. Len(n.log) : (n.log \o <<x>>)[k] = n.log[k]
          /\ (n.log \o <<x>>)[Len(n.log) + 1] = x
      BY <1>3
    <3>5. \A k \in 1 .. Len(n.log) + 1 : k \in 1 .. Len(n.log) \/ k = Len(n.log) + 1
      BY <3>4
    <3>6. BegunAll(n.log \o <<x>>)
      BY <3>3, <3>4, <3>5 DEF BegunAll
    <3> QED BY <2>1, <3>6 DEF x
  <2>2. CASE ~NoopOnElect
    BY <1>3, <2>2, ConcatEmptySeq
  <2> QED BY <2>1, <2>2
<1> HIDE DEF nxt, zero, lg, drt, e
<1>5. e.log = lg /\ e.pending = {} /\ e.pendingByReq = {}
  BY <1>1, <1>2, SMTT(30) DEF NodeState
<1>6. e \in NodeState /\ e.snapshotIndex = n.snapshotIndex /\ e.lastApplied = n.lastApplied
  BY <1>1, ElectedFacts, Zenon DEF e
<1>7. BegunAll(e.log) /\ Awaiting(e)
  BY <1>4, <1>5, NobodyWaits
<1>8. Peers(i, n) \in SUBSET Server /\ i \notin Peers(i, n)
  BY <1>1, ServerAssumption, SMTT(30) DEF Peers, NodeState, Configuration
<1>9. s \in NodeState /\ Tracked(e, s) /\ SameWaiting(e, s)
  BY <1>6, <1>8, SentFacts, WaitingUntouched
<1>10. \A m \in Appends(i, e, Peers(i, n)) : Fitting(m)
  BY <1>6, <1>7, <1>8, AppendsFit
<1>11. BecomeLeader(i, n) = s /\ BecomeLeaderOut(i, n) = Appends(i, e, Peers(i, n))
  BY Zenon DEF BecomeLeader, BecomeLeaderOut, e
<1> HIDE DEF s
<1>12. BegunAll(s.log) /\ Awaiting(s)
  BY <1>7, <1>9, WaitingStays
<1>13. Sane(s)
  BY <1>1, <1>6, <1>9 DEF Sane, Tracked
<1> QED BY <1>10, <1>11, <1>12, <1>13 DEF Behaves

\* A new candidate had nobody waiting either.
LEMMA CandidacyBehaves ==
  ASSUME NEW i \in Server, NEW n, Sane(n), BegunAll(n.log), Awaiting(n), n.role # Leader
  PROVE  Behaves(BecomeCandidate(i, n), BecomeCandidateOut(i, n))
<1> DEFINE c == Campaign(i, n)
           requests == {RequestVoteMsg(i, p, c) : p \in Peers(i, n)}
<1>1. n \in NodeState /\ n.snapshotIndex <= n.lastApplied
  BY DEF Sane
<1>2. c \in NodeState /\ c.snapshotIndex = n.snapshotIndex /\ c.lastApplied = n.lastApplied
  BY <1>1, CampaignFacts, Zenon
<1>3. SameWaiting(n, c)
  BY <1>1, CampaignWaiting
<1>4. \A m \in requests : Fitting(m)
  BY OthersFit DEF RequestVoteMsg, Peers
<1>5. /\ BecomeCandidate(i, n) = IF 1 >= Majority(n) THEN BecomeLeader(i, c) ELSE c
      /\ BecomeCandidateOut(i, n) =
           requests \cup (IF 1 >= Majority(n) THEN BecomeLeaderOut(i, c) ELSE {})
  BY Zenon DEF BecomeCandidate, BecomeCandidateOut
<1> HIDE DEF c, requests
<1>6. Sane(c) /\ BegunAll(c.log) /\ Awaiting(c)
  BY <1>1, <1>2, <1>3, WaitingStays DEF Sane
<1>7. CASE 1 >= Majority(n)
  <2>1. Behaves(BecomeLeader(i, c), BecomeLeaderOut(i, c))
    BY <1>6, ElectedBehaves
  <2>2. BecomeCandidate(i, n) = BecomeLeader(i, c)
        /\ BecomeCandidateOut(i, n) = requests \cup BecomeLeaderOut(i, c)
    BY <1>5, <1>7
  <2> QED BY <1>4, <2>1, <2>2 DEF Behaves
<1>8. CASE ~(1 >= Majority(n))
  <2>1. BecomeCandidate(i, n) = c /\ BecomeCandidateOut(i, n) = requests
    BY <1>5, <1>8
  <2> QED BY <1>4, <1>6, <2>1 DEF Behaves
<1> QED BY <1>7, <1>8

\* start_election keeps the invariant.
LEMMA TimeoutSessions ==
  ASSUME IInv, LogFed, LogFed', SessionInv, NEW i \in Server, Timeout(i)
  PROVE  SessionInv'
<1> DEFINE n == node[i]
           p == Poll(i, n)
<1>1. n \in NodeState /\ Sane(n) /\ BegunAll(n.log) /\ Awaiting(n)
  BY SessionFacts
<1>2. n.role # Leader
  BY DEF Timeout
<1>3. Sane(p) /\ p.role = PreCandidate
  BY <1>1, PollFacts, Zenon
<1>4. SameWaiting(n, p)
  BY <1>1, <1>2, CampaignWaiting
<1>5. \/ Finish(i, BecomeCandidate(i, n), BecomeCandidateOut(i, n))
      \/ Finish(i, BecomeCandidate(i, p), BecomeCandidateOut(i, p))
      \/ Finish(i, p, {PreVoteMsg(i, q, p) : q \in Peers(i, n)})
  BY Zenon DEF Timeout
<1>6. \A m \in {PreVoteMsg(i, q, p) : q \in Peers(i, n)} : Fitting(m)
  BY OthersFit DEF PreVoteMsg, Peers
<1> HIDE DEF p
<1>7. BegunAll(p.log) /\ Awaiting(p) /\ p.role # Leader
  BY <1>1, <1>3, <1>4, WaitingStays DEF PreCandidate, Leader
<1>8. CASE Finish(i, BecomeCandidate(i, n), BecomeCandidateOut(i, n))
  BY <1>1, <1>2, <1>8, CandidacyBehaves, FinishSessions
<1>9. CASE Finish(i, BecomeCandidate(i, p), BecomeCandidateOut(i, p))
  BY <1>3, <1>7, <1>9, CandidacyBehaves, FinishSessions
<1>10. CASE Finish(i, p, {PreVoteMsg(i, q, p) : q \in Peers(i, n)})
  BY <1>3, <1>4, <1>6, <1>10, IdleSessions
<1> QED BY <1>5, <1>8, <1>9, <1>10

\* A heartbeat keeps the invariant.
LEMMA HeartbeatSessions ==
  ASSUME IInv, LogFed, LogFed', SessionInv, NEW i \in Server, Heartbeat(i)
  PROVE  SessionInv'
BY SessionFacts, SendingSessions DEF Heartbeat

\* A message between nodes comes from another one.
LEMMA FromAnother ==
  ASSUME SessionInv, NEW m \in msgs, m.type \notin {"ClientReply", "ClientRequest"}
  PROVE  m.src # m.dst
BY DEF SessionInv, Fitting

\* handle_pre_vote keeps the invariant.
LEMMA PreVoteSessions ==
  ASSUME IInv, LogFed, LogFed', SessionInv, NEW i \in Server, NEW m \in msgs, m.dst = i,
         HandlePreVote(i, m)
  PROVE  SessionInv'
<1>1. m.src # i
  BY FromAnother DEF HandlePreVote
<1>2. PICK t, g : Post(i, node[i], {PreVoteRespMsg(i, m.src, t, g)})
  BY DEF HandlePreVote
<1>3. Fitting(PreVoteRespMsg(i, m.src, t, g))
  BY <1>1, OthersFit DEF PreVoteRespMsg
<1>4. SameWaiting(node[i], node[i])
  BY WaitingComposes
<1> QED BY <1>2, <1>3, <1>4, SessionFacts, IdleSessions DEF Post

\* handle_pre_vote_resp keeps the invariant.
LEMMA PreVoteRespSessions ==
  ASSUME IInv, LogFed, LogFed', SessionInv, NEW i \in Server, NEW m \in msgs, m.dst = i,
         HandlePreVoteResp(i, m)
  PROVE  SessionInv'
<1> DEFINE n == node[i]
           pv == n.preVotes \cup {m.src}
           polled == [n EXCEPT !.preVotes = pv]
<1>1. m \in NodeMessage /\ m.type = "PreVoteResp"
  BY DEF HandlePreVoteResp, IInv, MessageInv, MessagesTyped
<1>2. m.src \in Server /\ m.term \in Nat
  BY <1>1, MessageOfType DEF VoteResponse
<1>3. n \in NodeState /\ Sane(n) /\ BegunAll(n.log) /\ Awaiting(n)
  BY SessionFacts
<1>4. CASE Post(i, StepDown(n, m.term), {})
  BY <1>2, <1>4, StepDownSessions
<1>5. CASE PollAnswered(n, m)
  <2>1. n.role # Leader
    BY <1>5 DEF PollAnswered, PreCandidate, Leader
  <2>2. pv \in SUBSET Server
    BY <1>2, <1>3 DEF NodeState
  <2>3. \/ Post(i, BecomeCandidate(i, polled), BecomeCandidateOut(i, polled))
        \/ Post(i, polled, {})
        \/ Post(i, StepDown(n, m.term), {})
    BY Zenon DEF HandlePreVoteResp
  <2>4. SameWaiting(n, polled)
    BY <1>3, WaitingUntouched
  <2> HIDE DEF pv
  <2>5. polled \in NodeState
    BY <1>3, <2>2, ZenonT(90) DEF NodeState
  <2>6. polled.role = n.role /\ Tracked(n, polled)
    BY <1>3, SMTT(30) DEF NodeState, Tracked
  <2> HIDE DEF polled
  <2>7. Sane(polled)
    BY <1>3, <2>5, <2>6 DEF Sane, Tracked
  <2>8. BegunAll(polled.log) /\ Awaiting(polled) /\ polled.role # Leader
    BY <1>3, <2>1, <2>4, <2>6, WaitingStays
  <2>9. CASE Post(i, BecomeCandidate(i, polled), BecomeCandidateOut(i, polled))
    BY <2>7, <2>8, <2>9, CandidacyBehaves, FinishSessions DEF Post
  <2>10. CASE Post(i, polled, {})
    BY <2>4, <2>7, <2>10, IdleSessions DEF Post
  <2> QED BY <2>3, <2>9, <2>10, <1>4
<1> QED BY <1>4, <1>5, Zenon DEF HandlePreVoteResp

\* handle_request_vote keeps the invariant.
LEMMA RequestVoteSessions ==
  ASSUME IInv, LogFed, LogFed', SessionInv, NEW i \in Server, NEW m \in msgs, m.dst = i,
         HandleRequestVote(i, m)
  PROVE  SessionInv'
<1> DEFINE n == node[i]
           s == IF m.term > n.currentTerm THEN StepDown(n, m.term) ELSE n
           granted == s.votedFor \in {Nil, m.src} /\ LogIsCurrent(s, m)
           v == IF granted THEN VoteFor(s, m.src) ELSE s
<1>1. m \in NodeMessage /\ m.type = "RequestVote"
  BY DEF HandleRequestVote, IInv, MessageInv, MessagesTyped
<1>2. m.src \in Server /\ m.term \in Nat /\ m.src # i
  BY <1>1, MessageOfType, FromAnother DEF VoteRequest
<1>3. n \in NodeState /\ Sane(n)
  BY SessionFacts
<1>4. ASSUME NEW x, NEW g PROVE Fitting(RequestVoteRespMsg(i, m.src, x, g))
  BY <1>2, OthersFit DEF RequestVoteRespMsg
<1>5. \/ Post(i, n, {RequestVoteRespMsg(i, m.src, n, FALSE)})
      \/ Post(i, v, {RequestVoteRespMsg(i, m.src, v, granted)})
  BY ZenonT(60) DEF HandleRequestVote
<1>6. Sane(s) /\ SameWaiting(n, s)
  <2>1. Sane(StepDown(n, m.term)) /\ SameWaiting(n, StepDown(n, m.term)) /\ SameWaiting(n, n)
    BY <1>2, <1>3, StepDownYields, WaitingUntouched, WaitingComposes
  <2> QED BY <1>3, <2>1
<1> HIDE DEF s, granted
<1>7. Sane(v) /\ SameWaiting(n, v)
  <2>1. s \in NodeState
    BY <1>6 DEF Sane
  <2>2. Sane(VoteFor(s, m.src))
    BY <1>2, <1>6, VoteForFacts, Zenon
  <2>3. SameWaiting(s, VoteFor(s, m.src))
    BY <2>1, WaitingUntouched
  <2>4. SameWaiting(n, VoteFor(s, m.src))
    BY <1>6, <2>3, WaitingComposes
  <2> QED BY <1>6, <2>2, <2>4
<1>8. CASE Post(i, n, {RequestVoteRespMsg(i, m.src, n, FALSE)})
  <2>1. SameWaiting(n, n)
    BY WaitingComposes
  <2> DEFINE out == {RequestVoteRespMsg(i, m.src, n, FALSE)}
  <2>2. \A x \in out : Fitting(x)
    BY <1>4
  <2>3. Finish(i, n, out)
    BY <1>8 DEF Post
  <2> HIDE DEF out
  <2> QED BY <1>3, <2>1, <2>2, <2>3, IdleSessions
<1> HIDE DEF v
<1>9. CASE Post(i, v, {RequestVoteRespMsg(i, m.src, v, granted)})
  BY <1>4, <1>7, <1>9, IdleSessions DEF Post
<1> QED BY <1>5, <1>8, <1>9

\* handle_request_vote_resp keeps the invariant.
LEMMA RequestVoteRespSessions ==
  ASSUME IInv, LogFed, LogFed', SessionInv, NEW i \in Server, NEW m \in msgs, m.dst = i,
         HandleRequestVoteResp(i, m)
  PROVE  SessionInv'
<1> DEFINE n == node[i]
           votes == n.votes \cup {m.src}
           counted == [n EXCEPT !.votes = votes]
<1>1. m \in NodeMessage /\ m.type = "RequestVoteResp"
  BY DEF HandleRequestVoteResp, IInv, MessageInv, MessagesTyped
<1>2. m.src \in Server /\ m.term \in Nat
  BY <1>1, MessageOfType DEF VoteResponse
<1>3. n \in NodeState /\ Sane(n) /\ BegunAll(n.log) /\ Awaiting(n)
  BY SessionFacts
<1>4. CASE Post(i, StepDown(n, m.term), {})
  BY <1>2, <1>4, StepDownSessions
<1>5. CASE \/ Post(i, BecomeLeader(i, counted), BecomeLeaderOut(i, counted))
           \/ Post(i, counted, {})
  <2>1. votes \in SUBSET Server
    BY <1>2, <1>3 DEF NodeState
  <2>2. SameWaiting(n, counted)
    BY <1>3, WaitingUntouched
  <2> HIDE DEF votes
  <2>3. counted \in NodeState
    BY <1>3, <2>1, ZenonT(90) DEF NodeState
  <2>4. counted.snapshotIndex = n.snapshotIndex /\ counted.lastApplied = n.lastApplied
    BY <1>3, SMTT(30) DEF NodeState
  <2> HIDE DEF counted
  <2>5. Sane(counted) /\ BegunAll(counted.log)
    BY <1>3, <2>2, <2>3, <2>4, WaitingStays DEF Sane
  <2> QED BY <1>5, <2>2, <2>5, ElectedBehaves, FinishSessions, IdleSessions DEF Post
<1> QED BY <1>4, <1>5, Zenon DEF HandleRequestVoteResp

-----------------------------------------------------------------------------
(* Following and leading *)

\* A leader that hears from a leader whose term is not stale is of an earlier term: there is
\* one leader of each, and nobody hears from itself.
LEMMA LeaderHears ==
  ASSUME ~MembershipChanges, IInv, LInv, SessionInv, NEW i \in Server,
         NEW m \in msgs, m.dst = i, m.type \in {"AppendEntries", "InstallSnapshot"},
         ~Stale(node[i], m), node[i].role = Leader
  PROVE  m.term > node[i].currentTerm
<1>1. m \in NodeMessage
  BY DEF IInv, MessageInv, MessagesTyped
<1>2. m.term \in Nat
  BY <1>1, MessageOfType DEF AppendEntries, InstallSnapshot
<1>3. m.src # i
  BY FromAnother
<1>4. <<m.term, m.src>> \in leaderOfTerm
  BY DEF LInv, Explains, MessagesExplained, FromLeader
<1>5. <<node[i].currentTerm, i>> \in leaderOfTerm
  BY DEF IInv, StateInv, LeadersElected
<1>6. \A e, f \in leaderOfTerm : e[1] = f[1] => e[2] = f[2]
  <2>1. \A e \in leaderOfTerm : \E Q \in SUBSET InitialMembers :
          Electors(Q) /\ \A p \in Q : <<p, e[1], e[2]>> \in votesByTerm
    BY DEF IInv, StateInv, LeadersElected, VotesFor
  <2>2. \A v, w \in votesByTerm : v[1] = w[1] /\ v[2] = w[2] => v[3] = w[3]
    BY DEF IInv, StateInv, VoteSafety
  <2> QED BY <2>1, <2>2, OneElected, ZenonT(60)
<1>7. m.term # node[i].currentTerm
  BY <1>3, <1>4, <1>5, <1>6
<1>8. node[i].currentTerm \in Nat
  BY SessionFacts
<1> QED BY <1>2, <1>7, <1>8 DEF Stale

\* So nobody waits at a node that has recognised a leader.
LEMMA RecognisedAlone ==
  ASSUME ~MembershipChanges, IInv, LInv, SessionInv, NEW i \in Server,
         NEW m \in msgs, m.dst = i, m.type \in {"AppendEntries", "InstallSnapshot"},
         ~Stale(node[i], m)
  PROVE  LET r == Recognise(node[i], m)
         IN /\ Sane(r) /\ r.log = node[i].log
            /\ r.pending = {} /\ r.pendingByReq = {}
<1> DEFINE n == node[i]
           s == IF m.term > n.currentTerm THEN StepDown(n, m.term) ELSE n
           role == IF s.role \in {Candidate, PreCandidate} THEN Follower ELSE s.role
           r == [s EXCEPT !.role = role, !.leaderId = m.src, !.heardLeader = LeaderStickiness]
<1>1. m \in NodeMessage
  BY DEF IInv, MessageInv, MessagesTyped
<1>2. m.term \in Nat /\ m.src \in Server
  BY <1>1, MessageOfType DEF AppendEntries, InstallSnapshot
<1>3. n \in NodeState /\ Sane(n) /\ Awaiting(n)
  BY SessionFacts
<1>4. Sane(Recognise(n, m))
  BY <1>2, <1>3, RecogniseFacts
<1>5. Recognise(n, m) = r
  BY Zenon DEF Recognise
<1>6. s \in NodeState /\ s.log = n.log /\ s.pending = {} /\ s.pendingByReq = {}
  <2>1. CASE m.term > n.currentTerm
    <3> DEFINE d == StepDown(n, m.term)
    <3>1. d \in NodeState
      BY <1>2, <1>3, StepDownFacts, Zenon
    <3>2. d.log = n.log /\ d.pending = {} /\ d.pendingByReq = {}
      BY <1>2, <1>3, SMTT(30) DEF NodeState, StepDown
    <3> HIDE DEF d
    <3>3. s = d
      BY <2>1 DEF d
    <3> QED BY <3>1, <3>2, <3>3
  <2>2. CASE ~(m.term > n.currentTerm)
    <3>1. n.role # Leader
      BY <2>2, LeaderHears
    <3> QED BY <1>3, <2>2, <3>1 DEF Awaiting
  <2> QED BY <2>1, <2>2
<1> HIDE DEF s, role
<1>7. r.log = s.log /\ r.pending = s.pending /\ r.pendingByReq = s.pendingByReq
  BY <1>6, SMTT(30) DEF NodeState
<1> HIDE DEF r
<1> QED BY <1>4, <1>5, <1>6, <1>7

\* Where nobody waits, a handler may do anything with entries that were begun.
LEMMA AloneSessions ==
  ASSUME IInv, LogFed, LogFed', SessionInv, NEW i \in Server, NEW n, NEW out,
         Sane(n), BegunAll(n.log), n.pending = {}, n.pendingByReq = {},
         \A m \in out : Fitting(m), Finish(i, n, out)
  PROVE  SessionInv'
BY NobodyWaits, FinishSessions DEF Behaves

\* A change of the configuration lets all wait on.
LEMMA ConfigWaiting ==
  ASSUME NEW i, NEW n \in NodeState
  PROVE  /\ \A M : SameWaiting(n, SetMembers(i, n, M))
         /\ \A M, k : SameWaiting(n, [SetMembers(i, n, M) EXCEPT !.configIndex = k])
         /\ \A base, es : SameWaiting(n, ApplyConfig(i, n, base, es))
<1>1. ASSUME NEW M, NEW k
      PROVE  /\ SameWaiting(n, SetMembers(i, n, M))
             /\ SameWaiting(n, [SetMembers(i, n, M) EXCEPT !.configIndex = k])
  <2> DEFINE nxt == [p \in Server |-> IF p \in M \ {i} THEN NextIndex(n, p) ELSE 0]
             mat == [p \in Server |-> IF p \in M \ {i} THEN n.matchIndex[p] ELSE 0]
             snt == [p \in Server |-> IF p \in M \ {i} THEN n.sentUpto[p] ELSE 0]
             a == [n EXCEPT !.members = M]
             b == [n EXCEPT !.members = M, !.nextIndex = nxt, !.matchIndex = mat,
                            !.sentUpto = snt]
  <2>1. SetMembers(i, n, M) = IF n.role # Leader THEN a ELSE b
    BY Zenon DEF SetMembers
  <2> HIDE DEF nxt, mat, snt
  <2>2. SameWaiting(n, a) /\ SameWaiting(n, [a EXCEPT !.configIndex = k])
    BY SMTT(30) DEF NodeState, SameWaiting
  <2>3. SameWaiting(n, b) /\ SameWaiting(n, [b EXCEPT !.configIndex = k])
    BY SMTT(30) DEF NodeState, SameWaiting
  <2> HIDE DEF a, b
  <2> QED BY <2>1, <2>2, <2>3
<1>2. ASSUME NEW base, NEW es
      PROVE  SameWaiting(n, ApplyConfig(i, n, base, es))
  <2> DEFINE M == ConfigAfter(n.members, es)
             k == base + Largest(ConfigPositions(es))
  <2>1. \/ ApplyConfig(i, n, base, es) = n
        \/ ApplyConfig(i, n, base, es) = [SetMembers(i, n, M) EXCEPT !.configIndex = k]
    BY Zenon DEF ApplyConfig
  <2> HIDE DEF M, k
  <2> QED BY <1>1, <2>1, WaitingComposes
<1> QED BY <1>1, <1>2

\* Entries that follow one another were begun if each part was.
LEMMA BegunConcat ==
  ASSUME NEW s \in Seq(LogEntry), NEW t \in Seq(LogEntry), BegunAll(s), BegunAll(t)
  PROVE  BegunAll(s \o t)
<1> SUFFICES ASSUME NEW k \in 1 .. Len(s \o t) PROVE Begun((s \o t)[k].cmd)
  BY DEF BegunAll
<1>1. Len(s) \in Nat /\ Len(t) \in Nat /\ Len(s \o t) = Len(s) + Len(t)
  BY ConcatProperties
<1>2. (s \o t)[k] = IF k <= Len(s) THEN s[k] ELSE t[k - Len(s)]
  BY <1>1, ConcatProperties
<1>3. CASE k <= Len(s)
  BY <1>1, <1>2, <1>3 DEF BegunAll
<1>4. CASE k > Len(s)
  <2>1. k - Len(s) \in 1 .. Len(t)
    BY <1>1, <1>4
  <2> QED BY <1>1, <1>2, <1>4, <2>1 DEF BegunAll
<1> QED BY <1>1, <1>3, <1>4

\* A section of a log has its entries.
LEMMA BegunSection ==
  ASSUME NEW t \in Seq(LogEntry), BegunAll(t), NEW lo \in Nat \ {0}, NEW hi \in Int,
         hi <= Len(t)
  PROVE  BegunAll(SubSeq(t, lo, hi)) /\ SubSeq(t, lo, hi) \in Seq(LogEntry)
<1> DEFINE s == SubSeq(t, lo, hi)
<1>1. \A k \in lo .. hi : t[k] \in LogEntry
  OBVIOUS
<1>2. /\ s \in Seq(LogEntry)
      /\ Len(s) = IF lo <= hi THEN hi - lo + 1 ELSE 0
      /\ \A k \in 1 .. hi - lo + 1 : s[k] = t[lo + k - 1]
  BY <1>1, SubSeqProperties
<1> HIDE DEF s
<1>3. \A k \in 1 .. Len(s) : k \in 1 .. hi - lo + 1 /\ lo + k - 1 \in 1 .. Len(t)
  BY <1>2
<1>4. \A k \in 1 .. Len(s) : \E j \in 1 .. Len(t) : s[k] = t[j]
  BY <1>2, <1>3
<1>5. BegunAll(s)
  BY <1>4, BegunPart
<1> QED BY <1>2, <1>5 DEF s

\* Merging entries that were begun leaves entries that were begun, and nobody waiting.
LEMMA MergeAlone ==
  ASSUME NEW i \in Server, NEW n, Sane(n), NEW m \in AppendEntries, PrevMatches(n, m),
         BegunAll(n.log), BegunAll(m.entries), n.pending = {}, n.pendingByReq = {}
  PROVE  LET a == LearnCommit(MergeEntries(i, n, m), m)
         IN Sane(a) /\ BegunAll(a.log) /\ a.pending = {} /\ a.pendingByReq = {}
<1> DEFINE e == MergeEntries(i, n, m)
           a == LearnCommit(e, m)
<1>1. Sane(e) /\ Sane(a)
  BY MergeEntriesFacts, LearnCommitFacts
<1>2. BegunAll(e.log) /\ e.pending = {} /\ e.pendingByReq = {}
  <2>1. CASE Fresh(n, m) = {}
    BY <2>1 DEF MergeEntries
  <2>2. CASE Fresh(n, m) # {}
    <3> DEFINE first == Smallest(Fresh(n, m))
               base == m.prevLogIndex + first - 1
               upto == base - n.snapshotIndex
               new == SubSeq(m.entries, first, Len(m.entries))
               kept == SubSeq(n.log, 1, upto)
               log == kept \o new
               s == [n EXCEPT !.log = log, !.dirty = TRUE]
    <3>1. e = ApplyConfig(i, s, base, new)
      BY <2>2, Zenon DEF MergeEntries
    <3>2. n \in NodeState
      BY DEF Sane
    <3>3. n.log \in Seq(LogEntry) /\ n.snapshotIndex \in Nat
      BY <3>2, SMTT(30) DEF NodeState
    <3>4. m.prevLogIndex \in Nat /\ m.entries \in Seq(LogEntry) /\ Len(m.entries) \in Nat
      BY DEF AppendEntries
    <3>5. Fresh(n, m) \in SUBSET (1 .. Len(m.entries)) /\ Fresh(n, m) \in SUBSET Nat
      BY <3>4 DEF Fresh
    <3>6. first \in Fresh(n, m) /\ \A k \in Fresh(n, m) : first <= k
      BY <2>2, <3>5, SmallestType
    <3>7. first \in 1 .. Len(m.entries) /\ first \in Nat \ {0}
      BY <3>4, <3>5, <3>6
    <3> HIDE DEF first
    <3>8. BegunAll(new) /\ new \in Seq(LogEntry)
      BY <3>4, <3>7, BegunSection
    <3>9. upto \in Int /\ upto <= Len(n.log) /\ base \in Nat
      <4>1. CASE first = 1
        <5>1. n.snapshotIndex <= m.prevLogIndex /\ m.prevLogIndex <= LastIndex(n)
          BY DEF PrevMatches, HasIndex
        <5>2. Len(n.log) \in Nat
          BY <3>3
        <5> QED BY <3>3, <3>4, <4>1, <5>1, <5>2 DEF LastIndex
      <4>2. CASE first # 1
        <5> DEFINE j == first - 1
        <5>1. j \in 1 .. Len(m.entries) /\ j \in Nat /\ ~(first <= j)
          BY <3>4, <3>7, <4>2
        <5>2. j \notin Fresh(n, m)
          BY <3>6, <5>1
        <5>3. TermAt(n, m.prevLogIndex + j) = m.entries[j].term
          BY <5>1, <5>2 DEF Fresh
        <5>4. m.entries[j] \in LogEntry
          BY <3>4, <5>1
        <5>5. m.entries[j].term \in Nat
          BY <5>4 DEF LogEntry
        <5>6. HasIndex(n, m.prevLogIndex + j)
          BY <5>3, <5>5 DEF TermAt
        <5>7. m.prevLogIndex + j <= n.snapshotIndex + Len(n.log) /\ Len(n.log) \in Nat
          BY <3>3, <5>6 DEF HasIndex, LastIndex
        <5> QED BY <3>3, <3>4, <3>7, <5>7
      <4> QED BY <4>1, <4>2
    <3> HIDE DEF upto, base
    <3>10. BegunAll(kept) /\ kept \in Seq(LogEntry)
      BY <3>3, <3>9, BegunSection
    <3> HIDE DEF kept, new
    <3>11. BegunAll(log) /\ log \in Seq(LogEntry)
      BY <3>8, <3>10, BegunConcat, ConcatProperties
    <3> HIDE DEF log
    <3>12. s \in NodeState
      BY <3>2, <3>11, ZenonT(90) DEF NodeState
    <3>13. s.log = log /\ s.pending = {} /\ s.pendingByReq = {}
      BY <3>2, SMTT(30) DEF NodeState
    <3> HIDE DEF s, e
    <3>14. SameWaiting(s, e)
      BY <3>1, <3>12, ConfigWaiting
    <3> QED BY <3>11, <3>13, <3>14 DEF SameWaiting
  <2> QED BY <2>1, <2>2
<1> HIDE DEF e
<1>3. BegunAll(a.log) /\ a.pending = {} /\ a.pendingByReq = {}
  <2> DEFINE c == Smaller(m.leaderCommit, m.prevLogIndex + Len(m.entries))
             b == [e EXCEPT !.commitIndex = c]
  <2>1. a = e \/ a = b
    BY Zenon DEF LearnCommit
  <2> HIDE DEF c
  <2>2. e \in NodeState
    BY <1>1 DEF Sane
  <2>3. b.log = e.log /\ b.pending = e.pending /\ b.pendingByReq = e.pendingByReq
    BY <2>2, SMTT(30) DEF NodeState
  <2> HIDE DEF b, a
  <2> QED BY <1>2, <2>1, <2>3
<1> QED BY <1>1, <1>3 DEF e

\* handle_append_entries keeps the invariant.
LEMMA AppendEntriesSessions ==
  ASSUME ~MembershipChanges, IInv, LInv, LogFed, LogFed', SessionInv,
         NEW i \in Server, NEW m \in msgs, m.dst = i, HandleAppendEntries(i, m)
  PROVE  SessionInv'
<1> DEFINE n == node[i]
           r == Recognise(n, m)
           a == LearnCommit(MergeEntries(i, r, m), m)
           reply(s, ok, upto, ci, ct) == {AppendEntriesRespMsg(i, s, m, ok, upto, ci, ct)}
<1>1. m \in NodeMessage /\ m.type = "AppendEntries"
  BY DEF HandleAppendEntries, IInv, MessageInv, MessagesTyped
<1>2. m \in AppendEntries /\ m.src # i
  BY <1>1, MessageOfType, FromAnother
<1>3. Sane(n) /\ BegunAll(n.log)
  BY SessionFacts
<1>4. ASSUME NEW s, NEW ok, NEW upto, NEW ci, NEW ct
      PROVE  \A x \in reply(s, ok, upto, ci, ct) : Fitting(x)
  BY <1>2, OthersFit DEF AppendEntriesRespMsg
<1>5. \/ \E out : Post(i, n, out) /\ \A x \in out : Fitting(x)
      \/ ~Stale(n, m) /\ \E out : Post(i, r, out) /\ \A x \in out : Fitting(x)
      \/ /\ ~Stale(n, m) /\ PrevMatches(r, m)
         /\ \E out : Post(i, a, out) /\ \A x \in out : Fitting(x)
  <2>1. \/ Post(i, n, reply(n, FALSE, 0, 0, 0))
        \/ ~Stale(n, m) /\ Post(i, r, reply(r, TRUE, r.snapshotIndex, 0, 0))
        \/ ~Stale(n, m) /\ Post(i, r, reply(r, FALSE, 0, LastIndex(r) + 1, 0))
        \/ /\ ~Stale(n, m)
           /\ Post(i, r, reply(r, FALSE, 0, ConflictIndex(r, m.prevLogIndex),
                               TermAt(r, m.prevLogIndex)))
        \/ /\ ~Stale(n, m) /\ PrevMatches(r, m)
           /\ Post(i, a, reply(a, TRUE, m.prevLogIndex + Len(m.entries), 0, 0))
    BY ZenonT(60) DEF HandleAppendEntries
  <2> HIDE DEF r, a, reply
  <2> QED BY <1>4, <2>1
<1>6. CASE \E out : Post(i, n, out) /\ \A x \in out : Fitting(x)
  <2>1. SameWaiting(n, n)
    BY WaitingComposes
  <2> QED BY <1>3, <1>6, <2>1, IdleSessions DEF Post
<1>7. ASSUME ~Stale(n, m)
      PROVE  Sane(r) /\ r.log = n.log /\ r.pending = {} /\ r.pendingByReq = {}
  BY <1>1, <1>7, RecognisedAlone, Zenon
<1>8. CASE ~Stale(n, m) /\ \E out : Post(i, r, out) /\ \A x \in out : Fitting(x)
  <2> HIDE DEF r
  <2> QED BY <1>3, <1>7, <1>8, AloneSessions DEF Post
<1>9. CASE /\ ~Stale(n, m) /\ PrevMatches(r, m)
           /\ \E out : Post(i, a, out) /\ \A x \in out : Fitting(x)
  <2>1. BegunAll(m.entries)
    BY <1>1 DEF SessionInv, Fitting
  <2> HIDE DEF r
  <2>2. Sane(a) /\ BegunAll(a.log) /\ a.pending = {} /\ a.pendingByReq = {}
    BY <1>2, <1>3, <1>7, <1>9, <2>1, MergeAlone
  <2> HIDE DEF a
  <2> QED BY <1>9, <2>2, AloneSessions DEF Post
<1> QED BY <1>5, <1>6, <1>8, <1>9

\* Installing a snapshot leaves no entries, and nobody waiting.
LEMMA InstallAlone ==
  ASSUME NEW i \in Server, NEW n, Sane(n), NEW m \in InstallSnapshot,
         n.pending = {}, n.pendingByReq = {}
  PROVE  LET a == InstallState(i, n, m)
         IN Sane(a) /\ BegunAll(a.log) /\ a.pending = {} /\ a.pendingByReq = {}
<1> DEFINE a == InstallState(i, n, m)
           r == RestoreMachine(n, m.data, m.lastIncludedIndex)
           mem == IF m.members # {} THEN m.members ELSE r.snapshotMembers
           c == Larger(r.commitIndex, m.lastIncludedIndex)
           s == [r EXCEPT !.snapshotIndex = m.lastIncludedIndex,
                          !.snapshotTerm = m.lastIncludedTerm,
                          !.snapshotData = m.data, !.snapshotMembers = mem,
                          !.log = <<>>, !.commitIndex = c, !.dirty = TRUE]
<1>0. n \in NodeState /\ Sane(a)
  BY InstallStateFacts DEF Sane
<1>1. /\ m.lastIncludedIndex \in Nat /\ m.lastIncludedTerm \in TermOrNone
      /\ m.data \in Seq(Command) /\ m.members \in Configuration
  BY DEF InstallSnapshot
<1>2. r = [n EXCEPT !.sm = m.data, !.lastApplied = m.lastIncludedIndex]
  BY DEF RestoreMachine
<1>3. r \in NodeState
  BY <1>0, <1>1, <1>2, ZenonT(90) DEF NodeState
<1>4. r.pending = {} /\ r.pendingByReq = {}
  BY <1>0, <1>2, SMTT(30) DEF NodeState
<1>5. a = IF m.members # {} THEN SetMembers(i, s, m.members) ELSE s
  BY Zenon DEF InstallState
<1> HIDE DEF r, a
<1>6. mem \in Configuration /\ c \in Nat /\ <<>> \in Seq(LogEntry)
  BY <1>1, <1>3 DEF NodeState, Larger
<1> HIDE DEF mem, c
<1>7. s \in NodeState
  BY <1>1, <1>3, <1>6, ZenonT(60) DEF NodeState
<1>8. s.log = <<>> /\ s.pending = {} /\ s.pendingByReq = {}
  BY <1>3, <1>4, SMTT(30) DEF NodeState
<1> HIDE DEF s
<1>9. SameWaiting(s, SetMembers(i, s, m.members)) /\ SameWaiting(s, s)
  BY <1>7, ConfigWaiting, WaitingComposes
<1>10. SameWaiting(s, a)
  BY <1>5, <1>9
<1>11. a.log = <<>> /\ a.pending = {} /\ a.pendingByReq = {}
  BY <1>8, <1>10 DEF SameWaiting
<1>12. BegunAll(a.log)
  BY <1>11 DEF BegunAll
<1> QED BY <1>0, <1>11, <1>12 DEF a

\* handle_install_snapshot keeps the invariant.
LEMMA InstallSnapshotSessions ==
  ASSUME ~MembershipChanges, IInv, LInv, LogFed, LogFed', SessionInv,
         NEW i \in Server, NEW m \in msgs, m.dst = i, HandleInstallSnapshot(i, m)
  PROVE  SessionInv'
<1> DEFINE n == node[i]
           r == Recognise(n, m)
           held == [r EXCEPT !.commitIndex = m.lastIncludedIndex]
           installed == InstallState(i, r, m)
           reply(s, k) == {InstallSnapshotRespMsg(i, m.src, s, k)}
<1>1. m \in NodeMessage /\ m.type = "InstallSnapshot"
  BY DEF HandleInstallSnapshot, IInv, MessageInv, MessagesTyped
<1>2. m \in InstallSnapshot /\ m.src # i
  BY <1>1, MessageOfType, FromAnother
<1>3. m.lastIncludedIndex \in Nat
  BY <1>2 DEF InstallSnapshot
<1>4. Sane(n) /\ BegunAll(n.log)
  BY SessionFacts
<1>5. ASSUME NEW s, NEW k
      PROVE  \A x \in reply(s, k) : Fitting(x)
  BY <1>2, OthersFit DEF InstallSnapshotRespMsg
<1>6. \/ \E out : Post(i, n, out) /\ \A x \in out : Fitting(x)
      \/ /\ ~Stale(n, m)
         /\ \E s \in {r, held, installed} :
              \E out : Post(i, s, out) /\ \A x \in out : Fitting(x)
  <2>1. \/ Post(i, n, reply(n, 0))
        \/ ~Stale(n, m) /\ Post(i, r, reply(r, Smaller(LastIndex(r), r.commitIndex)))
        \/ ~Stale(n, m) /\ Post(i, held, reply(held, m.lastIncludedIndex))
        \/ ~Stale(n, m) /\ Post(i, installed, reply(installed, m.lastIncludedIndex))
    BY ZenonT(60) DEF HandleInstallSnapshot
  <2> HIDE DEF r, held, installed, reply
  <2> QED BY <1>5, <2>1
<1>7. CASE \E out : Post(i, n, out) /\ \A x \in out : Fitting(x)
  <2>1. SameWaiting(n, n)
    BY WaitingComposes
  <2> QED BY <1>4, <1>7, <2>1, IdleSessions DEF Post
<1>8. ASSUME ~Stale(n, m), NEW s \in {r, held, installed}
      PROVE  Sane(s) /\ BegunAll(s.log) /\ s.pending = {} /\ s.pendingByReq = {}
  <2>1. Sane(r) /\ r.log = n.log /\ r.pending = {} /\ r.pendingByReq = {}
    BY <1>1, <1>8, RecognisedAlone, Zenon
  <2> HIDE DEF r
  <2>2. r \in NodeState /\ r.snapshotIndex <= r.lastApplied
    BY <2>1 DEF Sane
  <2>3. held \in NodeState
    BY <1>3, <2>2, ZenonT(90) DEF NodeState
  <2>4. /\ held.log = r.log /\ held.pending = {} /\ held.pendingByReq = {}
        /\ held.snapshotIndex = r.snapshotIndex /\ held.lastApplied = r.lastApplied
    BY <2>1, <2>2, SMTT(30) DEF NodeState
  <2> HIDE DEF held
  <2>5. /\ Sane(installed) /\ BegunAll(installed.log)
        /\ installed.pending = {} /\ installed.pendingByReq = {}
    BY <1>2, <2>1, InstallAlone
  <2> HIDE DEF installed
  <2> QED BY <1>4, <1>8, <2>1, <2>2, <2>3, <2>4, <2>5 DEF Sane
<1>9. CASE /\ ~Stale(n, m)
           /\ \E s \in {r, held, installed} :
                \E out : Post(i, s, out) /\ \A x \in out : Fitting(x)
  <2> HIDE DEF r, held, installed
  <2> QED BY <1>8, <1>9, AloneSessions DEF Post
<1> QED BY <1>6, <1>7, <1>9

\* Counting an acknowledgement and sending more keeps the invariant.
LEMMA AcknowledgeSessions ==
  ASSUME IInv, LogFed, LogFed', SessionInv, NEW i \in Server, NEW p \in Server, p # i,
         NEW match \in Nat, Acknowledge(i, p, match)
  PROVE  SessionInv'
<1> DEFINE n == node[i]
           a == Acknowledged(i, n, p, match)
           more == IF WindowOpen(a, p) THEN {p} ELSE {}
<1>1. n \in NodeState /\ Sane(n) /\ BegunAll(n.log) /\ Awaiting(n)
  BY SessionFacts
<1>2. Sane(a)
  BY <1>1, AcknowledgedFacts
<1>3. SameWaiting(n, a)
  BY <1>1, WaitingUntouched
<1>4. Post(i, Sent(i, a, more), Appends(i, a, more))
  BY Zenon DEF Acknowledge
<1> HIDE DEF a
<1>5. BegunAll(a.log) /\ Awaiting(a)
  BY <1>1, <1>3, WaitingStays
<1>6. more \in SUBSET Server /\ i \notin more
  OBVIOUS
<1> HIDE DEF more
<1> QED BY <1>2, <1>4, <1>5, <1>6, SendingSessions

\* handle_append_entries_resp keeps the invariant.
LEMMA AppendEntriesRespSessions ==
  ASSUME IInv, LogFed, LogFed', SessionInv, NEW i \in Server, NEW m \in msgs, m.dst = i,
         HandleAppendEntriesResp(i, m)
  PROVE  SessionInv'
<1> DEFINE n == node[i]
           b == BackUp(n, m)
<1>1. m \in NodeMessage /\ m.type = "AppendEntriesResp"
  BY DEF HandleAppendEntriesResp, IInv, MessageInv, MessagesTyped
<1>2. m \in AppendEntriesResp /\ m.src # i
  BY <1>1, MessageOfType, FromAnother
<1>3. m.src \in Server /\ m.term \in Nat /\ m.matchIndex \in Nat
  BY <1>2 DEF AppendEntriesResp
<1>4. CASE Post(i, StepDown(n, m.term), {})
  BY <1>3, <1>4, StepDownSessions
<1>5. CASE Acknowledge(i, m.src, m.matchIndex)
  BY <1>2, <1>3, <1>5, AcknowledgeSessions
<1>6. CASE Post(i, Sent(i, b, {m.src}), Appends(i, b, {m.src}))
  <2>1. n \in NodeState /\ Sane(n) /\ BegunAll(n.log) /\ Awaiting(n)
    BY SessionFacts
  <2>2. Sane(b)
    BY <1>2, <2>1, BackUpFacts
  <2>3. SameWaiting(n, b)
    BY <2>1, WaitingUntouched
  <2> HIDE DEF b
  <2>4. BegunAll(b.log) /\ Awaiting(b)
    BY <2>1, <2>3, WaitingStays
  <2> QED BY <1>2, <1>3, <1>6, <2>2, <2>4, SendingSessions
<1> QED BY <1>4, <1>5, <1>6 DEF HandleAppendEntriesResp

\* handle_install_snapshot_resp keeps the invariant.
LEMMA InstallSnapshotRespSessions ==
  ASSUME IInv, LogFed, LogFed', SessionInv, NEW i \in Server, NEW m \in msgs, m.dst = i,
         HandleInstallSnapshotResp(i, m)
  PROVE  SessionInv'
<1>1. m \in NodeMessage /\ m.type = "InstallSnapshotResp"
  BY DEF HandleInstallSnapshotResp, IInv, MessageInv, MessagesTyped
<1>2. m \in InstallSnapshotResp /\ m.src # i
  BY <1>1, MessageOfType, FromAnother
<1>3. m.src \in Server /\ m.term \in Nat /\ m.matchIndex \in Nat
  BY <1>2 DEF InstallSnapshotResp
<1>4. Post(i, StepDown(node[i], m.term), {}) \/ Acknowledge(i, m.src, m.matchIndex)
  BY Zenon DEF HandleInstallSnapshotResp
<1> QED BY <1>2, <1>3, <1>4, StepDownSessions, AcknowledgeSessions

-----------------------------------------------------------------------------
(* Requests *)

\* An operation that is answered was committed if it is not the last its client has begun;
\* the last one was if the state machine of some node knows of it, and the session there has
\* its result.
LEMMA SessionAnswers ==
  ASSUME IInv, LogFed, SessionInv, NEW i \in Server, NEW c \in Client, NEW s \in Nat \ {0},
         s <= clientSeq[c], s <= SessionSeq(node[i].sm, c)
  PROVE  /\ \E r \in committed : r.cmd = ClientCommand(c, s)
         /\ s = clientSeq[c] =>
              /\ s = SessionSeq(node[i].sm, c)
              /\ FirstOf(committed, ClientCommand(c, s), SessionResult(node[i].sm, c))
<1> DEFINE h == node[i].sm
<1>1. /\ Len(h) <= Len(CommittedLog) /\ Len(CommittedLog) \in Nat
      /\ h = SubSeq(CommittedLog, 1, Len(h)) /\ Len(h) \in Nat
      /\ CommittedLog \in Seq(Command)
  BY DEF LogFed
<1>2. h \in Seq(Command)
  <2>1. node[i] \in NodeState
    BY NodeFacts
  <2> QED BY <2>1, SMTT(30) DEF NodeState
<1>3. clientSeq[c] \in Nat
  BY DEF IInv, CountersTyped
<1>4. ASSUME NEW j \in 1 .. Len(h)
      PROVE  \E r \in committed : r.index = j /\ r.cmd = h[j]
  <2>1. j \in 1 .. Len(CommittedLog) /\ h[j] = CommittedLog[j]
    BY <1>1
  <2>2. PICK r \in committed : r.index = j
    BY <2>1 DEF LogFed
  <2>3. r.cmd = CommittedLog[r.index]
    BY DEF LogFed
  <2> QED BY <2>1, <2>2, <2>3
<1> HIDE DEF h
<1>5. ASSUME NEW j \in 1 .. Len(h), h[j].client = c
      PROVE  h[j] = ClientCommand(c, h[j].seq) /\ h[j].seq \in Nat /\ h[j].seq <= clientSeq[c]
  <2>1. h[j] \in Command
    BY <1>2
  <2>2. h[j] = ClientCommand(c, h[j].seq) /\ h[j].seq \in Nat
    BY <1>5, <2>1, CommandOfClient
  <2>3. PICK r \in committed : r.cmd = h[j]
    BY <1>4
  <2>4. Begun(r.cmd)
    BY DEF SessionInv
  <2> QED BY <1>5, <2>2, <2>3, <2>4 DEF Begun
<1>6. CASE s < clientSeq[c]
  <2>1. s \in 1 .. clientSeq[c] - 1
    BY <1>3, <1>6
  <2> QED BY <1>6, <2>1 DEF SessionInv, EarlierCommitted
<1>7. CASE s = clientSeq[c]
  <2>1. \A j \in 1 .. Len(h) : h[j].client = c => h[j].seq <= s
    BY <1>5, <1>7
  <2>2. \E j \in 1 .. Len(h) : h[j].client = c /\ h[j].seq = s
    <3> DEFINE mine == {j \in 1 .. Len(h) : h[j].client = c}
               seqs == {0} \cup {h[k].seq : k \in mine}
    <3>1. seqs \in SUBSET Nat /\ seqs # {} /\ \A y \in seqs : y <= s
      BY <1>5, <2>1
    <3>2. SessionSeq(h, c) = Largest(seqs)
      BY Zenon DEF SessionSeq
    <3> HIDE DEF seqs
    <3>3. Largest(seqs) \in seqs
      BY <3>1, LargestType
    <3>4. Largest(seqs) \in Nat /\ Largest(seqs) <= s /\ s <= Largest(seqs)
      BY <3>1, <3>2, <3>3 DEF h
    <3>5. s \in seqs /\ s # 0
      BY <3>3, <3>4
    <3> QED BY <3>5 DEF seqs
  <2>3. \A r, q \in committed : r.index = q.index => r.cmd = q.cmd
    BY DEF LogFed
  <2>4. \A r \in committed : r.index \in Nat \ {0}
    BY <1>1 DEF LogFed
  <2>5. SessionSeq(h, c) = s /\ FirstOf(committed, ClientCommand(c, s), SessionResult(h, c))
    BY <1>2, <1>4, <2>1, <2>2, <2>3, <2>4, FirstResult
  <2> QED BY <2>5 DEF h, FirstOf
<1> QED BY <1>3, <1>6, <1>7

\* A new command waits at the end of the log, where it is, and the others wait on.
LEMMA ProposeWaiting ==
  ASSUME NEW i \in Server, NEW n, Sane(n), BegunAll(n.log), Awaiting(n), n.role = Leader,
         NEW addr \in Nat, NEW c \in Client, NEW s \in Nat, Begun(ClientCommand(c, s))
  PROVE  LET p == Propose(i, n, addr, ClientCommand(c, s))
         IN BegunAll(p.log) /\ Awaiting(p)
<1>0. n \in NodeState
  BY DEF Sane
<1> DEFINE cmd == ClientCommand(c, s)
           index == LastIndex(n) + 1
           e == Entry(n.currentTerm, cmd)
           log == Append(n.log, e)
           o == [n EXCEPT !.log = log, !.dirty = TRUE]
           a == ApplyConfig(i, o, index - 1, <<e>>)
           new == [index |-> index, addr |-> addr, seq |-> cmd.seq]
           req == [client |-> cmd.client, seq |-> cmd.seq, index |-> index]
           p == [a EXCEPT !.pending = a.pending \cup {new},
                          !.pendingByReq = a.pendingByReq \cup {req}]
<1>1. Propose(i, n, addr, cmd) = p
  BY Zenon DEF Propose
<1>2. e.cmd = cmd /\ cmd \in Command /\ cmd.seq = s /\ cmd.client = c
  BY DEF Entry, ClientCommand, Command, PutCommand
<1>3. n.log \in Seq(LogEntry) /\ n.snapshotIndex \in Nat /\ n.currentTerm \in Nat
  BY <1>0, SMTT(30) DEF NodeState
<1>4. e \in LogEntry
  BY <1>2, <1>3 DEF Entry, LogEntry
<1>5. new.index = index /\ new.seq = s /\ req.client = c /\ req.seq = s /\ req.index = index
  BY <1>2
<1> HIDE DEF e, cmd
<1>6. /\ Len(log) = Len(n.log) + 1 /\ Len(n.log) \in Nat /\ log \in Seq(LogEntry)
      /\ \A k \in 1 .. Len(n.log) : log[k] = n.log[k]
      /\ log[Len(n.log) + 1] = e
  BY <1>3, <1>4
<1> HIDE DEF log
<1>7. o \in NodeState
  BY <1>0, <1>6, ZenonT(90) DEF NodeState
<1>8. /\ o.log = log /\ o.snapshotIndex = n.snapshotIndex /\ o.role = n.role
      /\ o.pending = n.pending /\ o.pendingByReq = n.pendingByReq
  BY <1>0, SMTT(30) DEF NodeState
<1> HIDE DEF o
<1>9. SameWaiting(o, a)
  BY <1>7, ConfigWaiting
<1>10. a \in NodeState /\ Tracked(o, a)
  <2>1. index \in Nat /\ index - 1 \in Nat
    BY <1>0, LogFacts
  <2>2. <<e>> \in Seq(LogEntry)
    BY <1>4
  <2> HIDE DEF index, e
  <2> QED BY <1>7, <2>1, <2>2, ApplyConfigFacts
<1> HIDE DEF a, new, req
<1>11. /\ p.log = a.log /\ p.snapshotIndex = a.snapshotIndex /\ p.role = a.role
       /\ p.pending = a.pending \cup {new} /\ p.pendingByReq = a.pendingByReq \cup {req}
  BY <1>10, SMTT(30) DEF NodeState
<1> HIDE DEF p
<1>12. /\ p.log = log /\ p.snapshotIndex = n.snapshotIndex /\ p.role = Leader
       /\ \A q \in p.pending : q \in n.pending \/ q = new
       /\ \A r \in p.pendingByReq : r \in n.pendingByReq \/ r = req
  <2>1. a.role = o.role
    BY <1>10 DEF Tracked
  <2> QED BY <1>8, <1>9, <1>11, <2>1 DEF SameWaiting
<1>13. BegunAll(log)
  <2>1. \A k \in 1 .. Len(n.log) + 1 : k \in 1 .. Len(n.log) \/ k = Len(n.log) + 1
    BY <1>6
  <2>2. Begun(e.cmd)
    BY <1>2 DEF cmd
  <2> QED BY <1>6, <2>1, <2>2 DEF BegunAll
<1>14. LastIndex(p) = index /\ LastIndex(n) \in Nat /\ LastIndex(n) + 1 = index
  <2>1. LastIndex(p) = n.snapshotIndex + (Len(n.log) + 1)
    BY <1>6, <1>12 DEF LastIndex
  <2>2. LastIndex(n) = n.snapshotIndex + Len(n.log)
    BY DEF LastIndex
  <2>3. LastIndex(n) \in Nat /\ Len(n.log) \in Nat
    BY <1>0, <1>6, LogFacts
  <2>4. LastIndex(p) = LastIndex(n) + 1
    BY <1>3, <2>1, <2>2, <2>3
  <2> QED BY <2>3, <2>4
<1>15. CommandAt(p, index) = cmd
  <2>1. index - p.snapshotIndex = Len(n.log) + 1
    BY <1>3, <1>6, <1>12 DEF LastIndex
  <2> QED BY <1>2, <1>6, <1>12, <2>1 DEF CommandAt
<1>16. ASSUME NEW k \in Nat, k <= LastIndex(n), k > n.snapshotIndex
       PROVE  CommandAt(p, k) = CommandAt(n, k)
  <2>1. k - n.snapshotIndex \in 1 .. Len(n.log)
    BY <1>3, <1>6, <1>16 DEF LastIndex
  <2> QED BY <1>6, <1>12, <2>1 DEF CommandAt
<1>17. /\ \A q \in n.pending : q.index \in Nat
       /\ \A r \in n.pendingByReq : r.index \in Nat
  BY <1>0, SMTT(30) DEF NodeState
<1> HIDE DEF index
<1>18. ASSUME NEW q \in p.pending
       PROVE  /\ q.index <= LastIndex(p)
              /\ q.index > p.snapshotIndex =>
                   \E d \in Client : CommandAt(p, q.index) = ClientCommand(d, q.seq)
  <2>1. CASE q \in n.pending
    <3>1. q.index \in Nat /\ q.index <= LastIndex(n)
      BY <1>17, <2>1 DEF Awaiting
    <3>2. q.index <= LastIndex(p)
      BY <1>14, <3>1
    <3>3. ASSUME q.index > n.snapshotIndex
          PROVE  \E d \in Client : CommandAt(p, q.index) = ClientCommand(d, q.seq)
      BY <1>16, <2>1, <3>1, <3>3 DEF Awaiting
    <3> QED BY <1>12, <3>2, <3>3
  <2>2. CASE q = new
    BY <1>5, <1>14, <1>15, <2>2 DEF cmd
  <2> QED BY <1>12, <2>1, <2>2
<1>19. ASSUME NEW r \in p.pendingByReq
       PROVE  /\ r.client \in Client /\ r.index <= LastIndex(p)
              /\ r.index > p.snapshotIndex =>
                   CommandAt(p, r.index) = ClientCommand(r.client, r.seq)
  <2>1. CASE r \in n.pendingByReq
    <3>1. r.index \in Nat /\ r.index <= LastIndex(n) /\ r.client \in Client
      BY <1>17, <2>1 DEF Awaiting
    <3>2. r.index <= LastIndex(p)
      BY <1>14, <3>1
    <3>3. ASSUME r.index > n.snapshotIndex
          PROVE  CommandAt(p, r.index) = ClientCommand(r.client, r.seq)
      BY <1>16, <2>1, <3>1, <3>3 DEF Awaiting
    <3> QED BY <1>12, <3>1, <3>2, <3>3
  <2>2. CASE r = req
    BY <1>5, <1>14, <1>15, <2>2 DEF cmd
  <2> QED BY <1>12, <2>1, <2>2
<1>20. BegunAll(p.log) /\ Awaiting(p)
  BY <1>12, <1>13, <1>18, <1>19 DEF Awaiting
<1> QED BY <1>1, <1>20 DEF cmd

\* handle_client_request keeps the invariant.
LEMMA ClientRequestSessions ==
  ASSUME ~MembershipChanges, IInv, LogFed, LogFed', SessionInv,
         NEW i \in Server, NEW c \in Client, NEW s \in 1 .. MaxSeq, ClientRequest(i, c, s)
  PROVE  SessionInv'
<1> DEFINE n == node[i]
           cmd == ClientCommand(c, s)
           addr == ClientAddress(c)
           p == Propose(i, n, addr, cmd)
           unsent == {q \in Peers(i, p) : HasUnsent(p, q)}
           result == IF cmd.seq = SessionSeq(n.sm, cmd.client)
                     THEN SessionResult(n.sm, cmd.client) ELSE Nil
           reply == ClientReplyMsg(i, addr, cmd.client, cmd.seq, result)
           waiting == {r \in n.pendingByReq : r.client = cmd.client /\ r.seq = cmd.seq}
           Repointed(r) ==
             [n EXCEPT !.pending =
                {q \in @ : q.index # r.index} \cup
                {[index |-> r.index, addr |-> addr, seq |-> cmd.seq]}]
<1>1. s \in Nat \ {0} /\ s <= clientSeq[c] /\ HandleClientRequest(i, addr, cmd)
  BY BoundAssumption DEF ClientRequest
<1>2. addr \in Nat
  <2>1. \A k \in 0 .. ClientBase - 1 : ClientBase + k \in Nat
    BY DEF ClientBase
  <2> QED BY <2>1, ClientAssumption, Zenon DEF ClientAddress
<1>3. cmd.client = c /\ cmd.seq = s /\ Begun(cmd)
  BY <1>1 DEF ClientCommand, Begun
<1>4. cmd \in Command /\ cmd.client \in Int /\ cmd.seq \in Nat
  <2>1. \A k \in 0 .. ClientBase - 1 : k \in Int
    BY DEF ClientBase
  <2>2. c \in Int
    BY <2>1, ClientAssumption, Zenon
  <2> QED BY <1>1, <1>3, <2>2 DEF Command, PutCommand, ClientCommand
<1>5. /\ n \in NodeState /\ Sane(n) /\ BegunAll(n.log) /\ Awaiting(n)
  BY SessionFacts
<1>6. n.role = Leader
  BY <1>1, Zenon DEF HandleClientRequest
<1>7. \/ AlreadyApplied(n, cmd) /\ Post(i, n, {reply})
      \/ \E r \in waiting : Post(i, Repointed(r), {})
      \/ Post(i, Sent(i, p, unsent), Appends(i, p, unsent))
  BY <1>1, ZenonT(60) DEF HandleClientRequest
<1>8. CASE AlreadyApplied(n, cmd) /\ Post(i, n, {reply})
  <2>1. s <= SessionSeq(n.sm, c)
    BY <1>3, <1>8 DEF AlreadyApplied
  <2>2. /\ \E r \in committed : r.cmd = ClientCommand(c, s)
        /\ s = clientSeq[c] =>
             /\ s = SessionSeq(n.sm, c)
             /\ FirstOf(committed, ClientCommand(c, s), SessionResult(n.sm, c))
    BY <1>1, <2>1, SessionAnswers
  <2>3. s = clientSeq[c] => result = SessionResult(n.sm, c)
    BY <1>3, <2>2
  <2>4. /\ reply.type = "ClientReply" /\ reply.client = c /\ reply.seq = s
        /\ reply.result = result
    BY <1>3 DEF ClientReplyMsg
  <2> DEFINE out == {reply}
  <2>5. Finish(i, n, out)
    BY <1>8 DEF Post
  <2> HIDE DEF reply, result
  <2>6. Fitting(reply)
    BY <2>2, <2>3, <2>4 DEF Fitting, Answers
  <2>7. \A m \in out : Fitting(m)
    BY <2>6
  <2> HIDE DEF out
  <2> QED BY <1>5, <2>5, <2>7, FinishSessions DEF Behaves
<1>9. CASE \E r \in waiting : Post(i, Repointed(r), {})
  <2>1. PICK r \in waiting : Post(i, Repointed(r), {})
    BY <1>9
  <2>2. r \in n.pendingByReq /\ r.client = c /\ r.seq = s
    BY <1>3
  <2> DEFINE new == [index |-> r.index, addr |-> addr, seq |-> cmd.seq]
             pend == {q \in n.pending : q.index # r.index} \cup {new}
             a == [n EXCEPT !.pending = pend]
             out == {}
  <2>3. r.index \in Nat /\ n.pending \in SUBSET [index : Nat, addr : Nat, seq : Nat]
    BY <1>5, <2>2 DEF NodeState
  <2>4. new \in [index : Nat, addr : Nat, seq : Nat]
    BY <1>2, <1>4, <2>3
  <2>5. pend \in SUBSET [index : Nat, addr : Nat, seq : Nat]
    BY <2>3, <2>4
  <2>6. Finish(i, a, out)
    BY <2>1 DEF Post
  <2>7. new.index = r.index /\ new.seq = s /\ \A q \in pend : q \in n.pending \/ q = new
    BY <1>3
  <2> HIDE DEF pend, new, cmd
  <2>8. a \in NodeState
    BY <1>5, <2>5, ZenonT(90) DEF NodeState
  <2>9. /\ Tracked(n, a)
        /\ a.log = n.log /\ a.snapshotIndex = n.snapshotIndex /\ a.role = n.role
        /\ a.pending = pend /\ a.pendingByReq = n.pendingByReq
    BY <1>5, SMTT(30) DEF NodeState, Tracked
  <2> HIDE DEF a
  <2>10. Sane(a)
    BY <1>5, <2>8, <2>9 DEF Sane, Tracked
  <2>11. LastIndex(a) = LastIndex(n) /\ \A k : CommandAt(a, k) = CommandAt(n, k)
    BY <2>9 DEF LastIndex, CommandAt
  <2>12. /\ r.index <= LastIndex(n)
         /\ r.index > n.snapshotIndex => CommandAt(n, r.index) = ClientCommand(c, s)
    BY <1>5, <2>2 DEF Awaiting
  <2>13. Awaiting(a)
    BY <1>5, <1>6, <2>7, <2>9, <2>11, <2>12 DEF Awaiting
  <2>14. BegunAll(a.log)
    BY <1>5, <2>9
  <2>15. \A m \in out : Fitting(m)
    OBVIOUS
  <2> HIDE DEF out
  <2> QED BY <2>6, <2>10, <2>13, <2>14, <2>15, FinishSessions DEF Behaves
<1>10. CASE Post(i, Sent(i, p, unsent), Appends(i, p, unsent))
  <2>1. Sane(p)
    BY <1>2, <1>4, <1>5, ProposeFacts
  <2>2. BegunAll(p.log) /\ Awaiting(p)
    BY <1>1, <1>2, <1>3, <1>5, <1>6, ProposeWaiting
  <2> HIDE DEF p
  <2>3. p \in NodeState
    BY <2>1 DEF Sane
  <2>4. unsent \in SUBSET Server /\ i \notin unsent
    BY <2>3, ServerAssumption DEF Peers, NodeState, Configuration
  <2> HIDE DEF unsent
  <2> QED BY <1>10, <2>1, <2>2, <2>4, SendingSessions
<1> QED BY <1>7, <1>8, <1>9, <1>10

\* With a fixed membership no change of it is let in.
LEMMA NoMemberRequest ==
  ASSUME ~MembershipChanges, IInv, NEW i \in Server, NEW m \in msgs, HandleMemberRequest(i, m)
  PROVE  FALSE
<1>1. m.type = "ClientRequest" /\ HandleClientRequest(i, m.src, m.cmd)
  BY DEF HandleMemberRequest
<1>2. m.cmd \in ConfigChange
  <2>1. m \in MemberRequest
    BY <1>1, MessageOfType DEF IInv, MessageInv, MessagesTyped
  <2> QED BY <2>1 DEF MemberRequest
<1>3. m.cmd.client \notin Client /\ IsConfig(m.cmd)
  <2>1. -2 \notin Client
    BY ClientAssumption DEF ClientBase
  <2> QED BY <1>2, <2>1 DEF ConfigChange, IsConfig
<1>4. ~AlreadyApplied(node[i], m.cmd)
  BY <1>3 DEF AlreadyApplied
<1> QED BY <1>1, <1>3, <1>4, Zenon DEF HandleClientRequest

-----------------------------------------------------------------------------
(* The other events *)

\* Events that leave nodes, clients and the record alone, and send nothing that does not
\* fit, keep the invariant.
LEMMA StillSessions ==
  ASSUME LogFed, LogFed', SessionInv, UNCHANGED <<node, committed, clientSeq>>,
         \A m \in msgs' : m \in msgs \/ Fitting(m)
  PROVE  SessionInv'
<1>1. node' = node /\ committed' = committed /\ clientSeq' = clientSeq
  OBVIOUS
<1>2. (\A i \in Server : BegunAll(node[i].log) /\ Awaiting(node[i]))'
  BY <1>1 DEF SessionInv, BegunAll, Begun, Awaiting
<1>3. \A m \in msgs' : Fitting(m)'
  BY <1>1, FittingStays DEF SessionInv
<1>4. (\A m \in msgs : Fitting(m))'
  BY <1>3
<1>5. (\A r \in committed : Begun(r.cmd))'
  BY <1>1 DEF SessionInv, Begun
<1>6. EarlierCommitted'
  BY <1>1 DEF SessionInv, EarlierCommitted
<1> QED BY <1>2, <1>4, <1>5, <1>6 DEF SessionInv

\* A node that restarts has the log that it saved, and nobody waits there.
LEMMA RestartedAlone ==
  ASSUME NEW i \in Server, NEW n, n.preTerm \in Nat, NEW d \in DurableState
  PROVE  LET a == Restarted(i, n, d)
         IN a.log = d.log /\ a.pending = {} /\ a.pendingByReq = {}
<1> DEFINE r == RestoreMachine(InitNode, d.snapshotData, d.snapshotIndex)
           s == [r EXCEPT
                   !.currentTerm = d.currentTerm, !.votedFor = d.votedFor, !.log = d.log,
                   !.snapshotIndex = d.snapshotIndex, !.snapshotTerm = d.snapshotTerm,
                   !.snapshotData = d.snapshotData, !.snapshotMembers = d.snapshotMembers,
                   !.commitIndex = d.snapshotIndex, !.preTerm = n.preTerm, !.dirty = TRUE]
           u == [SetMembers(i, s, s.snapshotMembers) EXCEPT !.configIndex = 0]
<1>1. /\ d.currentTerm \in Nat /\ d.votedFor \in Server \cup {Nil} /\ d.log \in Seq(LogEntry)
      /\ d.snapshotIndex \in Nat /\ d.snapshotTerm \in TermOrNone
      /\ d.snapshotData \in Seq(Command) /\ d.snapshotMembers \in Configuration
  BY DEF DurableState
<1>2. InitNode \in NodeState
  BY InitNodeFacts DEF Sane
<1>3. InitNode.pending = {} /\ InitNode.pendingByReq = {}
  BY DEF InitNode
<1>4. r = [InitNode EXCEPT !.sm = d.snapshotData, !.lastApplied = d.snapshotIndex]
  BY DEF RestoreMachine
<1>5. r \in NodeState
  BY <1>1, <1>2, <1>4, ZenonT(90) DEF NodeState
<1>6. r.pending = {} /\ r.pendingByReq = {}
  BY <1>2, <1>3, <1>4, SMTT(30) DEF NodeState
<1>7. Restarted(i, n, d) = RebuildConfig(i, s)
  BY Zenon DEF Restarted
<1> HIDE DEF r
<1>8. s \in NodeState
  BY <1>1, <1>5, ZenonT(60) DEF NodeState
<1>9. s.log = d.log /\ s.pending = {} /\ s.pendingByReq = {}
  BY <1>5, <1>6, SMTT(30) DEF NodeState
<1> HIDE DEF s
<1>10. SameWaiting(s, u)
  BY <1>8, ConfigWaiting
<1>11. u \in NodeState
  <2>1. s.snapshotMembers \in Configuration
    BY <1>8, SMTT(30) DEF NodeState
  <2>2. SetMembers(i, s, s.snapshotMembers) \in NodeState
    BY <1>8, <2>1, SetMembersFacts
  <2> QED BY <2>2, ZenonT(60) DEF NodeState
<1>12. RebuildConfig(i, s) = ApplyConfig(i, u, s.snapshotIndex, s.log)
  BY Zenon DEF RebuildConfig
<1> HIDE DEF u
<1>13. SameWaiting(u, RebuildConfig(i, s))
  <2>1. \A base, es : SameWaiting(u, ApplyConfig(i, u, base, es))
    BY <1>11, ConfigWaiting
  <2> QED BY <1>12, <2>1, Zenon
<1> QED BY <1>7, <1>9, <1>10, <1>13 DEF SameWaiting

\* A restart keeps the invariant, because the disk was current.
LEMMA RestartSessions ==
  ASSUME IInv, LogFed, LogFed', SessionInv, NEW i \in Server, Restart(i)
  PROVE  SessionInv'
<1> DEFINE d == disk[i]
           a == Restarted(i, node[i], d)
<1>1. /\ Save(i, a) /\ Observe(i, a, a) /\ msgs' = msgs /\ clientSeq' = clientSeq
  BY DEF Restart
<1>2. node[i].preTerm \in Nat /\ BegunAll(node[i].log)
  BY SessionFacts DEF NodeState
<1>3. d \in DurableState /\ d = Durable(node[i])
  BY DEF IInv, StateInv, StateTyped, DiskCurrent
<1> HIDE DEF d
<1>4. Sane(a) /\ a.log = d.log /\ a.pending = {} /\ a.pendingByReq = {}
  <2>1. Sane(a)
    BY <1>2, <1>3, RestartedFacts
  <2>2. a.log = d.log /\ a.pending = {} /\ a.pendingByReq = {}
    BY <1>2, <1>3, RestartedAlone
  <2> QED BY <2>1, <2>2
<1> HIDE DEF a
<1>5. a.log = node[i].log
  BY <1>3, <1>4 DEF Durable
<1>6. a \in NodeState /\ BegunAll(a.log)
  BY <1>2, <1>4, <1>5 DEF Sane
<1>7. /\ node'[i] = [a EXCEPT !.dirty = FALSE]
      /\ \A j \in Server \ {i} : node'[j] = node[j]
  BY <1>1 DEF Save, IInv, StateInv, StateTyped
<1>8. /\ node'[i].log = a.log /\ node'[i].pending = {} /\ node'[i].pendingByReq = {}
  BY <1>4, <1>6, <1>7, SMTT(30) DEF NodeState
<1>9. BegunAll(node'[i].log) /\ Awaiting(node'[i])
  BY <1>6, <1>8, NobodyWaits
<1>10. \A j \in Server : BegunAll(node'[j].log) /\ Awaiting(node'[j])
  BY <1>7, <1>9 DEF SessionInv
<1>11. (\A j \in Server : BegunAll(node[j].log) /\ Awaiting(node[j]))'
  BY <1>1, <1>10 DEF BegunAll, Begun, Awaiting
<1>12. committed' = committed \cup CommittedBy(a)
  BY <1>1 DEF Observe
<1>13. \A r \in committed' : Begun(r.cmd)
  BY <1>6, <1>12, CommittedBegun DEF SessionInv
<1>14. (\A r \in committed : Begun(r.cmd))'
  BY <1>1, <1>13 DEF Begun
<1>15. EarlierCommitted'
  BY <1>1, <1>12 DEF SessionInv, EarlierCommitted
<1>16. \A m \in msgs' : Fitting(m)'
  BY <1>1, <1>12, FittingStays DEF SessionInv
<1>17. (\A m \in msgs : Fitting(m))'
  BY <1>16
<1> QED BY <1>11, <1>14, <1>15, <1>17 DEF SessionInv

\* A client goes on once its last operation was answered, which was committed then; nothing
\* is known yet of the operation that it begins.
LEMMA ClientBeginSessions ==
  ASSUME IInv, LogFed, SessionInv, NEW c \in Client, ClientBegin(c)
  PROVE  SessionInv'
<1> DEFINE Late(cmd) == cmd.client \in Client => cmd.seq <= clientSeq'[cmd.client]
<1>1. /\ clientSeq' = [clientSeq EXCEPT ![c] = clientSeq[c] + 1]
      /\ node' = node /\ msgs' = msgs /\ committed' = committed
      /\ clientSeq[c] # 0 => \E m \in msgs : /\ m.type = "ClientReply" /\ m.client = c
                                             /\ m.seq = clientSeq[c]
  BY DEF ClientBegin
<1>2. clientSeq \in [Client -> Nat]
  BY DEF IInv, CountersTyped
<1>3. /\ clientSeq'[c] = clientSeq[c] + 1
      /\ \A d \in Client \ {c} : clientSeq'[d] = clientSeq[d]
  BY <1>1, <1>2
<1>4. ASSUME NEW cmd \in Command, Begun(cmd)
      PROVE  Late(cmd)
  <2> SUFFICES ASSUME cmd.client \in Client PROVE cmd.seq <= clientSeq'[cmd.client]
    OBVIOUS
  <2>1. cmd.seq \in Nat
    BY CommandOfClient
  <2>2. cmd.seq <= clientSeq[cmd.client] /\ clientSeq[cmd.client] \in Nat
    BY <1>2, <1>4 DEF Begun
  <2> QED BY <1>3, <2>1, <2>2
<1>5. ASSUME NEW es \in Seq(LogEntry), BegunAll(es), NEW k \in 1 .. Len(es)
      PROVE  Late(es[k].cmd)
  <2>1. es[k] \in LogEntry
    OBVIOUS
  <2>2. es[k].cmd \in Command
    BY <2>1 DEF LogEntry
  <2>3. Begun(es[k].cmd)
    BY <1>5 DEF BegunAll
  <2> HIDE DEF Late
  <2> QED BY <1>4, <2>2, <2>3
<1>6. (\A i \in Server : BegunAll(node[i].log) /\ Awaiting(node[i]))'
  <2>1. ASSUME NEW i \in Server
        PROVE  /\ \A k \in 1 .. Len(node[i].log) : Late(node[i].log[k].cmd)
               /\ Awaiting(node[i])
    <3>1. node[i] \in NodeState /\ BegunAll(node[i].log) /\ Awaiting(node[i])
      BY SessionFacts
    <3>2. node[i].log \in Seq(LogEntry)
      BY <3>1, SMTT(30) DEF NodeState
    <3> HIDE DEF Late
    <3> QED BY <1>5, <3>1, <3>2
  <2> QED BY <1>1, <2>1 DEF BegunAll, Begun, Awaiting
<1>7. \A r \in committed : Late(r.cmd)
  <2> TAKE r \in committed
  <2>1. r.cmd \in Command
    BY DEF LogFed
  <2>2. Begun(r.cmd)
    BY DEF SessionInv
  <2> HIDE DEF Late
  <2> QED BY <1>4, <2>1, <2>2
<1>8. (\A r \in committed : Begun(r.cmd))'
  BY <1>1, <1>7 DEF Begun
<1>9. ASSUME NEW m, Answers(m)
      PROVE  Answers(m)'
  <2>1. PICK r \in committed : r.cmd = ClientCommand(m.client, m.seq)
    BY <1>9 DEF Answers
  <2>2. m.client \in Client /\ r.cmd.client = m.client /\ r.cmd.seq = m.seq
    BY <1>9, <2>1 DEF Answers, ClientCommand
  <2>3. r.cmd \in Command /\ Begun(r.cmd)
    BY DEF LogFed, SessionInv
  <2>4. m.seq \in Nat /\ m.seq <= clientSeq[m.client]
    BY <2>2, <2>3, CommandOfClient DEF Begun
  <2>5. m.seq = clientSeq'[m.client] => m.seq = clientSeq[m.client]
    BY <1>2, <1>3, <2>2, <2>4
  <2> QED BY <1>1, <1>9, <2>5 DEF Answers
<1>10. ASSUME NEW m \in msgs
       PROVE  Fitting(m)'
  <2>1. Fitting(m)
    BY DEF SessionInv
  <2>2. ASSUME m.type = "AppendEntries"
        PROVE  BegunAll(m.entries)'
    <3>1. m \in AppendEntries
      BY <2>2, MessageOfType DEF IInv, MessageInv, MessagesTyped
    <3>2. m.entries \in Seq(LogEntry) /\ BegunAll(m.entries)
      BY <2>1, <2>2, <3>1 DEF AppendEntries, Fitting
    <3>3. \A k \in 1 .. Len(m.entries) : Late(m.entries[k].cmd)
      <4> HIDE DEF Late
      <4> QED BY <1>5, <3>2
    <3> QED BY <3>3 DEF BegunAll, Begun
  <2>3. m.type = "ClientReply" => Answers(m)'
    BY <1>9, <2>1 DEF Fitting
  <2> QED BY <2>1, <2>2, <2>3 DEF Fitting
<1>11. (\A m \in msgs : Fitting(m))'
  BY <1>1, <1>10
<1>12. EarlierCommitted'
  <2>1. ASSUME NEW d \in Client, NEW s \in 1 .. clientSeq'[d] - 1
        PROVE  \E r \in committed : r.cmd = ClientCommand(d, s)
    <3>1. clientSeq[d] \in Nat /\ s \in Nat \ {0}
      BY <1>2, <1>3
    <3>2. CASE s \in 1 .. clientSeq[d] - 1
      BY <3>2 DEF SessionInv, EarlierCommitted
    <3>3. CASE s \notin 1 .. clientSeq[d] - 1
      <4>1. d = c /\ s = clientSeq[c]
        BY <1>2, <1>3, <3>1, <3>3
      <4>2. PICK m \in msgs : m.type = "ClientReply" /\ m.client = c /\ m.seq = s
        BY <1>1, <3>1, <4>1
      <4>3. Answers(m)
        BY <4>2 DEF SessionInv, Fitting
      <4> QED BY <4>1, <4>2, <4>3 DEF Answers
    <3> QED BY <3>2, <3>3
  <2> QED BY <1>1, <2>1 DEF EarlierCommitted
<1> QED BY <1>6, <1>8, <1>11, <1>12 DEF SessionInv

\* The operator's request is neither entries nor a reply.
LEMMA MemberChangeSessions ==
  ASSUME LogFed, LogFed', SessionInv, NEW i \in Server, MemberChange(i)
  PROVE  SessionInv'
<1>1. /\ UNCHANGED <<node, committed, clientSeq>>
      /\ \A m \in msgs' : m \in msgs \/ m.type = "ClientRequest"
  BY DEF MemberChange
<1>2. \A m \in msgs' : m \in msgs \/ Fitting(m)
  BY <1>1 DEF Fitting
<1> QED BY <1>1, <1>2, StillSessions

\* on_message keeps the invariant.
LEMMA ReceiveSessions ==
  ASSUME ~MembershipChanges, IInv, LInv, LogFed, LogFed', SessionInv,
         NEW m \in msgs, Receive(m.dst, m)
  PROVE  SessionInv'
<1> DEFINE i == m.dst
<1>1. ASSUME m.type # "ClientReply" PROVE i \in Server
  BY <1>1, MessageOfType DEF IInv, MessageInv, MessagesTyped
<1>2. CASE HandleMemberRequest(i, m)
  <2>1. i \in Server
    BY <1>1, <1>2 DEF HandleMemberRequest
  <2> QED BY <1>2, <2>1, NoMemberRequest
<1>3. CASE \/ HandlePreVote(i, m)
           \/ HandlePreVoteResp(i, m)
           \/ HandleRequestVote(i, m)
           \/ HandleRequestVoteResp(i, m)
           \/ HandleAppendEntries(i, m)
           \/ HandleAppendEntriesResp(i, m)
           \/ HandleInstallSnapshot(i, m)
           \/ HandleInstallSnapshotResp(i, m)
  <2>1. m.type # "ClientReply"
    BY <1>3 DEF HandlePreVote, HandlePreVoteResp, HandleRequestVote, HandleRequestVoteResp,
                HandleAppendEntries, HandleAppendEntriesResp, HandleInstallSnapshot,
                HandleInstallSnapshotResp
  <2>2. i \in Server
    BY <1>1, <2>1
  <2> QED BY <1>3, <2>2, PreVoteSessions, PreVoteRespSessions, RequestVoteSessions,
             RequestVoteRespSessions, AppendEntriesSessions, AppendEntriesRespSessions,
             InstallSnapshotSessions, InstallSnapshotRespSessions
<1> QED BY <1>2, <1>3 DEF Receive

\* Every step keeps the invariant.
LEMMA NextSessions ==
  ASSUME ~MembershipChanges, IInv, LInv, LogFed, LogFed', SessionInv, [Next]_vars
  PROVE  SessionInv'
<1>1. ASSUME NEW i \in Server,
             Timeout(i) \/ Heartbeat(i) \/ MemberChange(i) \/ Restart(i)
      PROVE  SessionInv'
  BY <1>1, TimeoutSessions, HeartbeatSessions, MemberChangeSessions, RestartSessions
<1>2. ASSUME NEW i \in Server, Crash(i)
      PROVE  SessionInv'
  <2>1. UNCHANGED <<node, committed, clientSeq>> /\ msgs' = msgs
    BY <1>2 DEF Crash
  <2> QED BY <2>1, StillSessions
<1>3. ASSUME NEW m \in msgs, Receive(m.dst, m)
      PROVE  SessionInv'
  BY <1>3, ReceiveSessions
<1>4. ASSUME NEW c \in Client, ClientBegin(c)
      PROVE  SessionInv'
  BY <1>4, ClientBeginSessions
<1>5. ASSUME NEW c \in Client, NEW i \in Server, NEW s \in 1 .. MaxSeq, ClientRequest(i, c, s)
      PROVE  SessionInv'
  BY <1>5, ClientRequestSessions
<1>6. CASE UNCHANGED vars
  <2>1. UNCHANGED <<node, committed, clientSeq>> /\ msgs' = msgs
    BY <1>6 DEF vars
  <2> QED BY <2>1, StillSessions
<1> QED BY <1>1, <1>2, <1>3, <1>4, <1>5, <1>6, Zenon DEF Next

\* Nobody has asked for anything in the first state.
LEMMA InitSessions == Init => SessionInv
<1> SUFFICES ASSUME Init PROVE SessionInv
  OBVIOUS
<1>1. /\ committed = {} /\ msgs = {} /\ clientSeq = [c \in Client |-> 0]
      /\ \A i \in Server : node[i] = InitNode
  BY DEF Init
<1>2. InitNode.log = <<>> /\ InitNode.pending = {} /\ InitNode.pendingByReq = {}
  BY DEF InitNode
<1>3. Awaiting(InitNode)
  BY <1>2, NobodyWaits
<1>4. BegunAll(InitNode.log)
  BY <1>2 DEF BegunAll
<1>5. EarlierCommitted
  <2>1. ASSUME NEW c \in Client PROVE 1 .. clientSeq[c] - 1 = {}
    BY <1>1
  <2> QED BY <2>1 DEF EarlierCommitted
<1> QED BY <1>1, <1>3, <1>4, <1>5 DEF SessionInv

\* True answers agree: both name the first index at which the command was committed.
LEMMA SessionsAcknowledge == IInv /\ LogFed /\ SessionInv => AcknowledgedOnce
<1> SUFFICES ASSUME IInv, LogFed, SessionInv, NEW c \in Client, NEW s \in 1 .. clientSeq[c]
             PROVE  /\ RepliesTo(c, s) # {} => \E r \in committed : r.cmd = ClientCommand(c, s)
                    /\ s = clientSeq[c] =>
                         \A m, q \in RepliesTo(c, s) :
                           Nil \notin {m.result, q.result} => m.result = q.result
  BY DEF AcknowledgedOnce
<1>1. \A m \in RepliesTo(c, s) : Answers(m) /\ m.client = c /\ m.seq = s
  BY DEF RepliesTo, SessionInv, Fitting
<1>2. RepliesTo(c, s) # {} => \E r \in committed : r.cmd = ClientCommand(c, s)
  BY <1>1 DEF Answers
<1>3. ASSUME s = clientSeq[c], NEW m \in RepliesTo(c, s), NEW q \in RepliesTo(c, s),
             Nil \notin {m.result, q.result}
      PROVE  m.result = q.result
  <2>1. /\ FirstOf(committed, ClientCommand(c, s), m.result)
        /\ FirstOf(committed, ClientCommand(c, s), q.result)
    BY <1>1, <1>3 DEF Answers
  <2>2. \A r \in committed : r.index \in Nat
    BY DEF LogFed
  <2>3. m.result \in Nat /\ q.result \in Nat /\ m.result <= q.result /\ q.result <= m.result
    BY <2>1, <2>2 DEF FirstOf
  <2> QED BY <2>3
<1> QED BY <1>2, <1>3

\* With a fixed membership every acknowledged operation is committed, and the replies that a
\* client can accept for its operation agree, from whichever leader and after however many
\* retries, crashes and elections.
THEOREM AnsweredOnce ==
  ASSUME ~MembershipChanges
  PROVE  Spec => []AcknowledgedOnce
<1>1. IInv /\ LInv => LogFed
  BY ExplainedFed
<1>2. Init => SessionInv
  BY InitSessions
<1>3. IInv /\ LInv /\ LogFed /\ LogFed' /\ SessionInv /\ [Next]_vars => SessionInv'
  BY NextSessions
<1>4. IInv /\ LogFed /\ SessionInv => AcknowledgedOnce
  BY SessionsAcknowledge
<1> QED BY <1>1, <1>2, <1>3, <1>4, LogInvariance, PTL DEF Spec
=============================================================================
