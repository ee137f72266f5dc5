--------------------------- MODULE RaftHistoryProofs ---------------------------
(***************************************************************************)
(* How a node keeps a log, and what each handler makes of the history of   *)
(* an execution.                                                           *)
(*                                                                         *)
(* A node keeps the end of its log as entries, the rest under a snapshot,  *)
(* what it has applied in its state machine, and what it leads or has      *)
(* committed as part of the history of module RaftLogProofs.  First comes  *)
(* what the operators of RaftNode do to that log, each in turn, and that   *)
(* the messages a node makes speak of it.                                  *)
(*                                                                         *)
(* A node that is rooted in a history becomes, by a handler, a node that   *)
(* is carried on by a later history, in which no other server has moved.   *)
(* The handlers differ in how the history goes on: most of them only reach *)
(* a newer term, a follower takes over entries, a candidate is elected and *)
(* a leader appends.  The membership is fixed throughout.                  *)
(***************************************************************************)
EXTENDS RaftLogProofs

-----------------------------------------------------------------------------
(* A node and the log it keeps *)

\* Node n keeps log w.
Keeping(n, w) ==
  /\ LastIndex(n) = Len(w)
  /\ \A k \in n.snapshotIndex + 1 .. Len(w) : n.log[k - n.snapshotIndex] = w[k]
  /\ n.snapshotTerm = TermOf(w, n.snapshotIndex)
  /\ n.snapshotIndex <= n.lastApplied /\ n.lastApplied <= Len(w)
  /\ n.sm = Commands(w, n.lastApplied)
  /\ n.snapshotData = Commands(w, n.snapshotIndex)

\* What node n has committed or applied was chosen.
CommitSound(h, w, n) ==
  /\ n.snapshotIndex <= n.commitIndex /\ n.commitIndex <= Len(w)
  /\ Covered(h, w, n.commitIndex, n.currentTerm)
  /\ Covered(h, w, n.lastApplied, n.currentTerm)

\* A leader has the log of its term, and knows of its peers what they have held.
LeaderSound(h, i, n) ==
  n.role = Leader =>
    /\ n.currentTerm \in h.terms
    /\ h.whole[i] = h.led[n.currentTerm]
    /\ Len(h.whole[i]) <= h.held[i][n.currentTerm]
    /\ \A p \in Server :
         /\ n.matchIndex[p] <= h.held[p][n.currentTerm]
         /\ n.nextIndex[p] <= LastIndex(n) + 1
         /\ p \in Peers(i, n) => n.nextIndex[p] # 0

NodeSound(h, i, n) ==
  /\ Keeping(n, h.whole[i])
  /\ CommitSound(h, h.whole[i], n)
  /\ LeaderSound(h, i, n)

\* Nothing is due to be compacted.
Compacted(n) ==
  SnapshotThreshold # 0 => n.lastApplied - n.snapshotIndex < SnapshotThreshold

\* Node a has the log, the commit index and the state machine of n.
SameLog(n, a) ==
  /\ a.log = n.log /\ a.snapshotIndex = n.snapshotIndex
  /\ a.snapshotTerm = n.snapshotTerm /\ a.snapshotData = n.snapshotData
  /\ a.lastApplied = n.lastApplied /\ a.sm = n.sm
  /\ a.commitIndex = n.commitIndex

\* Node a knows of its peers what n does.
SamePeers(n, a) == a.matchIndex = n.matchIndex /\ a.nextIndex = n.nextIndex

\* Term, vote, role and leader are those of n.
SameOffice(n, a) ==
  /\ a.currentTerm = n.currentTerm /\ a.votedFor = n.votedFor
  /\ a.role = n.role /\ a.leaderId = n.leaderId

\* Node a has the log of n, and leads only if n does, in the same term.
KeepsLog(n, a) ==
  /\ SameLog(n, a)
  /\ n.currentTerm <= a.currentTerm
  /\ a.role = Leader => /\ n.role = Leader /\ a.currentTerm = n.currentTerm
                        /\ SamePeers(n, a)

\* With a fixed membership there is one configuration, and commands are clients' or no-ops.
LEMMA FixedMembers ==
  ASSUME ~MembershipChanges
  PROVE  /\ \A n \in NodeState : n.members = InitialMembers
         /\ \A n \in NodeState, i \in Server : Peers(i, n) = InitialMembers \ {i}
         /\ \A cmd \in Command : cmd.op \notin {"add", "remove"}
<1>1. \A n \in NodeState : n.members = InitialMembers
  BY DEF NodeState, Configuration
<1>2. \A cmd \in Command : cmd.op \notin {"add", "remove"}
  BY DEF Command, PutCommand, NOOP
<1> QED BY <1>1, <1>2 DEF Peers

\* What an entry of the log says, at an index that the node has, is what the log it keeps
\* says there.
LEMMA KeepingReads ==
  ASSUME NEW n \in NodeState, NEW w \in Seq(LogEntry), Keeping(n, w)
  PROVE  /\ \A k \in n.snapshotIndex .. Len(w) : TermAt(n, k) = TermOf(w, k)
         /\ \A k \in n.snapshotIndex + 1 .. Len(w) : CommandAt(n, k) = w[k].cmd
         /\ LastTerm(n) = TermOf(w, Len(w))
         /\ \A k \in Nat : HasIndex(n, k) <=> k \in n.snapshotIndex .. Len(w)
         /\ \A k \in Nat : ~(k \in n.snapshotIndex .. Len(w)) => TermAt(n, k) = -1
<1>1. n.snapshotIndex \in Nat /\ n.log \in Seq(LogEntry) /\ Len(n.log) \in Nat /\ Len(w) \in Nat
  BY DEF NodeState
<1>2. /\ LastIndex(n) = Len(w) /\ Len(w) = n.snapshotIndex + Len(n.log)
      /\ n.snapshotTerm = TermOf(w, n.snapshotIndex)
  BY DEF Keeping, LastIndex
<1>3. \A k \in Nat : HasIndex(n, k) <=> k \in n.snapshotIndex .. Len(w)
  BY <1>1, <1>2 DEF HasIndex
<1>4. ASSUME NEW k \in n.snapshotIndex + 1 .. Len(w)
      PROVE  /\ TermAt(n, k) = w[k].term /\ CommandAt(n, k) = w[k].cmd
             /\ n.log[k - n.snapshotIndex] = w[k]
  <2>1. k \in Nat /\ k # n.snapshotIndex /\ HasIndex(n, k)
    BY <1>1, <1>3
  <2>2. n.log[k - n.snapshotIndex] = w[k]
    BY DEF Keeping
  <2> QED BY <2>1, <2>2 DEF TermAt, CommandAt
<1>5. ASSUME NEW k \in n.snapshotIndex .. Len(w) PROVE TermAt(n, k) = TermOf(w, k)
  <2>1. CASE k = n.snapshotIndex
    <3>1. HasIndex(n, k)
      BY <1>1, <1>3, <2>1
    <3> QED BY <1>2, <2>1, <3>1 DEF TermAt
  <2>2. CASE k # n.snapshotIndex
    <3>1. k \in n.snapshotIndex + 1 .. Len(w) /\ k # 0
      BY <1>1, <2>2
    <3> QED BY <1>4, <3>1 DEF TermOf
  <2> QED BY <2>1, <2>2
<1>6. LastTerm(n) = TermOf(w, Len(w))
  <2>1. CASE n.log = <<>>
    BY <1>1, <1>2, <2>1 DEF LastTerm
  <2>2. CASE n.log # <<>>
    <3>1. Len(n.log) # 0
      BY <1>1, <2>2
    <3>2. Len(w) \in n.snapshotIndex + 1 .. Len(w) /\ Len(w) # 0
      BY <1>1, <1>2, <3>1
    <3>3. n.log[Len(w) - n.snapshotIndex] = w[Len(w)]
      BY <1>4, <3>2
    <3>4. Len(w) - n.snapshotIndex = Len(n.log)
      BY <1>1, <1>2
    <3> QED BY <2>2, <3>2, <3>3, <3>4 DEF LastTerm, TermOf
  <2> QED BY <2>1, <2>2
<1>7. \A k \in Nat : ~(k \in n.snapshotIndex .. Len(w)) => TermAt(n, k) = -1
  BY <1>3 DEF TermAt
<1> QED BY <1>3, <1>4, <1>5, <1>6, <1>7

\* What makes a node sound does not depend on the rest of it, and lasts when the history
\* goes on without it.
LEMMA NodeSoundStays ==
  ASSUME ~MembershipChanges,
         NEW h \in History, NEW g \in History, Follows(h, g), NEW i \in Server,
         NEW n \in NodeState, NEW a \in NodeState, NodeSound(h, i, n),
         g.whole[i] = h.whole[i], KeepsLog(n, a),
         a.role = Leader => g.led[a.currentTerm] = h.led[a.currentTerm]
  PROVE  NodeSound(g, i, a)
<1>0. /\ SameLog(n, a) /\ n.currentTerm <= a.currentTerm
      /\ a.role = Leader => /\ n.role = Leader /\ a.currentTerm = n.currentTerm
                            /\ SamePeers(n, a) /\ a.members = n.members
  BY FixedMembers DEF KeepsLog
<1> DEFINE w == h.whole[i]
<1>1. w \in Seq(LogEntry) /\ Len(w) \in Nat /\ n.commitIndex \in Nat /\ n.lastApplied \in Nat
      /\ n.currentTerm \in Nat /\ a.currentTerm \in Nat
  BY HistoryTypes DEF NodeState
<1>2. Keeping(n, w) /\ CommitSound(h, w, n) /\ LeaderSound(h, i, n)
  BY DEF NodeSound
<1>3. LastIndex(a) = LastIndex(n)
  BY <1>0 DEF SameLog, LastIndex
<1>4. Keeping(a, w)
  BY <1>0, <1>2, <1>3 DEF Keeping, SameLog
<1>5. ASSUME NEW c \in Nat, c <= Len(w), Covered(h, w, c, n.currentTerm)
      PROVE  Covered(g, w, c, a.currentTerm)
  <2>1. Share(w, w, c)
    BY <1>5 DEF Share
  <2> QED BY <1>0, <1>1, <1>5, <2>1, CoveredStays
<1>6. n.commitIndex <= Len(w) /\ n.lastApplied <= Len(w)
  BY <1>2 DEF Keeping, CommitSound
<1>7. CommitSound(g, w, a)
  BY <1>0, <1>1, <1>2, <1>5, <1>6 DEF CommitSound, SameLog
<1>8. LeaderSound(g, i, a)
  <2> SUFFICES ASSUME a.role = Leader
               PROVE  /\ a.currentTerm \in g.terms
                      /\ g.whole[i] = g.led[a.currentTerm]
                      /\ Len(g.whole[i]) <= g.held[i][a.currentTerm]
                      /\ \A p \in Server :
                           /\ a.matchIndex[p] <= g.held[p][a.currentTerm]
                           /\ a.nextIndex[p] <= LastIndex(a) + 1
                           /\ p \in Peers(i, a) => a.nextIndex[p] # 0
    BY DEF LeaderSound
  <2> DEFINE t == n.currentTerm
  <2>1. /\ t \in h.terms /\ w = h.led[t] /\ Len(w) <= h.held[i][t]
        /\ \A p \in Server : /\ n.matchIndex[p] <= h.held[p][t]
                             /\ n.nextIndex[p] <= LastIndex(n) + 1
                             /\ p \in Peers(i, n) => n.nextIndex[p] # 0
    BY <1>0, <1>2 DEF LeaderSound
  <2>2. t \in g.terms /\ g.led[t] = w
    BY <1>0, <2>1 DEF Follows
  <2>3. ASSUME NEW p \in Server
        PROVE  h.held[p][t] \in Nat /\ g.held[p][t] \in Nat /\ h.held[p][t] <= g.held[p][t]
    BY <1>1, HistoryTypes DEF Follows
  <2>4. \A p \in Server : n.matchIndex[p] \in Nat
    BY DEF NodeState
  <2>5. \A p \in Server : n.matchIndex[p] <= g.held[p][t]
    BY <2>1, <2>3, <2>4
  <2>6. Len(w) <= g.held[i][t]
    BY <1>1, <2>1, <2>3
  <2>7. Peers(i, a) = Peers(i, n)
    BY <1>0 DEF Peers
  <2> QED BY <1>0, <1>3, <2>1, <2>2, <2>5, <2>6, <2>7 DEF SamePeers
<1> QED BY <1>4, <1>7, <1>8 DEF NodeSound

-----------------------------------------------------------------------------
(* Committing, applying and compacting *)

\* Applying up to the commit index feeds the state machine the next commands of the log.
LEMMA AppliedKeeps ==
  ASSUME ~MembershipChanges, NEW i \in Server, NEW n, Sane(n), NEW w \in Seq(LogEntry),
         Keeping(n, w), n.commitIndex <= Len(w)
  PROVE  LET a == Applied(i, n)
         IN /\ Keeping(a, w) /\ SameOffice(n, a) /\ SamePeers(n, a)
            /\ a.commitIndex = n.commitIndex /\ a.snapshotIndex = n.snapshotIndex
            /\ a.lastApplied = Larger(n.lastApplied, n.commitIndex)
<1>0. n \in NodeState
  BY DEF Sane
<1>1. /\ n.lastApplied \in Nat /\ n.commitIndex \in Nat /\ n.snapshotIndex \in Nat
      /\ Len(w) \in Nat /\ LastIndex(n) = Len(w) /\ n.sm \in Seq(Command)
      /\ n.snapshotIndex <= n.lastApplied /\ n.lastApplied <= Len(w)
  BY <1>0 DEF Keeping, NodeState
<1>2. ToApply(n) = n.lastApplied + 1 .. n.commitIndex
  BY <1>1 DEF ToApply, Smaller
<1>3. SelfRemovals(i, n) = {}
  <2> SUFFICES ASSUME NEW k \in ToApply(n) PROVE CommandAt(n, k).op # "remove"
    BY DEF SelfRemovals
  <2>1. k \in n.snapshotIndex + 1 .. LastIndex(n)
    BY <1>1, <1>2
  <2>2. CommandAt(n, k) \in Command
    BY <1>0, <2>1, LogFacts
  <2> QED BY <2>2, FixedMembers
<1>4. CASE ToApply(n) = {}
  <2>1. Applied(i, n) = n
    BY <1>4 DEF Applied
  <2>2. ~(n.lastApplied < n.commitIndex)
    <3>1. n.lastApplied < n.commitIndex => n.commitIndex \in ToApply(n)
      BY <1>1, <1>2
    <3> QED BY <3>1, <1>4
  <2> QED BY <2>1, <2>2 DEF SameOffice, SamePeers, Larger
<1>5. CASE ToApply(n) # {}
  <2> DEFINE done == {p \in n.pending : p.index \in ToApply(n)}
             top == Largest(ToApply(n))
             hist == HistoryUpto(n, top)
             pend == n.pending \ done
             byReq == {r \in n.pendingByReq :
                         \A p \in done : r.client # p.addr \/ r.seq # p.seq}
             a == [n EXCEPT !.lastApplied = top, !.sm = hist, !.pending = pend,
                            !.pendingByReq = byReq]
             f == [j \in 1 .. top - n.lastApplied |-> CommandAt(n, n.lastApplied + j)]
  <2>1. Applied(i, n) = a
    BY <1>3, <1>5, Zenon DEF Applied
  <2>2. top = n.commitIndex /\ n.lastApplied < n.commitIndex
    <3>1. n.lastApplied < n.commitIndex
      BY <1>1, <1>2, <1>5
    <3>2. ToApply(n) \in SUBSET Nat /\ \A k \in ToApply(n) : k <= n.commitIndex
      BY <1>1, <1>2
    <3>3. top \in ToApply(n) /\ \A k \in ToApply(n) : k <= top
      BY <1>1, <1>5, <3>2, LargestType
    <3>4. n.commitIndex \in ToApply(n)
      BY <1>1, <1>2, <3>1
    <3> HIDE DEF top
    <3> QED BY <1>1, <1>2, <3>1, <3>3, <3>4
  <2>3. hist = n.sm \o f
    BY Zenon DEF HistoryUpto
  <2>4. hist \in Seq(Command)
    <3>1. top \in n.lastApplied .. LastIndex(n)
      BY <1>1, <2>2
    <3> HIDE DEF top
    <3> QED BY <3>1, HistoryType
  <2> HIDE DEF top, hist, pend, byReq
  <2>5. /\ a.lastApplied = top /\ a.sm = hist
        /\ a.log = n.log /\ a.snapshotIndex = n.snapshotIndex
        /\ a.snapshotTerm = n.snapshotTerm /\ a.snapshotData = n.snapshotData
        /\ a.commitIndex = n.commitIndex
    BY <1>0, SMTT(30) DEF NodeState
  <2>6. SameOffice(n, a) /\ SamePeers(n, a)
    BY <1>0, SMTT(30) DEF NodeState, SameOffice, SamePeers
  <2> HIDE DEF a
  <2>7. hist = Commands(w, top)
    <3>1. \A k \in n.snapshotIndex + 1 .. Len(w) : CommandAt(n, k) = w[k].cmd
      BY <1>0, KeepingReads
    <3>2. n.sm = Commands(w, n.lastApplied) /\ Len(n.sm) = n.lastApplied
      <4>1. n.sm = Commands(w, n.lastApplied)
        BY DEF Keeping
      <4>2. DOMAIN n.sm = 1 .. n.lastApplied
        BY <4>1 DEF Commands
      <4> QED BY <1>1, <4>1, <4>2
    <3>3. f \in Seq(Command) /\ Len(f) = top - n.lastApplied
      <4>1. \A j \in 1 .. top - n.lastApplied : CommandAt(n, n.lastApplied + j) \in Command
        <5> TAKE j \in 1 .. top - n.lastApplied
        <5>1. n.lastApplied + j \in n.snapshotIndex + 1 .. LastIndex(n)
          BY <1>1, <2>2
        <5> QED BY <1>0, <5>1, LogFacts
      <4>2. top - n.lastApplied \in Nat
        BY <1>1, <2>2
      <4> QED BY <4>1, <4>2
    <3>4. Len(hist) = top
      BY <1>1, <2>2, <2>3, <3>2, <3>3
    <3>5. Commands(w, top) \in Seq(Command) /\ Len(Commands(w, top)) = top
      <4>1. \A j \in 1 .. top : w[j].cmd \in Command
        BY <1>1, <2>2, EntryTypes
      <4>2. top \in Nat
        BY <1>1, <2>2
      <4> QED BY <4>1, <4>2 DEF Commands
    <3>6. ASSUME NEW j \in 1 .. top PROVE hist[j] = w[j].cmd
      <4>1. CASE j <= n.lastApplied
        <5>1. j \in 1 .. Len(n.sm) /\ hist[j] = n.sm[j]
          BY <1>1, <2>2, <2>3, <3>2, <3>3, <4>1, ConcatProperties
        <5> QED BY <1>1, <3>2, <5>1 DEF Commands
      <4>2. CASE ~(j <= n.lastApplied)
        <5>0. j \in Nat /\ top \in Nat /\ j - n.lastApplied \in 1 .. top - n.lastApplied
          BY <1>1, <2>2, <4>2
        <5>1. hist[j] = f[j - n.lastApplied] /\ j - n.lastApplied \in 1 .. top - n.lastApplied
          <6> HIDE DEF f
          <6>1. \A k \in 1 .. Len(n.sm) + Len(f) :
                  (n.sm \o f)[k] = IF k <= Len(n.sm) THEN n.sm[k] ELSE f[k - Len(n.sm)]
            BY <1>1, <3>3, ConcatProperties
          <6>2. j \in 1 .. Len(n.sm) + Len(f) /\ ~(j <= Len(n.sm))
            BY <1>1, <2>2, <3>2, <3>3, <4>2, <5>0
          <6>3. (n.sm \o f)[j] = f[j - Len(n.sm)]
            BY <6>1, <6>2
          <6> QED BY <2>3, <3>2, <5>0, <6>3
        <5>2. f[j - n.lastApplied] = CommandAt(n, j)
          BY <1>1, <2>2, <5>1
        <5>3. j \in n.snapshotIndex + 1 .. Len(w)
          BY <1>1, <2>2, <4>2
        <5> QED BY <3>1, <5>1, <5>2, <5>3
      <4> QED BY <4>1, <4>2
    <3>7. \A j \in 1 .. top : Commands(w, top)[j] = w[j].cmd
      BY DEF Commands
    <3> HIDE DEF f
    <3> QED BY <2>4, <3>4, <3>5, <3>6, <3>7, SeqEqual
  <2>8. Keeping(a, w)
    <3>1. LastIndex(a) = LastIndex(n)
      BY <2>5 DEF LastIndex
    <3> QED BY <1>1, <2>2, <2>5, <2>7, <3>1 DEF Keeping
  <2>9. a.lastApplied = Larger(n.lastApplied, n.commitIndex)
    BY <2>2, <2>5 DEF Larger
  <2> QED BY <2>1, <2>5, <2>6, <2>8, <2>9 DEF a
<1> QED BY <1>4, <1>5

\* Compacting moves the snapshot up to what is applied, and the log it keeps stays.
LEMMA CompactKeeps ==
  ASSUME NEW n, Sane(n), NEW w \in Seq(LogEntry), Keeping(n, w)
  PROVE  LET a == MaybeCompact(n)
         IN /\ Keeping(a, w) /\ SameOffice(n, a) /\ SamePeers(n, a)
            /\ a.commitIndex = n.commitIndex /\ a.lastApplied = n.lastApplied
            /\ Compacted(a)
            /\ \/ a.snapshotIndex = n.snapshotIndex
               \/ a.snapshotIndex = n.lastApplied /\ ~Compacted(n)
<1>0. n \in NodeState /\ n.snapshotIndex <= n.lastApplied
  BY DEF Sane
<1>1. /\ n.lastApplied \in Nat /\ n.snapshotIndex \in Nat /\ n.log \in Seq(LogEntry)
      /\ Len(n.log) \in Nat /\ Len(w) \in Nat /\ LastIndex(n) = Len(w)
      /\ n.lastApplied <= Len(w) /\ Len(w) = n.snapshotIndex + Len(n.log)
  <2>1. n.lastApplied \in Nat /\ n.snapshotIndex \in Nat /\ n.log \in Seq(LogEntry)
    BY <1>0 DEF NodeState
  <2> QED BY <2>1 DEF Keeping, LastIndex
<1> DEFINE skip == SnapshotThreshold = 0 \/ n.lastApplied - n.snapshotIndex < SnapshotThreshold
<1>2. CASE skip
  <2>1. MaybeCompact(n) = n
    BY <1>2, Zenon DEF MaybeCompact
  <2> QED BY <1>2, <2>1 DEF SameOffice, SamePeers, Compacted
<1>3. CASE ~skip
  <2> DEFINE term == TermAt(n, n.lastApplied)
             lo == n.lastApplied - n.snapshotIndex + 1
             rest == SubSeq(n.log, lo, Len(n.log))
             a == [n EXCEPT !.snapshotIndex = n.lastApplied, !.snapshotTerm = term,
                            !.snapshotData = n.sm, !.snapshotMembers = n.members,
                            !.log = rest, !.dirty = TRUE]
  <2>1. MaybeCompact(n) = a
    BY <1>3, Zenon DEF MaybeCompact
  <2>2. term = TermOf(w, n.lastApplied)
    BY <1>0, <1>1, KeepingReads
  <2>3. /\ Len(rest) = Len(w) - n.lastApplied
        /\ \A k \in 1 .. Len(rest) : rest[k] = n.log[lo + k - 1]
    <3>1. lo \in Nat \ {0} /\ Len(n.log) \in Nat /\ lo <= Len(n.log) + 1
      BY <1>0, <1>1
    <3>2. \A k \in lo .. Len(n.log) : n.log[k] \in LogEntry
      BY <1>1, <3>1
    <3> HIDE DEF lo
    <3>3. /\ Len(SubSeq(n.log, lo, Len(n.log)))
               = IF lo <= Len(n.log) THEN Len(n.log) - lo + 1 ELSE 0
          /\ \A k \in 1 .. Len(n.log) - lo + 1 :
               SubSeq(n.log, lo, Len(n.log))[k] = n.log[lo + k - 1]
      BY <1>1, <3>1, <3>2, SubSeqProperties
    <3>4. Len(rest) = Len(n.log) - lo + 1
      BY <3>1, <3>3
    <3>5. Len(n.log) - lo + 1 = Len(w) - n.lastApplied
      BY <1>1 DEF lo
    <3> QED BY <3>3, <3>4, <3>5
  <2> HIDE DEF term, rest
  <2>4. /\ a.snapshotIndex = n.lastApplied /\ a.snapshotTerm = term
        /\ a.snapshotData = n.sm /\ a.log = rest
        /\ a.lastApplied = n.lastApplied /\ a.sm = n.sm /\ a.commitIndex = n.commitIndex
    BY <1>0, SMTT(30) DEF NodeState
  <2>5. SameOffice(n, a) /\ SamePeers(n, a)
    BY <1>0, SMTT(30) DEF NodeState, SameOffice, SamePeers
  <2> HIDE DEF a
  <2>6. LastIndex(a) = Len(w)
    BY <1>1, <2>3, <2>4 DEF LastIndex
  <2>7. ASSUME NEW k \in a.snapshotIndex + 1 .. Len(w)
        PROVE  a.log[k - a.snapshotIndex] = w[k]
    <3>1. k - n.lastApplied \in 1 .. Len(rest)
      BY <1>1, <2>3, <2>4
    <3>2. rest[k - n.lastApplied] = n.log[lo + (k - n.lastApplied) - 1]
      BY <2>3, <3>1
    <3>3. lo + (k - n.lastApplied) - 1 = k - n.snapshotIndex
      BY <1>1, <2>4, SMTT(30)
    <3>4. k \in n.snapshotIndex + 1 .. Len(w)
      BY <1>0, <1>1, <2>4
    <3>5. n.log[k - n.snapshotIndex] = w[k]
      BY <3>4 DEF Keeping
    <3> QED BY <2>4, <3>2, <3>3, <3>5
  <2>8. Keeping(a, w)
    BY <1>1, <2>2, <2>4, <2>6, <2>7 DEF Keeping
  <2>9. Compacted(a) /\ ~Compacted(n)
    BY <1>1, <1>3, <2>4, ConfigAssumption DEF Compacted
  <2> QED BY <2>1, <2>4, <2>5, <2>8, <2>9 DEF a
<1> QED BY <1>2, <1>3
\* Applying and compacting keep a node sound, and leave nothing to apply or to compact,
\* provided that nothing was due to be compacted before.
LEMMA ApplyKeeps ==
  ASSUME ~MembershipChanges, NEW h, Sound(h), NEW i \in Server, NEW n, Sane(n),
         NodeSound(h, i, n), Compacted(n)
  PROVE  LET a == ApplyCommitted(i, n)
         IN /\ NodeSound(h, i, a) /\ SameOffice(n, a) /\ Compacted(a)
            /\ a.commitIndex = n.commitIndex
            /\ a.lastApplied = Larger(n.lastApplied, n.commitIndex)
            /\ a.lastApplied >= a.commitIndex /\ n.snapshotIndex <= a.snapshotIndex
<1> DEFINE w == h.whole[i]
           b == Applied(i, n)
           a == MaybeCompact(b)
<1>0. h \in History /\ n \in NodeState /\ n.snapshotIndex <= n.lastApplied
  BY DEF Sound, Sane
<1>1. /\ w \in Seq(LogEntry) /\ Len(w) \in Nat
      /\ n.commitIndex \in Nat /\ n.lastApplied \in Nat /\ n.snapshotIndex \in Nat
      /\ n.currentTerm \in Nat
  BY <1>0, HistoryTypes DEF NodeState
<1>2. Keeping(n, w) /\ CommitSound(h, w, n) /\ LeaderSound(h, i, n)
  BY DEF NodeSound
<1>3. n.commitIndex <= Len(w) /\ n.snapshotIndex <= n.commitIndex
  BY <1>2 DEF CommitSound
<1>4. /\ Keeping(b, w) /\ SameOffice(n, b) /\ SamePeers(n, b)
      /\ b.commitIndex = n.commitIndex /\ b.snapshotIndex = n.snapshotIndex
      /\ b.lastApplied = Larger(n.lastApplied, n.commitIndex)
  <2> HIDE DEF w
  <2> QED BY <1>1, <1>2, <1>3, AppliedKeeps
<1>5. Sane(b)
  BY AppliedFacts
<1>6. /\ Keeping(a, w) /\ SameOffice(b, a) /\ SamePeers(b, a)
      /\ a.commitIndex = b.commitIndex /\ a.lastApplied = b.lastApplied
      /\ Compacted(a)
      /\ \/ a.snapshotIndex = b.snapshotIndex
         \/ a.snapshotIndex = b.lastApplied /\ ~Compacted(b)
  <2> HIDE DEF w, b
  <2> QED BY <1>1, <1>4, <1>5, CompactKeeps
<1>7. a = ApplyCommitted(i, n)
  BY Zenon DEF ApplyCommitted
<1>8. Sane(a) /\ a \in NodeState
  BY <1>5, MaybeCompactFacts DEF Sane
<1> HIDE DEF a, b
<1>9. SameOffice(n, a) /\ SamePeers(n, a) /\ a.commitIndex = n.commitIndex
  BY <1>4, <1>6 DEF SameOffice, SamePeers
<1>10. a.lastApplied = Larger(n.lastApplied, n.commitIndex) /\ a.lastApplied >= a.commitIndex
  BY <1>1, <1>4, <1>6 DEF Larger
<1>11. a.snapshotIndex <= a.commitIndex /\ n.snapshotIndex <= a.snapshotIndex
  <2>1. CASE a.snapshotIndex = b.snapshotIndex
    BY <1>1, <1>3, <1>4, <1>9, <2>1
  <2>2. CASE a.snapshotIndex = b.lastApplied /\ ~Compacted(b)
    <3>1. n.lastApplied < n.commitIndex
      <4> SUFFICES ASSUME ~(n.lastApplied < n.commitIndex) PROVE FALSE
        OBVIOUS
      <4>1. b.lastApplied = n.lastApplied
        BY <1>4 DEF Larger
      <4> QED BY <1>4, <2>2, <4>1 DEF Compacted
    <3> QED BY <1>1, <1>3, <1>4, <1>9, <2>2, <3>1 DEF Larger
  <2> QED BY <1>6, <2>1, <2>2
<1>12. CommitSound(h, w, a)
  <2>1. Covered(h, w, n.commitIndex, n.currentTerm) /\ Covered(h, w, n.lastApplied, n.currentTerm)
    BY <1>2 DEF CommitSound
  <2>2. a.lastApplied = n.commitIndex \/ a.lastApplied = n.lastApplied
    BY <1>10 DEF Larger
  <2>3. a.currentTerm = n.currentTerm
    BY <1>9 DEF SameOffice
  <2> QED BY <1>3, <1>9, <1>11, <2>1, <2>2, <2>3 DEF CommitSound
<1>13. LeaderSound(h, i, a)
  <2>1. LastIndex(a) = LastIndex(n)
    BY <1>2, <1>6 DEF Keeping
  <2>2. Peers(i, a) = Peers(i, n)
    BY <1>0, <1>8, FixedMembers
  <2> QED BY <1>2, <1>9, <2>1, <2>2 DEF LeaderSound, SameOffice, SamePeers
<1> QED BY <1>6, <1>7, <1>9, <1>10, <1>11, <1>12, <1>13 DEF NodeSound

-----------------------------------------------------------------------------
(* Operators that leave the log alone *)

\* Stepping down, voting, polling, campaigning and sending do not touch the log.
LEMMA LogUntouched ==
  ASSUME NEW n \in NodeState
  PROVE  /\ KeepsLog(n, n)
         /\ \A t \in Nat : KeepsLog(n, StepDown(n, t))
         /\ \A x : KeepsLog(n, VoteFor(n, x))
         /\ \A i : KeepsLog(n, Poll(i, n)) /\ KeepsLog(n, Campaign(i, n))
         /\ \A i, P : KeepsLog(n, Sent(i, n, P))
         /\ \A S : /\ KeepsLog(n, [n EXCEPT !.preVotes = S])
                   /\ KeepsLog(n, [n EXCEPT !.votes = S])
                   /\ KeepsLog(n, [n EXCEPT !.pending = S])
<1>0. n.currentTerm \in Nat /\ n.currentTerm <= n.currentTerm
  BY DEF NodeState
<1>1. KeepsLog(n, n)
  BY <1>0 DEF KeepsLog, SameLog, SamePeers
<1>2. ASSUME NEW t \in Nat PROVE KeepsLog(n, StepDown(n, t))
  <2> DEFINE a == StepDown(n, t)
  <2>1. /\ a.currentTerm = Larger(t, n.currentTerm) /\ a.role = Follower
        /\ SameLog(n, a)
    BY SMTT(30) DEF NodeState, StepDown, SameLog
  <2>2. n.currentTerm <= Larger(t, n.currentTerm)
    BY <1>0 DEF Larger
  <2> QED BY <2>1, <2>2 DEF KeepsLog, Follower, Leader
<1>3. ASSUME NEW x PROVE KeepsLog(n, VoteFor(n, x))
  <2> DEFINE a == VoteFor(n, x)
  <2>1. SameLog(n, a) /\ SamePeers(n, a) /\ a.currentTerm = n.currentTerm /\ a.role = n.role
    BY SMTT(30) DEF NodeState, VoteFor, SameLog, SamePeers
  <2> QED BY <1>0, <2>1 DEF KeepsLog
<1>4. ASSUME NEW i PROVE KeepsLog(n, Poll(i, n))
  <2> DEFINE a == Poll(i, n)
  <2>1. SameLog(n, a) /\ a.currentTerm = n.currentTerm /\ a.role = PreCandidate
    BY SMTT(30) DEF NodeState, Poll, SameLog
  <2> QED BY <1>0, <2>1 DEF KeepsLog, PreCandidate, Leader
<1>5. ASSUME NEW i PROVE KeepsLog(n, Campaign(i, n))
  <2> DEFINE a == Campaign(i, n)
  <2>1. SameLog(n, a) /\ a.currentTerm = n.currentTerm + 1 /\ a.role = Candidate
    BY SMTT(30) DEF NodeState, Campaign, SameLog
  <2>2. n.currentTerm <= n.currentTerm + 1
    BY <1>0
  <2> QED BY <2>1, <2>2 DEF KeepsLog, Candidate, Leader
<1>6. ASSUME NEW i, NEW P PROVE KeepsLog(n, Sent(i, n, P))
  <2> DEFINE f == [p \in Server |-> IF p \in P THEN SentUptoAfter(i, n, p) ELSE n.sentUpto[p]]
             a == [n EXCEPT !.sentUpto = f]
  <2>1. Sent(i, n, P) = a
    BY Zenon DEF Sent
  <2> HIDE DEF f
  <2>2. SameLog(n, a) /\ SamePeers(n, a) /\ a.currentTerm = n.currentTerm /\ a.role = n.role
    BY SMTT(30) DEF NodeState, SameLog, SamePeers
  <2> QED BY <1>0, <2>1, <2>2 DEF KeepsLog
<1>7. ASSUME NEW S PROVE KeepsLog(n, [n EXCEPT !.preVotes = S])
  <2> DEFINE a == [n EXCEPT !.preVotes = S]
  <2>1. SameLog(n, a) /\ SamePeers(n, a) /\ a.currentTerm = n.currentTerm /\ a.role = n.role
    BY SMTT(30) DEF NodeState, SameLog, SamePeers
  <2> QED BY <1>0, <2>1 DEF KeepsLog
<1>8. ASSUME NEW S PROVE KeepsLog(n, [n EXCEPT !.votes = S])
  <2> DEFINE a == [n EXCEPT !.votes = S]
  <2>1. SameLog(n, a) /\ SamePeers(n, a) /\ a.currentTerm = n.currentTerm /\ a.role = n.role
    BY SMTT(30) DEF NodeState, SameLog, SamePeers
  <2> QED BY <1>0, <2>1 DEF KeepsLog
<1>9. ASSUME NEW S PROVE KeepsLog(n, [n EXCEPT !.pending = S])
  <2> DEFINE a == [n EXCEPT !.pending = S]
  <2>1. SameLog(n, a) /\ SamePeers(n, a) /\ a.currentTerm = n.currentTerm /\ a.role = n.role
    BY SMTT(30) DEF NodeState, SameLog, SamePeers
  <2> QED BY <1>0, <2>1 DEF KeepsLog
<1> QED BY <1>1, <1>2, <1>3, <1>4, <1>5, <1>6, <1>7, <1>8, <1>9

\* What recognising a leader changes.
LEMMA RecogniseKeeps ==
  ASSUME NEW n \in NodeState, NEW m, m.term \in Nat, ~Stale(n, m)
  PROVE  LET r == Recognise(n, m)
         IN /\ KeepsLog(n, r) /\ r.currentTerm = m.term /\ r.leaderId = m.src
            /\ r.role \in {Follower, Leader}
            /\ r.votedFor = IF m.term > n.currentTerm THEN Nil ELSE n.votedFor
<1> DEFINE s == IF m.term > n.currentTerm THEN StepDown(n, m.term) ELSE n
           role == IF s.role \in {Candidate, PreCandidate} THEN Follower ELSE s.role
           r == [s EXCEPT !.role = role, !.leaderId = m.src, !.heardLeader = LeaderStickiness]
<1>0. n.currentTerm \in Nat /\ n.currentTerm <= m.term /\ n.role \in Role
  BY DEF NodeState, Stale
<1>1. Recognise(n, m) = r
  BY Zenon DEF Recognise
<1>2. s \in NodeState
  BY StepDownFacts
<1>3. KeepsLog(n, s) /\ s.currentTerm = m.term
      /\ s.votedFor = IF m.term > n.currentTerm THEN Nil ELSE n.votedFor
  <2>1. CASE m.term > n.currentTerm
    BY <1>0, <2>1, LogUntouched, StepDownFacts DEF Larger
  <2>2. CASE ~(m.term > n.currentTerm)
    BY <1>0, <2>2, LogUntouched
  <2> QED BY <2>1, <2>2
<1> HIDE DEF s, role
<1>4. /\ SameLog(s, r) /\ SamePeers(s, r) /\ r.currentTerm = s.currentTerm
      /\ r.role = role /\ r.leaderId = m.src /\ r.votedFor = s.votedFor
  BY <1>2, SMTT(30) DEF NodeState, SameLog, SamePeers
<1>5. role \in {Follower, Leader} /\ (role = Leader => s.role = Leader)
  BY <1>2 DEF NodeState, Role, role, Follower, Leader, Candidate, PreCandidate
<1> HIDE DEF r
<1>6. KeepsLog(n, r)
  BY <1>3, <1>4, <1>5 DEF KeepsLog, SameLog, SamePeers
<1> QED BY <1>1, <1>3, <1>4, <1>5, <1>6

-----------------------------------------------------------------------------
(* What messages say of the history *)

\* Entries are sent out of the log of the leader of the term, with a commit index that
\* it covers.
AppendSound(h, m) ==
  m.type = "AppendEntries" =>
    /\ m.term \in h.terms
    /\ m.prevLogIndex + Len(m.entries) <= Len(h.led[m.term])
    /\ m.prevLogTerm = TermOf(h.led[m.term], m.prevLogIndex)
    /\ \A k \in 1 .. Len(m.entries) : m.entries[k] = h.led[m.term][m.prevLogIndex + k]
    /\ Covered(h, h.led[m.term], m.leaderCommit, m.term)

\* So are snapshots.
SnapshotSound(h, m) ==
  m.type = "InstallSnapshot" =>
    /\ m.term \in h.terms
    /\ m.lastIncludedIndex <= Len(h.led[m.term])
    /\ m.lastIncludedTerm = TermOf(h.led[m.term], m.lastIncludedIndex)
    /\ m.data = Commands(h.led[m.term], m.lastIncludedIndex)
    /\ Covered(h, h.led[m.term], m.lastIncludedIndex, m.term)

\* What is acknowledged is held; a rejection points back.
ReplySound(h, m) ==
  /\ m.type = "AppendEntriesResp" =>
       IF m.success THEN m.matchIndex <= h.held[m.src][m.term]
       ELSE m.conflictIndex <= m.repliesTo
  /\ m.type = "InstallSnapshotResp" => m.matchIndex <= h.held[m.src][m.term]

MessageSound(h, m) ==
  AppendSound(h, m) /\ SnapshotSound(h, m) /\ ReplySound(h, m)

\* The log of a leader, as far as it was, stays what it was.
LEMMA LedPart ==
  ASSUME NEW h \in History, NEW g \in History, Follows(h, g), NEW t \in h.terms
  PROVE  /\ Len(h.led[t]) <= Len(g.led[t])
         /\ \A k \in 1 .. Len(h.led[t]) : g.led[t][k] = h.led[t][k]
         /\ \A k \in 0 .. Len(h.led[t]) : /\ TermOf(g.led[t], k) = TermOf(h.led[t], k)
                                          /\ Commands(g.led[t], k) = Commands(h.led[t], k)
         /\ \A c, s \in Nat : Covered(h, h.led[t], c, s) => Covered(g, g.led[t], c, s)
<1>1. t \in Nat /\ Len(h.led[t]) \in Nat /\ Len(g.led[t]) \in Nat
      /\ h.led[t] \in Seq(LogEntry)
  BY HistoryTypes
<1>2. /\ Len(h.led[t]) <= Len(g.led[t])
      /\ \A k \in 1 .. Len(h.led[t]) : g.led[t][k] = h.led[t][k]
  BY DEF Follows, Share
<1>3. ASSUME NEW k \in 0 .. Len(h.led[t])
      PROVE  /\ TermOf(g.led[t], k) = TermOf(h.led[t], k)
             /\ Commands(g.led[t], k) = Commands(h.led[t], k)
  <2>1. \A j \in 1 .. k : g.led[t][j] = h.led[t][j]
    BY <1>1, <1>2
  <2>2. k # 0 => k \in 1 .. k
    BY <1>1
  <2> QED BY <2>1, <2>2 DEF TermOf, Commands
<1>4. ASSUME NEW c \in Nat, NEW s \in Nat, Covered(h, h.led[t], c, s)
      PROVE  Covered(g, g.led[t], c, s)
  <2>1. c <= Len(h.led[t])
    BY <1>1, <1>4, CoveredLength
  <2>2. Share(h.led[t], g.led[t], c)
    BY <1>1, <1>2, <2>1 DEF Share
  <2>3. s <= s
    OBVIOUS
  <2> QED BY <1>4, <2>2, <2>3, CoveredStays
<1> QED BY <1>2, <1>3, <1>4

\* What a message says is true for good.
LEMMA MessageStays ==
  ASSUME NEW h \in History, NEW g \in History, Follows(h, g),
         NEW m \in NodeMessage, MessageSound(h, m)
  PROVE  MessageSound(g, m)
<1> DEFINE u == h.led[m.term]
           v == g.led[m.term]
<1>1. AppendSound(g, m)
  <2> SUFFICES ASSUME m.type = "AppendEntries" PROVE AppendSound(g, m)
    BY DEF AppendSound
  <2>1. /\ m.term \in h.terms /\ m.prevLogIndex + Len(m.entries) <= Len(u)
        /\ m.prevLogTerm = TermOf(u, m.prevLogIndex)
        /\ \A k \in 1 .. Len(m.entries) : m.entries[k] = u[m.prevLogIndex + k]
        /\ Covered(h, u, m.leaderCommit, m.term)
    BY DEF MessageSound, AppendSound
  <2>2. /\ m \in AppendEntries /\ m.term \in Nat /\ m.prevLogIndex \in Nat
        /\ Len(m.entries) \in Nat /\ m.leaderCommit \in Nat
    BY MessageOfType DEF AppendEntries
  <2>3. Len(u) \in Nat /\ Len(v) \in Nat
    BY <2>2, HistoryTypes
  <2>4. /\ Len(u) <= Len(v) /\ \A k \in 1 .. Len(u) : v[k] = u[k]
        /\ \A k \in 0 .. Len(u) : TermOf(v, k) = TermOf(u, k)
        /\ Covered(g, v, m.leaderCommit, m.term)
    BY <2>1, <2>2, LedPart, SMTT(30)
  <2> HIDE DEF u, v
  <2>5. m.term \in g.terms
    BY <2>1 DEF Follows
  <2>6. m.prevLogIndex + Len(m.entries) <= Len(v) /\ m.prevLogIndex \in 0 .. Len(u)
    BY <2>1, <2>2, <2>3, <2>4
  <2>7. ASSUME NEW k \in 1 .. Len(m.entries) PROVE m.entries[k] = v[m.prevLogIndex + k]
    <3>1. m.prevLogIndex + k \in 1 .. Len(u)
      BY <2>1, <2>2, <2>3
    <3> QED BY <2>1, <2>4, <3>1
  <2>8. m.prevLogTerm = TermOf(v, m.prevLogIndex)
    BY <2>1, <2>4, <2>6
  <2> QED BY <2>4, <2>5, <2>6, <2>7, <2>8 DEF AppendSound, v
<1>2. SnapshotSound(g, m)
  <2> SUFFICES ASSUME m.type = "InstallSnapshot" PROVE SnapshotSound(g, m)
    BY DEF SnapshotSound
  <2> DEFINE k == m.lastIncludedIndex
  <2>1. /\ m.term \in h.terms /\ k <= Len(u)
        /\ m.lastIncludedTerm = TermOf(u, k) /\ m.data = Commands(u, k)
        /\ Covered(h, u, k, m.term)
    BY DEF MessageSound, SnapshotSound
  <2>2. m \in InstallSnapshot /\ m.term \in Nat /\ k \in Nat
    BY MessageOfType DEF InstallSnapshot
  <2>3. Len(u) \in Nat /\ Len(v) \in Nat
    BY <2>2, HistoryTypes
  <2>4. k \in 0 .. Len(u)
    BY <2>1, <2>2, <2>3
  <2>5. /\ Len(u) <= Len(v) /\ TermOf(v, k) = TermOf(u, k) /\ Commands(v, k) = Commands(u, k)
        /\ Covered(g, v, k, m.term)
    BY <2>1, <2>2, <2>4, LedPart
  <2>6. m.term \in g.terms
    BY <2>1 DEF Follows
  <2>7. k <= Len(v)
    BY <2>1, <2>2, <2>3, <2>5
  <2> QED BY <2>1, <2>5, <2>6, <2>7 DEF SnapshotSound
<1>3. ReplySound(g, m)
  <2>1. ASSUME m.type \in {"AppendEntriesResp", "InstallSnapshotResp"},
               m.matchIndex <= h.held[m.src][m.term]
        PROVE  m.matchIndex <= g.held[m.src][m.term]
    <3>1. m.src \in Server /\ m.term \in Nat /\ m.matchIndex \in Nat
      BY <2>1, MessageOfType DEF AppendEntriesResp, InstallSnapshotResp
    <3>2. h.held[m.src][m.term] \in Nat /\ g.held[m.src][m.term] \in Nat
      BY <3>1, HistoryTypes
    <3>3. h.held[m.src][m.term] <= g.held[m.src][m.term]
      BY <3>1 DEF Follows
    <3> QED BY <2>1, <3>1, <3>2, <3>3
  <2>2. ReplySound(h, m)
    BY DEF MessageSound
  <2> QED BY <2>1, <2>2 DEF ReplySound
<1> QED BY <1>1, <1>2, <1>3 DEF MessageSound

\* make_append sends what the leader's log and the snapshot under it say.
LEMMA MakeAppendSound ==
  ASSUME NEW h, Sound(h), NEW i \in Server, NEW n, Sane(n), NodeSound(h, i, n),
         n.role = Leader, NEW p \in Server
  PROVE  MessageSound(h, MakeAppend(i, n, p))
<1> DEFINE w == h.whole[i]
           t == n.currentTerm
           next == Larger(1, NextIndex(n, p))
           prev == next - 1
           first == next - n.snapshotIndex
           last == Smaller(Len(n.log), first + MaxEntriesPerAppend - 1)
           es == SubSeq(n.log, first, last)
<1>0. h \in History /\ n \in NodeState
  BY DEF Sound, Sane
<1>1. /\ t \in h.terms /\ w = h.led[t] /\ n.nextIndex[p] <= LastIndex(n) + 1
      /\ Keeping(n, w) /\ CommitSound(h, w, n)
  BY DEF NodeSound, LeaderSound
<1>2. /\ w \in Seq(LogEntry) /\ Len(w) \in Nat /\ LastIndex(n) = Len(w)
      /\ n.snapshotIndex \in Nat /\ n.commitIndex \in Nat /\ t \in Nat
      /\ n.log \in Seq(LogEntry) /\ Len(n.log) \in Nat
      /\ Len(w) = n.snapshotIndex + Len(n.log)
      /\ n.nextIndex[p] \in Nat /\ MaxEntriesPerAppend \in Nat \ {0}
  <2>1. /\ n.snapshotIndex \in Nat /\ n.commitIndex \in Nat /\ t \in Nat
        /\ n.log \in Seq(LogEntry) /\ Len(n.log) \in Nat /\ n.nextIndex[p] \in Nat
    BY <1>0 DEF NodeState
  <2> QED BY <1>0, <1>1, <2>1, HistoryTypes, ConfigAssumption DEF Keeping, LastIndex
<1>3. next \in 1 .. Len(w) + 1
  BY <1>1, <1>2 DEF NextIndex, Larger
<1>4. CASE next <= n.snapshotIndex
  <2> DEFINE m == InstallSnapshotMsg(i, p, n)
  <2>1. MakeAppend(i, n, p) = m
    BY <1>4, Zenon DEF MakeAppend
  <2>2. /\ m.type = "InstallSnapshot" /\ m.term = t /\ m.lastIncludedIndex = n.snapshotIndex
        /\ m.lastIncludedTerm = n.snapshotTerm /\ m.data = n.snapshotData
    BY DEF InstallSnapshotMsg
  <2> HIDE DEF m
  <2>3. n.snapshotIndex <= n.commitIndex /\ n.commitIndex <= Len(w)
        /\ Covered(h, w, n.commitIndex, t)
    BY <1>1 DEF CommitSound
  <2>4. n.snapshotIndex <= Len(w)
    BY <1>2
  <2>5. Share(w, w, n.snapshotIndex)
    BY <2>4 DEF Share
  <2>6. Covered(h, w, n.snapshotIndex, t)
    BY <1>0, <1>2, <2>3, <2>5, CoveredPart
  <2>7. SnapshotSound(h, m)
    BY <1>1, <2>2, <2>4, <2>6 DEF SnapshotSound, Keeping
  <2> QED BY <2>1, <2>2, <2>7 DEF MessageSound, AppendSound, ReplySound
<1>5. CASE ~(next <= n.snapshotIndex)
  <2> DEFINE m == AppendEntriesMsg(i, p, n, prev, es)
  <2>1. MakeAppend(i, n, p) = m
    BY <1>5, Zenon DEF MakeAppend
  <2>2. /\ m.type = "AppendEntries" /\ m.term = t /\ m.prevLogIndex = prev
        /\ m.prevLogTerm = TermAt(n, prev) /\ m.entries = es
        /\ m.leaderCommit = n.commitIndex
    BY DEF AppendEntriesMsg
  <2>3. prev \in n.snapshotIndex .. Len(w) /\ first \in 1 .. Len(n.log) + 1
    BY <1>2, <1>3, <1>5, SMTT(30)
  <2>4. last \in Nat /\ last <= Len(n.log) /\ first \in Nat \ {0}
    BY <1>2, <2>3, SMTT(30) DEF Smaller
  <2>5. /\ Len(es) = IF first <= last THEN last - first + 1 ELSE 0
        /\ \A k \in 1 .. Len(es) : es[k] = n.log[first + k - 1]
    <3>1. \A k \in first .. last : n.log[k] \in LogEntry
      BY <1>2, <2>4
    <3> HIDE DEF first, last, es
    <3>2. /\ Len(SubSeq(n.log, first, last)) = IF first <= last THEN last - first + 1 ELSE 0
          /\ \A k \in 1 .. last - first + 1 : SubSeq(n.log, first, last)[k] = n.log[first + k - 1]
      BY <2>4, <3>1, SubSeqProperties
    <3>3. Len(es) = IF first <= last THEN last - first + 1 ELSE 0
      BY <3>2 DEF es
    <3>4. \A k \in 1 .. Len(es) : k \in 1 .. last - first + 1
      BY <2>4, <3>3
    <3> QED BY <3>2, <3>3, <3>4 DEF es
  <2>6. Len(es) \in Nat /\ prev + Len(es) <= Len(w)
    <3>1. Len(es) = IF first <= last THEN last - first + 1 ELSE 0
      BY <2>5
    <3> DEFINE l == Len(es)
    <3>2. l = IF first <= last THEN last - first + 1 ELSE 0
      BY <3>1
    <3>3. prev + 1 = n.snapshotIndex + first /\ prev \in Nat
      BY <1>2, <1>3, <2>3, SMTT(30)
    <3> HIDE DEF l, last, first, prev
    <3>4. l \in Nat /\ prev + l <= Len(w)
      BY <1>2, <2>3, <2>4, <3>2, <3>3
    <3> QED BY <3>4 DEF l
  <2>7. ASSUME NEW k \in 1 .. Len(es) PROVE es[k] = w[prev + k]
    <3> HIDE DEF es, last
    <3>1. prev + k \in n.snapshotIndex + 1 .. Len(w)
      BY <1>2, <2>3, <2>6, SMTT(30)
    <3>2. n.log[(prev + k) - n.snapshotIndex] = w[prev + k]
      BY <1>1, <3>1 DEF Keeping
    <3>3. (prev + k) - n.snapshotIndex = first + k - 1
      BY <1>2, <1>3, <2>6
    <3> QED BY <2>5, <3>2, <3>3
  <2>8. TermAt(n, prev) = TermOf(w, prev)
    <3> HIDE DEF w
    <3> QED BY <1>0, <1>1, <1>2, <2>3, KeepingReads
  <2>9. Covered(h, w, n.commitIndex, t)
    BY <1>1 DEF CommitSound
  <2>10. AppendSound(h, m)
    <3> HIDE DEF m, prev, es
    <3> QED BY <1>1, <2>2, <2>6, <2>7, <2>8, <2>9 DEF AppendSound
  <2> HIDE DEF m
  <2> QED BY <2>1, <2>2, <2>10 DEF MessageSound, SnapshotSound, ReplySound
<1> QED BY <1>4, <1>5

-----------------------------------------------------------------------------
(* Leading, as the log sees it                                             *)

\* What was committed stays so when the log grows.
LEMMA CommitStays ==
  ASSUME NEW h \in History, NEW g \in History, Follows(h, g),
         NEW n \in NodeState, NEW a \in NodeState,
         NEW w \in Seq(LogEntry), NEW v \in Seq(LogEntry), Share(w, v, Len(w)),
         Keeping(n, w), CommitSound(h, w, n), n.currentTerm <= a.currentTerm,
         a.commitIndex = n.commitIndex, a.lastApplied = n.lastApplied,
         a.snapshotIndex = n.snapshotIndex
  PROVE  CommitSound(g, v, a)
<1>1. /\ n.commitIndex \in Nat /\ n.lastApplied \in Nat /\ n.currentTerm \in Nat
      /\ a.currentTerm \in Nat /\ Len(w) \in Nat /\ Len(v) \in Nat
  <2>1. Len(w) \in Nat /\ Len(v) \in Nat
    OBVIOUS
  <2>2. n.commitIndex \in Nat /\ n.lastApplied \in Nat /\ n.currentTerm \in Nat
    BY DEF NodeState
  <2>3. a.currentTerm \in Nat
    BY DEF NodeState
  <2> QED BY <2>1, <2>2, <2>3
<1>2. n.commitIndex <= Len(w) /\ n.lastApplied <= Len(w) /\ n.snapshotIndex <= n.commitIndex
  BY DEF CommitSound, Keeping
<1>3. ASSUME NEW c \in Nat, c <= Len(w), Covered(h, w, c, n.currentTerm)
      PROVE  Covered(g, v, c, a.currentTerm)
  <2>1. Share(w, v, c)
    <3>1. \A j \in 1 .. c : j \in 1 .. Len(w)
      BY <1>1, <1>3
    <3>2. c <= Len(v)
      BY <1>1, <1>3 DEF Share
    <3> QED BY <1>3, <3>1, <3>2 DEF Share
  <2> QED BY <1>1, <1>3, <2>1, CoveredStays
<1>4. n.commitIndex <= Len(v)
  BY <1>1, <1>2 DEF Share
<1>5. Covered(h, w, n.commitIndex, n.currentTerm) /\ Covered(h, w, n.lastApplied, n.currentTerm)
  BY DEF CommitSound
<1> QED BY <1>1, <1>2, <1>3, <1>4, <1>5 DEF CommitSound

\* An entry appended to the log is appended to the log kept.
LEMMA AppendKeeps ==
  ASSUME NEW n \in NodeState, NEW a \in NodeState, NEW w \in Seq(LogEntry), NEW e \in LogEntry,
         Keeping(n, w), a.log = Append(n.log, e), a.snapshotIndex = n.snapshotIndex,
         a.snapshotTerm = n.snapshotTerm, a.snapshotData = n.snapshotData,
         a.lastApplied = n.lastApplied, a.sm = n.sm
  PROVE  Keeping(a, Append(w, e)) /\ LastIndex(a) = LastIndex(n) + 1
<1> DEFINE v == Append(w, e)
<1>1. /\ n.snapshotIndex \in Nat /\ n.log \in Seq(LogEntry) /\ Len(n.log) \in Nat
      /\ Len(w) \in Nat /\ Len(w) = n.snapshotIndex + Len(n.log) /\ n.lastApplied \in Nat
      /\ n.snapshotIndex <= n.lastApplied /\ n.lastApplied <= Len(w)
  BY SMTT(30) DEF NodeState, Keeping, LastIndex
<1>2. /\ Len(v) = Len(w) + 1 /\ v[Len(w) + 1] = e /\ \A k \in 1 .. Len(w) : v[k] = w[k]
      /\ Len(a.log) = Len(n.log) + 1 /\ a.log[Len(n.log) + 1] = e
      /\ \A k \in 1 .. Len(n.log) : a.log[k] = n.log[k]
  BY <1>1
<1> HIDE DEF v
<1>3. LastIndex(a) = Len(v) /\ LastIndex(a) = LastIndex(n) + 1
  BY <1>1, <1>2, SMTT(30) DEF LastIndex
<1>4. ASSUME NEW k \in a.snapshotIndex + 1 .. Len(v)
      PROVE  a.log[k - a.snapshotIndex] = v[k]
  <2>1. CASE k = Len(w) + 1
    <3>1. k - a.snapshotIndex = Len(n.log) + 1
      BY <1>1, <2>1
    <3> QED BY <1>2, <2>1, <3>1
  <2>2. CASE k # Len(w) + 1
    <3>1. k \in n.snapshotIndex + 1 .. Len(w) /\ k \in 1 .. Len(w)
          /\ k - n.snapshotIndex \in 1 .. Len(n.log)
      BY <1>1, <1>2, <2>2, SMTT(30)
    <3>2. n.log[k - n.snapshotIndex] = w[k]
      BY <3>1 DEF Keeping
    <3> QED BY <1>2, <3>1, <3>2
  <2> QED BY <2>1, <2>2
<1>5. ASSUME NEW k \in Nat, k <= Len(w)
      PROVE  Commands(v, k) = Commands(w, k) /\ TermOf(v, k) = TermOf(w, k)
  <2>1. \A j \in 1 .. k : v[j] = w[j]
    BY <1>1, <1>2, <1>5
  <2>2. k # 0 => k \in 1 .. k
    BY <1>5
  <2> QED BY <2>1, <2>2 DEF Commands, TermOf
<1>6. /\ Commands(v, n.lastApplied) = Commands(w, n.lastApplied)
      /\ Commands(v, n.snapshotIndex) = Commands(w, n.snapshotIndex)
      /\ TermOf(v, n.snapshotIndex) = TermOf(w, n.snapshotIndex)
  BY <1>1, <1>5
<1>7. n.lastApplied <= Len(v)
  BY <1>1, <1>2
<1>8. Keeping(a, v)
  BY <1>1, <1>3, <1>4, <1>6, <1>7 DEF Keeping
<1> QED BY <1>3, <1>8 DEF v

\* Section 5.4.2: what advance_commit picks has been held by a majority, and is of the
\* leader's own term.
LEMMA AdvanceCommitKeeps ==
  ASSUME ~MembershipChanges, NEW h, Sound(h), NEW i \in Server, NEW n \in NodeState,
         NodeSound(h, i, n)
  PROVE  LET a == AdvanceCommit(i, n)
         IN /\ NodeSound(h, i, a) /\ SameOffice(n, a) /\ SamePeers(n, a)
            /\ a.lastApplied = n.lastApplied /\ a.snapshotIndex = n.snapshotIndex
            /\ LastIndex(a) = LastIndex(n)
<1> DEFINE k == Largest(Agreed(i, n))
           a == [n EXCEPT !.commitIndex = k]
           w == h.whole[i]
           t == n.currentTerm
           guard == n.role = Leader /\ Agreed(i, n) # {} /\ TermAt(n, k) = t
<1>0. h \in History
  BY DEF Sound
<1>1. CASE ~guard
  <2>1. AdvanceCommit(i, n) = n
    BY <1>1, Zenon DEF AdvanceCommit
  <2> QED BY <2>1 DEF SameOffice, SamePeers
<1>2. CASE guard
  <2>1. AdvanceCommit(i, n) = a
    BY <1>2, Zenon DEF AdvanceCommit
  <2>2. /\ w \in Seq(LogEntry) /\ Len(w) \in Nat /\ t \in Nat /\ n.commitIndex \in Nat
        /\ n.snapshotIndex \in Nat
    BY <1>0, HistoryTypes DEF NodeState
  <2>3. /\ Keeping(n, w) /\ CommitSound(h, w, n) /\ LastIndex(n) = Len(w)
        /\ t \in h.terms /\ w = h.led[t] /\ Len(w) <= h.held[i][t]
        /\ \A p \in Server : n.matchIndex[p] <= h.held[p][t]
    BY <1>2 DEF NodeSound, LeaderSound, Keeping
  <2>4. n.snapshotIndex <= n.commitIndex
    BY <2>3 DEF CommitSound
  <2>5. k \in Agreed(i, n)
    <3>1. Agreed(i, n) \in SUBSET Nat /\ \A j \in Agreed(i, n) : j <= Len(w)
      BY <2>2, <2>3 DEF Agreed
    <3> QED BY <1>2, <2>2, <3>1, LargestType
  <2> DEFINE Q == {p \in n.members : MatchOf(i, n, p) >= k}
  <2>6. /\ k \in n.commitIndex + 1 .. Len(w)
        /\ Cardinality(Q) >= Majority(n)
    BY <2>3, <2>5 DEF Agreed
  <2> HIDE DEF k, w
  <2>7. n.members = InitialMembers /\ Q \in SUBSET InitialMembers /\ Electors(Q)
    <3>1. n.members = InitialMembers
      BY FixedMembers
    <3> QED BY <2>6, <3>1 DEF Majority, Electors
  <2>8. k \in n.snapshotIndex .. Len(w) /\ k \in 1 .. Len(w) /\ k \in Nat
    BY <2>2, <2>4, <2>6
  <2>9. w[k].term = t
    <3>1. TermAt(n, k) = TermOf(w, k)
      BY <2>2, <2>3, <2>8, KeepingReads
    <3> QED BY <1>2, <2>8, <3>1 DEF TermOf
  <2>10. h.won[t] < k
    <3>1. \A j \in 1 .. Len(h.led[t]) :
            IF j <= h.won[t] THEN h.led[t][j].term < t ELSE h.led[t][j].term = t
      BY <2>3 DEF Sound, LedSound
    <3>2. h.won[t] \in Nat
      BY <1>0, <2>2, HistoryTypes
    <3>3. ~(k <= h.won[t])
      <4> SUFFICES ASSUME k <= h.won[t] PROVE FALSE
        OBVIOUS
      <4>1. w[k].term < t
        BY <2>3, <2>8, <3>1
      <4> QED BY <2>2, <2>9, <4>1
    <3> QED BY <2>8, <3>2, <3>3
  <2>11. ASSUME NEW p \in Q PROVE h.held[p][t] >= k
    <3>1. p \in Server /\ MatchOf(i, n, p) >= k
      BY <2>7, ServerAssumption
    <3>2. h.held[p][t] \in Nat /\ n.matchIndex[p] \in Nat
      BY <1>0, <2>2, <3>1, HistoryTypes DEF NodeState
    <3>3. MatchOf(i, n, p) <= h.held[p][t] /\ MatchOf(i, n, p) \in Nat
      BY <2>2, <2>3, <3>1, <3>2 DEF MatchOf
    <3> QED BY <2>8, <3>1, <3>2, <3>3
  <2>12. Chosen(h, t, k)
    BY <2>3, <2>7, <2>8, <2>10, <2>11 DEF Chosen
  <2>13. Share(w, h.led[t], k)
    BY <2>3, <2>8 DEF Share
  <2>14. Covered(h, w, k, t)
    BY <2>2, <2>8, <2>12, <2>13 DEF Covered
  <2>15. /\ a.commitIndex = k /\ a.lastApplied = n.lastApplied
         /\ a.snapshotIndex = n.snapshotIndex /\ a.snapshotTerm = n.snapshotTerm
         /\ a.snapshotData = n.snapshotData /\ a.log = n.log /\ a.sm = n.sm
         /\ a.currentTerm = t /\ a.role = n.role /\ a.members = n.members
         /\ SameOffice(n, a) /\ SamePeers(n, a)
    BY SMTT(30) DEF NodeState, SameOffice, SamePeers
  <2> HIDE DEF a
  <2>16. LastIndex(a) = LastIndex(n)
    BY <2>15 DEF LastIndex
  <2>17. Keeping(a, w)
    BY <2>3, <2>15, <2>16 DEF Keeping
  <2>18. CommitSound(h, w, a)
    <3>1. n.snapshotIndex <= k /\ k <= Len(w)
      BY <2>8
    <3>2. Covered(h, w, n.lastApplied, t)
      BY <2>3 DEF CommitSound
    <3> QED BY <2>14, <2>15, <3>1, <3>2 DEF CommitSound
  <2>19. LeaderSound(h, i, a)
    <3>1. LeaderSound(h, i, n)
      BY DEF NodeSound
    <3> QED BY <2>15, <2>16, <3>1 DEF LeaderSound, SamePeers, Peers
  <2> QED BY <2>1, <2>15, <2>16, <2>17, <2>18, <2>19 DEF NodeSound, w
<1> QED BY <1>1, <1>2

\* A leader that hears what a peer has held learns nothing that is not so.
LEMMA AcknowledgedKeeps ==
  ASSUME ~MembershipChanges, NEW h, Sound(h), NEW i \in Server, NEW n, Sane(n),
         NodeSound(h, i, n), n.role = Leader, NEW p \in Server, NEW match \in Nat,
         match <= h.held[p][n.currentTerm]
  PROVE  LET a == Acknowledged(i, n, p, match)
         IN /\ NodeSound(h, i, a) /\ SameOffice(n, a)
            /\ a.lastApplied = n.lastApplied /\ a.snapshotIndex = n.snapshotIndex
<1>0. n \in NodeState /\ h \in History
  BY DEF Sane, Sound
<1> DEFINE known == Larger(n.matchIndex[p], match)
           mat == [n.matchIndex EXCEPT ![p] = known]
           nxt == [n.nextIndex EXCEPT ![p] = known + 1]
           s == [n EXCEPT !.matchIndex = mat, !.nextIndex = nxt]
           a == AdvanceCommit(i, s)
           t == n.currentTerm
           w == h.whole[i]
<1>1. n.matchIndex \in [Server -> Nat] /\ n.nextIndex \in [Server -> Nat] /\ t \in Nat
  BY <1>0 DEF NodeState
<1>2. /\ Keeping(n, w) /\ CommitSound(h, w, n) /\ LastIndex(n) = Len(w)
      /\ t \in h.terms /\ w = h.led[t] /\ Len(w) <= h.held[i][t]
      /\ \A q \in Server : /\ n.matchIndex[q] <= h.held[q][t]
                           /\ n.nextIndex[q] <= LastIndex(n) + 1
                           /\ q \in Peers(i, n) => n.nextIndex[q] # 0
  BY DEF NodeSound, LeaderSound, Keeping
<1>3. known \in Nat /\ known <= h.held[p][t] /\ h.held[p][t] \in Nat /\ known <= Len(w)
  <2>1. n.matchIndex[p] \in Nat /\ h.held[p][t] \in Nat /\ Len(w) \in Nat
    BY <1>0, <1>1, HistoryTypes
  <2>2. known \in Nat /\ known <= h.held[p][t]
    BY <1>2, <2>1 DEF Larger
  <2>3. h.held[p][t] # 0 => h.held[p][t] <= Len(w)
    BY <1>1, <1>2 DEF Sound, HeldSound
  <2> HIDE DEF known, w
  <2> QED BY <2>1, <2>2, <2>3
<1>4. Acknowledged(i, n, p, match) = a
  BY Zenon DEF Acknowledged
<1> HIDE DEF known
<1>5. mat \in [Server -> Nat] /\ nxt \in [Server -> Nat]
  BY <1>1, <1>3
<1>6. \A q \in Server : /\ mat[q] = IF q = p THEN known ELSE n.matchIndex[q]
                        /\ nxt[q] = IF q = p THEN known + 1 ELSE n.nextIndex[q]
  BY <1>1
<1> HIDE DEF mat, nxt
<1>7. s \in NodeState
  BY <1>0, <1>5, ZenonT(90) DEF NodeState
<1>8. /\ SameLog(n, s) /\ SameOffice(n, s) /\ s.currentTerm = t /\ s.role = n.role
      /\ s.matchIndex = mat /\ s.nextIndex = nxt /\ s.members = n.members
  BY <1>0, SMTT(30) DEF NodeState, SameLog, SameOffice
<1> HIDE DEF s
<1>9. NodeSound(h, i, s)
  <2>1. LastIndex(s) = LastIndex(n)
    BY <1>8 DEF LastIndex, SameLog
  <2>2. Keeping(s, w) /\ CommitSound(h, w, s)
    BY <1>2, <1>8, <2>1 DEF Keeping, CommitSound, SameLog
  <2>3. ASSUME NEW q \in Server
        PROVE  /\ s.matchIndex[q] <= h.held[q][t]
               /\ s.nextIndex[q] <= LastIndex(s) + 1
               /\ q \in Peers(i, s) => s.nextIndex[q] # 0
    <3>1. CASE q = p
      <4>1. Len(w) \in Nat
        BY <1>0, HistoryTypes
      <4> HIDE DEF w
      <4>2. s.matchIndex[q] = known /\ s.nextIndex[q] = known + 1
        BY <1>6, <1>8, <3>1
      <4>3. known + 1 <= Len(w) + 1 /\ known + 1 # 0
        BY <1>3, <4>1
      <4> QED BY <1>2, <1>3, <2>1, <3>1, <4>2, <4>3
    <3>2. CASE q # p
      BY <1>2, <1>6, <1>8, <2>1, <3>2 DEF Peers
    <3> QED BY <3>1, <3>2
  <2>4. LeaderSound(h, i, s)
    BY <1>2, <1>8, <2>3 DEF LeaderSound
  <2> QED BY <2>2, <2>4 DEF NodeSound
<1>10. /\ NodeSound(h, i, a) /\ SameOffice(s, a)
       /\ a.lastApplied = s.lastApplied /\ a.snapshotIndex = s.snapshotIndex
  BY <1>7, <1>9, AdvanceCommitKeeps
<1> QED BY <1>4, <1>8, <1>10 DEF SameOffice, SameLog

\* A rejection moves next_index to a place inside the log or just after it.
LEMMA BackUpKeeps ==
  ASSUME ~MembershipChanges, NEW h, Sound(h), NEW i \in Server, NEW n, Sane(n),
         NodeSound(h, i, n), n.role = Leader, NEW m \in AppendEntriesResp,
         m.conflictIndex <= m.repliesTo, m.repliesTo = NextIndex(n, m.src) - 1
  PROVE  LET a == BackUp(n, m)
         IN NodeSound(h, i, a) /\ SameLog(n, a) /\ SameOffice(n, a)
<1>0. n \in NodeState /\ h \in History
  BY DEF Sane, Sound
<1> DEFINE next == NextAfterRejection(n, m)
           nxt == [n.nextIndex EXCEPT ![m.src] = next]
           snt == [n.sentUpto EXCEPT ![m.src] = next - 1]
           a == [n EXCEPT !.nextIndex = nxt, !.sentUpto = snt]
           t == n.currentTerm
           w == h.whole[i]
<1>1. /\ n.nextIndex \in [Server -> Nat] /\ m.src \in Server /\ LastIndex(n) \in Nat
      /\ n.snapshotIndex \in Nat /\ m.conflictIndex \in Nat /\ m.repliesTo \in Nat
      /\ n.nextIndex[m.src] \in Nat
  BY <1>0, LogFacts DEF NodeState, AppendEntriesResp
<1>2. LeaderSound(h, i, n) /\ \A q \in Server : n.nextIndex[q] <= LastIndex(n) + 1
  BY DEF NodeSound, LeaderSound
<1>3. next \in 1 .. LastIndex(n) + 1
  <2> DEFINE ofTerm == {k \in n.snapshotIndex + 1 .. LastIndex(n) :
                          TermAt(n, k) = m.conflictTerm}
  <2>1. ofTerm # {} => Largest(ofTerm) \in n.snapshotIndex + 1 .. LastIndex(n)
    <3>1. ofTerm \in SUBSET Nat /\ \A k \in ofTerm : k <= LastIndex(n)
      BY <1>1
    <3> QED BY <3>1, <1>1, LargestType
  <2> HIDE DEF ofTerm
  <2>2. \/ next = Largest(ofTerm) + 1 /\ ofTerm # {}
        \/ next = Larger(1, m.conflictIndex)
    BY Zenon DEF NextAfterRejection, ofTerm
  <2>3. NextIndex(n, m.src) \in 1 .. LastIndex(n) + 1
    BY <1>1, <1>2 DEF NextIndex
  <2>4. m.conflictIndex <= LastIndex(n)
    BY <1>1, <2>3
  <2> HIDE DEF next
  <2> QED BY <1>1, <2>1, <2>2, <2>4 DEF Larger
<1>4. BackUp(n, m) = a
  BY Zenon DEF BackUp
<1> HIDE DEF next
<1>5. \A q \in Server : nxt[q] = IF q = m.src THEN next ELSE n.nextIndex[q]
  BY <1>1
<1> HIDE DEF nxt, snt
<1>6. /\ SameLog(n, a) /\ SameOffice(n, a) /\ a.currentTerm = t /\ a.role = n.role
      /\ a.matchIndex = n.matchIndex /\ a.nextIndex = nxt /\ a.members = n.members
  BY <1>0, SMTT(30) DEF NodeState, SameLog, SameOffice
<1> HIDE DEF a
<1>7. LastIndex(a) = LastIndex(n)
  BY <1>6 DEF LastIndex, SameLog
<1>8. Keeping(a, w) /\ CommitSound(h, w, a)
  BY <1>6, <1>7 DEF NodeSound, Keeping, CommitSound, SameLog
<1>9. \A q \in Server : nxt[q] <= LastIndex(n) + 1 /\ (n.nextIndex[q] # 0 => nxt[q] # 0)
  <2>1. next <= LastIndex(n) + 1 /\ next # 0
    BY <1>1, <1>3
  <2> QED BY <1>2, <1>5, <2>1
<1>10. LeaderSound(h, i, a)
  BY <1>2, <1>6, <1>7, <1>9 DEF LeaderSound, Peers
<1> QED BY <1>4, <1>6, <1>8, <1>10 DEF NodeSound

-----------------------------------------------------------------------------
(* How a history goes on *)

\* Node n is what server i is in history h.
Rooted(h, i, n) ==
  /\ Sound(h) /\ Sane(n) /\ h.now[i] = n.currentTerm
  /\ NodeSound(h, i, n) /\ Compacted(n)

\* History g goes on from h, server i being n instead of o, and the others not moving.
Carried(h, g, i, o, n) ==
  /\ Rooted(g, i, n) /\ Follows(h, g)
  /\ \A p \in Server \ {i} : g.now[p] = h.now[p] /\ g.whole[p] = h.whole[p]
  /\ g.terms = h.terms \cup (IF n.role = Leader THEN {n.currentTerm} ELSE {})
  /\ \A t \in h.terms : g.led[t] = h.led[t] \/ (n.role = Leader /\ t = n.currentTerm)
  /\ o.lastApplied # 0 => Share(h.whole[i], g.whole[i], o.lastApplied)
  /\ o.snapshotIndex <= n.snapshotIndex
  /\ n.role = Candidate => \/ o.currentTerm < n.currentTerm
                           \/ /\ o.role = Candidate /\ o.currentTerm = n.currentTerm
                              /\ g.whole[i] = h.whole[i]
  /\ n.role = Leader => Share(h.whole[i], g.whole[i], Len(h.whole[i]))

\* A handler that does not touch the log raises the term, if anything.
LEMMA IdleCarries ==
  ASSUME ~MembershipChanges, NEW h, NEW i \in Server, NEW o, Rooted(h, i, o),
         NEW n, Sane(n), KeepsLog(o, n),
         n.role = Candidate => o.currentTerm < n.currentTerm \/ o.role = Candidate
  PROVE  LET g == Raised(h, i, n.currentTerm)
         IN /\ Carried(h, g, i, o, n)
            /\ g.whole = h.whole /\ g.led = h.led /\ g.held = h.held /\ g.terms = h.terms
<1> DEFINE g == Raised(h, i, n.currentTerm)
           t == n.currentTerm
<1>0. /\ Sound(h) /\ h \in History /\ o \in NodeState /\ n \in NodeState
      /\ h.now[i] = o.currentTerm /\ NodeSound(h, i, o) /\ Compacted(o)
  BY DEF Rooted, Sane, Sound
<1>1. t \in Nat /\ h.now[i] <= t /\ o.currentTerm \in Nat /\ SameLog(o, n)
  BY <1>0 DEF NodeState, KeepsLog
<1>2. /\ Sound(g) /\ Follows(h, g)
      /\ g.terms = h.terms /\ g.led = h.led /\ g.won = h.won /\ g.held = h.held
      /\ g.whole = h.whole /\ g.now = [h.now EXCEPT ![i] = t]
  BY <1>0, <1>1, RaisedSound
<1> HIDE DEF g
<1>3. g \in History /\ h.now \in [Server -> Nat]
  BY <1>0, <1>2 DEF Sound, History
<1>4. g.now[i] = t /\ \A p \in Server \ {i} : g.now[p] = h.now[p]
  BY <1>2, <1>3
<1>5. NodeSound(g, i, n)
  BY <1>0, <1>2, <1>3, NodeSoundStays
<1>6. Compacted(n)
  BY <1>0, <1>1 DEF Compacted, SameLog
<1>7. n.role = Leader => t \in h.terms
  BY <1>0 DEF KeepsLog, NodeSound, LeaderSound
<1>8. o.lastApplied # 0 => Share(h.whole[i], g.whole[i], o.lastApplied)
  <2>1. o.lastApplied <= Len(h.whole[i])
    BY <1>0 DEF NodeSound, Keeping
  <2> QED BY <1>2, <2>1 DEF Share
<1>9. o.snapshotIndex <= n.snapshotIndex
  BY <1>0, <1>1 DEF SameLog, NodeState
<1>10. n.role = Candidate => \/ o.currentTerm < n.currentTerm
                             \/ o.role = Candidate /\ o.currentTerm = n.currentTerm
  BY <1>0, <1>1
<1>11. g.terms = h.terms \cup (IF n.role = Leader THEN {t} ELSE {})
  BY <1>2, <1>7
<1>12. Rooted(g, i, n)
  BY <1>2, <1>4, <1>5, <1>6 DEF Rooted
<1>13. Carried(h, g, i, o, n)
  <2>1. Share(h.whole[i], g.whole[i], Len(h.whole[i]))
    BY <1>0, <1>2, HistoryTypes DEF Share
  <2> QED BY <1>2, <1>4, <1>8, <1>9, <1>10, <1>11, <1>12, <2>1 DEF Carried
<1> QED BY <1>2, <1>13 DEF g

\* A handler may leave the log alone first, and then act.
LEMMA CarriesOn ==
  ASSUME ~MembershipChanges, NEW h, NEW i \in Server, NEW o, Rooted(h, i, o),
         NEW c, Sane(c), KeepsLog(o, c), NEW g, NEW n, n.role # Candidate,
         Carried(Raised(h, i, c.currentTerm), g, i, c, n)
  PROVE  Carried(h, g, i, o, n)
<1> DEFINE f == Raised(h, i, c.currentTerm)
<1>0. /\ Sound(h) /\ h \in History /\ o \in NodeState /\ c \in NodeState
      /\ h.now[i] = o.currentTerm
  BY DEF Rooted, Sane, Sound
<1>1. c.currentTerm \in Nat /\ h.now[i] <= c.currentTerm /\ SameLog(o, c)
  BY <1>0 DEF NodeState, KeepsLog
<1>2. /\ Sound(f) /\ Follows(h, f)
      /\ f.terms = h.terms /\ f.led = h.led /\ f.whole = h.whole
      /\ f.now = [h.now EXCEPT ![i] = c.currentTerm]
  BY <1>0, <1>1, RaisedSound
<1>3. Carried(f, g, i, c, n)
  OBVIOUS
<1> HIDE DEF f
<1>4. f \in History /\ g \in History /\ h.now \in [Server -> Nat]
  BY <1>0, <1>2, <1>3 DEF Sound, History, Carried, Rooted
<1>5. Follows(h, g)
  BY <1>0, <1>2, <1>3, <1>4, FollowsTransitive DEF Carried
<1>6. \A p \in Server \ {i} : g.now[p] = h.now[p] /\ g.whole[p] = h.whole[p]
  BY <1>2, <1>3, <1>4 DEF Carried
<1>7. o.lastApplied = c.lastApplied /\ o.snapshotIndex = c.snapshotIndex
  BY <1>1 DEF SameLog
<1> QED BY <1>2, <1>3, <1>5, <1>6, <1>7 DEF Carried

\* Or it leaves the log alone at the end.
LEMMA CarriedIdle ==
  ASSUME ~MembershipChanges, NEW h, NEW g, NEW i \in Server, NEW o, NEW n, Carried(h, g, i, o, n),
         NEW a, Sane(a), KeepsLog(n, a), a.currentTerm = n.currentTerm, a.role = n.role
  PROVE  Carried(h, g, i, o, a)
<1>1. /\ Sound(g) /\ g \in History /\ n \in NodeState /\ a \in NodeState
      /\ g.now[i] = n.currentTerm /\ NodeSound(g, i, n) /\ Compacted(n)
  BY DEF Carried, Rooted, Sound, Sane
<1>2. Follows(g, g)
  BY <1>1, FollowsReflexive
<1>3. NodeSound(g, i, a)
  BY <1>1, <1>2, NodeSoundStays
<1>4. Compacted(a) /\ a.snapshotIndex = n.snapshotIndex
  BY <1>1 DEF Compacted, KeepsLog, SameLog
<1>5. Rooted(g, i, a)
  BY <1>1, <1>3, <1>4 DEF Rooted
<1> QED BY <1>4, <1>5 DEF Carried

\* What a leader learns about its peers, or commits by counting, is no event of the
\* history: it goes on as it is.
LEMMA LeaderLearns ==
  ASSUME NEW h, NEW i \in Server, NEW n, Rooted(h, i, n),
         NEW a, Sane(a), NodeSound(h, i, a), SameOffice(n, a),
         n.role = Leader,
         a.lastApplied = n.lastApplied, a.snapshotIndex = n.snapshotIndex
  PROVE  Carried(h, h, i, n, a)
<1>0. /\ Sound(h) /\ h \in History /\ n \in NodeState
      /\ h.now[i] = n.currentTerm /\ NodeSound(h, i, n) /\ Compacted(n)
  BY DEF Rooted, Sane, Sound
<1>1. Follows(h, h)
  BY <1>0, FollowsReflexive
<1>2. a.role = Leader /\ a.currentTerm = n.currentTerm /\ n.currentTerm \in h.terms
  BY <1>0 DEF SameOffice, NodeSound, LeaderSound
<1>3. Compacted(a)
  BY <1>0 DEF Compacted
<1>4. Rooted(h, i, a)
  BY <1>0, <1>2, <1>3 DEF Rooted
<1>5. n.lastApplied # 0 => Share(h.whole[i], h.whole[i], n.lastApplied)
  <2>1. n.lastApplied <= Len(h.whole[i])
    BY <1>0 DEF NodeSound, Keeping
  <2> QED BY <2>1 DEF Share
<1>6. n.snapshotIndex <= a.snapshotIndex
  BY <1>0 DEF NodeState
<1>7. a.role # Candidate
  BY <1>2 DEF Leader, Candidate
<1>8. h.terms = h.terms \cup {a.currentTerm}
  BY <1>2
<1>9. Share(h.whole[i], h.whole[i], Len(h.whole[i]))
  BY <1>0, HistoryTypes DEF Share
<1> QED BY <1>1, <1>2, <1>4, <1>5, <1>6, <1>7, <1>8, <1>9 DEF Carried

-----------------------------------------------------------------------------
(* Following *)

\* A follower that takes over entries of its leader carries the history on.
LEMMA TookCarries ==
  ASSUME ~MembershipChanges, NEW h, NEW i \in Server, NEW n, Rooted(h, i, n),
         n.role \in {Follower, Leader}, NEW w, NEW k, Takes(h, i, w, k),
         NEW a, Sane(a), SameOffice(n, a), SamePeers(n, a), Keeping(a, w), Compacted(a),
         n.snapshotIndex <= a.snapshotIndex, a.snapshotIndex <= a.commitIndex,
         Covered(h, w, a.commitIndex, n.currentTerm),
         Covered(h, w, a.lastApplied, n.currentTerm)
  PROVE  LET g == Took(h, i, w, k)
         IN Carried(h, g, i, n, a) /\ k <= g.held[i][n.currentTerm]
<1> DEFINE g == Took(h, i, w, k)
           t == n.currentTerm
<1>0. /\ Sound(h) /\ h \in History /\ n \in NodeState /\ a \in NodeState
      /\ h.now[i] = t /\ NodeSound(h, i, n)
  BY DEF Rooted, Sane, Sound
<1>1. /\ Sound(g) /\ Follows(h, g)
      /\ g.terms = h.terms /\ g.led = h.led /\ g.now = h.now
      /\ g.whole = [h.whole EXCEPT ![i] = w]
      /\ k <= g.held[i][t]
  BY <1>0, TookSound
<1> HIDE DEF g
<1>2. /\ g \in History /\ h.whole \in [Server -> Seq(LogEntry)] /\ w \in Seq(LogEntry)
      /\ t \in h.terms
  BY <1>0, <1>1 DEF Sound, History, Takes
<1>3. g.whole[i] = w /\ \A p \in Server \ {i} : g.whole[p] = h.whole[p]
  BY <1>1, <1>2
<1>4. a.currentTerm = t /\ a.role = n.role /\ a.role # Candidate
  BY DEF SameOffice, Follower, Leader, Candidate
<1>5. /\ t \in Nat /\ a.commitIndex \in Nat /\ a.lastApplied \in Nat /\ n.commitIndex \in Nat
      /\ Len(w) \in Nat
  BY <1>0, <1>2 DEF NodeState
<1>6. a.commitIndex <= Len(w) /\ a.lastApplied <= Len(w)
  BY <1>2, <1>5, CoveredLength
<1>7. Covered(g, w, a.commitIndex, t) /\ Covered(g, w, a.lastApplied, t)
  <2>1. Share(w, w, a.commitIndex) /\ Share(w, w, a.lastApplied)
    BY <1>6 DEF Share
  <2>2. t <= t
    BY <1>5
  <2> QED BY <1>0, <1>1, <1>2, <1>5, <2>1, <2>2, CoveredStays
<1>8. CommitSound(g, w, a)
  BY <1>4, <1>6, <1>7 DEF CommitSound
<1>13. a.role = Leader => w = h.whole[i]
  <2>1. ASSUME a.role = Leader
        PROVE  Share(w, h.led[t], Len(w)) => Share(h.whole[i], h.led[t], Len(w))
    BY <1>0, <1>4, <2>1 DEF Share, NodeSound, LeaderSound
  <2> QED BY <1>0, <2>1 DEF Takes
<1>9. LeaderSound(g, i, a)
  <2> SUFFICES ASSUME a.role = Leader PROVE LeaderSound(g, i, a)
    BY DEF LeaderSound
  <2>1. /\ h.whole[i] = h.led[t] /\ Len(h.whole[i]) <= h.held[i][t]
        /\ \A p \in Server : /\ n.matchIndex[p] <= h.held[p][t]
                             /\ n.nextIndex[p] <= LastIndex(n) + 1
                             /\ p \in Peers(i, n) => n.nextIndex[p] # 0
    BY <1>0, <1>4 DEF NodeSound, LeaderSound
  <2>2. w = h.whole[i]
    BY <1>13
  <2>3. LastIndex(a) = LastIndex(n)
    BY <1>0, <2>2 DEF NodeSound, Keeping
  <2>4. Peers(i, a) = Peers(i, n)
    BY <1>0, FixedMembers
  <2>5. ASSUME NEW p \in Server
        PROVE  h.held[p][t] \in Nat /\ g.held[p][t] \in Nat /\ h.held[p][t] <= g.held[p][t]
               /\ n.matchIndex[p] \in Nat
    BY <1>0, <1>1, <1>2, <1>5, HistoryTypes DEF Follows, NodeState
  <2>6. \A p \in Server : n.matchIndex[p] <= g.held[p][t]
    BY <2>1, <2>5
  <2>7. Len(w) <= g.held[i][t]
    BY <1>5, <2>1, <2>2, <2>5
  <2> QED BY <1>1, <1>2, <1>3, <1>4, <2>1, <2>2, <2>3, <2>4, <2>6, <2>7
          DEF LeaderSound, SamePeers
<1>10. Rooted(g, i, a)
  BY <1>0, <1>1, <1>3, <1>4, <1>8, <1>9 DEF Rooted, NodeSound
<1>11. n.lastApplied # 0 => Share(h.whole[i], w, n.lastApplied)
  <2>1. Covered(h, h.whole[i], n.lastApplied, t) /\ n.lastApplied \in Nat
    BY <1>0 DEF NodeSound, CommitSound, NodeState
  <2> QED BY <1>0, <2>1, TookCovers
<1>12. g.terms = h.terms \cup (IF a.role = Leader THEN {t} ELSE {})
  BY <1>1, <1>2
<1>14. a.role = Leader => Share(h.whole[i], w, Len(h.whole[i]))
  BY <1>5, <1>13 DEF Share
<1> QED BY <1>1, <1>3, <1>4, <1>10, <1>11, <1>12, <1>14 DEF Carried, g

\* Where a log and the leader's have an entry of the same term they agree that far.
LEMMA TermsMeet ==
  ASSUME NEW h, Sound(h), NEW i \in Server, NEW t \in h.terms, NEW k \in Nat,
         k <= Len(h.whole[i]), k <= Len(h.led[t]), TermOf(h.whole[i], k) = TermOf(h.led[t], k)
  PROVE  Share(h.whole[i], h.led[t], k)
<1> DEFINE v == h.whole[i]
           u == h.led[t]
<1>1. /\ h \in History /\ v \in Seq(LogEntry) /\ u \in Seq(LogEntry)
      /\ Len(v) \in Nat /\ Len(u) \in Nat /\ Known(h, v) /\ Known(h, u)
  <2>1. h \in History
    BY DEF Sound
  <2>2. t \in Nat
    BY <2>1, HistoryTypes
  <2> QED BY <2>1, <2>2, HistoryTypes DEF Sound, WholeSound, LedSound
<1>2. CASE k = 0
  BY <1>1, <1>2 DEF Share
<1>3. CASE k # 0
  <2>1. k \in 1 .. Len(v) /\ v[k].term = u[k].term /\ k <= Len(u)
    BY <1>1, <1>3 DEF TermOf
  <2> HIDE DEF v, u
  <2>2. Share(v, u, k)
    BY <1>1, <2>1, KnownMeet
  <2> QED BY <2>2 DEF v, u
<1> QED BY <1>2, <1>3

\* A node that keeps one log keeps another that has the same entries from its snapshot to
\* what it has applied, if the entries after that are those of the other.
LEMMA TakenKeeps ==
  ASSUME NEW n \in NodeState, NEW v \in Seq(LogEntry), Keeping(n, v),
         NEW w \in Seq(LogEntry), n.lastApplied # 0 => Share(v, w, n.lastApplied),
         NEW a \in NodeState, LastIndex(a) = Len(w),
         a.snapshotIndex = n.snapshotIndex, a.snapshotTerm = n.snapshotTerm,
         a.snapshotData = n.snapshotData, a.lastApplied = n.lastApplied, a.sm = n.sm,
         \A k \in n.snapshotIndex + 1 .. Len(w) : a.log[k - n.snapshotIndex] = w[k]
  PROVE  Keeping(a, w)
<1>1. /\ n.snapshotIndex \in Nat /\ n.lastApplied \in Nat /\ n.snapshotIndex <= n.lastApplied
      /\ n.snapshotTerm = TermOf(v, n.snapshotIndex)
      /\ n.sm = Commands(v, n.lastApplied) /\ n.snapshotData = Commands(v, n.snapshotIndex)
      /\ Len(w) \in Nat
  BY DEF NodeState, Keeping
<1>2. n.lastApplied <= Len(w) /\ \A j \in 1 .. n.lastApplied : v[j] = w[j]
  BY <1>1 DEF Share
<1>3. ASSUME NEW k \in Nat, k <= n.lastApplied
      PROVE  Commands(w, k) = Commands(v, k) /\ TermOf(w, k) = TermOf(v, k)
  <2>1. \A j \in 1 .. k : v[j] = w[j]
    BY <1>1, <1>2, <1>3
  <2>2. k # 0 => k \in 1 .. k
    BY <1>3
  <2> QED BY <2>1, <2>2 DEF Commands, TermOf
<1>4. /\ Commands(w, n.lastApplied) = Commands(v, n.lastApplied)
      /\ Commands(w, n.snapshotIndex) = Commands(v, n.snapshotIndex)
      /\ TermOf(w, n.snapshotIndex) = TermOf(v, n.snapshotIndex)
  BY <1>1, <1>3
<1> QED BY <1>1, <1>2, <1>4 DEF Keeping

\* The entries of a message replace those that the log has otherwise, and all of it up to
\* the end of the message is then the leader's.
LEMMA MergeKeeps ==
  ASSUME ~MembershipChanges, NEW h, NEW i \in Server, NEW n, Rooted(h, i, n),
         NEW m \in AppendEntries, AppendSound(h, m), m.term = n.currentTerm, PrevMatches(n, m)
  PROVE  LET e == MergeEntries(i, n, m)
             match == m.prevLogIndex + Len(m.entries)
         IN \E w \in Seq(LogEntry) :
              /\ Takes(h, i, w, match) /\ Keeping(e, w)
              /\ SameOffice(n, e) /\ SamePeers(n, e)
              /\ e.snapshotIndex = n.snapshotIndex /\ e.lastApplied = n.lastApplied
              /\ e.commitIndex = n.commitIndex
<1> DEFINE t == n.currentTerm
           u == h.led[t]
           v == h.whole[i]
           prev == m.prevLogIndex
           es == m.entries
           match == prev + Len(es)
           si == n.snapshotIndex
<1>0. /\ Sound(h) /\ h \in History /\ n \in NodeState /\ Sane(n) /\ h.now[i] = t
      /\ Keeping(n, v) /\ CommitSound(h, v, n)
  BY DEF Rooted, Sane, Sound, NodeSound
<1>1. /\ prev \in Nat /\ es \in Seq(LogEntry) /\ Len(es) \in Nat /\ match \in Nat
      /\ t \in Nat /\ v \in Seq(LogEntry) /\ Len(v) \in Nat
      /\ u \in Seq(LogEntry) /\ Len(u) \in Nat /\ si \in Nat
      /\ n.log \in Seq(LogEntry) /\ Len(n.log) \in Nat /\ n.lastApplied \in Nat
      /\ Len(v) = si + Len(n.log) /\ m.type = "AppendEntries"
  <2>1. prev \in Nat /\ es \in Seq(LogEntry) /\ m.type = "AppendEntries"
    BY DEF AppendEntries
  <2>2. t \in Nat /\ si \in Nat /\ n.log \in Seq(LogEntry) /\ n.lastApplied \in Nat
    BY <1>0 DEF NodeState
  <2>3. v \in Seq(LogEntry) /\ u \in Seq(LogEntry) /\ Len(v) \in Nat /\ Len(u) \in Nat
    BY <1>0, <2>2, HistoryTypes
  <2>4. Len(es) \in Nat /\ Len(n.log) \in Nat
    BY <2>1, <2>2
  <2>5. Len(v) = si + Len(n.log)
    BY <1>0 DEF Keeping, LastIndex
  <2> HIDE DEF u, v, es
  <2> QED BY <2>1, <2>2, <2>3, <2>4, <2>5
<1>2. /\ t \in h.terms /\ match <= Len(u) /\ m.prevLogTerm = TermOf(u, prev)
      /\ \A k \in 1 .. Len(es) : es[k] = u[prev + k]
  BY <1>1 DEF AppendSound
<1>3. prev \in si .. Len(v) /\ TermOf(v, prev) = TermOf(u, prev)
  <2>1. HasIndex(n, prev) /\ TermAt(n, prev) = TermOf(u, prev)
    BY <1>2 DEF PrevMatches
  <2>2. prev \in si .. Len(v)
    BY <1>0, <1>1, <2>1, KeepingReads
  <2>3. TermAt(n, prev) = TermOf(v, prev)
    BY <1>0, <1>1, <2>2, KeepingReads
  <2> QED BY <2>1, <2>2, <2>3
<1>4. \A k \in si .. Len(v) : k # 0 => TermAt(n, k) = v[k].term
  BY <1>0, <1>1, KeepingReads DEF TermOf
<1>5. \A k \in Nat : TermAt(n, k) # -1 => k \in si .. Len(v)
  BY <1>0, <1>1, KeepingReads
<1>6. ASSUME NEW j \in 0 .. Len(es), \A k \in 1 .. j : k \notin Fresh(n, m)
      PROVE  prev + j <= Len(v) /\ Share(v, u, prev + j)
  <2> HIDE DEF u, v, es, prev, si
  <2>0. prev + j \in Nat /\ prev + j <= Len(u)
    <3> DEFINE l == Len(es)
               b == Len(u)
    <3>1. l \in Nat /\ b \in Nat /\ prev \in Nat /\ j \in 0 .. l /\ prev + l <= b
      BY <1>1, <1>2
    <3> HIDE DEF l, b
    <3>2. prev + j \in Nat /\ prev + j <= b
      BY <3>1
    <3> QED BY <3>2 DEF b
  <2>1. prev + j <= Len(v) /\ TermOf(v, prev + j) = TermOf(u, prev + j)
    <3>1. CASE j = 0
      BY <1>1, <1>3, <3>1
    <3>2. CASE j # 0
      <4>1. j \in 1 .. j /\ j \in 1 .. Len(es)
        BY <1>1, <3>2
      <4>2. TermAt(n, prev + j) = es[j].term
        BY <1>6, <4>1 DEF Fresh, es, prev
      <4>3. es[j].term \in Nat /\ es[j] = u[prev + j]
        BY <1>1, <1>2, <4>1, EntryTypes
      <4>4. prev + j \in si .. Len(v) /\ prev + j # 0
        <5>1. TermAt(n, prev + j) # -1
          BY <4>2, <4>3
        <5>2. prev + j \in si .. Len(v)
          BY <1>5, <2>0, <5>1
        <5>3. prev + j # 0
          BY <1>1, <3>2
        <5> QED BY <5>2, <5>3
      <4>5. TermAt(n, prev + j) = v[prev + j].term
        BY <1>4, <4>4
      <4> QED BY <1>1, <4>2, <4>3, <4>4, <4>5 DEF TermOf
    <3> QED BY <3>1, <3>2
  <2> HIDE DEF t
  <2>2. Share(v, u, prev + j)
    BY <1>0, <1>2, <2>0, <2>1, TermsMeet DEF u, v
  <2> QED BY <2>1, <2>2
<1>7. CASE Fresh(n, m) = {}
  <2>1. MergeEntries(i, n, m) = n
    BY <1>7 DEF MergeEntries
  <2>2. Len(es) \in 0 .. Len(es) /\ \A k \in 1 .. Len(es) : k \notin Fresh(n, m)
    BY <1>1, <1>7
  <2>3. Share(v, u, match)
    BY <1>6, <2>2
  <2>4. Takes(h, i, v, match)
    BY <1>0, <1>1, <1>2, <2>3 DEF Takes
  <2> QED BY <1>0, <1>1, <2>1, <2>4 DEF SameOffice, SamePeers
<1>8. CASE Fresh(n, m) # {}
  <2> DEFINE first == Smallest(Fresh(n, m))
             base == prev + first - 1
             new == SubSeq(es, first, Len(es))
             upto == base - si
             kept == SubSeq(n.log, 1, upto)
             log == kept \o new
             s == [n EXCEPT !.log = log, !.dirty = TRUE]
             w == SubSeq(u, 1, match)
  <2>1. /\ first \in 1 .. Len(es) /\ first \in Fresh(n, m)
        /\ \A k \in Fresh(n, m) : first <= k
    <3>1. Fresh(n, m) \in SUBSET (1 .. Len(es)) /\ Fresh(n, m) \in SUBSET Nat
      BY <1>1 DEF Fresh
    <3> QED BY <3>1, <1>8, SmallestType
  <2>2. MergeEntries(i, n, m) = ApplyConfig(i, s, base, new)
    BY <1>8, Zenon DEF MergeEntries
  <2>3. TermAt(n, prev + first) # es[first].term
    BY <2>1 DEF Fresh
  <2> HIDE DEF first, u, v, es, prev
  <2>4. /\ base \in si .. Len(v) /\ base + 1 = prev + first /\ base < match /\ Share(v, u, base)
        /\ upto \in Nat /\ upto <= Len(n.log)
    <3> DEFINE j == first - 1
    <3>1. j \in 0 .. Len(es) /\ prev + j = base
      BY <1>1, <2>1
    <3>2. ASSUME NEW k \in 1 .. j PROVE k \notin Fresh(n, m)
      <4>1. ~(first <= k)
        BY <1>1, <2>1
      <4> QED BY <2>1, <4>1
    <3> HIDE DEF j
    <3>3. prev + j <= Len(v) /\ Share(v, u, prev + j)
      BY <1>6, <3>1, <3>2
    <3>4. base \in si .. Len(v)
      BY <1>1, <1>3, <2>1, <3>1, <3>3
    <3>5. Share(v, u, base)
      BY <3>1, <3>3
    <3> QED BY <1>1, <2>1, <3>4, <3>5
  <2>5. /\ new \in Seq(LogEntry) /\ Len(new) = match - base
        /\ \A k \in 1 .. Len(new) : new[k] = es[first + k - 1]
    <3>1. \A k \in first .. Len(es) : es[k] \in LogEntry
      BY <1>1, <2>1
    <3>2. /\ SubSeq(es, first, Len(es)) \in Seq(LogEntry)
          /\ Len(SubSeq(es, first, Len(es))) = IF first <= Len(es) THEN Len(es) - first + 1 ELSE 0
          /\ \A k \in 1 .. Len(es) - first + 1 : SubSeq(es, first, Len(es))[k] = es[first + k - 1]
      BY <1>1, <2>1, <3>1, SubSeqProperties, SMTT(30)
    <3>3. Len(es) - first + 1 = match - base /\ first <= Len(es)
      BY <1>1, <2>1
    <3> QED BY <3>2, <3>3
  <2>6. /\ kept \in Seq(LogEntry) /\ Len(kept) = upto
        /\ \A k \in 1 .. upto : kept[k] = n.log[k]
    <3>1. \A k \in 1 .. upto : n.log[k] \in LogEntry
      BY <1>1, <2>4
    <3> HIDE DEF upto
    <3>2. /\ SubSeq(n.log, 1, upto) \in Seq(LogEntry)
          /\ Len(SubSeq(n.log, 1, upto)) = IF 1 <= upto THEN upto - 1 + 1 ELSE 0
          /\ \A k \in 1 .. upto - 1 + 1 : SubSeq(n.log, 1, upto)[k] = n.log[1 + k - 1]
      BY <1>1, <2>4, <3>1, SubSeqProperties
    <3>3. \A k \in 1 .. upto : 1 + k - 1 = k /\ k \in 1 .. upto - 1 + 1
      BY <2>4
    <3>4. Len(kept) = upto
      BY <2>4, <3>2
    <3> QED BY <3>2, <3>3, <3>4
  <2>7. /\ log \in Seq(LogEntry) /\ Len(log) = match - si
        /\ \A k \in 1 .. Len(log) : log[k] = IF k <= upto THEN kept[k] ELSE new[k - upto]
    <3> DEFINE l == match - base
    <3>1. l \in Nat /\ Len(new) = l /\ upto + l = match - si
      <4>1. Len(new) = l
        BY <2>5
      <4> HIDE DEF new, match
      <4>2. base \in Nat /\ match \in Nat /\ si \in Nat /\ base < match
        BY <1>1, <2>4
      <4> HIDE DEF base, si
      <4> QED BY <4>1, <4>2
    <3> HIDE DEF kept, new, upto, l
    <3>2. /\ kept \o new \in Seq(LogEntry) /\ Len(kept \o new) = Len(kept) + Len(new)
          /\ \A k \in 1 .. Len(kept) + Len(new) :
               (kept \o new)[k] = IF k <= Len(kept) THEN kept[k] ELSE new[k - Len(kept)]
      BY <2>5, <2>6, ConcatProperties
    <3> QED BY <2>6, <3>1, <3>2
  <2>8. /\ w \in Seq(LogEntry) /\ Len(w) = match /\ \A k \in 1 .. match : w[k] = u[k]
    <3>1. \A k \in 1 .. match : u[k] \in LogEntry
      BY <1>1, <1>2
    <3> HIDE DEF match
    <3>2. /\ SubSeq(u, 1, match) \in Seq(LogEntry)
          /\ Len(SubSeq(u, 1, match)) = IF 1 <= match THEN match - 1 + 1 ELSE 0
          /\ \A k \in 1 .. match - 1 + 1 : SubSeq(u, 1, match)[k] = u[1 + k - 1]
      BY <1>1, <1>2, <3>1, SubSeqProperties
    <3>3. \A k \in 1 .. match : 1 + k - 1 = k /\ k \in 1 .. match - 1 + 1
      BY <1>1
    <3>4. Len(w) = match
      BY <1>1, <3>2
    <3> QED BY <3>2, <3>3, <3>4
  <2>9. ASSUME NEW k \in si + 1 .. match PROVE log[k - si] = w[k]
    <3>0. Len(log) = match - si /\ match \in Nat /\ si \in Nat /\ base \in Nat /\ Len(v) \in Nat
      <4>1. Len(log) = match - si
        BY <2>7
      <4>2. match \in Nat /\ si \in Nat /\ Len(v) \in Nat /\ base \in si .. Len(v)
        BY <1>1, <2>4
      <4> HIDE DEF log, match, base, si
      <4>3. base \in Nat
        BY <4>2
      <4> QED BY <4>1, <4>2, <4>3
    <3> HIDE DEF log, match, si, w
    <3>1. k - si \in 1 .. Len(log) /\ k \in 1 .. match
      BY <3>0
    <3>2. CASE k <= base
      <4>1. k - si <= upto /\ k - si \in 1 .. upto /\ k \in si + 1 .. Len(v) /\ k \in 1 .. base
        <5>1. base \in si .. Len(v)
          BY <2>4
        <5> HIDE DEF base
        <5> QED BY <3>0, <3>2, <5>1
      <4>2. log[k - si] = n.log[k - si]
        BY <2>6, <2>7, <3>1, <4>1
      <4>3. n.log[k - si] = v[k]
        BY <1>0, <4>1 DEF Keeping, si
      <4>4. v[k] = u[k]
        BY <2>4, <4>1 DEF Share
      <4> QED BY <2>8, <3>1, <4>2, <4>3, <4>4
    <3>3. CASE ~(k <= base)
      <4>1. /\ ~(k - si <= upto) /\ (k - si) - upto = k - base
            /\ k - base \in 1 .. Len(new) /\ first + (k - base) - 1 \in 1 .. Len(es)
            /\ prev + (first + (k - base) - 1) = k
        BY <1>1, <2>1, <2>4, <2>5, <3>3
      <4>2. log[k - si] = new[k - base]
        BY <2>7, <3>1, <4>1
      <4>3. new[k - base] = es[first + (k - base) - 1]
        BY <2>5, <4>1
      <4>4. es[first + (k - base) - 1] = u[k]
        BY <1>2, <4>1
      <4> QED BY <2>8, <3>1, <4>2, <4>3, <4>4
    <3> QED BY <3>2, <3>3
  <2>10. ~Share(v, u, match)
    <3> SUFFICES ASSUME Share(v, u, match) PROVE FALSE
      OBVIOUS
    <3> DEFINE k == prev + first
    <3>1. k \in 1 .. match /\ match <= Len(v) /\ k \in si .. Len(v) /\ k # 0
      <4>1. match <= Len(v) /\ match \in Nat /\ Len(v) \in Nat /\ si \in Nat
        BY <1>1 DEF Share
      <4>2. k = base + 1 /\ base \in si .. Len(v) /\ base < match
        BY <2>4
      <4> HIDE DEF k, base, match, si
      <4> QED BY <4>1, <4>2
    <3>2. v[k] = u[k]
      BY <3>1 DEF Share
    <3>3. TermAt(n, k) = v[k].term
      BY <1>4, <3>1
    <3>4. es[first] = u[k]
      BY <1>2, <2>1
    <3> QED BY <2>3, <3>2, <3>3, <3>4
  <2>11. Share(w, u, match)
    BY <1>1, <1>2, <2>8 DEF Share
  <2>12. Takes(h, i, w, match)
    <3> HIDE DEF w, match
    <3> QED BY <1>0, <1>1, <1>2, <2>8, <2>10, <2>11 DEF Takes, u, v
  <2> HIDE DEF w, kept, new, log
  <2>13. n.lastApplied # 0 => Share(v, w, n.lastApplied)
    BY <1>0, <1>1, <2>12, TookCovers DEF CommitSound, v
  <2>14. s \in NodeState
    BY <1>0, <2>7, ZenonT(90) DEF NodeState
  <2>15. ApplyConfig(i, s, base, new) = s
    <3>1. ConfigPositions(new) = {}
      BY <2>5, ConfigFacts
    <3> QED BY <3>1, Zenon DEF ApplyConfig
  <2>16. /\ s.log = log /\ s.snapshotIndex = si /\ s.snapshotTerm = n.snapshotTerm
         /\ s.snapshotData = n.snapshotData /\ s.lastApplied = n.lastApplied /\ s.sm = n.sm
         /\ s.commitIndex = n.commitIndex /\ SameOffice(n, s) /\ SamePeers(n, s)
    BY <1>0, SMTT(30) DEF NodeState, SameOffice, SamePeers
  <2> HIDE DEF s
  <2>17. LastIndex(s) = Len(w)
    BY <1>1, <2>7, <2>8, <2>16 DEF LastIndex
  <2>18. Keeping(s, w)
    <3> HIDE DEF match
    <3>1. \A k \in n.snapshotIndex + 1 .. Len(w) : s.log[k - n.snapshotIndex] = w[k]
      BY <2>8, <2>9, <2>16
    <3> QED BY <1>0, <1>1, <2>8, <2>13, <2>14, <2>16, <2>17, <3>1, TakenKeeps
  <2> QED BY <2>2, <2>8, <2>12, <2>15, <2>16, <2>18 DEF es, prev
<1> QED BY <1>7, <1>8

\* handle_append_entries, once the previous entry matches.
LEMMA AppendCarries ==
  ASSUME ~MembershipChanges, NEW h, NEW i \in Server, NEW n, Rooted(h, i, n),
         n.role \in {Follower, Leader},
         NEW m \in AppendEntries, AppendSound(h, m), m.term = n.currentTerm, PrevMatches(n, m)
  PROVE  LET a == LearnCommit(MergeEntries(i, n, m), m)
             match == m.prevLogIndex + Len(m.entries)
         IN \E g : /\ Carried(h, g, i, n, a) /\ SameOffice(n, a)
                   /\ a.lastApplied = n.lastApplied
                   /\ match <= g.held[i][n.currentTerm]
<1> DEFINE e == MergeEntries(i, n, m)
           a == LearnCommit(e, m)
           match == m.prevLogIndex + Len(m.entries)
           t == n.currentTerm
           u == h.led[t]
           v == h.whole[i]
           c == Smaller(m.leaderCommit, match)
<1>0. /\ Sound(h) /\ h \in History /\ n \in NodeState /\ Sane(n) /\ h.now[i] = t
      /\ Keeping(n, v) /\ CommitSound(h, v, n) /\ Compacted(n)
  BY DEF Rooted, Sane, Sound, NodeSound
<1>1. PICK w \in Seq(LogEntry) :
        /\ Takes(h, i, w, match) /\ Keeping(e, w)
        /\ SameOffice(n, e) /\ SamePeers(n, e)
        /\ e.snapshotIndex = n.snapshotIndex /\ e.lastApplied = n.lastApplied
        /\ e.commitIndex = n.commitIndex
  BY MergeKeeps
<1>2. Sane(e) /\ Sane(a) /\ e \in NodeState /\ a \in NodeState
  BY <1>0, MergeEntriesFacts, LearnCommitFacts DEF Sane
<1>3. /\ m.leaderCommit \in Nat /\ m.prevLogIndex \in Nat /\ Len(m.entries) \in Nat
      /\ match \in Nat /\ m.type = "AppendEntries" /\ t \in Nat
      /\ n.snapshotIndex \in Nat /\ n.commitIndex \in Nat /\ n.lastApplied \in Nat
  <2>1. /\ m.leaderCommit \in Nat /\ m.prevLogIndex \in Nat /\ m.entries \in Seq(LogEntry)
        /\ m.type = "AppendEntries"
    BY DEF AppendEntries
  <2>2. n.snapshotIndex \in Nat /\ n.commitIndex \in Nat /\ n.lastApplied \in Nat /\ t \in Nat
    BY <1>0 DEF NodeState
  <2>3. Len(m.entries) \in Nat
    BY <2>1
  <2> QED BY <2>1, <2>2, <2>3
<1>4. /\ n.snapshotIndex <= n.commitIndex /\ n.snapshotIndex <= m.prevLogIndex
      /\ Covered(h, v, n.commitIndex, t) /\ Covered(h, v, n.lastApplied, t)
  BY <1>0 DEF CommitSound, PrevMatches, HasIndex
<1>5. Share(w, u, match) /\ Covered(h, u, m.leaderCommit, t)
  BY <1>0, <1>1, <1>3 DEF Takes, AppendSound
<1>6. ASSUME NEW d \in Nat, Covered(h, v, d, t) PROVE Covered(h, w, d, t)
  <2>1. d # 0 => Share(v, w, d)
    BY <1>0, <1>1, <1>6, TookCovers
  <2>2. d # 0 => Share(w, v, d)
    BY <2>1 DEF Share
  <2>3. d <= d
    OBVIOUS
  <2> QED BY <1>0, <1>3, <1>6, <2>2, <2>3, CoveredPart
<1>7. /\ SameOffice(n, a) /\ SamePeers(n, a) /\ Keeping(a, w)
      /\ a.snapshotIndex = n.snapshotIndex /\ a.lastApplied = n.lastApplied
      /\ n.snapshotIndex <= a.commitIndex /\ Covered(h, w, a.commitIndex, t)
  <2>1. CASE m.leaderCommit <= e.commitIndex
    <3>1. a = e
      BY <2>1 DEF LearnCommit
    <3> HIDE DEF a, e
    <3> QED BY <1>1, <1>3, <1>4, <1>6, <3>1
  <2>2. CASE ~(m.leaderCommit <= e.commitIndex)
    <3> DEFINE b == [e EXCEPT !.commitIndex = c]
    <3>1. a = b
      BY <2>2, Zenon DEF LearnCommit
    <3> HIDE DEF e, a, match
    <3>2. c \in Nat /\ c <= m.leaderCommit /\ c <= match /\ n.snapshotIndex <= c
      <4>1. n.snapshotIndex <= match
        BY <1>3, <1>4 DEF match
      <4>2. n.snapshotIndex <= m.leaderCommit
        BY <1>1, <1>3, <1>4, <2>2
      <4> QED BY <1>3, <4>1, <4>2 DEF Smaller
    <3> HIDE DEF c
    <3>3. /\ b.commitIndex = c /\ b.log = e.log /\ b.snapshotIndex = e.snapshotIndex
          /\ b.snapshotTerm = e.snapshotTerm /\ b.snapshotData = e.snapshotData
          /\ b.lastApplied = e.lastApplied /\ b.sm = e.sm
          /\ SameOffice(e, b) /\ SamePeers(e, b)
      BY <1>2, SMTT(30) DEF NodeState, SameOffice, SamePeers
    <3> HIDE DEF b
    <3>4. Keeping(b, w)
      <4>1. LastIndex(b) = LastIndex(e)
        BY <3>3 DEF LastIndex
      <4> QED BY <1>1, <3>3, <4>1 DEF Keeping
    <3>5. Share(w, u, c)
      <4>1. match <= Len(w) /\ match <= Len(u) /\ \A j \in 1 .. match : w[j] = u[j]
        BY <1>5 DEF Share
      <4>2. Len(w) \in Nat /\ Len(u) \in Nat
        BY <1>0, <1>3, HistoryTypes
      <4>3. c <= Len(w) /\ c <= Len(u) /\ \A j \in 1 .. c : j \in 1 .. match
        BY <1>3, <3>2, <4>1, <4>2
      <4> QED BY <4>1, <4>3 DEF Share
    <3>6. Covered(h, w, c, t)
      <4> HIDE DEF u
      <4> QED BY <1>0, <1>3, <1>5, <3>2, <3>5, CoveredPart
    <3> QED BY <1>1, <3>1, <3>2, <3>3, <3>4, <3>6 DEF SameOffice, SamePeers
  <2> QED BY <2>1, <2>2
<1>8. Covered(h, w, a.lastApplied, t)
  BY <1>3, <1>4, <1>6, <1>7
<1>9. Compacted(a)
  BY <1>0, <1>7 DEF Compacted
<1>10. n.snapshotIndex <= a.snapshotIndex /\ a.snapshotIndex <= a.commitIndex
  BY <1>3, <1>7
<1> DEFINE g == Took(h, i, w, match)
<1>11. Carried(h, g, i, n, a) /\ match <= g.held[i][t]
  <2> HIDE DEF a, match, g
  <2> QED BY <1>1, <1>2, <1>7, <1>8, <1>9, <1>10, TookCarries DEF g
<1> HIDE DEF g
<1> QED BY <1>7, <1>11

\* A follower may answer that it holds what it has already committed or compacted.
LEMMA CoveredCarries ==
  ASSUME ~MembershipChanges, NEW h, NEW i \in Server, NEW n, Rooted(h, i, n),
         n.role \in {Follower, Leader}, n.currentTerm \in h.terms,
         NEW k \in Nat, k <= n.commitIndex
  PROVE  \E g : Carried(h, g, i, n, n) /\ k <= g.held[i][n.currentTerm]
<1> DEFINE t == n.currentTerm
           u == h.led[t]
           v == h.whole[i]
<1>0. /\ Sound(h) /\ h \in History /\ n \in NodeState /\ Sane(n) /\ h.now[i] = t
      /\ Keeping(n, v) /\ CommitSound(h, v, n) /\ Compacted(n)
  BY DEF Rooted, Sane, Sound, NodeSound
<1>1. /\ n.snapshotIndex <= n.commitIndex /\ n.snapshotIndex \in Nat /\ n.commitIndex \in Nat
      /\ Covered(h, v, n.commitIndex, t) /\ Covered(h, v, n.lastApplied, t)
      /\ v \in Seq(LogEntry) /\ Len(v) \in Nat /\ t \in Nat /\ Len(u) \in Nat
  <2>1. n.snapshotIndex \in Nat /\ n.commitIndex \in Nat /\ t \in Nat
    BY <1>0 DEF NodeState
  <2> QED BY <1>0, <2>1, HistoryTypes DEF CommitSound
<1>2. Share(v, u, k)
  <2>1. n.commitIndex = 0 \/ Share(v, u, n.commitIndex)
    BY <1>0, <1>1, CoveredByLeader
  <2>2. CASE n.commitIndex = 0
    <3>1. k = 0
      BY <2>2
    <3> HIDE DEF u, v
    <3> QED BY <1>1, <3>1 DEF Share
  <2>3. CASE Share(v, u, n.commitIndex)
    <3> HIDE DEF u, v
    <3>1. \A j \in 1 .. k : j \in 1 .. n.commitIndex
      BY <1>1
    <3>2. k <= Len(u) /\ k <= Len(v)
      BY <1>1, <2>3 DEF Share
    <3> QED BY <2>3, <3>1, <3>2 DEF Share
  <2> QED BY <2>1, <2>2, <2>3
<1>3. Takes(h, i, v, k)
  BY <1>0, <1>1, <1>2 DEF Takes
<1>4. SameOffice(n, n) /\ SamePeers(n, n) /\ n.snapshotIndex <= n.snapshotIndex
  BY <1>1 DEF SameOffice, SamePeers
<1> DEFINE g == Took(h, i, v, k)
<1>5. Carried(h, g, i, n, n) /\ k <= g.held[i][t]
  <2> HIDE DEF g, v
  <2> QED BY <1>0, <1>1, <1>3, <1>4, TookCarries DEF g
<1> HIDE DEF g
<1> QED BY <1>5

\* handle_install_snapshot, when the log has the last entry of the snapshot: it is now
\* known to be committed.
LEMMA HeldCarries ==
  ASSUME ~MembershipChanges, NEW h, NEW i \in Server, NEW n, Rooted(h, i, n),
         n.role \in {Follower, Leader},
         NEW m \in InstallSnapshot, SnapshotSound(h, m), m.term = n.currentTerm,
         m.lastIncludedIndex > n.commitIndex,
         TermAt(n, m.lastIncludedIndex) = m.lastIncludedTerm
  PROVE  LET a == [n EXCEPT !.commitIndex = m.lastIncludedIndex]
         IN /\ Sane(a) /\ Persists(n, a) /\ Keeps(n, a) /\ SameOffice(n, a)
            /\ a.lastApplied = n.lastApplied
            /\ \E g : /\ Carried(h, g, i, n, a)
                      /\ m.lastIncludedIndex <= g.held[i][n.currentTerm]
<1> DEFINE t == n.currentTerm
           u == h.led[t]
           v == h.whole[i]
           k == m.lastIncludedIndex
           a == [n EXCEPT !.commitIndex = k]
<1>0. /\ Sound(h) /\ h \in History /\ n \in NodeState /\ Sane(n) /\ h.now[i] = t
      /\ Keeping(n, v) /\ CommitSound(h, v, n) /\ Compacted(n)
  BY DEF Rooted, Sane, Sound, NodeSound
<1>1. /\ n.snapshotIndex <= n.commitIndex /\ n.snapshotIndex \in Nat /\ n.commitIndex \in Nat
      /\ Covered(h, v, n.lastApplied, t)
      /\ v \in Seq(LogEntry) /\ Len(v) \in Nat /\ t \in Nat /\ Len(u) \in Nat /\ k \in Nat
      /\ u \in Seq(LogEntry)
  <2>1. n.snapshotIndex \in Nat /\ n.commitIndex \in Nat /\ t \in Nat
    BY <1>0 DEF NodeState
  <2>2. k \in Nat
    BY DEF InstallSnapshot
  <2> QED BY <1>0, <2>1, <2>2, HistoryTypes DEF CommitSound
<1>2. /\ t \in h.terms /\ k <= Len(u) /\ m.lastIncludedTerm = TermOf(u, k)
      /\ Covered(h, u, k, t)
  <2>1. m.type = "InstallSnapshot"
    BY DEF InstallSnapshot
  <2> QED BY <2>1 DEF SnapshotSound
<1>3. k # 0 /\ TermOf(u, k) \in Nat
  <2>1. k # 0 /\ k \in 1 .. Len(u)
    BY <1>1, <1>2
  <2> QED BY <1>1, <2>1, EntryTypes DEF TermOf
<1>4. k \in n.snapshotIndex .. Len(v) /\ TermOf(v, k) = TermOf(u, k)
  <2>1. TermAt(n, k) = TermOf(u, k)
    BY <1>2
  <2>2. k \in n.snapshotIndex .. Len(v)
    <3>1. TermAt(n, k) # -1
      BY <1>3, <2>1
    <3> QED BY <1>0, <1>1, <3>1, KeepingReads
  <2> HIDE DEF v, k
  <2>3. TermAt(n, k) = TermOf(v, k)
    BY <1>0, <1>1, <2>2, KeepingReads
  <2> QED BY <2>1, <2>2, <2>3
<1>5. Share(v, u, k)
  <2>1. k <= Len(v)
    BY <1>1, <1>4
  <2> QED BY <1>0, <1>1, <1>2, <1>4, <2>1, TermsMeet
<1>6. Takes(h, i, v, k)
  BY <1>0, <1>1, <1>2, <1>5 DEF Takes
<1> HIDE DEF k
<1>7. a \in NodeState
  BY <1>0, <1>1, ZenonT(90) DEF NodeState
<1>8. /\ a.commitIndex = k /\ SameOffice(n, a) /\ SamePeers(n, a)
      /\ a.log = n.log /\ a.snapshotIndex = n.snapshotIndex
      /\ a.snapshotTerm = n.snapshotTerm /\ a.snapshotData = n.snapshotData
      /\ a.snapshotMembers = n.snapshotMembers /\ a.dirty = n.dirty /\ a.votes = n.votes
      /\ a.lastApplied = n.lastApplied /\ a.sm = n.sm
  BY <1>0, SMTT(30) DEF NodeState, SameOffice, SamePeers
<1> HIDE DEF a
<1>9. Sane(a) /\ Persists(n, a) /\ Keeps(n, a) /\ Compacted(a)
  BY <1>0, <1>7, <1>8 DEF Sane, Persists, Durable, Keeps, SameOffice, Compacted
<1>10. Keeping(a, v)
  <2>1. LastIndex(a) = LastIndex(n)
    BY <1>8 DEF LastIndex
  <2> QED BY <1>0, <1>8, <2>1 DEF Keeping
<1>11. Covered(h, v, k, t)
  <2>1. k <= k
    BY <1>1
  <2> HIDE DEF u
  <2> QED BY <1>0, <1>1, <1>2, <1>5, <2>1, CoveredPart
<1>12. n.snapshotIndex <= a.snapshotIndex /\ a.snapshotIndex <= a.commitIndex
  BY <1>1, <1>4, <1>8
<1> DEFINE g == Took(h, i, v, k)
<1>13. Carried(h, g, i, n, a) /\ k <= g.held[i][t]
  <2> HIDE DEF g, v
  <2> QED BY <1>1, <1>6, <1>8, <1>9, <1>10, <1>11, <1>12, TookCarries DEF g
<1> HIDE DEF g
<1> QED BY <1>8, <1>9, <1>13 DEF a, k

\* handle_install_snapshot, when the log has not: the snapshot takes the place of everything.
LEMMA InstallCarries ==
  ASSUME ~MembershipChanges, NEW h, NEW i \in Server, NEW n, Rooted(h, i, n),
         n.role \in {Follower, Leader},
         NEW m \in InstallSnapshot, SnapshotSound(h, m), m.term = n.currentTerm,
         m.lastIncludedIndex > n.commitIndex,
         TermAt(n, m.lastIncludedIndex) # m.lastIncludedTerm
  PROVE  LET a == InstallState(i, n, m)
         IN /\ SameOffice(n, a) /\ a.lastApplied = m.lastIncludedIndex
            /\ n.lastApplied <= m.lastIncludedIndex
            /\ a.snapshotIndex = m.lastIncludedIndex /\ a.role # Leader
            /\ \E g : /\ Carried(h, g, i, n, a)
                      /\ m.lastIncludedIndex <= g.held[i][n.currentTerm]
                      /\ Share(g.whole[i], h.led[n.currentTerm], m.lastIncludedIndex)
<1> DEFINE t == n.currentTerm
           u == h.led[t]
           v == h.whole[i]
           k == m.lastIncludedIndex
           w == SubSeq(u, 1, k)
           r == RestoreMachine(n, m.data, k)
           c == Larger(r.commitIndex, k)
           mem == IF m.members # {} THEN m.members ELSE r.snapshotMembers
           s == [r EXCEPT !.snapshotIndex = k, !.snapshotTerm = m.lastIncludedTerm,
                          !.snapshotData = m.data, !.snapshotMembers = mem,
                          !.log = <<>>, !.commitIndex = c, !.dirty = TRUE]
           a == InstallState(i, n, m)
<1>0. /\ Sound(h) /\ h \in History /\ n \in NodeState /\ Sane(n) /\ h.now[i] = t
      /\ Keeping(n, v) /\ CommitSound(h, v, n) /\ Compacted(n) /\ LeaderSound(h, i, n)
  BY DEF Rooted, Sane, Sound, NodeSound
<1>1. /\ n.snapshotIndex <= n.commitIndex /\ n.snapshotIndex \in Nat /\ n.commitIndex \in Nat
      /\ v \in Seq(LogEntry) /\ Len(v) \in Nat /\ t \in Nat /\ Len(u) \in Nat
      /\ k \in Nat /\ m.lastIncludedTerm \in TermOrNone /\ m.data \in Seq(Command)
      /\ m.members = InitialMembers /\ m.members \in Configuration
      /\ u \in Seq(LogEntry)
  <2>1. n.snapshotIndex \in Nat /\ n.commitIndex \in Nat /\ t \in Nat
    BY <1>0 DEF NodeState
  <2>2. k \in Nat /\ m.lastIncludedTerm \in TermOrNone /\ m.data \in Seq(Command)
        /\ m.members = InitialMembers /\ m.members \in Configuration
    BY DEF InstallSnapshot, Configuration
  <2> QED BY <1>0, <2>1, <2>2, HistoryTypes DEF CommitSound
<1>2. /\ t \in h.terms /\ k <= Len(u) /\ m.lastIncludedTerm = TermOf(u, k)
      /\ Covered(h, u, k, t) /\ m.data = Commands(u, k)
  <2>1. m.type = "InstallSnapshot"
    BY DEF InstallSnapshot
  <2> QED BY <2>1 DEF SnapshotSound
<1>3. k # 0 /\ n.commitIndex < k
  BY <1>1
<1>4. ~Share(v, u, k)
  <2> SUFFICES ASSUME Share(v, u, k) PROVE FALSE
    OBVIOUS
  <2>1. k <= Len(v) /\ v[k] = u[k]
    BY <1>1, <1>3, SMTT(30) DEF Share
  <2>2. k \in n.snapshotIndex .. Len(v)
    BY <1>1, <1>3, <2>1
  <2> HIDE DEF k, u, v
  <2>3. TermAt(n, k) = TermOf(v, k)
    BY <1>0, <1>1, <2>2, KeepingReads
  <2>4. TermOf(v, k) = TermOf(u, k)
    BY <1>3, <2>1 DEF TermOf
  <2> QED BY <1>2, <2>3, <2>4 DEF k
<1>5. n.role # Leader
  <2> SUFFICES ASSUME n.role = Leader PROVE FALSE
    OBVIOUS
  <2>1. v = u
    BY <1>0 DEF LeaderSound
  <2> QED BY <1>2, <1>4, <2>1 DEF Share
<1>25. n.lastApplied <= k
  <2> SUFFICES ASSUME k < n.lastApplied PROVE FALSE
    BY <1>0, <1>1 DEF NodeState
  <2>1. n.lastApplied \in Nat /\ n.lastApplied # 0 /\ Covered(h, v, n.lastApplied, t)
    BY <1>0, <1>1 DEF NodeState, CommitSound
  <2> HIDE DEF k, u, v, t
  <2>2. Share(v, u, n.lastApplied)
    BY <1>0, <1>2, <2>1, CoveredByLeader DEF u
  <2> QED BY <1>1, <1>4, <2>1, <2>2 DEF Share
<1>6. /\ w \in Seq(LogEntry) /\ Len(w) = k /\ \A j \in 1 .. k : w[j] = u[j]
  <2>1. \A j \in 1 .. k : u[j] \in LogEntry
    BY <1>1, <1>2
  <2> HIDE DEF u, k
  <2>2. /\ SubSeq(u, 1, k) \in Seq(LogEntry)
        /\ Len(SubSeq(u, 1, k)) = IF 1 <= k THEN k - 1 + 1 ELSE 0
        /\ \A j \in 1 .. k - 1 + 1 : SubSeq(u, 1, k)[j] = u[1 + j - 1]
    BY <1>1, <1>2, <2>1, SubSeqProperties
  <2>3. \A j \in 1 .. k : 1 + j - 1 = j /\ j \in 1 .. k - 1 + 1
    BY <1>1
  <2>4. Len(w) = k
    BY <1>1, <2>2
  <2> QED BY <2>2, <2>3, <2>4
<1> HIDE DEF w
<1>7. Share(w, u, k)
  BY <1>1, <1>2, <1>6 DEF Share
<1>8. Takes(h, i, w, k)
  <2> HIDE DEF u, v, k
  <2> QED BY <1>0, <1>1, <1>2, <1>4, <1>6, <1>7 DEF Takes, u, v
<1> HIDE DEF k
<1>9. r = [n EXCEPT !.sm = m.data, !.lastApplied = k]
  BY DEF RestoreMachine
<1>10. r \in NodeState
  BY <1>0, <1>1, <1>9, ZenonT(90) DEF NodeState
<1>11. /\ r.lastApplied = k /\ r.sm = m.data /\ r.commitIndex = n.commitIndex
       /\ SameOffice(n, r) /\ SamePeers(n, r)
  BY <1>0, <1>9, SMTT(30) DEF NodeState, SameOffice, SamePeers
<1>12. a = SetMembers(i, s, m.members)
  <2>1. a = IF m.members # {} THEN SetMembers(i, s, m.members) ELSE s
    BY Zenon DEF InstallState, k
  <2> HIDE DEF a, s
  <2> QED BY <1>1, <2>1, ServerAssumption
<1> HIDE DEF r
<1>13. mem \in Configuration /\ c = k /\ <<>> \in Seq(LogEntry)
  BY <1>1, <1>3, <1>11, ServerAssumption DEF Larger
<1> HIDE DEF mem, c
<1>14. s \in NodeState
  BY <1>1, <1>10, <1>13, ZenonT(60) DEF NodeState
<1>15. /\ s.log = <<>> /\ s.snapshotIndex = k /\ s.snapshotTerm = m.lastIncludedTerm
       /\ s.snapshotData = m.data /\ s.lastApplied = k /\ s.sm = m.data
       /\ s.commitIndex = k /\ SameOffice(n, s) /\ SamePeers(n, s)
  BY <1>10, <1>11, <1>13, SMTT(30) DEF NodeState, SameOffice, SamePeers
<1> HIDE DEF s
<1>16. a = [s EXCEPT !.members = m.members]
  <2>1. s.role # Leader
    BY <1>5, <1>15 DEF SameOffice
  <2> HIDE DEF a
  <2> QED BY <1>12, <2>1 DEF SetMembers
<1>17. /\ a.log = <<>> /\ a.snapshotIndex = k /\ a.snapshotTerm = m.lastIncludedTerm
       /\ a.snapshotData = m.data /\ a.lastApplied = k /\ a.sm = m.data
       /\ a.commitIndex = k /\ SameOffice(n, a) /\ SamePeers(n, a)
  <2> HIDE DEF a
  <2> QED BY <1>14, <1>15, <1>16, SMTT(30) DEF NodeState, SameOffice, SamePeers
<1>18. Sane(a)
  BY <1>0, InstallStateFacts
<1> HIDE DEF a
<1>19. Keeping(a, w)
  <2>1. LastIndex(a) = Len(w)
    BY <1>1, <1>6, <1>17 DEF LastIndex
  <2>2. Commands(w, k) = Commands(u, k) /\ TermOf(w, k) = TermOf(u, k)
    <3>1. k \in 1 .. k
      BY <1>1, <1>3
    <3> QED BY <1>6, <3>1 DEF Commands, TermOf
  <2>3. \A j \in k + 1 .. Len(w) : a.log[j - k] = w[j]
    BY <1>1, <1>6
  <2> QED BY <1>1, <1>2, <1>6, <1>17, <2>1, <2>2, <2>3 DEF Keeping, k
<1>20. Covered(h, w, k, t)
  <2>1. k <= k
    BY <1>1
  <2> HIDE DEF u
  <2> QED BY <1>0, <1>1, <1>2, <1>7, <2>1, CoveredPart DEF k
<1>21. Compacted(a)
  BY <1>1, <1>17, ConfigAssumption DEF Compacted
<1>22. n.snapshotIndex <= a.snapshotIndex /\ a.snapshotIndex <= a.commitIndex
  BY <1>1, <1>3, <1>17
<1> DEFINE g == Took(h, i, w, k)
<1>23. Carried(h, g, i, n, a) /\ k <= g.held[i][t]
  <2> HIDE DEF g, v
  <2> QED BY <1>8, <1>17, <1>18, <1>19, <1>20, <1>21, <1>22, TookCarries DEF g
<1>24. Share(g.whole[i], u, k)
  <2>1. g.whole = [h.whole EXCEPT ![i] = w]
    BY <1>0, <1>8, TookSound
  <2>2. h.whole \in [Server -> Seq(LogEntry)]
    BY <1>0 DEF History
  <2> HIDE DEF g, u
  <2> QED BY <1>7, <2>1, <2>2
<1> HIDE DEF g
<1>26. a.role # Leader
  BY <1>5, <1>17 DEF SameOffice
<1> QED BY <1>17, <1>23, <1>24, <1>25, <1>26 DEF a, k

-----------------------------------------------------------------------------
(* Leading *)

\* become_leader: the history goes on with a new term, whose leader has the log that the
\* majority backed and perhaps a no-op after it.
LEMMA ElectedCarries ==
  ASSUME ~MembershipChanges, NEW h, NEW i \in Server, NEW n, Rooted(h, i, n), Elects(h, i)
  PROVE  \E g : /\ Carried(h, g, i, n, BecomeLeader(i, n))
                /\ \A p \in Server : MessageSound(g, MakeAppend(i, Elected(i, n), p))
<1> DEFINE t == n.currentTerm
           w == h.whole[i]
           e == Elected(i, n)
           noop == Entry(t, NOOP)
           own == IF NoopOnElect THEN <<noop>> ELSE <<>>
           nxt == [p \in Server |-> IF p \in Peers(i, n) THEN LastIndex(n) + 1 ELSE 0]
           zero == [p \in Server |-> 0]
           lg == n.log \o own
           drt == n.dirty \/ NoopOnElect
           f == Elevated(h, i)
<1>0. /\ Sound(h) /\ h \in History /\ n \in NodeState /\ Sane(n) /\ h.now[i] = t
      /\ Keeping(n, w) /\ CommitSound(h, w, n) /\ Compacted(n)
  BY DEF Rooted, Sane, Sound, NodeSound
<1>1. /\ t \in Nat /\ w \in Seq(LogEntry) /\ Len(w) \in Nat /\ n.log \in Seq(LogEntry)
      /\ noop \in LogEntry /\ n.snapshotIndex \in Nat /\ n.commitIndex \in Nat
      /\ LastIndex(n) \in Nat /\ LastIndex(n) = Len(w) /\ t \notin h.terms
  <2>1. t \in Nat /\ n.log \in Seq(LogEntry) /\ n.snapshotIndex \in Nat /\ n.commitIndex \in Nat
    BY <1>0 DEF NodeState
  <2>2. noop \in LogEntry
    BY <2>1 DEF Entry, LogEntry, Command
  <2>3. LastIndex(n) = Len(w)
    BY <1>0 DEF Keeping
  <2>4. t \notin h.terms
    BY <1>0 DEF Elects
  <2> QED BY <1>0, <2>1, <2>2, <2>3, <2>4, HistoryTypes
<1>2. e = [n EXCEPT !.role = Leader, !.leaderId = i, !.nextIndex = nxt,
                    !.matchIndex = zero, !.sentUpto = zero, !.pending = {},
                    !.pendingByReq = {}, !.log = lg, !.dirty = drt]
  BY Zenon DEF Elected
<1>3. e \in NodeState /\ Sane(e)
  BY <1>0, ElectedFacts DEF Sane
<1> HIDE DEF nxt, zero, lg, drt, e
<1>4. /\ e.role = Leader /\ e.currentTerm = t /\ e.log = lg
      /\ e.nextIndex = nxt /\ e.matchIndex = zero /\ e.members = n.members
      /\ e.snapshotIndex = n.snapshotIndex /\ e.snapshotTerm = n.snapshotTerm
      /\ e.snapshotData = n.snapshotData /\ e.lastApplied = n.lastApplied
      /\ e.sm = n.sm /\ e.commitIndex = n.commitIndex
  BY <1>0, <1>2, SMTT(30) DEF NodeState
<1>5. /\ Sound(f) /\ Follows(h, f) /\ f.terms = h.terms \cup {t} /\ f.now = h.now
      /\ f.whole = h.whole /\ f.led[t] = w /\ \A s \in h.terms : f.led[s] = h.led[s]
      /\ f.held[i][t] = Len(w)
  BY <1>0, ElevatedSound
<1> HIDE DEF f, w, t, noop
<1>6. f \in History
  BY <1>5 DEF Sound
<1>7. \E g, x :
        /\ Sound(g) /\ Follows(h, g) /\ g.terms = h.terms \cup {t} /\ g.now = h.now
        /\ g.whole[i] = x /\ \A p \in Server \ {i} : g.whole[p] = h.whole[p]
        /\ g.led[t] = x /\ \A s \in h.terms : g.led[s] = h.led[s]
        /\ Len(x) <= g.held[i][t] /\ x \in Seq(LogEntry)
        /\ Share(w, x, Len(w)) /\ Keeping(e, x) /\ Len(w) <= LastIndex(e)
  <2>1. CASE NoopOnElect
    <3> DEFINE g == Extended(f, i, noop)
               x == Append(w, noop)
    <3>1. f.now[i] = t /\ f.whole[i] = w /\ t \in f.terms /\ noop.term = t
      BY <1>0, <1>5 DEF noop, Entry, w
    <3>2. /\ Sound(g) /\ Follows(f, g) /\ g.terms = f.terms /\ g.now = f.now
          /\ g.whole = [f.whole EXCEPT ![i] = x]
          /\ g.led[t] = x /\ \A s \in f.terms \ {t} : g.led[s] = f.led[s]
          /\ g.held[i][t] = Len(x)
      <4> DEFINE y == Append(f.whole[i], noop)
      <4>1. f.whole[i] = f.led[f.now[i]] /\ f.now[i] \in f.terms /\ noop.term = f.now[i]
        BY <1>5, <3>1
      <4>2. /\ Sound(g) /\ Follows(f, g) /\ g.terms = f.terms /\ g.now = f.now
            /\ g.whole = [f.whole EXCEPT ![i] = y]
            /\ g.led[f.now[i]] = y /\ \A s \in f.terms \ {f.now[i]} : g.led[s] = f.led[s]
            /\ g.held[i][f.now[i]] = Len(y)
        <5>1. Sound(f) /\ noop \in LogEntry
          BY <1>1, <1>5
        <5>2. Extends(f, i, noop)
          BY <4>1 DEF Extends
        <5> QED BY <5>1, <5>2, ExtendedSound
      <4>3. y = x
        BY <3>1
      <4> HIDE DEF y, x, g
      <4> QED BY <3>1, <4>2, <4>3
    <3> HIDE DEF g
    <3>3. g \in History /\ h.whole \in [Server -> Seq(LogEntry)]
      BY <1>0, <3>2 DEF Sound, History
    <3>4. Follows(h, g)
      BY <1>0, <1>5, <1>6, <3>2, <3>3, FollowsTransitive
    <3>5. /\ x \in Seq(LogEntry) /\ Len(x) = Len(w) + 1 /\ \A k \in 1 .. Len(w) : x[k] = w[k]
      BY <1>1
    <3>6. g.whole[i] = x /\ \A p \in Server \ {i} : g.whole[p] = h.whole[p]
      BY <1>5, <3>2, <3>3
    <3>7. \A s \in h.terms : g.led[s] = h.led[s]
      BY <1>1, <1>5, <3>2
    <3>8. lg = Append(n.log, noop)
      <4>1. lg = n.log \o <<noop>>
        BY <2>1 DEF lg
      <4> QED BY <1>1, <4>1
    <3>9. Keeping(e, x) /\ LastIndex(e) = LastIndex(n) + 1
      BY <1>0, <1>1, <1>3, <1>4, <3>8, AppendKeeps
    <3> HIDE DEF x
    <3>10. Share(w, x, Len(w))
      BY <1>1, <3>5 DEF Share
    <3>11. Len(x) <= g.held[i][t] /\ Len(w) <= LastIndex(e)
      BY <1>1, <3>2, <3>5, <3>9
    <3> QED BY <1>5, <3>2, <3>4, <3>5, <3>6, <3>7, <3>9, <3>10, <3>11
  <2>2. CASE ~NoopOnElect
    <3>1. lg = n.log
      <4>1. lg = n.log \o <<>>
        BY <2>2 DEF lg
      <4> QED BY <1>1, <4>1, ConcatEmptySeq
    <3>2. LastIndex(e) = LastIndex(n)
      BY <1>4, <3>1 DEF LastIndex
    <3>3. Keeping(e, w)
      BY <1>0, <1>4, <3>1, <3>2 DEF Keeping
    <3>4. Share(w, w, Len(w)) /\ Len(w) <= f.held[i][t] /\ Len(w) <= LastIndex(e)
      BY <1>1, <1>5, <3>2 DEF Share
    <3>5. f.whole[i] = w /\ \A p \in Server \ {i} : f.whole[p] = h.whole[p]
      BY <1>5 DEF w
    <3> QED BY <1>1, <1>5, <3>3, <3>4, <3>5
  <2> QED BY <2>1, <2>2
<1>8. PICK g, x :
        /\ Sound(g) /\ Follows(h, g) /\ g.terms = h.terms \cup {t} /\ g.now = h.now
        /\ g.whole[i] = x /\ \A p \in Server \ {i} : g.whole[p] = h.whole[p]
        /\ g.led[t] = x /\ \A s \in h.terms : g.led[s] = h.led[s]
        /\ Len(x) <= g.held[i][t] /\ x \in Seq(LogEntry)
        /\ Share(w, x, Len(w)) /\ Keeping(e, x) /\ Len(w) <= LastIndex(e)
  BY <1>7
<1>9. g \in History
  BY <1>8 DEF Sound
<1>10. CommitSound(g, x, e)
  <2>1. t <= t /\ n.currentTerm <= e.currentTerm
    BY <1>1, <1>4 DEF t
  <2> QED BY <1>0, <1>1, <1>3, <1>4, <1>8, <1>9, <2>1, CommitStays
<1>11. LeaderSound(g, i, e)
  <2>1. \A p \in Server : g.held[p][t] \in Nat
    BY <1>1, <1>9, HistoryTypes
  <2>2. \A p \in Server : e.matchIndex[p] <= g.held[p][t]
    BY <1>4, <2>1 DEF zero
  <2>3. LastIndex(e) \in Nat
    BY <1>3, LogFacts
  <2>4. \A p \in Server : /\ e.nextIndex[p] <= LastIndex(e) + 1
                          /\ p \in Peers(i, e) => e.nextIndex[p] # 0
    BY <1>1, <1>4, <1>8, <2>3 DEF nxt, Peers
  <2> QED BY <1>4, <1>8, <2>2, <2>4 DEF LeaderSound
<1>12. Rooted(g, i, e)
  <2>1. Compacted(e)
    BY <1>0, <1>4 DEF Compacted
  <2>2. g.now[i] = e.currentTerm
    BY <1>0, <1>4, <1>8
  <2> QED BY <1>3, <1>8, <1>10, <1>11, <2>1, <2>2 DEF Rooted, NodeSound
<1>13. n.lastApplied # 0 => Share(h.whole[i], x, n.lastApplied)
  <2>1. n.lastApplied <= Len(w) /\ Len(x) \in Nat /\ n.lastApplied \in Nat
    BY <1>0, <1>8 DEF Keeping, NodeState
  <2> QED BY <1>1, <1>8, <2>1 DEF Share, w
<1>14. Carried(h, g, i, n, e)
  <2>1. e.role # Candidate /\ n.snapshotIndex <= e.snapshotIndex
    BY <1>1, <1>4 DEF Leader, Candidate
  <2>2. Share(h.whole[i], g.whole[i], Len(h.whole[i]))
    BY <1>8 DEF w
  <2> QED BY <1>4, <1>8, <1>12, <1>13, <2>1, <2>2 DEF Carried
<1>15. \A p \in Server : MessageSound(g, MakeAppend(i, e, p))
  BY <1>3, <1>4, <1>12, MakeAppendSound DEF Rooted
<1>16. Carried(h, g, i, n, Sent(i, e, Peers(i, n)))
  <2>1. Peers(i, n) \in SUBSET Server
    BY <1>0, ServerAssumption DEF Peers, NodeState, Configuration
  <2>2. Sane(Sent(i, e, Peers(i, n))) /\ Tracked(e, Sent(i, e, Peers(i, n)))
    BY <1>3, <2>1, SentFacts DEF Sane, Tracked
  <2>3. KeepsLog(e, Sent(i, e, Peers(i, n)))
    BY <1>3, LogUntouched
  <2> QED BY <1>14, <2>2, <2>3, CarriedIdle DEF Tracked
<1> QED BY <1>15, <1>16 DEF BecomeLeader, e

\* handle_client_request: a leader that appends a command carries the history on.
LEMMA ProposeCarries ==
  ASSUME ~MembershipChanges, NEW h, NEW i \in Server, NEW n, Rooted(h, i, n),
         n.role = Leader, NEW addr \in Nat,
         NEW cmd \in Command, cmd.seq \in Nat, cmd.client \in Int
  PROVE  LET a == Propose(i, n, addr, cmd)
         IN /\ SameOffice(n, a) /\ a.lastApplied = n.lastApplied
            /\ \E g : Carried(h, g, i, n, a)
<1> DEFINE t == n.currentTerm
           w == h.whole[i]
           e == Entry(t, cmd)
           x == Append(w, e)
           index == LastIndex(n) + 1
           log == Append(n.log, e)
           s == [n EXCEPT !.log = log, !.dirty = TRUE]
           pend == s.pending \cup {[index |-> index, addr |-> addr, seq |-> cmd.seq]}
           byReq == s.pendingByReq
                      \cup {[client |-> cmd.client, seq |-> cmd.seq, index |-> index]}
           b == [s EXCEPT !.pending = pend, !.pendingByReq = byReq]
           a == Propose(i, n, addr, cmd)
           g == Extended(h, i, e)
<1>0. /\ Sound(h) /\ h \in History /\ n \in NodeState /\ Sane(n) /\ h.now[i] = t
      /\ Keeping(n, w) /\ CommitSound(h, w, n) /\ Compacted(n) /\ LeaderSound(h, i, n)
  BY DEF Rooted, Sane, Sound, NodeSound
<1>1. /\ t \in Nat /\ w \in Seq(LogEntry) /\ Len(w) \in Nat /\ n.log \in Seq(LogEntry)
      /\ e \in LogEntry /\ n.snapshotIndex \in Nat /\ n.commitIndex \in Nat
      /\ LastIndex(n) \in Nat /\ log \in Seq(LogEntry) /\ e.term = t
      /\ h.whole \in [Server -> Seq(LogEntry)]
  <2>1. t \in Nat /\ n.log \in Seq(LogEntry) /\ n.snapshotIndex \in Nat /\ n.commitIndex \in Nat
    BY <1>0 DEF NodeState
  <2>2. e \in LogEntry /\ e.term = t
    BY <2>1 DEF Entry, LogEntry
  <2>3. log \in Seq(LogEntry)
    BY <2>1, <2>2
  <2>4. h.whole \in [Server -> Seq(LogEntry)]
    BY <1>0 DEF History
  <2> QED BY <1>0, <2>1, <2>2, <2>3, <2>4, HistoryTypes, LogFacts
<1>2. /\ t \in h.terms /\ w = h.led[t] /\ Len(w) <= h.held[i][t]
      /\ \A p \in Server :
           /\ n.matchIndex[p] <= h.held[p][t]
           /\ n.nextIndex[p] <= LastIndex(n) + 1
           /\ p \in Peers(i, n) => n.nextIndex[p] # 0
  BY <1>0 DEF LeaderSound
<1>3. ConfigPositions(<<e>>) = {}
  <2>1. <<e>> \in Seq(LogEntry)
    BY <1>1
  <2> QED BY <2>1, ConfigFacts
<1> HIDE DEF e, log
<1>4. a = b
  <2>1. ApplyConfig(i, s, index - 1, <<e>>) = s
    BY <1>3, Zenon DEF ApplyConfig
  <2> QED BY <2>1, Zenon DEF Propose, e, log
<1>5. s \in NodeState
  BY <1>0, <1>1, ZenonT(90) DEF NodeState
<1>6. /\ s.log = log /\ s.snapshotIndex = n.snapshotIndex /\ s.snapshotTerm = n.snapshotTerm
      /\ s.snapshotData = n.snapshotData /\ s.lastApplied = n.lastApplied /\ s.sm = n.sm
      /\ s.commitIndex = n.commitIndex /\ SameOffice(n, s) /\ SamePeers(n, s)
      /\ s.members = n.members
  BY <1>0, SMTT(30) DEF NodeState, SameOffice, SamePeers
<1> HIDE DEF s, pend, byReq
<1>7. /\ b.log = s.log /\ b.snapshotIndex = s.snapshotIndex /\ b.snapshotTerm = s.snapshotTerm
      /\ b.snapshotData = s.snapshotData /\ b.lastApplied = s.lastApplied /\ b.sm = s.sm
      /\ b.commitIndex = s.commitIndex /\ SameOffice(s, b) /\ SamePeers(s, b)
      /\ b.members = s.members
  BY <1>5, SMTT(30) DEF NodeState, SameOffice, SamePeers
<1>8. Sane(a) /\ a \in NodeState
  BY <1>0, ProposeFacts DEF Sane
<1> HIDE DEF a, b
<1>9. /\ a.log = log /\ a.snapshotIndex = n.snapshotIndex /\ a.snapshotTerm = n.snapshotTerm
      /\ a.snapshotData = n.snapshotData /\ a.lastApplied = n.lastApplied /\ a.sm = n.sm
      /\ a.commitIndex = n.commitIndex /\ SameOffice(n, a) /\ SamePeers(n, a)
      /\ a.members = n.members
  BY <1>4, <1>6, <1>7 DEF SameOffice, SamePeers
<1>10. Extends(h, i, e)
  BY <1>0, <1>1, <1>2 DEF Extends
<1>11. /\ Sound(g) /\ Follows(h, g) /\ g.terms = h.terms /\ g.now = h.now
       /\ g.whole = [h.whole EXCEPT ![i] = Append(h.whole[i], e)]
       /\ g.led[h.now[i]] = Append(h.whole[i], e)
       /\ \A d \in h.terms \ {h.now[i]} : g.led[d] = h.led[d]
       /\ g.held[i][h.now[i]] = Len(Append(h.whole[i], e))
  <2>1. Sound(h) /\ e \in LogEntry
    BY <1>0, <1>1
  <2> QED BY <1>10, <2>1, ExtendedSound
<1> HIDE DEF g
<1>12. /\ g.whole = [h.whole EXCEPT ![i] = x] /\ g.led[t] = x /\ g.held[i][t] = Len(x)
       /\ \A d \in h.terms \ {t} : g.led[d] = h.led[d]
  BY <1>0, <1>11
<1>13. /\ x \in Seq(LogEntry) /\ Len(x) = Len(w) + 1 /\ \A k \in 1 .. Len(w) : x[k] = w[k]
  BY <1>1
<1>14. Keeping(a, x) /\ LastIndex(a) = LastIndex(n) + 1
  BY <1>0, <1>1, <1>8, <1>9, AppendKeeps DEF log
<1> HIDE DEF x, w
<1>15. g \in History
  BY <1>11 DEF Sound
<1>16. g.whole[i] = x /\ \A p \in Server \ {i} : g.whole[p] = h.whole[p]
  BY <1>1, <1>12
<1>17. Share(w, x, Len(w))
  BY <1>1, <1>13 DEF Share
<1>18. CommitSound(g, x, a)
  <2>1. n.currentTerm <= a.currentTerm
    BY <1>1, <1>9 DEF SameOffice
  <2> QED BY <1>0, <1>1, <1>8, <1>9, <1>11, <1>13, <1>15, <1>17, <2>1, CommitStays
<1>19. LeaderSound(g, i, a)
  <2>1. ASSUME NEW p \in Server
        PROVE  /\ n.matchIndex[p] \in Nat /\ h.held[p][t] \in Nat /\ g.held[p][t] \in Nat
               /\ h.held[p][t] <= g.held[p][t] /\ n.nextIndex[p] \in Nat
    <3>1. n.matchIndex[p] \in Nat /\ n.nextIndex[p] \in Nat
      BY <1>0 DEF NodeState
    <3>2. h.held[p][t] \in Nat /\ g.held[p][t] \in Nat
      BY <1>0, <1>1, <1>15, HistoryTypes
    <3>3. h.held[p][t] <= g.held[p][t]
      BY <1>1, <1>11 DEF Follows
    <3> QED BY <3>1, <3>2, <3>3
  <2>2. \A p \in Server : a.matchIndex[p] <= g.held[p][t]
    BY <1>2, <1>9, <2>1 DEF SamePeers
  <2>3. \A p \in Server : /\ a.nextIndex[p] <= LastIndex(a) + 1
                          /\ p \in Peers(i, a) => a.nextIndex[p] # 0
    BY <1>1, <1>2, <1>9, <1>14, <2>1, SMTT(30) DEF SamePeers, Peers
  <2>4. a.currentTerm = t /\ t \in g.terms /\ g.whole[i] = g.led[t] /\ Len(x) <= g.held[i][t]
    BY <1>1, <1>2, <1>9, <1>11, <1>12, <1>13, <1>16, SMTT(30) DEF SameOffice
  <2> QED BY <1>16, <2>2, <2>3, <2>4 DEF LeaderSound
<1>20. Rooted(g, i, a)
  <2>1. Compacted(a)
    BY <1>0, <1>9 DEF Compacted
  <2>2. g.now[i] = a.currentTerm
    BY <1>0, <1>9, <1>11 DEF SameOffice
  <2> QED BY <1>8, <1>11, <1>14, <1>16, <1>18, <1>19, <2>1, <2>2 DEF Rooted, NodeSound
<1>21. n.lastApplied # 0 => Share(h.whole[i], x, n.lastApplied)
  <2>1. n.lastApplied <= Len(w)
    BY <1>0 DEF Keeping
  <2>2. /\ n.lastApplied <= Len(x) /\ \A k \in 1 .. n.lastApplied : w[k] = x[k]
    <3>1. n.lastApplied \in Nat /\ Len(w) \in Nat
      BY <1>0, <1>1 DEF NodeState
    <3>2. \A k \in 1 .. n.lastApplied : k \in 1 .. Len(w)
      BY <2>1, <3>1
    <3>3. n.lastApplied <= Len(x)
      BY <1>13, <2>1, <3>1
    <3> QED BY <1>13, <3>2, <3>3
  <2> QED BY <2>1, <2>2 DEF Share, w
<1>22. Carried(h, g, i, n, a)
  <2>1. a.role = Leader /\ a.role # Candidate /\ n.snapshotIndex <= a.snapshotIndex
        /\ a.currentTerm = t
    BY <1>1, <1>9 DEF Leader, Candidate, SameOffice
  <2>2. h.terms = h.terms \cup {t}
    BY <1>2
  <2>3. Share(h.whole[i], g.whole[i], Len(h.whole[i]))
    BY <1>16, <1>17 DEF w
  <2> QED BY <1>11, <1>12, <1>16, <1>20, <1>21, <2>1, <2>2, <2>3 DEF Carried
<1> QED BY <1>9, <1>22 DEF a

-----------------------------------------------------------------------------
(* Restarting *)

\* restart: nothing of the history is lost with what is volatile.
LEMMA RestartedCarries ==
  ASSUME ~MembershipChanges, NEW h, NEW i \in Server, NEW n, Rooted(h, i, n)
  PROVE  LET a == Restarted(i, n, Durable(n))
         IN /\ Carried(h, h, i, n, a)
            /\ a.currentTerm = n.currentTerm /\ a.votedFor = n.votedFor
            /\ a.role = Follower /\ a.leaderId = Nil
            /\ a.lastApplied = n.snapshotIndex /\ a.commitIndex = n.snapshotIndex
<1> DEFINE t == n.currentTerm
           w == h.whole[i]
           d == Durable(n)
           r == RestoreMachine(InitNode, d.snapshotData, d.snapshotIndex)
           s == [r EXCEPT
                   !.currentTerm = d.currentTerm, !.votedFor = d.votedFor, !.log = d.log,
                   !.snapshotIndex = d.snapshotIndex, !.snapshotTerm = d.snapshotTerm,
                   !.snapshotData = d.snapshotData, !.snapshotMembers = d.snapshotMembers,
                   !.commitIndex = d.snapshotIndex, !.preTerm = n.preTerm, !.dirty = TRUE]
           a == Restarted(i, n, d)
<1>0. /\ Sound(h) /\ h \in History /\ n \in NodeState /\ h.now[i] = t
      /\ Keeping(n, w) /\ CommitSound(h, w, n)
  BY DEF Rooted, Sane, Sound, NodeSound
<1>1. /\ t \in Nat /\ w \in Seq(LogEntry) /\ Len(w) \in Nat /\ n.log \in Seq(LogEntry)
      /\ n.snapshotIndex \in Nat /\ n.commitIndex \in Nat /\ n.votedFor \in Server \cup {Nil}
      /\ n.snapshotTerm \in TermOrNone /\ n.snapshotData \in Seq(Command)
      /\ n.snapshotMembers \in Configuration /\ n.preTerm \in Nat
  <2>1. t \in Nat /\ n.log \in Seq(LogEntry) /\ n.snapshotIndex \in Nat /\ n.commitIndex \in Nat
    BY <1>0 DEF NodeState
  <2>2. /\ n.snapshotTerm \in TermOrNone /\ n.snapshotData \in Seq(Command)
        /\ n.snapshotMembers \in Configuration /\ n.preTerm \in Nat
        /\ n.votedFor \in Server \cup {Nil}
    BY <1>0 DEF NodeState
  <2> QED BY <1>0, <2>1, <2>2, HistoryTypes
<1>2. /\ d.currentTerm = t /\ d.votedFor = n.votedFor /\ d.log = n.log
      /\ d.snapshotIndex = n.snapshotIndex /\ d.snapshotTerm = n.snapshotTerm
      /\ d.snapshotData = n.snapshotData /\ d.snapshotMembers = n.snapshotMembers
  BY DEF Durable
<1>3. d \in DurableState
  BY <1>1 DEF Durable, DurableState
<1>4. Sane(a) /\ a \in NodeState
  BY <1>1, <1>3, RestartedFacts DEF Sane
<1>5. a = RebuildConfig(i, s)
  BY Zenon DEF Restarted
<1> HIDE DEF a, d
<1>6. r = [InitNode EXCEPT !.sm = d.snapshotData, !.lastApplied = d.snapshotIndex]
  BY DEF RestoreMachine
<1>7. InitNode \in NodeState
  BY InitNodeFacts DEF Sane
<1>8. r \in NodeState
  BY <1>1, <1>2, <1>6, <1>7, ZenonT(90) DEF NodeState
<1>9. /\ r.lastApplied = n.snapshotIndex /\ r.sm = n.snapshotData
      /\ r.role = Follower /\ r.leaderId = Nil
  <2>1. InitNode.role = Follower /\ InitNode.leaderId = Nil
    BY DEF InitNode
  <2> QED BY <1>2, <1>6, <1>7, <2>1, SMTT(30) DEF NodeState
<1> HIDE DEF r
<1>10. s \in NodeState
  BY <1>1, <1>2, <1>8, ZenonT(60) DEF NodeState
<1>11. /\ s.currentTerm = t /\ s.votedFor = n.votedFor /\ s.log = n.log
       /\ s.snapshotIndex = n.snapshotIndex /\ s.snapshotTerm = n.snapshotTerm
       /\ s.snapshotData = n.snapshotData /\ s.commitIndex = n.snapshotIndex
       /\ s.lastApplied = n.snapshotIndex /\ s.sm = n.snapshotData
       /\ s.role = Follower /\ s.leaderId = Nil
  BY <1>2, <1>8, <1>9, SMTT(30) DEF NodeState
<1> HIDE DEF s
<1>12. Tracked(s, a) /\ a.sm = s.sm
  <2> DEFINE m == [s EXCEPT !.members = s.snapshotMembers]
             b == [m EXCEPT !.configIndex = 0]
  <2>1. SetMembers(i, s, s.snapshotMembers) = m
    BY <1>11 DEF SetMembers, Follower, Leader
  <2>2. ConfigPositions(s.log) = {}
    BY <1>1, <1>11, ConfigFacts
  <2>3. a = ApplyConfig(i, b, s.snapshotIndex, s.log)
    BY <1>5, <2>1, Zenon DEF RebuildConfig
  <2>4. a = b
    BY <2>2, <2>3, Zenon DEF ApplyConfig
  <2>5. m \in NodeState
    <3>1. s.snapshotMembers \in Configuration
      BY <1>10 DEF NodeState
    <3> QED BY <1>10, <3>1, ZenonT(90) DEF NodeState
  <2>6. m.sm = s.sm
    BY <1>10, SMTT(30) DEF NodeState
  <2> HIDE DEF m
  <2>7. b.sm = m.sm
    BY <2>5, SMTT(30) DEF NodeState
  <2>8. Tracked(s, a)
    BY <1>5, <1>10, RebuildConfigFacts
  <2> QED BY <2>4, <2>6, <2>7, <2>8
<1>13. /\ a.currentTerm = t /\ a.votedFor = n.votedFor /\ a.log = n.log
       /\ a.snapshotIndex = n.snapshotIndex /\ a.snapshotTerm = n.snapshotTerm
       /\ a.snapshotData = n.snapshotData /\ a.commitIndex = n.snapshotIndex
       /\ a.lastApplied = n.snapshotIndex /\ a.sm = n.snapshotData
       /\ a.role = Follower /\ a.leaderId = Nil
  BY <1>11, <1>12 DEF Tracked
<1>14. n.snapshotIndex <= n.commitIndex /\ n.commitIndex <= Len(w)
       /\ n.snapshotIndex <= Len(w) /\ n.snapshotIndex <= n.snapshotIndex
  BY <1>0, <1>1 DEF CommitSound
<1>15. Keeping(a, w)
  <2>1. LastIndex(a) = LastIndex(n)
    BY <1>13 DEF LastIndex
  <2> QED BY <1>0, <1>13, <1>14, <2>1 DEF Keeping
<1>16. Covered(h, w, n.snapshotIndex, t)
  <2>1. Share(w, w, n.snapshotIndex) /\ Covered(h, w, n.commitIndex, t)
    BY <1>0, <1>14 DEF Share, CommitSound
  <2> QED BY <1>0, <1>1, <1>14, <2>1, CoveredPart
<1>17. CommitSound(h, w, a)
  BY <1>13, <1>14, <1>16 DEF CommitSound
<1>18. a.role # Leader /\ a.role # Candidate
  BY <1>13 DEF Follower, Leader, Candidate
<1>19. LeaderSound(h, i, a)
  BY <1>18 DEF LeaderSound
<1>20. Compacted(a)
  BY <1>1, <1>13, ConfigAssumption DEF Compacted
<1>21. Rooted(h, i, a)
  BY <1>0, <1>4, <1>13, <1>15, <1>17, <1>19, <1>20 DEF Rooted, NodeSound
<1>22. Follows(h, h)
  BY <1>0, FollowsReflexive
<1>23. Share(w, w, n.lastApplied)
  BY <1>0 DEF Share, Keeping
<1>24. Carried(h, h, i, n, a)
  BY <1>13, <1>14, <1>18, <1>21, <1>22, <1>23 DEF Carried
<1> QED BY <1>13, <1>24 DEF a, d

-----------------------------------------------------------------------------
(* What follows every handler *)

\* apply_committed and the save change nothing of the history.
LEMMA FinishCarries ==
  ASSUME ~MembershipChanges, NEW h, NEW g, NEW i \in Server, NEW o \in NodeState, NEW n,
         Carried(h, g, i, o, n)
  PROVE  LET a == ApplyCommitted(i, n)
         IN /\ Carried(h, g, i, o, a) /\ SameOffice(n, a)
            /\ a.commitIndex = n.commitIndex
            /\ a.lastApplied = Larger(n.lastApplied, n.commitIndex)
<1> DEFINE a == ApplyCommitted(i, n)
<1>0. /\ Rooted(g, i, n) /\ Sound(g) /\ Sane(n) /\ NodeSound(g, i, n) /\ Compacted(n)
      /\ g.now[i] = n.currentTerm
  BY DEF Carried, Rooted
<1>1. /\ NodeSound(g, i, a) /\ SameOffice(n, a) /\ Compacted(a)
      /\ a.commitIndex = n.commitIndex
      /\ a.lastApplied = Larger(n.lastApplied, n.commitIndex)
      /\ n.snapshotIndex <= a.snapshotIndex
  BY <1>0, ApplyKeeps
<1>2. Sane(a)
  BY <1>0, ApplyCommittedFacts
<1> HIDE DEF a
<1>3. Rooted(g, i, a)
  BY <1>0, <1>1, <1>2 DEF Rooted, SameOffice
<1>4. o.snapshotIndex <= a.snapshotIndex
  <2>1. /\ n.snapshotIndex \in Nat /\ a.snapshotIndex \in Nat /\ o.snapshotIndex \in Nat
        /\ o.snapshotIndex <= n.snapshotIndex
    BY <1>0, <1>2 DEF Carried, Sane, NodeState
  <2> QED BY <1>1, <2>1
<1>5. a.role = n.role /\ a.currentTerm = n.currentTerm
  BY <1>1 DEF SameOffice
<1>6. Carried(h, g, i, o, a)
  BY <1>3, <1>4, <1>5 DEF Carried
<1> QED BY <1>1, <1>6 DEF a

\* What a node has applied stays what it was, if it applies nothing more.
LEMMA CarriedMachine ==
  ASSUME NEW h, NEW g, NEW i \in Server, NEW o, Rooted(h, i, o), NEW n, Carried(h, g, i, o, n),
         n.lastApplied = o.lastApplied
  PROVE  n.sm = o.sm
<1> DEFINE w == h.whole[i]
           v == g.whole[i]
           k == o.lastApplied
<1>1. o.sm = Commands(w, k) /\ n.sm = Commands(v, k)
  BY DEF Carried, Rooted, NodeSound, Keeping
<1>2. k \in Nat /\ (k # 0 => Share(w, v, k))
  BY DEF Carried, Rooted, Sane, NodeState
<1>3. \A j \in 1 .. k : w[j] = v[j]
  BY <1>2 DEF Share
<1> QED BY <1>1, <1>3 DEF Commands

-----------------------------------------------------------------------------
(* Before the first event *)

\* Nothing has happened.
Beginning ==
  [terms |-> {}, led |-> [t \in Nat |-> <<>>], won |-> [t \in Nat |-> 0],
   held |-> [p \in Server |-> [t \in Nat |-> 0]],
   whole |-> [p \in Server |-> <<>>], now |-> [p \in Server |-> 0]]

\* No history begins unsound.
LEMMA BeginningSound ==
  /\ Sound(Beginning) /\ Beginning.terms = {}
  /\ \A p \in Server : Beginning.whole[p] = <<>> /\ Beginning.now[p] = 0
<1> DEFINE h == Beginning
<1>1. h \in History
  <2>1. <<>> \in Seq(LogEntry)
    OBVIOUS
  <2> QED BY <2>1 DEF Beginning, History
<1>2. /\ h.terms = {}
      /\ \A p \in Server : h.whole[p] = <<>> /\ h.now[p] = 0
      /\ \A p \in Server : \A t \in Nat : h.held[p][t] = 0
  BY DEF Beginning
<1> HIDE DEF h
<1>3. LedSound(h) /\ WonSound(h)
  BY <1>2 DEF LedSound, WonSound
<1>4. WholeSound(h)
  BY <1>2 DEF WholeSound, Known
<1>5. HeldSound(h) /\ Kept(h)
  BY <1>2 DEF HeldSound, Kept
<1> QED BY <1>1, <1>2, <1>3, <1>4, <1>5 DEF Sound, h

\* And a new node is what every server is in it.
LEMMA BeginningRooted ==
  ASSUME NEW i \in Server
  PROVE  Rooted(Beginning, i, InitNode)
<1> DEFINE h == Beginning
<1>1. /\ Sane(InitNode) /\ InitNode.role = Follower
  BY InitNodeFacts
<1>2. /\ InitNode.log = <<>> /\ InitNode.snapshotIndex = 0 /\ InitNode.snapshotTerm = 0
      /\ InitNode.snapshotData = <<>> /\ InitNode.sm = <<>>
      /\ InitNode.commitIndex = 0 /\ InitNode.lastApplied = 0
      /\ InitNode.currentTerm = 0
  BY DEF InitNode
<1>3. Sound(h) /\ h.whole[i] = <<>> /\ h.now[i] = 0
  BY BeginningSound
<1> HIDE DEF h
<1>4. Keeping(InitNode, <<>>)
  <2>1. Commands(<<>>, 0) = <<>>
    <3>1. 1 .. 0 = {}
      OBVIOUS
    <3> QED BY <3>1 DEF Commands
  <2>2. LastIndex(InitNode) = 0
    BY <1>2 DEF LastIndex
  <2> HIDE DEF InitNode
  <2> QED BY <1>2, <2>1, <2>2 DEF Keeping, TermOf
<1>5. CommitSound(h, <<>>, InitNode)
  BY <1>2 DEF CommitSound, Covered
<1>6. LeaderSound(h, i, InitNode)
  BY <1>1 DEF LeaderSound, Leader, Follower
<1>7. Compacted(InitNode)
  BY <1>2, ConfigAssumption DEF Compacted
<1> QED BY <1>1, <1>2, <1>3, <1>4, <1>5, <1>6, <1>7 DEF Rooted, NodeSound, h
=============================================================================
