----------------------------- MODULE ReadsProofs -----------------------------
(***************************************************************************)
(* The read path, for a fixed membership: the lease of a leader excludes   *)
(* every leader of a later term, and no read is stale.                     *)
(*                                                                         *)
(* An event of a node is first described by what it does to the rounds of  *)
(* that node, whichever handler it was (Handled, Outcome), and an election *)
(* by what it does to the candidate and the voters (Won).  The rest of the *)
(* argument is about such events and about elections: Leases says why a    *)
(* lease excludes, FreshReads why a read that waits for a round or is      *)
(* answered by a lease misses nothing, provided that the leader waits for  *)
(* the right index (Barred).  That it does is an argument about the log,   *)
(* which is told in the histories of module RaftLogProofs (HistoryOf).     *)
(***************************************************************************)
EXTENDS Reads, RaftHistoryProofs

-----------------------------------------------------------------------------
(* Types *)

ReadState ==
  [roundId : Nat, open : Nat, done : Nat, acks : SUBSET (Nat \X InitialMembers),
   sentAt : SUBSET (Nat \X Nat), until : Nat, termStart : Nat,
   waiters : SUBSET [round : Nat, index : Nat, read : Nat]]

RoundBroadcast ==
  [src : InitialMembers, to : SUBSET InitialMembers, round : Nat, term : Nat,
   log : Seq(LogEntry), commit : Nat]

RoundAnswer ==
  [src : InitialMembers, dst : InitialMembers, term : Nat, round : Nat, match : Nat]

\* Nothing is compacted.
Bare(n) == n.snapshotIndex = 0

\* Times and leases of x are not beyond b.
Within(x, b) == x.until <= b /\ \A s \in x.sentAt : s[2] + ElectionMin <= b

\* No round of x has a greater number than the last.
Counted(x) ==
  /\ x.open <= x.roundId /\ x.done <= x.roundId
  /\ \A a \in x.acks : a[1] <= x.roundId
  /\ \A s \in x.sentAt : s[1] <= x.roundId

\* The rounds of a node, none of which was sent later than now.
RoundTypes(x) ==
  x \in ReadState /\ Within(x, now + ElectionMin) /\ Counted(x)

ReadTypes ==
  /\ node \in [Server -> NodeState] /\ \A i \in Server : Sane(node[i]) /\ Bare(node[i])
  /\ now \in Nat /\ missed \in [Server -> Nat]
  /\ contact \in [Server -> Nat \cup {Never}]
  /\ \A i \in Server : missed[i] <= now /\ contact[i] + missed[i] <= now
  /\ DOMAIN rd = Server /\ \A i \in Server : RoundTypes(rd[i])
  /\ sent \subseteq RoundBroadcast /\ answers \subseteq RoundAnswer
  /\ committed \in Nat /\ floor \in Seq(Nat)
  /\ served \subseteq Nat \X Nat
  /\ instant \subseteq Server /\ used.restarts \in Nat
  /\ readMode \in ReadModes

\* The bounds of this model are numbers, and logs are whole.
LEMMA Bounds ==
  /\ ElectionMin \in Nat /\ MaxRestarts \in Nat /\ SnapshotThreshold = 0
  /\ Electable \subseteq Server /\ Freezable \subseteq Server
  /\ ReadModes \subseteq {"read_index", "lease"}
PROOF
  BY ReadsAssumption

-----------------------------------------------------------------------------
(* Rounds *)

\* The members that have acknowledged round r of x.
Ackers(x, r) == {v \in InitialMembers : <<r, v>> \in x.acks}

\* What else may have happened to x when a round was acknowledged.
SameRounds(x, y) ==
  /\ y.roundId = x.roundId /\ y.open = x.open /\ y.termStart = x.termStart
  /\ y.waiters = x.waiters

\* The acknowledgement of round r by p is added to x, and if that makes a majority the
\* round is done and the lease runs from when it was sent.
Acks(x, y, r, p, b) ==
  /\ y \in ReadState /\ Within(y, b) /\ SameRounds(x, y)
  /\ y.acks \subseteq x.acks \cup {<<r, p>>} /\ y.sentAt \subseteq x.sentAt
  /\ \/ y.done = x.done /\ y.until = x.until
     \/ /\ x.done < r /\ y.done = r /\ Electors(Ackers(x, r) \cup {p})
        /\ \/ y.until = x.until
           \/ \E s \in x.sentAt : s[1] = r /\ y.until = s[2] + ElectionMin

\* Rounds are only counted by their number: a set of acknowledgements of one round is as
\* large as the set of those who gave them.
LEMMA AckersCounted ==
  ASSUME NEW x \in ReadState, NEW r \in Nat
  PROVE  /\ Cardinality({a \in x.acks : a[1] = r}) \in Nat
         /\ Cardinality({a \in x.acks : a[1] = r}) <= Cardinality(Ackers(x, r))
PROOF
  <1> DEFINE V == Ackers(x, r)
             S == {a \in x.acks : a[1] = r}
             f == [v \in V |-> <<r, v>>]
  <1>1. IsFiniteSet(InitialMembers)
    BY FS_Subset, ServerAssumption
  <1>2. IsFiniteSet(V)
    BY <1>1, FS_Subset DEF Ackers
  <1>3. x.acks \in SUBSET (Nat \X InitialMembers)
    BY DEF ReadState
  <1>4. \A a \in S : a[2] \in V /\ f[a[2]] = a
    BY <1>3 DEF Ackers
  <1>5. f \in Surjection(V, S)
    <2>1. f \in [V -> S]
      BY DEF Ackers
    <2>2. \A a \in S : \E v \in V : f[v] = a
      BY <1>4
    <2> QED
      BY <2>1, <2>2 DEF Surjection
  <1> QED
    BY <1>2, <1>5, FS_Surjection, FS_CardinalityType

\* complete_round and what leads to it.
LEMMA AcknowledgingFacts ==
  ASSUME ~MembershipChanges, NEW n \in NodeState, NEW x \in ReadState, NEW r \in Nat,
         NEW p \in InitialMembers, NEW t, NEW b \in Nat, Within(x, b)
  PROVE  Acks(x, Acknowledging(n, x, r, p, t), r, p, b)
PROOF
  <1> DEFINE z == [x EXCEPT !.acks = @ \cup {<<r, p>>}]
             y == Acknowledging(n, x, r, p, t)
             T == {z.until} \cup {s[2] + ElectionMin : s \in {q \in z.sentAt : q[1] = r}}
  <1>1. z \in ReadState /\ Within(z, b) /\ SameRounds(x, z) /\ z.sentAt = x.sentAt
        /\ z.done = x.done /\ z.until = x.until
        /\ z.acks = x.acks \cup {<<r, p>>} /\ Ackers(z, r) = Ackers(x, r) \cup {p}
    BY DEF ReadState, Within, SameRounds, Ackers
  <1>2. CASE ~(Cardinality({a \in z.acks : a[1] = r}) >= Majority(n)) \/ r <= x.done
    <2>1. y = z
      BY <1>2, <1>1 DEF Acknowledging, CompleteRound
    <2> QED
      BY <2>1, <1>1 DEF Acks
  <1>3. CASE Cardinality({a \in z.acks : a[1] = r}) >= Majority(n) /\ ~(r <= x.done)
    <2>1. y = [z EXCEPT !.done = r, !.until = Largest(T),
                        !.acks = {a \in @ : a[1] > r},
                        !.sentAt = {s \in @ : s[1] > r}]
      BY <1>3, <1>1 DEF Acknowledging, CompleteRound
    <2>2. T \in SUBSET Nat /\ T # {} /\ \A k \in T : k <= b
      BY <1>1, Bounds DEF ReadState, Within
    <2>3. Largest(T) \in T
      BY <2>2, LargestType
    <2>4. Largest(T) \in Nat /\ Largest(T) <= b
      BY <2>2, <2>3
    <2>5. /\ SameRounds(z, y) /\ y.done = r /\ y.until = Largest(T)
          /\ y.acks = {a \in z.acks : a[1] > r} /\ y.sentAt = {s \in z.sentAt : s[1] > r}
      BY <2>1, <1>1 DEF ReadState, SameRounds
    <2>6. y \in ReadState
      <3>1. y.acks \in SUBSET (Nat \X InitialMembers) /\ y.sentAt \in SUBSET (Nat \X Nat)
        BY <2>5, <1>1 DEF ReadState
      <3> QED
        BY <3>1, <2>1, <2>4, <2>5, <1>1 DEF ReadState, SameRounds
    <2>9. Within(y, b)
      BY <2>4, <2>5, <1>1 DEF Within
    <2>7. Electors(Ackers(z, r))
      <3>1. /\ Cardinality({a \in z.acks : a[1] = r}) \in Nat
            /\ Cardinality({a \in z.acks : a[1] = r}) <= Cardinality(Ackers(z, r))
        BY <1>1, AckersCounted
      <3>2. Majority(n) = Cardinality(InitialMembers) \div 2 + 1
        BY FixedMembers DEF Majority
      <3>3. IsFiniteSet(InitialMembers)
        BY FS_Subset, ServerAssumption
      <3>4. Cardinality(InitialMembers) \in Nat /\ Cardinality(Ackers(z, r)) \in Nat
        BY <3>3, FS_CardinalityType, FS_Subset DEF Ackers
      <3> QED
        BY <1>3, <3>1, <3>2, <3>4, <1>1 DEF Electors
    <2>8. x.done < r
      BY <1>3 DEF ReadState
    <2>10. \/ y.until = x.until
           \/ \E s \in x.sentAt : s[1] = r /\ y.until = s[2] + ElectionMin
      BY <2>3, <2>5, <1>1
    <2> QED
      BY <2>3, <2>5, <2>6, <2>7, <2>8, <2>9, <2>10, <1>1 DEF SameRounds, Acks
  <1> QED
    BY <1>2, <1>3

\* A response of v acknowledges round r of node i.
InFlight(i, r, v) ==
  \E a \in answers : /\ a.dst = i /\ a.src = v /\ a.round = r
                     /\ a.term = node[i].currentTerm

\* A majority acknowledges round r of i, whose rounds are x; i itself always does.
Confirmed(i, x, r) ==
  \E A \in SUBSET InitialMembers :
    Electors(A) /\ \A v \in A \ {i} : <<r, v>> \in x.acks \/ InFlight(i, r, v)

\* The rounds x of leader i become y: one more may be opened, which i acknowledges, and a
\* majority may have acknowledged one.
Grown(i, x, y) ==
  /\ RoundTypes(y)
  /\ y.termStart = x.termStart
  /\ \/ y.roundId = x.roundId /\ y.open = x.open /\ y.sentAt \subseteq x.sentAt
     \/ /\ y.roundId = x.roundId + 1 /\ y.open = y.roundId
        /\ y.sentAt \subseteq x.sentAt \cup {<<y.roundId, Clock(i)>>}
  /\ \A a \in y.acks : a \in x.acks \/ InFlight(i, a[1], a[2]) \/ a = <<y.roundId, i>>
  /\ \/ y.done = x.done /\ y.until = x.until
     \/ /\ x.done < y.done /\ Confirmed(i, x, y.done)
        /\ \/ y.until = x.until
           \/ \E s \in x.sentAt : s[1] = y.done /\ y.until = s[2] + ElectionMin
           \/ /\ y.roundId = x.roundId + 1 /\ y.done = y.roundId
              /\ y.until = Clock(i) + ElectionMin

\* Rounds that stay as they are.
LEMMA GrownIdle ==
  ASSUME NEW i, NEW x, RoundTypes(x)
  PROVE  Grown(i, x, x)
PROOF
  BY DEF Grown

\* broadcast_append opens a round.
LEMMA OpenRoundFacts ==
  ASSUME ~MembershipChanges, ReadTypes, NEW i \in InitialMembers, i \in Server,
         NEW n \in NodeState, NEW x, RoundTypes(x)
  PROVE  LET y == OpenRound(i, n, x)
         IN Grown(i, x, y) /\ y.roundId = x.roundId + 1 /\ y.waiters = x.waiters
PROOF
  <1> DEFINE r == x.roundId + 1
             b == now + ElectionMin
             z == [x EXCEPT !.roundId = r, !.open = r,
                            !.sentAt = @ \cup {<<r, Clock(i)>>}]
             y == Acknowledging(n, z, r, i, Clock(i))
  <1>1. x \in ReadState /\ Within(x, b) /\ Counted(x) /\ b \in Nat
    BY Bounds DEF RoundTypes, ReadTypes
  <1>2. Clock(i) \in Nat /\ Clock(i) + ElectionMin <= b /\ ElectionMin \in Nat
    BY Bounds DEF ReadTypes, Clock
  <1>3. x.roundId \in Nat /\ x.done \in Nat /\ r \in Nat /\ x.sentAt \in SUBSET (Nat \X Nat)
        /\ x.acks \in SUBSET (Nat \X InitialMembers)
    BY <1>1 DEF ReadState
  <1>4. /\ z.roundId = r /\ z.open = r /\ z.sentAt = x.sentAt \cup {<<r, Clock(i)>>}
        /\ z.acks = x.acks /\ z.done = x.done /\ z.until = x.until
        /\ z.termStart = x.termStart /\ z.waiters = x.waiters
    BY <1>1 DEF ReadState
  <1>5. z \in ReadState
    <2>1. z.sentAt \in SUBSET (Nat \X Nat)
      BY <1>2, <1>3, <1>4
    <2> QED
      BY <1>1, <1>3, <1>4, <2>1 DEF ReadState
  <1>6. Within(z, b)
    BY <1>1, <1>2, <1>4 DEF Within
  <1>7. Acks(z, y, r, i, b)
    BY <1>1, <1>3, <1>5, <1>6, AcknowledgingFacts
  <1>8. y.roundId = r /\ y.open = r /\ y.termStart = x.termStart /\ y.waiters = x.waiters
    BY <1>4, <1>7 DEF SameRounds, Acks
  <1>9. Counted(y)
    BY <1>1, <1>3, <1>4, <1>7, <1>8 DEF Counted, Acks
  <1>10. y.done = x.done \/ Confirmed(i, x, r)
    <2> SUFFICES ASSUME Electors(Ackers(z, r) \cup {i}) PROVE Confirmed(i, x, r)
      BY <1>4, <1>7 DEF Acks
    <2> DEFINE A == Ackers(z, r) \cup {i}
    <2>1. A \in SUBSET InitialMembers
      BY DEF Ackers
    <2>2. \A v \in A \ {i} : <<r, v>> \in x.acks
      BY <1>4 DEF Ackers
    <2> QED
      BY <2>1, <2>2 DEF Confirmed
  <1>11. Grown(i, x, y)
    BY <1>3, <1>4, <1>7, <1>8, <1>9, <1>10, SMTT(30) DEF Grown, RoundTypes, Acks
  <1> QED
    BY <1>3, <1>8, <1>11 DEF OpenRound

\* A response to a round that is still tracked acknowledges it.
LEMMA AckRoundFacts ==
  ASSUME ~MembershipChanges, ReadTypes, NEW i \in Server, NEW n \in NodeState,
         NEW x, RoundTypes(x), NEW r \in Nat, NEW p \in InitialMembers, InFlight(i, r, p)
  PROVE  LET y == AckRound(i, n, x, r, p)
         IN Grown(i, x, y) /\ y.roundId = x.roundId /\ y.waiters = x.waiters
PROOF
  <1> DEFINE y == Acknowledging(n, x, r, p, Clock(i))
             b == now + ElectionMin
  <1>1. CASE <<r, i>> \notin x.acks
    BY <1>1, GrownIdle DEF AckRound
  <1>2. CASE <<r, i>> \in x.acks
    <2>1. x \in ReadState /\ Within(x, b) /\ Counted(x) /\ b \in Nat
      BY Bounds DEF RoundTypes, ReadTypes
    <2>2. r <= x.roundId /\ x.roundId \in Nat /\ x.done \in Nat
      BY <1>2, <2>1 DEF ReadState, Counted
    <2>3. Acks(x, y, r, p, b)
      BY <2>1, AcknowledgingFacts
    <2>4. Counted(y)
      BY <2>1, <2>2, <2>3 DEF Acks, Counted, SameRounds
    <2>5. y.done = x.done \/ Confirmed(i, x, r)
      <3> SUFFICES ASSUME Electors(Ackers(x, r) \cup {p}) PROVE Confirmed(i, x, r)
        BY <2>3 DEF Acks
      <3> QED
        BY <2>2 DEF Confirmed, Ackers
    <2>6. \A a \in y.acks : a \in x.acks \/ InFlight(i, a[1], a[2])
      BY <2>2, <2>3 DEF Acks
    <2>7. Grown(i, x, y)
      BY <2>3, <2>4, <2>5, <2>6 DEF Acks, Grown, RoundTypes, SameRounds
    <2> QED
      BY <1>2, <2>3, <2>7 DEF Acks, AckRound, SameRounds
  <1> QED
    BY <1>1, <1>2
-----------------------------------------------------------------------------
(* What an event of a node does, whichever handler it is *)

\* A read that waits at node i, whose rounds become y: an old one, or a new one that joins
\* a round opened now, or one opened in this very instant.
Waits(i, y, w) ==
  \/ w \in rd[i].waiters
  \/ /\ node[i].role = Leader /\ w.read \in 1 .. Len(floor)
     /\ w.round = y.open /\ w.index = ReadBarrier(node[i], rd[i])
     /\ \/ y.roundId = rd[i].roundId + 1
        \/ i \in instant /\ rd[i].open # 0 /\ y.open = rd[i].open

\* Read s[1] may be answered at s[2]: by the lease, or because its round is done.
Replies(i, y, s) ==
  /\ node[i].role = Leader /\ s \in Nat \X Nat
  /\ \/ LeaseHeld(i) /\ s[1] \in 1 .. Len(floor) /\ s[2] >= ReadBarrier(node[i], rd[i])
     \/ \E w : /\ Waits(i, y, w) /\ w.round <= y.done
               /\ s[1] = w.read /\ s[2] >= w.index

\* What the handler may make of the rounds and the waiting reads of node i.
Reading(i, y) == Grown(i, rd[i], y) /\ \A w \in y.waiters : Waits(i, y, w)

\* Node i becomes a and its rounds y, less the reads that are answered; those of a node
\* that does not lead are forgotten.
Moves(i, a, y) ==
  /\ node' = [node EXCEPT ![i] = a]
  /\ Sane(a) /\ Bare(a) /\ Yields(node[i], a)
  /\ \E k \in Server : a.currentTerm <= node[k].currentTerm
  /\ Reading(i, y)
  /\ \E S : rd' = [rd EXCEPT ![i] =
                     IF a.role = Leader THEN [y EXCEPT !.waiters = @ \ S] ELSE Cleared(y)]
  /\ \A s \in served' : s \in served \/ Replies(i, y, s)
  /\ frozen' \subseteq frozen /\ committed' \in Nat /\ committed <= committed'
  /\ UNCHANGED <<floor, now, missed, readMode>>

\* It may respond to a broadcast that it has heard, or refuse one of an older term.
Speaks(i, a) ==
  /\ \/ contact' = contact
     \/ contact' = [contact EXCEPT ![i] = Clock(i)]
     \/ contact' = [contact EXCEPT ![i] = Never] /\ MaxRestarts # 0
  /\ \A m \in answers' :
       \/ m \in answers
       \/ \E b \in sent :
            /\ m \in RoundAnswer /\ i \in b.to
            /\ m.src = i /\ m.dst = b.src /\ m.round = b.round /\ m.term = a.currentTerm
            /\ b.term < m.term \/ contact' = [contact EXCEPT ![i] = Clock(i)]

\* It may broadcast a round that it opens.
Opens(i, a, y) ==
  /\ \/ sent' = sent /\ instant' \subseteq After(i)
     \/ /\ y.roundId = rd[i].roundId + 1 /\ instant' \subseteq After(i) \cup {i}
        /\ \A b \in sent' :
             \/ b \in sent
             \/ /\ b \in RoundBroadcast /\ b.src = i /\ i \notin b.to
                /\ b.round = y.roundId /\ b.term = a.currentTerm
  /\ used'.restarts \in Nat

Handled(i) == \E a, y : Moves(i, a, y) /\ Speaks(i, a) /\ Opens(i, a, y)

\* Nothing is ever compacted.
LEMMA ApplyBare ==
  ASSUME NEW i \in Server, NEW n, Sane(n), Bare(n)
  PROVE  Bare(ApplyCommitted(i, n))
PROOF
  <1>1. ApplyCommitted(i, n) = Applied(i, n)
    BY Bounds DEF MaybeCompact, ApplyCommitted
  <1>2. n \in NodeState
    BY DEF Sane
  <1>3. CASE ToApply(n) = {}
    BY <1>1, <1>3 DEF Applied
  <1>4. CASE ToApply(n) # {}
    <2> PICK top, hist, pend, byReq :
               LET a == [n EXCEPT !.lastApplied = top, !.sm = hist, !.pending = pend,
                                  !.pendingByReq = byReq]
               IN Applied(i, n) = IF SelfRemovals(i, n) = {} THEN a
                                  ELSE StepDown(a, n.currentTerm)
      BY <1>4, Zenon DEF Applied
    <2> DEFINE a == [n EXCEPT !.lastApplied = top, !.sm = hist, !.pending = pend,
                              !.pendingByReq = byReq]
    <2>1. Bare(a)
      BY <1>2 DEF Bare, NodeState
    <2>2. Bare(StepDown(a, n.currentTerm))
      BY <1>2 DEF Bare, NodeState, StepDown
    <2> QED
      BY <1>1, <2>1, <2>2
  <1> QED
    BY <1>3, <1>4

\* apply_committed and flush_reads follow every handler.
LEMMA PostMoves ==
  ASSUME ReadTypes, NEW i \in Server, NEW n, Sane(n), Bare(n), Yields(node[i], n),
         \E k \in Server : n.currentTerm <= node[k].currentTerm,
         NEW x, Reading(i, x), NEW early, \A s \in early : Replies(i, x, s),
         NEW out, Post(i, n, x, early, out)
  PROVE  /\ \E a : a.currentTerm = n.currentTerm /\ Moves(i, a, x)
         /\ answers' \subseteq answers \cup out
         /\ committed' = Larger(committed, ApplyCommitted(i, n).commitIndex)
PROOF
  <1> DEFINE a == ApplyCommitted(i, n)
             b == [a EXCEPT !.dirty = FALSE]
             y == IF a.role = Leader THEN x ELSE Cleared(x)
             k == a.lastApplied
  <1>1. Sane(a) /\ Keeps(n, a) /\ Bare(a)
    BY ApplyCommittedFacts, ApplyBare
  <1>2. /\ Sane(b) /\ Bare(b) /\ b.currentTerm = a.currentTerm /\ b.votedFor = a.votedFor
        /\ b.role = a.role /\ b.votes = a.votes /\ b.leaderId = a.leaderId
        /\ k \in Nat
    BY <1>1, ZenonT(60) DEF Sane, Bare, NodeState
  <1>3. Keeps(n, b)
    BY <1>1, <1>2 DEF Keeps
  <1>4. Yields(node[i], b)
    BY <1>2, <1>3, YieldsCompose DEF Sane, ReadTypes
  <1>5. node' = [node EXCEPT ![i] = b] /\ b.currentTerm = n.currentTerm
    BY <1>3 DEF Post, Keeps
  <1>6. x \in ReadState
    BY DEF Reading, Grown, RoundTypes
  <1>7. rd' = [rd EXCEPT ![i] = IF b.role = Leader THEN [x EXCEPT !.waiters = @ \ Ready(x, k)]
                                 ELSE Cleared(x)]
    <2>1. b.role # Leader => Flushed(Cleared(x), k) = Cleared(x)
      BY <1>6 DEF Flushed, Ready, Cleared, ReadState
    <2>2. rd' = [rd EXCEPT ![i] = Flushed(y, k)]
      BY DEF Post
    <2> QED
      BY <1>2, <2>1, <2>2 DEF Flushed
  <1>8. \A s \in served' : s \in served \/ Replies(i, x, s)
    <2>1. served' = served \cup early \cup Answered(y, k)
      BY DEF Post
    <2>2. ASSUME NEW w \in Ready(y, k) PROVE Replies(i, x, <<w.read, k>>)
      <3>1. b.role = Leader /\ y = x
        BY <1>2, <1>6 DEF Ready, Cleared, ReadState
      <3>2. w \in x.waiters /\ w.round <= x.done /\ k >= w.index /\ w.read \in Nat
        BY <1>6, <3>1 DEF Ready, ReadState
      <3>3. node[i].role = Leader
        BY <3>1, <1>4 DEF Yields, Follower, Leader
      <3>4. Waits(i, x, w)
        BY <3>2 DEF Reading
      <3> QED
        BY <1>2, <3>2, <3>3, <3>4 DEF Replies
    <2> QED
      BY <2>1, <2>2 DEF Answered
  <1>9. frozen' = frozen /\ UNCHANGED <<floor, now, missed, readMode>>
    BY DEF Post
  <1>10. answers' \subseteq answers \cup out /\ committed' = Larger(committed, a.commitIndex)
    BY DEF Post, Respond
  <1>11. committed' \in Nat /\ committed <= committed'
    <2>1. a \in NodeState
      BY <1>1 DEF Sane
    <2>2. a.commitIndex \in Nat
      BY <2>1 DEF NodeState
    <2>3. committed \in Nat
      BY DEF ReadTypes
    <2> HIDE DEF a
    <2> QED
      BY <1>10, <2>2, <2>3 DEF Larger
  <1>12. Moves(i, b, x)
    BY <1>2, <1>4, <1>5, <1>7, <1>8, <1>9, <1>11 DEF Moves
  <1> QED
    BY <1>5, <1>10, <1>12
-----------------------------------------------------------------------------
(* Where the leaders are, and how rounds and terms are numbered *)

\* Leaders are members, and their clocks are not stopped if none of those that win
\* elections can be.
Places ==
  /\ \A i \in Server : /\ node[i].role = Leader => i \in InitialMembers /\ i \in Electable
                       /\ missed[i] # 0 => i \in Freezable
  /\ frozen \subseteq Freezable

\* A broadcast was a round of its sender, in the present term if the round is still
\* tracked.
BroadcastNumbered(b) ==
  /\ b.round <= rd[b.src].roundId /\ b.term <= node[b.src].currentTerm
  /\ b.src \notin b.to
  /\ \A s \in rd[b.src].sentAt : s[1] = b.round => b.term = node[b.src].currentTerm

AnswerNumbered(a) ==
  /\ a.round <= rd[a.dst].roundId /\ a.term <= node[a.src].currentTerm
  /\ a.src # a.dst

Numbered ==
  /\ \A b \in sent : BroadcastNumbered(b)
  /\ \A a \in answers : AnswerNumbered(a)
  /\ \A i \in Server : node[i].role # Leader => rd[i] = Cleared(rd[i])

\* For every term that is reached there is a majority that has reached it.
TermsBacked ==
  \A j \in Server : node[j].currentTerm > 0 =>
    \E Q \in SUBSET InitialMembers :
      Electors(Q) /\ \A v \in Q : node[v].currentTerm >= node[j].currentTerm

\* What holds with leases or without.
RBase == ReadTypes /\ Places /\ Numbered /\ TermsBacked

-----------------------------------------------------------------------------
(* The handlers *)

\* What is known of a node and its rounds.
LEMMA NodeBase ==
  ASSUME RBase, NEW i \in Server
  PROVE  /\ node[i] \in NodeState /\ Sane(node[i]) /\ Bare(node[i])
         /\ RoundTypes(rd[i]) /\ rd[i] \in ReadState
         /\ node[i].currentTerm \in Nat /\ node[i].role \in Role
         /\ Reading(i, rd[i])
         /\ Yields(node[i], node[i])
PROOF
  <1>1. node[i] \in NodeState /\ Sane(node[i]) /\ Bare(node[i])
        /\ RoundTypes(rd[i]) /\ rd[i] \in ReadState
    BY DEF RBase, ReadTypes, RoundTypes
  <1>2. Grown(i, rd[i], rd[i])
    BY <1>1, GrownIdle
  <1>3. \A w \in rd[i].waiters : Waits(i, rd[i], w)
    BY DEF Waits
  <1>4. Yields(node[i], node[i])
    BY DEF Yields
  <1> QED
    BY <1>1, <1>2, <1>3, <1>4 DEF Reading, NodeState

\* A leader that opens a round keeps the reads that wait.
LEMMA OpenReading ==
  ASSUME ~MembershipChanges, RBase, NEW i \in Server, node[i].role = Leader
  PROVE  LET x == OpenRound(i, node[i], rd[i])
         IN /\ Reading(i, x) /\ x.roundId = rd[i].roundId + 1 /\ x.open = x.roundId
            /\ x.waiters = rd[i].waiters
            /\ Broadcast(i, node[i], x) \in RoundBroadcast /\ i \notin Peers(i, node[i])
PROOF
  <1> DEFINE x == OpenRound(i, node[i], rd[i])
  <1>1. i \in InitialMembers
    BY DEF RBase, Places
  <1>2. Grown(i, rd[i], x) /\ x.roundId = rd[i].roundId + 1 /\ x.waiters = rd[i].waiters
    BY <1>1, NodeBase, OpenRoundFacts DEF RBase
  <1>3. \A w \in x.waiters : Waits(i, x, w)
    BY <1>2 DEF Waits
  <1>4. x.open = x.roundId /\ x.open \in Nat
    BY <1>2, NodeBase DEF Grown, RoundTypes, ReadState
  <1>5. Peers(i, node[i]) = InitialMembers \ {i}
    BY NodeBase, FixedMembers
  <1>6. Broadcast(i, node[i], x) \in RoundBroadcast
    BY <1>1, <1>4, <1>5, NodeBase DEF Broadcast, RoundBroadcast, NodeState
  <1> QED
    BY <1>2, <1>3, <1>4, <1>5, <1>6 DEF Reading

\* What an event does that neither sends nor responds.
LEMMA QuietHandled ==
  ASSUME RBase, NEW i \in Server, NEW a, NEW y, Moves(i, a, y), Quiet(i), Speaks(i, a)
  PROVE  Handled(i)
PROOF
  <1>1. Opens(i, a, y)
    BY DEF Opens, Quiet, RBase, ReadTypes
  <1> QED
    BY <1>1 DEF Handled

\* And one that broadcasts the round it opens, and hears from nobody.
LEMMA SendHandled ==
  ASSUME ~MembershipChanges, RBase, NEW i \in Server, NEW a, NEW y, Moves(i, a, y),
         NEW x, Broadcast(i, node[i], x) \in RoundBroadcast, i \notin Peers(i, node[i]),
         y.roundId = rd[i].roundId + 1, x.open = y.roundId,
         a.currentTerm = node[i].currentTerm,
         Send(i, node[i], x), used'.restarts = used.restarts,
         contact' = contact, answers' \subseteq answers
  PROVE  Handled(i)
PROOF
  <1> DEFINE b == Broadcast(i, node[i], x)
  <1>1. b.src = i /\ i \notin b.to /\ b.round = y.roundId /\ b.term = a.currentTerm
    BY DEF Broadcast
  <1>2. Opens(i, a, y)
    BY <1>1 DEF Opens, Send, RBase, ReadTypes
  <1>3. Speaks(i, a)
    BY DEF Speaks
  <1> QED
    BY <1>2, <1>3 DEF Handled

\* on_tick of a leader.
LEMMA HeartbeatHandled ==
  ASSUME ~MembershipChanges, RBase, NEW i \in Server, Heartbeat(i)
  PROVE  Handled(i)
PROOF
  <1> DEFINE x == OpenRound(i, node[i], rd[i])
  <1>1. node[i].role = Leader /\ Post(i, node[i], x, {}, {}) /\ Send(i, node[i], x)
        /\ contact' = contact /\ used'.restarts = used.restarts
    BY DEF Heartbeat, MayBroadcast
  <1>2. /\ Reading(i, x) /\ x.roundId = rd[i].roundId + 1 /\ x.open = x.roundId
        /\ Broadcast(i, node[i], x) \in RoundBroadcast /\ i \notin Peers(i, node[i])
    BY <1>1, OpenReading
  <1>3. \E k \in Server : node[i].currentTerm <= node[k].currentTerm
    BY NodeBase
  <1> HIDE DEF x
  <1>4. PICK a : a.currentTerm = node[i].currentTerm /\ Moves(i, a, x)
    BY <1>1, <1>2, <1>3, NodeBase, PostMoves DEF RBase
  <1>5. answers' \subseteq answers
    BY <1>1 DEF Post, Respond
  <1> QED
    BY <1>1, <1>2, <1>4, <1>5, SendHandled

\* serve_read at a leader.
LEMMA ServeReadHandled ==
  ASSUME ~MembershipChanges, RBase, NEW i \in Server, NEW q \in 1 .. Len(floor),
         ServeRead(i, q)
  PROVE  Handled(i)
PROOF
  <1> DEFINE n == node[i]
             barrier == ReadBarrier(n, rd[i])
             opened == OpenRound(i, n, rd[i])
             new(x) == [round |-> x.open, index |-> barrier, read |-> q]
             Waiting(x) == [x EXCEPT !.waiters = @ \cup {new(x)}]
             byLease == LeaseHeld(i) /\ n.lastApplied >= barrier
  <1>1. n.role = Leader /\ contact' = contact
    BY DEF ServeRead
  <1>2. q \in Nat
    BY DEF RBase, ReadTypes
  <1>3. n.lastApplied \in Nat /\ barrier \in Nat
    BY NodeBase DEF NodeState, ReadState, ReadBarrier, Larger
  <1>4. \E k \in Server : n.currentTerm <= node[k].currentTerm
    BY NodeBase
  <1>5. ASSUME NEW x, Reading(i, x), x.waiters = rd[i].waiters,
               x.roundId = rd[i].roundId + 1 \/ (i \in instant /\ rd[i].open # 0 /\ x = rd[i])
        PROVE  /\ Reading(i, Waiting(x)) /\ Waiting(x).roundId = x.roundId
               /\ Waiting(x).open = x.open
    <2> DEFINE y == Waiting(x)
    <2>1. x \in ReadState /\ RoundTypes(x)
      BY <1>5 DEF Reading, Grown, RoundTypes
    <2>2. /\ y.roundId = x.roundId /\ y.open = x.open /\ y.done = x.done /\ y.acks = x.acks
          /\ y.sentAt = x.sentAt /\ y.until = x.until /\ y.termStart = x.termStart
          /\ y.waiters = x.waiters \cup {new(x)} /\ y = [x EXCEPT !.waiters = y.waiters]
      BY <2>1 DEF ReadState
    <2>3. new(x) \in [round : Nat, index : Nat, read : Nat]
      BY <1>2, <1>3, <2>1 DEF ReadState
    <2>4. y \in ReadState
      BY <2>1, <2>2, <2>3 DEF ReadState
    <2>5. Grown(i, rd[i], y)
      <3> HIDE DEF y
      <3> QED
        BY <1>5, <2>1, <2>2, <2>4 DEF Reading, Grown, RoundTypes, Within, Counted
    <2>6. \A w \in y.waiters : Waits(i, y, w)
      BY <1>1, <1>5, <2>2 DEF Waits
    <2> QED
      BY <2>2, <2>5, <2>6 DEF Reading
  <1>6. CASE byLease /\ Post(i, n, rd[i], {<<q, n.lastApplied>>}, {}) /\ Quiet(i)
    <2>1. Replies(i, rd[i], <<q, n.lastApplied>>)
      BY <1>1, <1>2, <1>3, <1>6 DEF Replies
    <2>2. PICK a : Moves(i, a, rd[i])
      BY <1>4, <1>6, <2>1, NodeBase, PostMoves DEF RBase
    <2>3. answers' \subseteq answers
      BY <1>6 DEF Post, Respond
    <2>4. Speaks(i, a)
      BY <1>1, <2>3 DEF Speaks
    <2> QED
      BY <1>6, <2>2, <2>4, QuietHandled
  <1>7. CASE i \in instant /\ rd[i].open # 0 /\ Post(i, n, Waiting(rd[i]), {}, {}) /\ Quiet(i)
    <2>1. Reading(i, Waiting(rd[i]))
      BY <1>5, <1>7, NodeBase
    <2> DEFINE y == Waiting(rd[i])
    <2> HIDE DEF y
    <2>2. PICK a : Moves(i, a, y)
      BY <1>4, <1>7, <2>1, NodeBase, PostMoves DEF RBase, y
    <2>3. answers' \subseteq answers
      BY <1>7 DEF Post, Respond
    <2>4. Speaks(i, a)
      BY <1>1, <2>3 DEF Speaks
    <2> QED
      BY <1>7, <2>2, <2>4, QuietHandled
  <1>8. CASE MayBroadcast /\ Post(i, n, Waiting(opened), {}, {}) /\ Send(i, n, opened)
    <2>1. /\ Reading(i, opened) /\ opened.roundId = rd[i].roundId + 1
          /\ opened.open = opened.roundId /\ opened.waiters = rd[i].waiters
          /\ Broadcast(i, n, opened) \in RoundBroadcast /\ i \notin Peers(i, n)
      BY <1>1, OpenReading
    <2> HIDE DEF opened
    <2>2. /\ Reading(i, Waiting(opened)) /\ Waiting(opened).roundId = opened.roundId
          /\ Waiting(opened).open = opened.open
      BY <1>5, <2>1
    <2> DEFINE y == Waiting(opened)
    <2> HIDE DEF y
    <2>3. PICK a : a.currentTerm = n.currentTerm /\ Moves(i, a, y)
      BY <1>4, <1>8, <2>2, NodeBase, PostMoves DEF RBase, y
    <2>4. answers' \subseteq answers
      BY <1>8 DEF Post, Respond
    <2>5. used'.restarts = used.restarts
      BY <1>8 DEF MayBroadcast
    <2> QED
      BY <1>1, <1>8, <2>1, <2>2, <2>3, <2>4, <2>5, SendHandled DEF y
  <1> QED
    BY <1>6, <1>7, <1>8 DEF ServeRead

\* handle_append_entries_resp.
LEMMA AppendEntriesRespHandled ==
  ASSUME ~MembershipChanges, RBase, NEW i \in Server, NEW m \in answers,
         HandleAppendEntriesResp(i, m)
  PROVE  Handled(i)
PROOF
  <1> DEFINE n == node[i]
             x == AckRound(i, n, rd[i], m.round, m.src)
             k == n.lastApplied
  <1>1. m.dst = i /\ Quiet(i) /\ contact' = contact
    BY DEF HandleAppendEntriesResp
  <1>2. /\ m \in RoundAnswer /\ m.term \in Nat /\ m.round \in Nat /\ m.match \in Nat
        /\ m.src \in InitialMembers /\ m.src \in Server
        /\ m.term <= node[m.src].currentTerm
    BY ServerAssumption DEF RBase, ReadTypes, RoundAnswer, Numbered, AnswerNumbered
  <1>3. n \in NodeState /\ Sane(n) /\ Bare(n) /\ n.currentTerm \in Nat /\ k \in Nat
    BY NodeBase DEF NodeState
  <1>4. CASE m.term > n.currentTerm /\ Post(i, StepDown(n, m.term), rd[i], {}, {})
    <2> DEFINE s == StepDown(n, m.term)
    <2>1. Sane(s) /\ Yields(n, s) /\ Bare(s) /\ s.currentTerm = m.term
      <3>1. Sane(s) /\ Yields(n, s)
        BY <1>2, <1>3, StepDownYields
      <3>2. s.currentTerm = Larger(m.term, n.currentTerm) /\ s.snapshotIndex = n.snapshotIndex
        BY <1>2, <1>3, StepDownFacts
      <3>3. Larger(m.term, n.currentTerm) = m.term
        BY <1>2, <1>3, <1>4 DEF Larger
      <3> QED
        BY <1>3, <3>1, <3>2, <3>3 DEF Bare
    <2>2. \E p \in Server : s.currentTerm <= node[p].currentTerm
      BY <1>2, <2>1
    <2> HIDE DEF s
    <2>3. PICK a : Moves(i, a, rd[i])
      BY <1>4, <2>1, <2>2, NodeBase, PostMoves DEF RBase, s
    <2>4. answers' \subseteq answers
      BY <1>4 DEF Post, Respond
    <2>5. Speaks(i, a)
      BY <1>1, <2>4 DEF Speaks
    <2> QED
      BY <1>1, <2>3, <2>5, QuietHandled
  <1>5. CASE /\ m.term = n.currentTerm /\ n.role = Leader
             /\ Post(i, Acknowledged(i, n, m.src, m.match), Flushed(x, k), Answered(x, k), {})
    <2> DEFINE s == Acknowledged(i, n, m.src, m.match)
               y == Flushed(x, k)
    <2>1. Sane(s) /\ Yields(n, s) /\ s.currentTerm = n.currentTerm
      <3>1. Sane(s) /\ Keeps(n, s)
        BY <1>2, <1>3, AcknowledgedFacts
      <3>2. s \in NodeState
        BY <3>1 DEF Sane
      <3>3. Yields(n, s)
        BY <1>3, <3>1, <3>2, YieldsCompose
      <3> QED
        BY <3>1, <3>3 DEF Keeps
    <2>2. Bare(s)
      <3> PICK mat, nxt : s = AdvanceCommit(i, [n EXCEPT !.matchIndex = mat, !.nextIndex = nxt])
        BY Zenon DEF Acknowledged
      <3>1. [n EXCEPT !.matchIndex = mat, !.nextIndex = nxt].snapshotIndex = 0
        BY <1>3 DEF Bare, NodeState
      <3>2. \A c : [[n EXCEPT !.matchIndex = mat, !.nextIndex = nxt]
                      EXCEPT !.commitIndex = c].snapshotIndex = 0
        BY <1>3 DEF Bare, NodeState
      <3> QED
        BY <3>1, <3>2 DEF Bare, AdvanceCommit
    <2>3. \E p \in Server : s.currentTerm <= node[p].currentTerm
      BY <1>3, <2>1
    <2>4. InFlight(i, m.round, m.src)
      BY <1>1, <1>5 DEF InFlight
    <2>5. Grown(i, rd[i], x) /\ x.roundId = rd[i].roundId /\ x.waiters = rd[i].waiters
      BY <1>2, <1>3, <2>4, NodeBase, AckRoundFacts DEF RBase
    <2> HIDE DEF x
    <2>6. x \in ReadState /\ RoundTypes(x)
      BY <2>5 DEF Grown, RoundTypes
    <2>7. /\ y.roundId = x.roundId /\ y.open = x.open /\ y.done = x.done /\ y.acks = x.acks
          /\ y.sentAt = x.sentAt /\ y.until = x.until /\ y.termStart = x.termStart
          /\ y.waiters = x.waiters \ Ready(x, k) /\ y \in ReadState
      BY <2>6 DEF ReadState, Flushed
    <2>8. Grown(i, rd[i], y)
      <3> HIDE DEF y
      <3> QED
        BY <2>5, <2>6, <2>7 DEF Grown, RoundTypes, Within, Counted
    <2>9. Reading(i, y)
      BY <2>5, <2>7, <2>8 DEF Reading, Waits
    <2>10. \A e \in Answered(x, k) : Replies(i, y, e)
      <3> TAKE e \in Answered(x, k)
      <3>1. PICK w \in Ready(x, k) : e = <<w.read, k>>
        BY DEF Answered
      <3>2. w \in rd[i].waiters /\ w.round <= y.done /\ k >= w.index /\ w.read \in Nat
        BY <2>5, <2>6, <2>7, <3>1 DEF Ready, ReadState
      <3>3. Waits(i, y, w) /\ e[1] = w.read /\ e[2] = k /\ e \in Nat \X Nat
        BY <1>3, <3>1, <3>2 DEF Waits
      <3> QED
        BY <1>5, <3>2, <3>3 DEF Replies
    <2> DEFINE early == Answered(x, k)
    <2> HIDE DEF s, y, early
    <2>11. PICK a : Moves(i, a, y)
      BY <1>5, <2>1, <2>2, <2>3, <2>9, <2>10, PostMoves DEF RBase, s, y, early
    <2>12. answers' \subseteq answers
      BY <1>5 DEF Post, Respond
    <2>13. Speaks(i, a)
      BY <1>1, <2>12 DEF Speaks
    <2> QED
      BY <1>1, <2>11, <2>13, QuietHandled
  <1> QED
    BY <1>4, <1>5 DEF HandleAppendEntriesResp

\* The AppendEntries of a broadcast, as node n reads it.
AsAppend(i, n, b) ==
  [type |-> "AppendEntries", src |-> b.src, dst |-> i, term |-> b.term,
   prevLogIndex |-> 0, prevLogTerm |-> n.snapshotTerm, entries |-> b.log,
   leaderCommit |-> b.commit]

\* What node n makes of a broadcast that it does not refuse.
Heeded(i, n, b) ==
  LET m == AsAppend(i, n, b)
  IN LearnCommit(MergeEntries(i, Recognise(n, m), m), m)

\* Hearing a leader yields, and takes the term of the leader.
LEMMA HeededFacts ==
  ASSUME NEW i \in Server, NEW n, Sane(n), Bare(n), NEW b \in RoundBroadcast,
         ~(b.term < n.currentTerm)
  PROVE  LET s == Heeded(i, n, b)
         IN Sane(s) /\ Bare(s) /\ Yields(n, s) /\ s.currentTerm = b.term
PROOF
  <1> DEFINE m == AsAppend(i, n, b)
             r == Recognise(n, m)
             e == MergeEntries(i, r, m)
             s == LearnCommit(e, m)
  <1>1. n \in NodeState
    BY DEF Sane
  <1>2. /\ m \in AppendEntries /\ m.term = b.term /\ m.src = b.src /\ m.term \in Nat
        /\ m.src \in Server /\ m.prevLogIndex = 0 /\ m.prevLogTerm = n.snapshotTerm
    BY <1>1, ServerAssumption DEF AsAppend, AppendEntries, RoundBroadcast, NodeState
  <1> HIDE DEF m
  <1>3. Sane(r) /\ Yields(n, r) /\ KeepsLog(n, r) /\ r.currentTerm = b.term
    BY <1>1, <1>2, RecogniseFacts, RecogniseKeeps DEF Stale
  <1>4. r \in NodeState /\ Bare(r) /\ r.snapshotTerm = n.snapshotTerm
    BY <1>3 DEF Sane, Bare, KeepsLog, SameLog
  <1> HIDE DEF r
  <1>5. PrevMatches(r, m)
    <2>1. Len(r.log) \in Nat
      BY <1>4, LogFacts
    <2> QED
      BY <1>2, <1>4, <2>1 DEF PrevMatches, HasIndex, TermAt, LastIndex, Bare
  <1>6. Sane(e) /\ Keeps(r, e)
    BY <1>2, <1>3, <1>5, MergeEntriesFacts
  <1>7. Bare(e)
    <2>1. CASE Fresh(r, m) = {}
      BY <1>4, <2>1 DEF MergeEntries
    <2>2. CASE Fresh(r, m) # {}
      <3> PICK log, base, new :
            /\ e = ApplyConfig(i, [r EXCEPT !.log = log, !.dirty = TRUE], base, new)
        BY <2>2, Zenon DEF MergeEntries
      <3> DEFINE u == [r EXCEPT !.log = log, !.dirty = TRUE]
      <3>1. \A M, c : /\ u.snapshotIndex = 0 /\ SetMembers(i, u, M).snapshotIndex = 0
                      /\ [SetMembers(i, u, M) EXCEPT !.configIndex = c].snapshotIndex = 0
        BY <1>4 DEF Bare, SetMembers, NodeState
      <3> QED
        BY <3>1 DEF ApplyConfig, Bare
    <2> QED
      BY <2>1, <2>2
  <1> HIDE DEF e
  <1>8. Sane(s) /\ Keeps(e, s)
    BY <1>2, <1>6, LearnCommitFacts
  <1>9. Bare(s)
    BY <1>6, <1>7 DEF LearnCommit, Bare, Sane, NodeState
  <1>10. Yields(n, s) /\ s.currentTerm = b.term
    <2>1. e \in NodeState /\ s \in NodeState
      BY <1>6, <1>8 DEF Sane
    <2>2. Keeps(r, s)
      BY <1>6, <1>8, RelationsCompose
    <2> QED
      BY <1>1, <1>3, <1>4, <2>1, <2>2, YieldsCompose DEF Keeps
  <1> QED
    BY <1>8, <1>9, <1>10 DEF Heeded, m, r, e

\* The handler reads nothing else of the message.
LEMMA HeededIs ==
  ASSUME NEW i, NEW n, NEW b
  PROVE  LET m == [src |-> b.src, term |-> b.term, prevLogIndex |-> 0, entries |-> b.log,
                   leaderCommit |-> b.commit]
         IN /\ LearnCommit(MergeEntries(i, Recognise(n, m), m), m) = Heeded(i, n, b)
            /\ Stale(n, m) <=> b.term < n.currentTerm
PROOF
  <1> DEFINE m == [src |-> b.src, term |-> b.term, prevLogIndex |-> 0, entries |-> b.log,
                   leaderCommit |-> b.commit]
             M == AsAppend(i, n, b)
             r == Recognise(n, M)
  <1>1. /\ M.src = m.src /\ M.term = m.term /\ M.prevLogIndex = m.prevLogIndex
        /\ M.entries = m.entries /\ M.leaderCommit = m.leaderCommit /\ m.term = b.term
    BY DEF AsAppend
  <1> HIDE DEF M, m
  <1>2. Recognise(n, m) = r
    BY <1>1 DEF Recognise
  <1> HIDE DEF r
  <1>3. Fresh(r, m) = Fresh(r, M)
    BY <1>1 DEF Fresh
  <1>4. MergeEntries(i, r, m) = MergeEntries(i, r, M)
    BY <1>1, <1>3 DEF MergeEntries
  <1>5. LearnCommit(MergeEntries(i, r, M), m) = LearnCommit(MergeEntries(i, r, M), M)
    BY <1>1 DEF LearnCommit
  <1>6. Stale(n, m) <=> b.term < n.currentTerm
    BY <1>1 DEF Stale
  <1> QED
    BY <1>2, <1>4, <1>5, <1>6 DEF Heeded, M, m, r

\* handle_append_entries.
LEMMA AppendEntriesHandled ==
  ASSUME ~MembershipChanges, RBase, NEW i \in Server, NEW b \in sent,
         HandleAppendEntries(i, b)
  PROVE  Handled(i)
PROOF
  <1> DEFINE n == node[i]
             s == Heeded(i, n, b)
             Answer(t, match) ==
               {[src |-> i, dst |-> b.src, term |-> t, round |-> b.round, match |-> match]}
  <1>1. /\ i \in b.to /\ Quiet(i)
        /\ \/ /\ b.term < n.currentTerm
              /\ Post(i, n, rd[i], {}, Answer(n.currentTerm, 0))
              /\ contact' = contact
           \/ /\ ~(b.term < n.currentTerm)
              /\ Post(i, s, rd[i], {}, Answer(s.currentTerm, Len(b.log)))
              /\ contact' = [contact EXCEPT ![i] = Clock(i)]
    BY HeededIs DEF HandleAppendEntries
  <1>2. /\ b \in RoundBroadcast /\ b.term \in Nat /\ b.round \in Nat /\ Len(b.log) \in Nat
        /\ b.src \in Server /\ b.term <= node[b.src].currentTerm
        /\ i \in InitialMembers /\ b.src \in InitialMembers
    BY <1>1, ServerAssumption DEF RBase, ReadTypes, RoundBroadcast, Numbered, BroadcastNumbered
  <1>3. n \in NodeState /\ Sane(n) /\ Bare(n) /\ n.currentTerm \in Nat
    BY NodeBase
  <1>4. ASSUME NEW a, NEW match \in Nat, a.currentTerm \in Nat,
               answers' \subseteq answers \cup Answer(a.currentTerm, match),
               \/ contact' = contact /\ b.term < a.currentTerm
               \/ contact' = [contact EXCEPT ![i] = Clock(i)]
        PROVE  Speaks(i, a)
    <2>1. \A m \in Answer(a.currentTerm, match) :
            /\ m \in RoundAnswer /\ m.src = i /\ m.dst = b.src /\ m.round = b.round
            /\ m.term = a.currentTerm
      BY <1>2, <1>4 DEF RoundAnswer
    <2> HIDE DEF Answer
    <2> QED
      BY <1>1, <1>4, <2>1 DEF Speaks
  <1>5. CASE /\ b.term < n.currentTerm
             /\ Post(i, n, rd[i], {}, Answer(n.currentTerm, 0))
             /\ contact' = contact
    <2> DEFINE out == Answer(n.currentTerm, 0)
    <2> HIDE DEF out
    <2>1. \E k \in Server : n.currentTerm <= node[k].currentTerm
      BY <1>3
    <2>2. PICK a : a.currentTerm = n.currentTerm /\ Moves(i, a, rd[i])
      BY <1>5, <2>1, NodeBase, PostMoves DEF RBase, out
    <2>3. answers' \subseteq answers \cup out
      BY <1>5 DEF Post, Respond, out
    <2>4. Speaks(i, a)
      BY <1>3, <1>4, <1>5, <2>2, <2>3 DEF out
    <2> QED
      BY <1>1, <2>2, <2>4, QuietHandled
  <1>6. CASE /\ ~(b.term < n.currentTerm)
             /\ Post(i, s, rd[i], {}, Answer(s.currentTerm, Len(b.log)))
             /\ contact' = [contact EXCEPT ![i] = Clock(i)]
    <2> DEFINE out == Answer(s.currentTerm, Len(b.log))
    <2>1. Sane(s) /\ Bare(s) /\ Yields(n, s) /\ s.currentTerm = b.term
      BY <1>2, <1>3, <1>6, HeededFacts
    <2>2. \E k \in Server : s.currentTerm <= node[k].currentTerm
      BY <1>2, <2>1
    <2> HIDE DEF s, out
    <2>3. PICK a : a.currentTerm = s.currentTerm /\ Moves(i, a, rd[i])
      BY <1>6, <2>1, <2>2, NodeBase, PostMoves DEF RBase, out
    <2>4. answers' \subseteq answers \cup out
      BY <1>6 DEF Post, Respond, out
    <2>5. Speaks(i, a)
      BY <1>2, <1>4, <1>6, <2>1, <2>3, <2>4 DEF out
    <2> QED
      BY <1>1, <2>3, <2>5, QuietHandled
  <1> QED
    BY <1>1, <1>5, <1>6

\* A crash and the restart.
LEMMA RestartHandled ==
  ASSUME ~MembershipChanges, RBase, NEW i \in Server, Restart(i)
  PROVE  Handled(i)
PROOF
  <1> DEFINE n == node[i]
             d == Durable(n)
             r == Restarted(i, n, d)
             a == [r EXCEPT !.dirty = FALSE]
  <1>1. n \in NodeState /\ Sane(n) /\ Bare(n) /\ n.currentTerm \in Nat /\ n.preTerm \in Nat
    BY NodeBase DEF NodeState
  <1>2. d \in DurableState /\ d.currentTerm = n.currentTerm /\ d.votedFor = n.votedFor
    BY <1>1 DEF Durable, DurableState, NodeState
  <1>3. Sane(r) /\ r.currentTerm = n.currentTerm /\ r.votedFor = n.votedFor
        /\ r.role = Follower
    BY <1>1, <1>2, RestartedFacts
  <1>4. Bare(r)
    <2> PICK s : r = RebuildConfig(i, s) /\ s \in NodeState /\ s.snapshotIndex = 0
      <3> DEFINE u == RestoreMachine(InitNode, d.snapshotData, d.snapshotIndex)
                 s == [u EXCEPT
                         !.currentTerm = d.currentTerm, !.votedFor = d.votedFor, !.log = d.log,
                         !.snapshotIndex = d.snapshotIndex, !.snapshotTerm = d.snapshotTerm,
                         !.snapshotData = d.snapshotData,
                         !.snapshotMembers = d.snapshotMembers,
                         !.commitIndex = d.snapshotIndex, !.preTerm = n.preTerm,
                         !.dirty = TRUE]
      <3>1. InitNode \in NodeState
        BY InitNodeFacts DEF Sane
      <3>2. u = [InitNode EXCEPT !.sm = d.snapshotData, !.lastApplied = d.snapshotIndex]
        BY DEF RestoreMachine
      <3>3. /\ d.currentTerm \in Nat /\ d.votedFor \in Server \cup {Nil} /\ d.log \in Seq(LogEntry)
            /\ d.snapshotIndex \in Nat /\ d.snapshotTerm \in TermOrNone
            /\ d.snapshotData \in Seq(Command) /\ d.snapshotMembers \in Configuration
            /\ d.snapshotIndex = 0
        BY <1>1, <1>2 DEF DurableState, Durable, Bare
      <3>4. r = RebuildConfig(i, s)
        BY Zenon DEF Restarted
      <3> HIDE DEF d, n
      <3>5. u \in NodeState
        BY <3>1, <3>2, <3>3, ZenonT(90) DEF NodeState
      <3> HIDE DEF u
      <3>6. s \in NodeState
        BY <1>1, <3>3, <3>5, ZenonT(90) DEF NodeState
      <3>7. s.snapshotIndex = 0
        BY <3>3, <3>5, SMTT(30) DEF NodeState
      <3> QED
        BY <3>4, <3>6, <3>7
    <2> QED
      BY RebuildConfigFacts DEF Bare, Tracked
  <1> HIDE DEF r
  <1>5. /\ a.currentTerm = n.currentTerm /\ a.votedFor = n.votedFor /\ a.role = Follower
        /\ Sane(a) /\ Bare(a)
    BY <1>3, <1>4, ZenonT(60) DEF Sane, Bare, NodeState
  <1>6. /\ node' = [node EXCEPT ![i] = a] /\ rd' = [rd EXCEPT ![i] = Cleared(rd[i])]
        /\ contact' = [contact EXCEPT ![i] = Never] /\ sent' = sent
        /\ frozen' \subseteq frozen /\ instant' \subseteq After(i)
        /\ answers' \subseteq answers /\ served' = served
        /\ UNCHANGED <<committed, floor, now, missed, readMode>>
    BY DEF Restart, Respond, After, r
  <1>7. used'.restarts \in Nat /\ MaxRestarts # 0 /\ committed \in Nat
    BY Bounds DEF Restart, RBase, ReadTypes
  <1> HIDE DEF a
  <1>8. Yields(n, a)
    BY <1>5 DEF Yields
  <1>9. Moves(i, a, rd[i])
    BY <1>1, <1>5, <1>6, <1>7, <1>8, NodeBase DEF Moves, Follower, Leader
  <1>10. Speaks(i, a) /\ Opens(i, a, rd[i])
    BY <1>6, <1>7 DEF Speaks, Opens
  <1> QED
    BY <1>9, <1>10 DEF Handled

-----------------------------------------------------------------------------
(* An election *)

\* Member v does not believe that a leader is at work.
Unled(v) ==
  LeaderStickiness /\ contact[v] # Never => Clock(v) - contact[v] >= ElectionMin

\* Candidate i wins the next term with the votes of Q.
VotesWon(i, Q) ==
  LET T == node[i].currentTerm + 1
  IN /\ i \in Q /\ Q \in SUBSET InitialMembers /\ Electors(Q) /\ i \in Electable
     /\ node[i].role # Leader /\ node'[i].role = Leader
     /\ \A v \in Q : /\ node'[v].currentTerm = T /\ node[v].currentTerm < T /\ Unled(v)
                     /\ v # i => node'[v].role # Leader
     /\ \A v \in Server \ Q : node'[v] = node[v]

\* The rounds of i begin with a new one, those of its voters end.
RoundsBegin(i, Q) ==
  LET x == [Cleared(rd[i]) EXCEPT !.termStart = LastIndex(node[i]) + 1]
  IN /\ DOMAIN rd' = Server
     /\ Grown(i, x, rd'[i]) /\ rd'[i].roundId = rd[i].roundId + 1 /\ rd'[i].waiters = {}
     /\ \A v \in Server \ {i} : rd'[v] = IF v \in Q THEN Cleared(rd[v]) ELSE rd[v]

\* The first broadcast of the new leader is all that is sent.
FirstRound(i) ==
  /\ \A b \in sent' :
       \/ b \in sent
       \/ /\ b \in RoundBroadcast /\ b.src = i /\ i \notin b.to
          /\ b.round = rd'[i].roundId /\ b.term = node'[i].currentTerm
  /\ answers' \subseteq answers /\ instant' \subseteq After(i) \cup {i}
  /\ used'.restarts = used.restarts
  /\ UNCHANGED <<contact, committed, floor, served, now, missed, frozen, readMode>>

Won(i, Q) ==
  /\ node' \in [Server -> NodeState] /\ \A v \in Server : Sane(node'[v]) /\ Bare(node'[v])
  /\ VotesWon(i, Q) /\ RoundsBegin(i, Q) /\ FirstRound(i)

\* Clearing the rounds of a node leaves rounds.
LEMMA ClearedTypes ==
  ASSUME NEW x, RoundTypes(x), now + ElectionMin >= 0
  PROVE  /\ RoundTypes(Cleared(x)) /\ Cleared(x).roundId = x.roundId
         /\ Cleared(x).acks = {} /\ Cleared(x).sentAt = {} /\ Cleared(x).until = 0
         /\ Cleared(x).open = 0 /\ Cleared(x).done = 0 /\ Cleared(x).waiters = {}
         /\ Cleared(x).termStart = x.termStart
         /\ Cleared(Cleared(x)) = Cleared(x)
PROOF
  <1> DEFINE y == Cleared(x)
  <1>1. x \in ReadState
    BY DEF RoundTypes
  <1>2. /\ y.roundId = x.roundId /\ y.termStart = x.termStart
        /\ y.acks = {} /\ y.sentAt = {} /\ y.until = 0 /\ y.open = 0 /\ y.done = 0
        /\ y.waiters = {} /\ y \in ReadState
    BY <1>1 DEF Cleared, ReadState
  <1>3. Cleared(y) = y
    BY <1>1 DEF Cleared, ReadState
  <1>4. x.roundId \in Nat
    BY <1>1 DEF ReadState
  <1> HIDE DEF y
  <1>5. Within(y, now + ElectionMin) /\ Counted(y)
    BY <1>2, <1>4 DEF Within, Counted
  <1> QED
    BY <1>2, <1>3, <1>5 DEF RoundTypes, y

\* An election is won so.
LEMMA ElectWon ==
  ASSUME ~MembershipChanges, RBase, NEW i \in Server, NEW Q \in SUBSET Server, Elect(i, Q)
  PROVE  Won(i, Q)
PROOF
  <1> DEFINE c == Campaign(i, node[i])
             e == [c EXCEPT !.votes = Q]
             n == BecomeLeader(i, e)
             T == node[i].currentTerm + 1
             Votes(v) == VoteFor(StepDown(node[v], c.currentTerm), i)
             z == [Cleared(rd[i]) EXCEPT !.termStart = LastIndex(c) + 1]
             x == OpenRound(i, n, z)
  <1>1. /\ i \in Electable /\ node[i].role # Leader /\ i \in Q /\ Q \subseteq node[i].members
        /\ Cardinality(Q) >= Majority(node[i])
        /\ contact[i] # Never => Clock(i) - contact[i] >= ElectionMin
        /\ \A v \in Q \ {i} : ~InLeaderLease(v) /\ node[v].currentTerm < c.currentTerm
        /\ node' = [v \in Server |-> IF v = i THEN n ELSE IF v \in Q THEN Votes(v) ELSE node[v]]
        /\ rd' = [v \in Server |-> IF v = i THEN x ELSE IF v \in Q THEN Cleared(rd[v])
                                                   ELSE rd[v]]
        /\ Send(i, n, x) /\ used'.restarts = used.restarts /\ Respond({})
        /\ UNCHANGED <<contact, committed, floor, served, now, missed, frozen, readMode>>
    BY DEF Elect
  <1>2. node[i] \in NodeState /\ Sane(node[i]) /\ Bare(node[i]) /\ node[i].currentTerm \in Nat
    BY NodeBase
  <1>3. /\ c \in NodeState /\ c.currentTerm = T /\ c.log = node[i].log
        /\ c.snapshotIndex = node[i].snapshotIndex /\ c.lastApplied = node[i].lastApplied
    <2> DEFINE o == node[i]
    <2> HIDE DEF o
    <2>1. o \in NodeState /\ c = Campaign(i, o)
      BY <1>2 DEF o
    <2> HIDE DEF c
    <2>2. /\ c \in NodeState /\ c.currentTerm = o.currentTerm + 1 /\ c.log = o.log
          /\ c.snapshotIndex = o.snapshotIndex /\ c.lastApplied = o.lastApplied
      BY <2>1, CampaignFacts
    <2> QED
      BY <2>2 DEF o
  <1>4. Q \in SUBSET InitialMembers /\ Electors(Q) /\ i \in InitialMembers
    BY <1>1, <1>2, FixedMembers DEF Electors, Majority
  <1> HIDE DEF c
  <1>5. /\ e \in NodeState /\ e.currentTerm = T /\ e.snapshotIndex = node[i].snapshotIndex
        /\ e.lastApplied = node[i].lastApplied
    BY <1>3, ZenonT(60) DEF NodeState
  <1> HIDE DEF e
  <1>6. n \in NodeState /\ n.currentTerm = T /\ n.role = Leader /\ Sane(n) /\ Bare(n)
    <2>1. /\ n \in NodeState /\ n.currentTerm = e.currentTerm /\ n.role = Leader
          /\ n.snapshotIndex = e.snapshotIndex /\ n.lastApplied = e.lastApplied
      BY <1>5, BecomeLeaderFacts
    <2> QED
      BY <1>2, <1>5, <2>1 DEF Sane, Bare
  <1> HIDE DEF n
  <1>7. ASSUME NEW v \in Q \ {i}
        PROVE  /\ Sane(Votes(v)) /\ Bare(Votes(v)) /\ Votes(v) \in NodeState
               /\ Votes(v).currentTerm = T /\ Votes(v).role = Follower
    <2> DEFINE s == StepDown(node[v], c.currentTerm)
    <2>1. v \in Server /\ node[v] \in NodeState /\ Sane(node[v]) /\ Bare(node[v])
          /\ node[v].currentTerm \in Nat /\ c.currentTerm \in Nat /\ T \in Nat
      BY <1>2, <1>3, NodeBase
    <2>2. Sane(s)
      BY <2>1, StepDownYields
    <2>3. s.currentTerm = Larger(c.currentTerm, node[v].currentTerm) /\ s.role = Follower
          /\ s.snapshotIndex = node[v].snapshotIndex
      BY <2>1, StepDownFacts
    <2>4. s.currentTerm = T /\ Bare(s)
      BY <1>1, <1>3, <2>1, <2>3 DEF Larger, Bare
    <2> HIDE DEF s
    <2>5. Sane(VoteFor(s, i)) /\ VoteFor(s, i).currentTerm = T /\ VoteFor(s, i).role = Follower
      BY <2>2, <2>3, <2>4, VoteForFacts
    <2>6. Bare(VoteFor(s, i))
      BY <2>2, <2>4 DEF Bare, VoteFor, Sane, NodeState
    <2> QED
      BY <2>5, <2>6 DEF s, Sane
  <1> HIDE DEF Votes
  <1>8. node' \in [Server -> NodeState] /\ \A v \in Server : Sane(node'[v]) /\ Bare(node'[v])
    BY <1>1, <1>6, <1>7, NodeBase
  <1>9. \A v \in Q : Unled(v)
    <2> TAKE v \in Q
    <2>1. Clock(v) \in Int /\ contact[v] \in Int /\ ElectionMin \in Int
      BY Bounds DEF ReadTypes, RBase, Clock, Never
    <2>2. CASE v = i
      BY <1>1, <2>2 DEF Unled
    <2>3. CASE v # i
      BY <1>1, <2>1, <2>3 DEF Unled, InLeaderLease
    <2> QED
      BY <2>2, <2>3
  <1>10. VotesWon(i, Q)
    <2>1. \A v \in Q : v # i => node'[v].currentTerm = T /\ node'[v].role # Leader
      BY <1>1, <1>7 DEF Follower, Leader
    <2>2. node'[i].currentTerm = T /\ node'[i].role = Leader
      BY <1>1, <1>6
    <2>3. \A v \in Q : node[v].currentTerm < T
      BY <1>1, <1>2, <1>3
    <2>4. \A v \in Server \ Q : node'[v] = node[v]
      BY <1>1
    <2> QED
      BY <1>1, <1>4, <1>9, <2>1, <2>2, <2>3, <2>4 DEF VotesWon
  <1>11. RoundTypes(z) /\ z.roundId = rd[i].roundId /\ z.waiters = {}
    <2>1. RoundTypes(Cleared(rd[i])) /\ Cleared(rd[i]).roundId = rd[i].roundId
          /\ Cleared(rd[i]).waiters = {}
      BY NodeBase, ClearedTypes, Bounds DEF RBase, ReadTypes
    <2>2. LastIndex(c) + 1 \in Nat
      BY <1>3, LogFacts
    <2>3. Cleared(rd[i]) \in ReadState
      BY <2>1 DEF RoundTypes
    <2>4. /\ z \in ReadState /\ z.roundId = Cleared(rd[i]).roundId
          /\ z.open = Cleared(rd[i]).open /\ z.done = Cleared(rd[i]).done
          /\ z.acks = Cleared(rd[i]).acks /\ z.sentAt = Cleared(rd[i]).sentAt
          /\ z.until = Cleared(rd[i]).until /\ z.waiters = Cleared(rd[i]).waiters
      BY <2>2, <2>3 DEF ReadState
    <2> HIDE DEF z
    <2> QED
      BY <2>1, <2>4 DEF RoundTypes, Within, Counted
  <1>12. z = [Cleared(rd[i]) EXCEPT !.termStart = LastIndex(node[i]) + 1]
    BY <1>3 DEF LastIndex
  <1> DEFINE Z == [Cleared(rd[i]) EXCEPT !.termStart = LastIndex(node[i]) + 1]
  <1> HIDE DEF z
  <1>13. Grown(i, z, x) /\ x.roundId = rd[i].roundId + 1 /\ x.waiters = {}
    BY <1>4, <1>6, <1>11, OpenRoundFacts DEF RBase
  <1>14. x.open = x.roundId /\ x.open \in Nat
    BY <1>11, <1>13 DEF Grown, RoundTypes, ReadState
  <1> HIDE DEF x
  <1>15. RoundsBegin(i, Q)
    BY <1>1, <1>12, <1>13 DEF RoundsBegin
  <1>16. Peers(i, n) = InitialMembers \ {i}
    BY <1>6, FixedMembers
  <1>17. /\ Broadcast(i, n, x) \in RoundBroadcast /\ i \notin Peers(i, n)
    BY <1>4, <1>6, <1>14, <1>16 DEF Broadcast, RoundBroadcast, NodeState
  <1>18. FirstRound(i)
    <2>1. node'[i] = n /\ rd'[i] = x
      BY <1>1
    <2>2. Broadcast(i, n, x).src = i /\ Broadcast(i, n, x).to = Peers(i, n)
          /\ Broadcast(i, n, x).round = x.roundId /\ Broadcast(i, n, x).term = n.currentTerm
      BY <1>14 DEF Broadcast
    <2> QED
      BY <1>1, <1>17, <2>1, <2>2 DEF FirstRound, Send, Respond
  <1> QED
    BY <1>8, <1>10, <1>15, <1>18 DEF Won

-----------------------------------------------------------------------------
(* Every step *)

\* Time passes, a clock is stopped or started, or a client begins a read.
Passing ==
  /\ \/ /\ now' = now + 1 /\ floor' = floor /\ instant' \subseteq frozen
        /\ missed' = [i \in Server |-> IF i \in frozen THEN missed[i] + 1 ELSE missed[i]]
     \/ now' = now /\ missed' = missed /\ floor' = floor
     \/ /\ now' = now /\ missed' = missed /\ instant' \subseteq frozen
        /\ floor' = Append(floor, committed)
  /\ frozen' \subseteq frozen \cup Freezable /\ instant' \subseteq instant
  /\ used'.restarts = used.restarts
  /\ UNCHANGED <<node, rd, contact, sent, answers, committed, served, readMode>>

\* A step is an event of a node, an election, or neither.
LEMMA ReadSteps ==
  ASSUME ~MembershipChanges, RBase, [Next]_vars
  PROVE  \/ \E i \in Server : Handled(i)
         \/ \E i \in Server, Q \in SUBSET Server : Elect(i, Q) /\ Won(i, Q)
         \/ Passing
PROOF
  <1>1. CASE UNCHANGED vars
    BY <1>1 DEF vars, Passing
  <1>2. CASE BeginRead
    BY <1>2 DEF BeginRead, Passing
  <1>3. CASE Tick
    BY <1>3 DEF Tick, Passing
  <1>4. ASSUME NEW i \in Server, Freeze(i) PROVE Passing
    BY <1>4 DEF Freeze, Passing
  <1>5. ASSUME NEW i \in Server, Thaw(i) PROVE Passing
    BY <1>5 DEF Thaw, Passing
  <1>6. ASSUME NEW i \in Server, Heartbeat(i) PROVE Handled(i)
    BY <1>6, HeartbeatHandled
  <1>7. ASSUME NEW i \in Server, NEW b \in sent, HandleAppendEntries(i, b) PROVE Handled(i)
    BY <1>7, AppendEntriesHandled
  <1>8. ASSUME NEW i \in Server, NEW a \in answers, HandleAppendEntriesResp(i, a)
        PROVE  Handled(i)
    BY <1>8, AppendEntriesRespHandled
  <1>9. ASSUME NEW i \in Server, NEW q \in 1 .. Len(floor), ServeRead(i, q) PROVE Handled(i)
    BY <1>9, ServeReadHandled
  <1>10. ASSUME NEW i \in Server, Restart(i) PROVE Handled(i)
    BY <1>10, RestartHandled
  <1>11. ASSUME NEW i \in Server, NEW Q \in SUBSET Server, Elect(i, Q) PROVE Won(i, Q)
    BY <1>11, ElectWon
  <1> QED
    BY <1>1, <1>2, <1>3, <1>4, <1>5, <1>6, <1>7, <1>8, <1>9, <1>10, <1>11 DEF Next
-----------------------------------------------------------------------------
(* What is left of an event of a node *)

\* Node i still leads in its term, and its rounds have grown.
StaysLeader(i) ==
  /\ node[i].role = Leader /\ node'[i].role = Leader
  /\ node'[i].currentTerm = node[i].currentTerm
  /\ Reading(i, rd'[i])

\* It does not lead, and has no rounds.
NotLeader(i) == node'[i].role # Leader /\ rd'[i] = Cleared(rd'[i])

Outcome(i) ==
  /\ node' \in [Server -> NodeState] /\ DOMAIN rd' = Server
  /\ \A j \in Server : j # i => node'[j] = node[j] /\ rd'[j] = rd[j]
  /\ Sane(node'[i]) /\ Bare(node'[i])
  /\ node[i].currentTerm <= node'[i].currentTerm
  /\ \E k \in Server : node'[i].currentTerm <= node[k].currentTerm
  /\ RoundTypes(rd'[i]) /\ rd[i].roundId <= rd'[i].roundId
  /\ StaysLeader(i) \/ NotLeader(i)
  /\ served' \subseteq Nat \X Nat /\ frozen' \subseteq frozen
  /\ committed' \in Nat /\ committed <= committed' /\ used'.restarts \in Nat
  /\ UNCHANGED <<floor, now, missed, readMode>>
  /\ \/ sent' = sent /\ instant' \subseteq After(i)
     \/ /\ rd'[i].roundId = rd[i].roundId + 1 /\ instant' \subseteq After(i) \cup {i}
        /\ \A b \in sent' :
             \/ b \in sent
             \/ /\ b \in RoundBroadcast /\ b.src = i /\ i \notin b.to
                /\ b.round = rd'[i].roundId /\ b.term = node'[i].currentTerm
  /\ \/ contact' = contact
     \/ contact' = [contact EXCEPT ![i] = Clock(i)]
     \/ contact' = [contact EXCEPT ![i] = Never] /\ MaxRestarts # 0
  /\ \A m \in answers' :
       \/ m \in answers
       \/ \E b \in sent :
            /\ m \in RoundAnswer /\ i \in b.to
            /\ m.src = i /\ m.dst = b.src /\ m.round = b.round
            /\ m.term = node'[i].currentTerm
            /\ b.term < m.term \/ contact' = [contact EXCEPT ![i] = Clock(i)]

\* The rounds of a leader, less the reads that are answered.
LEMMA LessAnswered ==
  ASSUME NEW i \in Server, NEW y, Reading(i, y), NEW S
  PROVE  LET z == [y EXCEPT !.waiters = @ \ S]
         IN Reading(i, z) /\ RoundTypes(z) /\ z.roundId = y.roundId
PROOF
  <1> DEFINE z == [y EXCEPT !.waiters = @ \ S]
  <1>1. y \in ReadState /\ RoundTypes(y) /\ Grown(i, rd[i], y)
    BY DEF Reading, Grown, RoundTypes
  <1>2. /\ z \in ReadState /\ z.roundId = y.roundId /\ z.open = y.open /\ z.done = y.done
        /\ z.acks = y.acks /\ z.sentAt = y.sentAt /\ z.until = y.until
        /\ z.termStart = y.termStart /\ z.waiters \subseteq y.waiters
    BY <1>1 DEF ReadState
  <1> HIDE DEF z
  <1>3. RoundTypes(z)
    BY <1>1, <1>2 DEF RoundTypes, Within, Counted
  <1>4. Grown(i, rd[i], z)
    BY <1>1, <1>2, <1>3 DEF Grown
  <1>5. \A w \in z.waiters : Waits(i, z, w)
    BY <1>2 DEF Reading, Waits
  <1> QED
    BY <1>2, <1>3, <1>4, <1>5 DEF Reading, z

\* Every event comes to this.
LEMMA HandledOutcome ==
  ASSUME RBase, NEW i \in Server, Handled(i)
  PROVE  Outcome(i)
PROOF
  <1> PICK a, y : Moves(i, a, y) /\ Speaks(i, a) /\ Opens(i, a, y)
    BY DEF Handled
  <1>1. PICK S : rd' = [rd EXCEPT ![i] =
                     IF a.role = Leader THEN [y EXCEPT !.waiters = @ \ S] ELSE Cleared(y)]
    BY DEF Moves
  <1>2. /\ node' = [node EXCEPT ![i] = a] /\ Sane(a) /\ Bare(a) /\ Yields(node[i], a)
        /\ Reading(i, y) /\ a \in NodeState /\ a.currentTerm \in Nat
        /\ \E k \in Server : a.currentTerm <= node[k].currentTerm
    BY DEF Moves, Sane, NodeState
  <1>3. node \in [Server -> NodeState] /\ DOMAIN rd = Server
        /\ node[i].currentTerm \in Nat /\ now + ElectionMin >= 0 /\ rd[i] \in ReadState
    BY NodeBase, Bounds DEF RBase, ReadTypes
  <1>4. node' \in [Server -> NodeState] /\ DOMAIN rd' = Server /\ node'[i] = a
        /\ \A j \in Server : j # i => node'[j] = node[j] /\ rd'[j] = rd[j]
    BY <1>1, <1>2, <1>3
  <1>5. rd'[i] = IF a.role = Leader THEN [y EXCEPT !.waiters = @ \ S] ELSE Cleared(y)
    BY <1>1, <1>3
  <1>6. RoundTypes(y) /\ rd[i].roundId <= y.roundId
    BY <1>2, <1>3 DEF Reading, Grown, ReadState
  <1>7. node[i].currentTerm <= a.currentTerm
    BY <1>2, <1>3 DEF Yields
  <1>8. RoundTypes(rd'[i]) /\ rd'[i].roundId = y.roundId /\ (StaysLeader(i) \/ NotLeader(i))
    <2>1. CASE a.role = Leader
      <3>1. rd'[i] = [y EXCEPT !.waiters = @ \ S]
        BY <1>5, <2>1
      <3>2. RoundTypes(rd'[i]) /\ rd'[i].roundId = y.roundId /\ Reading(i, rd'[i])
        BY <1>2, <3>1, LessAnswered
      <3>3. node[i].role = Leader /\ a.currentTerm = node[i].currentTerm
        BY <1>2, <2>1 DEF Yields, Follower, Leader
      <3> QED
        BY <1>4, <2>1, <3>2, <3>3 DEF StaysLeader
    <2>2. CASE a.role # Leader
      <3>1. rd'[i] = Cleared(y)
        BY <1>5, <2>2
      <3> QED
        BY <1>3, <1>4, <1>6, <2>2, <3>1, ClearedTypes DEF NotLeader
    <2> QED
      BY <2>1, <2>2
  <1>9. served' \subseteq Nat \X Nat
    BY DEF Moves, Replies, RBase, ReadTypes
  <1>10. /\ \/ sent' = sent /\ instant' \subseteq After(i)
            \/ /\ rd'[i].roundId = rd[i].roundId + 1 /\ instant' \subseteq After(i) \cup {i}
               /\ \A b \in sent' :
                    \/ b \in sent
                    \/ /\ b \in RoundBroadcast /\ b.src = i /\ i \notin b.to
                       /\ b.round = rd'[i].roundId /\ b.term = node'[i].currentTerm
         /\ used'.restarts \in Nat
    BY <1>4, <1>8 DEF Opens
  <1>11. \A m \in answers' :
           \/ m \in answers
           \/ \E b \in sent :
                /\ m \in RoundAnswer /\ i \in b.to
                /\ m.src = i /\ m.dst = b.src /\ m.round = b.round
                /\ m.term = node'[i].currentTerm
                /\ b.term < m.term \/ contact' = [contact EXCEPT ![i] = Clock(i)]
    BY <1>4 DEF Speaks
  <1> QED
    BY <1>2, <1>4, <1>6, <1>7, <1>8, <1>9, <1>10, <1>11 DEF Outcome, Moves, Speaks

-----------------------------------------------------------------------------
(* What holds with leases or without is inductive *)

\* Initially.
LEMMA InitBase ==
  ASSUME Init
  PROVE  RBase
PROOF
  <1>1. Sane(InitNode) /\ Bare(InitNode) /\ InitNode.currentTerm = 0
        /\ InitNode.role = Follower
    BY InitNodeFacts DEF Bare, InitNode
  <1>2. InitReadState \in ReadState /\ Cleared(InitReadState) = InitReadState
    <2>1. InitReadState \in ReadState
      BY DEF InitReadState, ReadState
    <2>2. /\ InitReadState.open = 0 /\ InitReadState.done = 0 /\ InitReadState.acks = {}
          /\ InitReadState.sentAt = {} /\ InitReadState.until = 0
          /\ InitReadState.waiters = {}
      BY DEF InitReadState
    <2>3. Cleared(InitReadState) = InitReadState
      BY <2>1, <2>2 DEF Cleared, ReadState
    <2> QED
      BY <2>1, <2>3
  <1>3. RoundTypes(InitReadState)
    BY <1>2, Bounds DEF RoundTypes, Init, Within, Counted, InitReadState
  <1>4. \A i \in Server : node[i] = InitNode /\ rd[i] = InitReadState
    BY DEF Init
  <1>5. ReadTypes
    BY <1>1, <1>3, <1>4 DEF Init, ReadTypes, Sane, Never
  <1>6. Places /\ Numbered /\ TermsBacked
    BY <1>1, <1>2, <1>4 DEF Init, Places, Numbered, TermsBacked, Follower, Leader
  <1> QED
    BY <1>5, <1>6 DEF RBase

\* An event of a node.
LEMMA HandledBase ==
  ASSUME RBase, NEW i \in Server, Outcome(i)
  PROVE  RBase'
PROOF
  <1>1. /\ node' \in [Server -> NodeState] /\ DOMAIN rd' = Server
        /\ \A j \in Server : j # i => node'[j] = node[j] /\ rd'[j] = rd[j]
        /\ Sane(node'[i]) /\ Bare(node'[i]) /\ RoundTypes(rd'[i])
        /\ node[i].currentTerm <= node'[i].currentTerm
        /\ rd[i].roundId <= rd'[i].roundId
        /\ now' = now /\ missed' = missed /\ readMode' = readMode /\ floor' = floor
        /\ frozen' \subseteq frozen
    BY DEF Outcome
  <1>2. \A j \in Server : /\ node[j].currentTerm \in Nat /\ node'[j].currentTerm \in Nat
                          /\ rd[j].roundId \in Nat /\ rd'[j].roundId \in Nat
                          /\ node[j].currentTerm <= node'[j].currentTerm
                          /\ rd[j].roundId <= rd'[j].roundId
    <2> TAKE j \in Server
    <2>1. node[j].currentTerm \in Nat /\ node'[j].currentTerm \in Nat
      BY <1>1, NodeBase DEF NodeState
    <2>2. RoundTypes(rd[j]) /\ RoundTypes(rd'[j])
      BY <1>1, NodeBase
    <2>3. rd[j].roundId \in Nat /\ rd'[j].roundId \in Nat
      BY <2>2 DEF RoundTypes, ReadState
    <2> QED
      BY <1>1, <2>1, <2>3
  <1>3. InitialMembers \subseteq Server
    BY ServerAssumption
  <1>4. ReadTypes'
    <2>1. \A j \in Server : Sane(node'[j]) /\ Bare(node'[j]) /\ RoundTypes(rd[j])
      BY <1>1, NodeBase
    <2>2. \A j \in Server : RoundTypes(rd[j])'
      BY <1>1, <2>1 DEF RoundTypes, Within
    <2>3. contact' \in [Server -> Nat \cup {Never}]
          /\ \A j \in Server : missed[j] <= now /\ contact'[j] + missed[j] <= now
      <3>1. /\ contact \in [Server -> Nat \cup {Never}] /\ now \in Nat
            /\ missed \in [Server -> Nat]
            /\ \A j \in Server : missed[j] <= now /\ contact[j] + missed[j] <= now
        BY DEF RBase, ReadTypes
      <3>2. Clock(i) \in Nat /\ Clock(i) + missed[i] <= now /\ Never + missed[i] <= now
            /\ Never \in Nat \cup {Never}
        BY <3>1 DEF Clock, Never
      <3>3. PICK c \in Nat \cup {Never} : /\ c + missed[i] <= now
                                          /\ contact' = contact
                                             \/ contact' = [contact EXCEPT ![i] = c]
        BY <3>2 DEF Outcome
      <3> QED
        BY <3>1, <3>3
    <2>4. sent' \subseteq RoundBroadcast /\ answers' \subseteq RoundAnswer
      BY DEF Outcome, RBase, ReadTypes
    <2>5. instant' \subseteq Server
      BY DEF Outcome, RBase, ReadTypes, After
    <2>6. /\ served' \subseteq Nat \X Nat /\ committed' \in Nat /\ used'.restarts \in Nat
      BY DEF Outcome
    <2>7. \A j \in Server : (Sane(node[j]) /\ Bare(node[j]))'
      BY <2>1 DEF Sane, Bare
    <2>8. now \in Nat /\ missed \in [Server -> Nat] /\ floor \in Seq(Nat)
          /\ readMode \in ReadModes
      BY DEF RBase, ReadTypes
    <2> QED
      BY <1>1, <2>2, <2>3, <2>4, <2>5, <2>6, <2>7, <2>8 DEF ReadTypes
  <1>5. Places'
    BY <1>1 DEF Outcome, RBase, Places, StaysLeader, NotLeader
  <1>6. \A b \in sent' : BroadcastNumbered(b)'
    <2> TAKE b \in sent'
    <2>1. CASE b \in sent
      <3>1. b.src \in Server /\ b.round \in Nat /\ b.term \in Nat
        BY <1>3, <2>1 DEF RBase, ReadTypes, RoundBroadcast
      <3>2. BroadcastNumbered(b)
        BY <2>1 DEF RBase, Numbered
      <3>3. b.round <= rd'[b.src].roundId /\ b.term <= node'[b.src].currentTerm
            /\ b.src \notin b.to
        BY <1>2, <3>1, <3>2 DEF BroadcastNumbered
      <3>4. ASSUME NEW s \in rd'[b.src].sentAt, s[1] = b.round
            PROVE  b.term = node'[b.src].currentTerm
        <4>1. CASE b.src # i
          BY <1>1, <3>1, <3>2, <3>4, <4>1 DEF BroadcastNumbered
        <4>2. CASE b.src = i /\ StaysLeader(i)
          <5>1. rd'[i].sentAt \subseteq rd[i].sentAt \cup {<<rd[i].roundId + 1, Clock(i)>>}
            BY <4>2 DEF StaysLeader, Reading, Grown
          <5>2. rd[i].roundId + 1 # b.round
            BY <1>2, <3>1, <3>2, <4>2 DEF BroadcastNumbered
          <5> QED
            BY <3>2, <3>4, <4>2, <5>1, <5>2 DEF BroadcastNumbered, StaysLeader
        <4>3. CASE b.src = i /\ NotLeader(i)
          <5>1. rd'[i].sentAt = {}
            BY <1>1, <4>3 DEF NotLeader, Cleared, RoundTypes, ReadState
          <5> QED
            BY <3>4, <4>3, <5>1
        <4> QED
          BY <4>1, <4>2, <4>3 DEF Outcome
      <3> QED
        BY <3>3, <3>4 DEF BroadcastNumbered
    <2>2. CASE b \notin sent
      BY <1>2, <2>2 DEF Outcome, BroadcastNumbered
    <2> QED
      BY <2>1, <2>2
  <1>7. \A m \in answers' : AnswerNumbered(m)'
    <2> TAKE m \in answers'
    <2>1. CASE m \in answers
      <3>1. m.src \in Server /\ m.dst \in Server /\ m.round \in Nat /\ m.term \in Nat
        BY <1>3, <2>1 DEF RBase, ReadTypes, RoundAnswer
      <3> QED
        BY <1>2, <2>1, <3>1 DEF RBase, Numbered, AnswerNumbered
    <2>2. CASE m \notin answers
      <3>1. PICK b \in sent : /\ m \in RoundAnswer /\ i \in b.to
                              /\ m.src = i /\ m.dst = b.src /\ m.round = b.round
                              /\ m.term = node'[i].currentTerm
        BY <2>2 DEF Outcome
      <3>2. b.src \in Server /\ b.round \in Nat /\ BroadcastNumbered(b)
        BY <1>3 DEF RBase, ReadTypes, RoundBroadcast, Numbered
      <3> QED
        BY <1>2, <3>1, <3>2 DEF AnswerNumbered, BroadcastNumbered
    <2> QED
      BY <2>1, <2>2
  <1>8. \A j \in Server : node'[j].role # Leader => rd'[j] = Cleared(rd'[j])
    BY <1>1 DEF Outcome, RBase, Numbered, StaysLeader, NotLeader
  <1>9. TermsBacked'
    <2> SUFFICES ASSUME NEW j \in Server, node'[j].currentTerm > 0
                 PROVE  \E Q \in SUBSET InitialMembers :
                          /\ Electors(Q)
                          /\ \A v \in Q : node'[v].currentTerm >= node'[j].currentTerm
      BY DEF TermsBacked
    <2>1. PICK k \in Server : node'[j].currentTerm <= node[k].currentTerm
      BY <1>1, <1>2 DEF Outcome
    <2>2. PICK Q \in SUBSET InitialMembers :
             Electors(Q) /\ \A v \in Q : node[v].currentTerm >= node[k].currentTerm
      BY <1>2, <2>1 DEF RBase, TermsBacked
    <2>3. \A v \in Q : node'[v].currentTerm >= node'[j].currentTerm
      BY <1>2, <1>3, <2>1, <2>2
    <2> QED
      BY <2>2, <2>3
  <1> QED
    BY <1>4, <1>5, <1>6, <1>7, <1>8, <1>9 DEF RBase, Numbered

\* What an election does to every node.
LEMMA WonFacts ==
  ASSUME RBase, NEW i \in Server, NEW Q \in SUBSET Server, Won(i, Q)
  PROVE  /\ i \in Q /\ Q \in SUBSET InitialMembers /\ Electors(Q) /\ Q \subseteq Server
         /\ node[i].role # Leader /\ node'[i].role = Leader
         /\ \A v \in Server : /\ v \in Q => node[v].currentTerm < node'[i].currentTerm
                              /\ v \in Q => node'[v].currentTerm = node'[i].currentTerm
                              /\ v \in Q \ {i} => node'[v].role # Leader
                              /\ v \notin Q => node'[v] = node[v] /\ rd'[v] = rd[v]
                              /\ v \in Q \ {i} => rd'[v] = Cleared(rd[v])
                              /\ rd'[v] = rd[v] \/ rd'[v] = Cleared(rd[v]) \/ v = i
                              /\ node[v].currentTerm \in Nat
                              /\ node'[v].currentTerm \in Nat
                              /\ node[v].currentTerm <= node'[v].currentTerm
                              /\ rd[v].roundId \in Nat /\ rd'[v].roundId \in Nat
                              /\ rd[v].roundId <= rd'[v].roundId
                              /\ RoundTypes(rd'[v])
         /\ rd'[i].roundId = rd[i].roundId + 1 /\ rd'[i].waiters = {}
         /\ rd'[i].sentAt \subseteq {<<rd'[i].roundId, Clock(i)>>}
         /\ \A a \in rd'[i].acks : InFlight(i, a[1], a[2]) \/ a = <<rd'[i].roundId, i>>
         /\ rd'[i].open = rd'[i].roundId
         /\ rd'[i].termStart = LastIndex(node[i]) + 1
         /\ rd'[i].done # 0 => Confirmed(i, Cleared(rd[i]), rd'[i].done)
         /\ rd'[i].until # 0 => rd'[i].done = rd'[i].roundId
                                /\ rd'[i].until = Clock(i) + ElectionMin
PROOF
  <1> DEFINE x == [Cleared(rd[i]) EXCEPT !.termStart = LastIndex(node[i]) + 1]
             y == rd'[i]
  <1>1. /\ i \in Q /\ Q \in SUBSET InitialMembers /\ Electors(Q) /\ Q \subseteq Server
        /\ node[i].role # Leader /\ node'[i].role = Leader
        /\ \A v \in Q : /\ node'[v].currentTerm = node[i].currentTerm + 1
                        /\ node[v].currentTerm < node[i].currentTerm + 1
                        /\ v # i => node'[v].role # Leader
        /\ \A v \in Server \ Q : node'[v] = node[v]
    BY DEF Won, VotesWon
  <1>2. /\ Grown(i, x, y) /\ y.roundId = rd[i].roundId + 1 /\ y.waiters = {}
        /\ \A v \in Server \ {i} : rd'[v] = IF v \in Q THEN Cleared(rd[v]) ELSE rd[v]
    BY DEF Won, RoundsBegin
  <1>3. \A v \in Server : /\ node[v] \in NodeState /\ node'[v] \in NodeState
                          /\ node[v].currentTerm \in Nat
                          /\ RoundTypes(rd[v]) /\ rd[v] \in ReadState
                          /\ RoundTypes(Cleared(rd[v]))
                          /\ Cleared(rd[v]).roundId = rd[v].roundId
    BY NodeBase, ClearedTypes, Bounds DEF Won, RBase, ReadTypes
  <1>4. \A v \in Server : node'[v].currentTerm \in Nat /\ rd[v].roundId \in Nat
    BY <1>3 DEF NodeState, ReadState
  <1>5. /\ x.roundId = rd[i].roundId /\ x.open = 0 /\ x.done = 0 /\ x.acks = {}
        /\ x.sentAt = {} /\ x.until = 0 /\ x.termStart = LastIndex(node[i]) + 1
        /\ Cleared(rd[i]).acks = {}
    BY <1>3 DEF Cleared, ReadState
  <1> HIDE DEF x
  <1>6. RoundTypes(y) /\ y \in ReadState /\ y.roundId \in Nat /\ y.done \in Nat
    BY <1>2 DEF Grown, RoundTypes, ReadState
  <1>7. /\ y.sentAt \subseteq {<<y.roundId, Clock(i)>>} /\ y.open = y.roundId
        /\ \A a \in y.acks : InFlight(i, a[1], a[2]) \/ a = <<y.roundId, i>>
        /\ y.termStart = LastIndex(node[i]) + 1
    BY <1>2, <1>4, <1>5 DEF Grown
  <1>8. y.done # 0 => Confirmed(i, Cleared(rd[i]), y.done)
    BY <1>2, <1>5 DEF Grown, Confirmed
  <1>9. y.until # 0 => y.done = y.roundId /\ y.until = Clock(i) + ElectionMin
    BY <1>2, <1>5 DEF Grown
  <1>10. \A v \in Server : RoundTypes(rd'[v]) /\ rd[v].roundId <= rd'[v].roundId
                           /\ rd'[v].roundId \in Nat
    BY <1>2, <1>3, <1>4, <1>6
  <1>11. \A v \in Server : node[v].currentTerm <= node'[v].currentTerm
    BY <1>1, <1>3, <1>4
  <1>12. \A v \in Server : /\ v \in Q => node[v].currentTerm < node'[i].currentTerm
                           /\ v \in Q => node'[v].currentTerm = node'[i].currentTerm
                           /\ v \in Q \ {i} => node'[v].role # Leader
                           /\ v \notin Q => node'[v] = node[v] /\ rd'[v] = rd[v]
                           /\ v \in Q \ {i} => rd'[v] = Cleared(rd[v])
                           /\ rd'[v] = rd[v] \/ rd'[v] = Cleared(rd[v]) \/ v = i
    BY <1>1, <1>2
  <1> QED
    BY <1>1, <1>2, <1>3, <1>4, <1>6, <1>7, <1>8, <1>9, <1>10, <1>11, <1>12

\* An election.
LEMMA WonBase ==
  ASSUME RBase, NEW i \in Server, NEW Q \in SUBSET Server, Won(i, Q)
  PROVE  RBase'
PROOF
  <1>1. InitialMembers \subseteq Server
    BY ServerAssumption
  <1>2. FirstRound(i) /\ i \in Electable /\ node' \in [Server -> NodeState]
        /\ \A v \in Server : Sane(node'[v]) /\ Bare(node'[v])
    BY DEF Won, VotesWon
  <1>3. ReadTypes'
    <2>1. DOMAIN rd' = Server
      BY DEF Won, RoundsBegin
    <2>2. \A j \in Server : RoundTypes(rd[j])'
      BY <1>2, WonFacts DEF RoundTypes, Within, FirstRound
    <2>3. \A j \in Server : (Sane(node[j]) /\ Bare(node[j]))'
      BY <1>2 DEF Sane, Bare
    <2>4. sent' \subseteq RoundBroadcast /\ answers' \subseteq RoundAnswer
          /\ instant' \subseteq Server
      BY <1>2 DEF FirstRound, RBase, ReadTypes, After
    <2> QED
      BY <1>2, <2>1, <2>2, <2>3, <2>4 DEF ReadTypes, RBase, FirstRound
  <1>4. Places'
    <2>1. ASSUME NEW j \in Server, node'[j].role = Leader
          PROVE  j \in InitialMembers /\ j \in Electable
      BY <1>2, <2>1, WonFacts DEF RBase, Places
    <2> QED
      BY <1>2, <2>1 DEF RBase, Places, FirstRound
  <1>5. \A b \in sent' : BroadcastNumbered(b)'
    <2> TAKE b \in sent'
    <2>1. CASE b \in sent
      <3>1. b.src \in Server /\ b.round \in Nat /\ b.term \in Nat
        BY <1>1, <2>1 DEF RBase, ReadTypes, RoundBroadcast
      <3>2. BroadcastNumbered(b)
        BY <2>1 DEF RBase, Numbered
      <3>3. b.round <= rd'[b.src].roundId /\ b.term <= node'[b.src].currentTerm
            /\ b.src \notin b.to
        BY <3>1, <3>2, WonFacts DEF BroadcastNumbered
      <3>4. ASSUME NEW s \in rd'[b.src].sentAt, s[1] = b.round
            PROVE  b.term = node'[b.src].currentTerm
        <4>1. CASE b.src = i
          <5>1. b.round < rd'[i].roundId /\ rd'[i].sentAt \subseteq {<<rd'[i].roundId, Clock(i)>>}
            BY <3>1, <3>2, <4>1, WonFacts DEF BroadcastNumbered
          <5> QED
            BY <3>1, <3>4, <4>1, <5>1
        <4>2. CASE b.src # i /\ b.src \in Q
          <5>1. rd'[b.src] = Cleared(rd[b.src]) /\ rd[b.src] \in ReadState
            BY <3>1, <4>2, WonFacts, NodeBase
          <5>2. rd'[b.src].sentAt = {}
            BY <5>1 DEF Cleared, ReadState
          <5> QED
            BY <3>4, <5>2
        <4>3. CASE b.src \notin Q
          BY <3>1, <3>2, <3>4, <4>3, WonFacts DEF BroadcastNumbered
        <4> QED
          BY <4>1, <4>2, <4>3
      <3> QED
        BY <3>3, <3>4 DEF BroadcastNumbered
    <2>2. CASE b \notin sent
      BY <1>2, <2>2, WonFacts DEF FirstRound, BroadcastNumbered
    <2> QED
      BY <2>1, <2>2
  <1>6. \A m \in answers' : AnswerNumbered(m)'
    <2> TAKE m \in answers'
    <2>1. m \in answers
      BY <1>2 DEF FirstRound
    <2>2. m.src \in Server /\ m.dst \in Server /\ m.round \in Nat /\ m.term \in Nat
      BY <1>1, <2>1 DEF RBase, ReadTypes, RoundAnswer
    <2> QED
      BY <2>1, <2>2, WonFacts DEF RBase, Numbered, AnswerNumbered
  <1>7. ASSUME NEW j \in Server, node'[j].role # Leader PROVE rd'[j] = Cleared(rd'[j])
    <2>1. j # i
      BY <1>7, WonFacts
    <2>2. CASE j \in Q
      <3>1. rd'[j] = Cleared(rd[j]) /\ RoundTypes(rd[j]) /\ now + ElectionMin >= 0
        BY <2>1, <2>2, WonFacts, NodeBase, Bounds, SMTT(30) DEF RBase, ReadTypes
      <3> QED
        BY <3>1, ClearedTypes
    <2>3. CASE j \notin Q
      BY <1>7, <2>3, WonFacts DEF RBase, Numbered
    <2> QED
      BY <2>2, <2>3
  <1>8. TermsBacked'
    <2> SUFFICES ASSUME NEW j \in Server, node'[j].currentTerm > 0
                 PROVE  \E R \in SUBSET InitialMembers :
                          /\ Electors(R)
                          /\ \A v \in R : node'[v].currentTerm >= node'[j].currentTerm
      BY DEF TermsBacked
    <2>1. CASE j \in Q
      <3>1. \A v \in Q : node'[v].currentTerm = node'[j].currentTerm
            /\ node'[v].currentTerm \in Nat
        BY <2>1, WonFacts
      <3> QED
        BY <3>1, WonFacts
    <2>2. CASE j \notin Q
      <3>1. node'[j] = node[j]
        BY <2>2, WonFacts
      <3>2. PICK R \in SUBSET InitialMembers :
             Electors(R) /\ \A v \in R : node[v].currentTerm >= node[j].currentTerm
        BY <3>1 DEF RBase, TermsBacked
      <3>3. \A v \in R : node'[v].currentTerm >= node'[j].currentTerm
        BY <1>1, <3>1, <3>2, WonFacts
      <3> QED
        BY <3>2, <3>3
    <2> QED
      BY <2>1, <2>2
  <1> QED
    BY <1>3, <1>4, <1>5, <1>6, <1>7, <1>8 DEF RBase, Numbered

\* Time, or a client.
LEMMA PassingBase ==
  ASSUME RBase, Passing
  PROVE  RBase'
PROOF
  <1>1. /\ UNCHANGED <<node, rd, contact, sent, answers, committed, served, readMode>>
        /\ frozen' \subseteq frozen \cup Freezable /\ instant' \subseteq instant
        /\ used'.restarts = used.restarts
    BY DEF Passing
  <1>2. /\ now \in Nat /\ missed \in [Server -> Nat] /\ floor \in Seq(Nat) /\ committed \in Nat
        /\ \A i \in Server : /\ missed[i] <= now /\ contact[i] + missed[i] <= now
                             /\ contact[i] \in Int
    BY DEF RBase, ReadTypes, Never
  <1>3. /\ now' \in Nat /\ now <= now' /\ missed' \in [Server -> Nat] /\ floor' \in Seq(Nat)
        /\ \A i \in Server : missed'[i] <= now' /\ contact[i] + missed'[i] <= now'
        /\ \A i \in Server : missed'[i] = missed[i] \/ i \in frozen
    <2>1. floor' \in Seq(Nat)
      <3>1. floor' = floor \/ floor' = Append(floor, committed)
        BY DEF Passing
      <3>2. Append(floor, committed) \in Seq(Nat)
        BY <1>2
      <3> QED
        BY <1>2, <3>1, <3>2
    <2>2. CASE now' = now /\ missed' = missed
      BY <1>2, <2>1, <2>2
    <2>3. CASE /\ now' = now + 1
               /\ missed' = [i \in Server |-> IF i \in frozen THEN missed[i] + 1 ELSE missed[i]]
      <3>1. \A i \in Server : /\ missed'[i] \in Nat /\ missed'[i] <= missed[i] + 1
                              /\ missed'[i] = missed[i] \/ i \in frozen
        BY <1>2, <2>3
      <3>2. missed' \in [Server -> Nat]
        BY <2>3, <3>1
      <3>3. \A i \in Server : missed'[i] <= now' /\ contact[i] + missed'[i] <= now'
        BY <1>2, <2>3, <3>1
      <3> QED
        BY <1>2, <2>1, <2>3, <3>1, <3>2, <3>3
    <2> QED
      BY <2>2, <2>3 DEF Passing
  <1>4. \A i \in Server : RoundTypes(rd[i])'
    <2> TAKE i \in Server
    <2>1. rd[i] \in ReadState /\ Within(rd[i], now + ElectionMin) /\ Counted(rd[i])
      BY NodeBase DEF RoundTypes
    <2>2. /\ rd[i].until \in Nat /\ ElectionMin \in Nat
          /\ \A s \in rd[i].sentAt : s[2] \in Nat
      BY <2>1, Bounds DEF ReadState
    <2>3. Within(rd[i], now' + ElectionMin)
      BY <1>2, <1>3, <2>1, <2>2, SMTT(30) DEF Within
    <2> QED
      BY <1>1, <2>1, <2>3 DEF RoundTypes, Within, Counted
  <1>5. ReadTypes'
    BY <1>1, <1>3, <1>4 DEF RBase, ReadTypes, Sane, Bare
  <1>6. Places'
    BY <1>1, <1>3 DEF RBase, Places
  <1>7. Numbered' /\ TermsBacked'
    BY <1>1 DEF RBase, Numbered, BroadcastNumbered, AnswerNumbered, TermsBacked
  <1> QED
    BY <1>5, <1>6, <1>7 DEF RBase

-----------------------------------------------------------------------------
(* Leases *)

\* What leases rest on: voters that have heard a leader refuse, nobody forgets that he
\* has, and the clocks of the leaders run.
LeaseRules ==
  LeaderStickiness /\ MaxRestarts = 0 /\ Electable \cap Freezable = {}

\* Member v has heard a leader at time t or later, on a clock that never stops.
Heard(v, t) == contact[v] # Never /\ contact[v] + missed[v] >= t

\* Member v acknowledges round r of i.
Counts(i, r, v) == <<r, v>> \in rd[i].acks \/ InFlight(i, r, v)

\* Whoever acknowledges a round that is tracked has heard its leader since it was sent.
AnswersHeard ==
  \A i \in Server : node[i].role = Leader =>
    \A s \in rd[i].sentAt, v \in InitialMembers \ {i} :
      Counts(i, s[1], v) => Heard(v, s[2])

\* A lease was granted by a majority that heard the leader when it began to run.
LeasesGranted ==
  \A i \in Server : node[i].role = Leader /\ rd[i].until # 0 =>
    \E A \in SUBSET InitialMembers :
      Electors(A) /\ \A v \in A \ {i} : Heard(v, rd[i].until - ElectionMin)

\* What v acknowledges to the leaders of terms before t is too old for a lease.
Out(t, v) ==
  \A i \in Server : node[i].role = Leader /\ node[i].currentTerm < t =>
    \A s \in rd[i].sentAt : Counts(i, s[1], v) => now >= s[2] + ElectionMin

\* For every term that is reached there is a majority whose acknowledgements are out.
TermsElected ==
  \A j \in Server : node[j].currentTerm > 0 =>
    \E Q \in SUBSET InitialMembers :
      /\ Electors(Q)
      /\ \A v \in Q : /\ node[v].currentTerm >= node[j].currentTerm
                      /\ Out(node[j].currentTerm, v)

\* And the leases of earlier terms have run out.
LeasesOver ==
  \A i, j \in Server :
    node[i].role = Leader /\ node[j].currentTerm > node[i].currentTerm => rd[i].until <= now

Leases == AnswersHeard /\ LeasesGranted /\ TermsElected /\ LeasesOver

\* The inductive invariant of the leases.
LeaseInv == RBase /\ (readMode = "lease" => Leases)

\* The clock of a leader has never been stopped.
LEMMA LeadersMoving ==
  ASSUME RBase, Electable \cap Freezable = {}, NEW i \in Server, node[i].role = Leader
  PROVE  i \notin frozen /\ missed[i] = 0 /\ Clock(i) = now
PROOF
  BY DEF RBase, Places, Clock, ReadTypes

\* Nobody forgets that he has heard a leader.
LEMMA HeardStays ==
  ASSUME RBase, MaxRestarts = 0, NEW i \in Server, Outcome(i), NEW v \in Server, NEW t \in Int,
         Heard(v, t)
  PROVE  Heard(v, t)'
PROOF
  <1>1. /\ contact \in [Server -> Nat \cup {Never}] /\ now \in Nat /\ missed \in [Server -> Nat]
        /\ contact[v] + missed[v] <= now /\ missed[i] <= now
    BY DEF RBase, ReadTypes
  <1>2. missed' = missed /\ (contact' = contact \/ contact' = [contact EXCEPT ![i] = Clock(i)])
    BY DEF Outcome
  <1>3. Clock(i) \in Nat /\ Clock(i) + missed[i] = now
    BY <1>1 DEF Clock
  <1>4. CASE contact' = contact
    BY <1>2, <1>4 DEF Heard
  <1>5. CASE contact' = [contact EXCEPT ![i] = Clock(i)]
    <2>1. CASE v = i
      <3>1. contact'[v] = Clock(i) /\ Clock(i) # Never
        BY <1>1, <1>3, <1>5, <2>1 DEF Never
      <3>2. contact[v] + missed[v] >= t /\ contact[v] \in Int
        BY <1>1 DEF Heard, Never
      <3> QED
        BY <1>1, <1>2, <1>3, <2>1, <3>1, <3>2 DEF Heard
    <2>2. CASE v # i
      BY <1>1, <1>2, <1>5, <2>2 DEF Heard
    <2> QED
      BY <2>1, <2>2
  <1> QED
    BY <1>2, <1>4, <1>5

\* A round that is opened has not been acknowledged.
LEMMA FreshRound ==
  ASSUME RBase, NEW i \in Server, NEW v, NEW r, r > rd[i].roundId, r \in Nat
  PROVE  ~Counts(i, r, v)
PROOF
  <1>1. rd[i] \in ReadState /\ Counted(rd[i])
    BY NodeBase DEF RoundTypes
  <1>2. rd[i].roundId \in Nat
    BY <1>1 DEF ReadState
  <1>3. <<r, v>> \notin rd[i].acks
    BY <1>1, <1>2 DEF Counted
  <1>4. ~InFlight(i, r, v)
    BY <1>2 DEF InFlight, RBase, Numbered, AnswerNumbered
  <1> QED
    BY <1>3, <1>4 DEF Counts

\* Where a new acknowledgement comes from: the leader still leads, and the member has just
\* heard it.
LEMMA CountsGrow ==
  ASSUME RBase, NEW i \in Server, Outcome(i), NEW j \in Server, node'[j].role = Leader,
         NEW r \in Nat, NEW v \in InitialMembers, v # j, Counts(j, r, v)'
  PROVE  \/ Counts(j, r, v)
         \/ /\ v = i /\ i # j /\ node'[i].currentTerm = node[j].currentTerm
            /\ (\E s \in rd[j].sentAt : s[1] = r) =>
                 contact' = [contact EXCEPT ![i] = Clock(i)]
PROOF
  <1>1. node[j].role = Leader /\ node'[j].currentTerm = node[j].currentTerm
    BY DEF Outcome, StaysLeader, NotLeader
  <1>2. ASSUME NEW m \in answers', m \notin answers, m.dst = j, m.src = v, m.round = r,
               m.term = node'[j].currentTerm
        PROVE  /\ v = i /\ i # j /\ node'[i].currentTerm = node[j].currentTerm
               /\ (\E s \in rd[j].sentAt : s[1] = r) =>
                    contact' = [contact EXCEPT ![i] = Clock(i)]
    <2>1. PICK b \in sent :
             /\ i \in b.to /\ m.src = i /\ m.dst = b.src /\ m.round = b.round
             /\ m.term = node'[i].currentTerm
             /\ b.term < m.term \/ contact' = [contact EXCEPT ![i] = Clock(i)]
      BY <1>2 DEF Outcome
    <2>2. BroadcastNumbered(b) /\ node[j].currentTerm \in Nat
      BY NodeBase DEF RBase, Numbered
    <2> QED
      BY <1>1, <1>2, <2>1, <2>2 DEF BroadcastNumbered
  <1>3. ASSUME NEW k, <<k, v>> \in rd'[j].acks PROVE Counts(j, k, v)
    <2>1. CASE j # i
      BY <1>3, <2>1 DEF Outcome, Counts
    <2>2. CASE j = i
      <3>1. Grown(i, rd[i], rd'[i])
        BY <2>2 DEF Outcome, StaysLeader, NotLeader, Reading
      <3> QED
        BY <1>3, <2>2, <3>1 DEF Grown, Counts
    <2> QED
      BY <2>1, <2>2
  <1> QED
    BY <1>1, <1>2, <1>3 DEF Counts, InFlight

\* Terms grow.
LEMMA TermsGrow ==
  ASSUME RBase, NEW i \in Server, Outcome(i)
  PROVE  \A v \in Server : /\ node[v].currentTerm \in Nat /\ node'[v].currentTerm \in Nat
                           /\ node[v].currentTerm <= node'[v].currentTerm
PROOF
  <1> TAKE v \in Server
  <1>1. node[v].currentTerm \in Nat /\ node'[v].currentTerm \in Nat
    BY NodeBase DEF Outcome, NodeState
  <1>2. v # i => node'[v] = node[v]
    BY DEF Outcome
  <1>3. node[i].currentTerm <= node'[i].currentTerm
    BY DEF Outcome
  <1> QED
    BY <1>1, <1>2, <1>3

\* What an event leaves of the rounds of a leader that were sent before.
LEMMA LeaderRounds ==
  ASSUME RBase, NEW i \in Server, Outcome(i), NEW j \in Server, node'[j].role = Leader
  PROVE  /\ node[j].role = Leader /\ node'[j].currentTerm = node[j].currentTerm
         /\ rd[j].roundId \in Nat /\ rd[j].until \in Nat /\ rd'[j].done \in Nat
         /\ rd[j].sentAt \in SUBSET (Nat \X Nat)
         /\ \A s \in rd[j].sentAt : s[2] <= now
         /\ Grown(j, rd[j], rd'[j])
         /\ \A s \in rd'[j].sentAt :
              s \in rd[j].sentAt \/ (s[1] = rd[j].roundId + 1 /\ s[2] = Clock(j))
PROOF
  <1>1. node[j].role = Leader /\ node'[j].currentTerm = node[j].currentTerm
    BY DEF Outcome, StaysLeader, NotLeader
  <1>2. rd[j] \in ReadState /\ Within(rd[j], now + ElectionMin) /\ now \in Nat
    BY NodeBase DEF RoundTypes, RBase, ReadTypes
  <1>3. rd[j].roundId \in Nat /\ rd[j].until \in Nat /\ rd[j].sentAt \in SUBSET (Nat \X Nat)
        /\ rd[j].done \in Nat
    BY <1>2 DEF ReadState
  <1>4. \A s \in rd[j].sentAt : s[2] <= now
    BY <1>2, <1>3, Bounds DEF Within
  <1>5. Grown(j, rd[j], rd'[j])
    BY NodeBase DEF Outcome, StaysLeader, NotLeader, Reading
  <1>6. rd'[j].done \in Nat
    BY <1>5 DEF Grown, RoundTypes, ReadState
  <1>7. \A s \in rd'[j].sentAt :
          s \in rd[j].sentAt \/ s = <<rd[j].roundId + 1, Clock(j)>>
    BY <1>5 DEF Grown
  <1>8. \A s \in rd'[j].sentAt :
          s \in rd[j].sentAt \/ (s[1] = rd[j].roundId + 1 /\ s[2] = Clock(j))
    BY <1>7
  <1> QED
    BY <1>1, <1>3, <1>4, <1>5, <1>6, <1>8

\* The rounds of a node after an event.
LEMMA SentNumbers ==
  ASSUME RBase, NEW i \in Server, Outcome(i), NEW j \in Server
  PROVE  rd'[j].sentAt \in SUBSET (Nat \X Nat)
PROOF
  <1>1. rd'[j] \in ReadState
    BY NodeBase DEF Outcome, RoundTypes
  <1> QED
    BY <1>1 DEF ReadState

\* An event of a node: whoever acknowledges has heard the leader.
LEMMA HandledHeard ==
  ASSUME RBase, Leases, LeaseRules, NEW i \in Server, Outcome(i)
  PROVE  AnswersHeard'
PROOF
  <1> SUFFICES ASSUME NEW j \in Server, node'[j].role = Leader,
                      NEW s \in rd'[j].sentAt, NEW v \in InitialMembers \ {j},
                      Counts(j, s[1], v)'
               PROVE  Heard(v, s[2])'
    BY DEF AnswersHeard
  <1>1. v \in Server /\ v \in InitialMembers /\ v # j
    BY ServerAssumption
  <1>2. node[j].role = Leader /\ s \in Nat \X Nat /\ rd[j].roundId \in Nat
    BY LeaderRounds, SentNumbers
  <1>3. CASE Counts(j, s[1], v)
    <2>1. s \in rd[j].sentAt
      BY <1>2, <1>3, LeaderRounds, FreshRound
    <2>2. Heard(v, s[2])
      BY <1>1, <1>2, <1>3, <2>1 DEF Leases, AnswersHeard
    <2> QED
      BY <1>1, <1>2, <2>2, HeardStays DEF LeaseRules
  <1>4. CASE ~Counts(j, s[1], v)
    <2>1. v = i /\ i # j
      BY <1>1, <1>2, <1>4, CountsGrow
    <2>2. s \in rd[j].sentAt
      BY <2>1 DEF Outcome
    <2>3. contact' = [contact EXCEPT ![i] = Clock(i)] /\ s[2] <= now
      BY <1>1, <1>2, <1>4, <2>2, CountsGrow, LeaderRounds
    <2>4. /\ contact \in [Server -> Nat \cup {Never}] /\ missed[i] <= now /\ now \in Nat
          /\ missed[i] \in Nat /\ missed' = missed
      BY DEF RBase, ReadTypes, Outcome
    <2>5. contact'[i] = Clock(i) /\ Clock(i) # Never /\ Clock(i) + missed[i] = now
      BY <2>3, <2>4 DEF Clock, Never
    <2> QED
      BY <2>1, <2>3, <2>4, <2>5 DEF Heard
  <1> QED
    BY <1>3, <1>4

\* A majority that has acknowledged a round has heard the leader since.
LEMMA HandledGranted ==
  ASSUME RBase, Leases, LeaseRules, NEW i \in Server, Outcome(i)
  PROVE  LeasesGranted'
PROOF
  <1> SUFFICES ASSUME NEW j \in Server, node'[j].role = Leader, rd'[j].until # 0
               PROVE  \E A \in SUBSET InitialMembers :
                        /\ Electors(A)
                        /\ \A v \in A \ {j} : Heard(v, rd[j].until - ElectionMin)'
    BY DEF LeasesGranted
  <1> PICK t : t = rd'[j].until - ElectionMin
    OBVIOUS
  <1>1. /\ node[j].role = Leader /\ Grown(j, rd[j], rd'[j])
        /\ rd[j].roundId \in Nat /\ rd[j].until \in Nat /\ rd'[j].done \in Nat
        /\ rd[j].sentAt \in SUBSET (Nat \X Nat) /\ ElectionMin \in Nat
    BY LeaderRounds, Bounds
  <1>2. InitialMembers \subseteq Server
    BY ServerAssumption
  <1>3. CASE rd'[j].until = rd[j].until
    <2>1. PICK A \in SUBSET InitialMembers :
             Electors(A) /\ \A v \in A \ {j} : Heard(v, rd[j].until - ElectionMin)
      BY <1>1, <1>3 DEF Leases, LeasesGranted
    <2>2. \A v \in A \ {j} : Heard(v, t)
      BY <1>3, <2>1
    <2>3. \A v \in A \ {j} : Heard(v, t)'
      BY <1>1, <1>2, <1>3, <2>2, HeardStays DEF LeaseRules
    <2> QED
      BY <2>1, <2>3 DEF Heard
  <1>4. CASE rd'[j].until # rd[j].until
    <2>1. PICK A \in SUBSET InitialMembers :
             Electors(A) /\ \A v \in A \ {j} : Counts(j, rd'[j].done, v)
      BY <1>1, <1>4 DEF Grown, Confirmed, Counts
    <2>2. CASE \E s \in rd[j].sentAt : s[1] = rd'[j].done /\ rd'[j].until = s[2] + ElectionMin
      <3>1. PICK s \in rd[j].sentAt : s[1] = rd'[j].done /\ rd'[j].until = s[2] + ElectionMin
        BY <2>2
      <3>2. s[2] \in Nat /\ s[2] = t
        BY <1>1, <3>1
      <3>3. \A v \in A \ {j} : Heard(v, s[2])
        BY <1>1, <2>1, <3>1 DEF Leases, AnswersHeard
      <3>4. \A v \in A \ {j} : Heard(v, t)'
        BY <1>2, <3>2, <3>3, HeardStays DEF LeaseRules
      <3> QED
        BY <2>1, <3>4 DEF Heard
    <2>3. CASE rd'[j].done = rd[j].roundId + 1
      <3>1. A \ {j} = {}
        BY <1>1, <2>1, <2>3, FreshRound
      <3> QED
        BY <2>1, <3>1
    <2> QED
      BY <1>1, <1>4, <2>2, <2>3 DEF Grown
  <1> QED
    BY <1>3, <1>4

\* The acknowledgements of a majority stay out.
LEMMA HandledElected ==
  ASSUME RBase, Leases, LeaseRules, NEW i \in Server, Outcome(i)
  PROVE  TermsElected'
PROOF
  <1> SUFFICES ASSUME NEW j \in Server, node'[j].currentTerm > 0
               PROVE  \E Q \in SUBSET InitialMembers :
                        /\ Electors(Q)
                        /\ \A v \in Q : /\ node'[v].currentTerm >= node'[j].currentTerm
                                        /\ Out(node[j].currentTerm, v)'
    BY DEF TermsElected
  <1>1. \A v \in Server : /\ node[v].currentTerm \in Nat /\ node'[v].currentTerm \in Nat
                          /\ node[v].currentTerm <= node'[v].currentTerm
    BY TermsGrow
  <1>2. InitialMembers \subseteq Server
    BY ServerAssumption
  <1>3. PICK k \in Server : node'[j].currentTerm <= node[k].currentTerm
    BY <1>1 DEF Outcome
  <1>4. PICK Q \in SUBSET InitialMembers :
           Electors(Q) /\ \A v \in Q : /\ node[v].currentTerm >= node[k].currentTerm
                                       /\ Out(node[k].currentTerm, v)
    BY <1>1, <1>3 DEF Leases, TermsElected
  <1>5. ASSUME NEW v \in Q, NEW l \in Server, node'[l].role = Leader,
               node'[l].currentTerm < node'[j].currentTerm,
               NEW s \in rd'[l].sentAt, Counts(l, s[1], v)'
        PROVE  now >= s[2] + ElectionMin
    <2>1. /\ node[l].role = Leader /\ node'[l].currentTerm = node[l].currentTerm
          /\ rd[l].roundId \in Nat
      BY <1>5, LeaderRounds
    <2>2. s \in Nat \X Nat
      BY <1>5, LeaderRounds, SentNumbers
    <2>3. v # l /\ v \in InitialMembers /\ node[l].currentTerm < node[k].currentTerm
      BY <1>1, <1>2, <1>3, <1>4, <1>5, <2>1
    <2>4. ~(v = i /\ node'[i].currentTerm = node[l].currentTerm)
      BY <1>1, <1>2, <1>4, <2>3
    <2>5. Counts(l, s[1], v)
      BY <1>5, <2>2, <2>3, <2>4, CountsGrow
    <2>6. s \in rd[l].sentAt
      BY <1>5, <2>1, <2>2, <2>5, LeaderRounds, FreshRound
    <2> QED
      BY <1>4, <2>1, <2>3, <2>5, <2>6 DEF Out
  <1>6. \A v \in Q : Out(node[j].currentTerm, v)'
    <2>1. now' = now
      BY DEF Outcome
    <2> QED
      BY <1>5, <2>1 DEF Out
  <1>7. \A v \in Q : node'[v].currentTerm >= node'[j].currentTerm
    BY <1>1, <1>2, <1>3, <1>4
  <1> QED
    BY <1>4, <1>6, <1>7

\* A lease that is extended was not acknowledged by anybody who is out.
LEMMA HandledOver ==
  ASSUME RBase, Leases, LeaseRules, NEW i \in Server, Outcome(i)
  PROVE  LeasesOver'
PROOF
  <1> SUFFICES ASSUME NEW l \in Server, NEW j \in Server, node'[l].role = Leader,
                      node'[j].currentTerm > node'[l].currentTerm
               PROVE  rd'[l].until <= now
    BY DEF LeasesOver, Outcome
  <1>1. \A v \in Server : /\ node[v].currentTerm \in Nat /\ node'[v].currentTerm \in Nat
                          /\ node[v].currentTerm <= node'[v].currentTerm
    BY TermsGrow
  <1>2. /\ node[l].role = Leader /\ node'[l].currentTerm = node[l].currentTerm
        /\ Grown(l, rd[l], rd'[l]) /\ rd[l].roundId \in Nat /\ rd'[l].done \in Nat
        /\ rd[l].sentAt \in SUBSET (Nat \X Nat)
    BY LeaderRounds
  <1>3. PICK k \in Server : node'[j].currentTerm <= node[k].currentTerm
    BY <1>1 DEF Outcome
  <1>4. node[k].currentTerm > node[l].currentTerm /\ node[k].currentTerm > 0
    BY <1>1, <1>2, <1>3
  <1>5. CASE rd'[l].until = rd[l].until
    BY <1>2, <1>4, <1>5 DEF Leases, LeasesOver
  <1>6. CASE rd'[l].until # rd[l].until
    <2>1. PICK A \in SUBSET InitialMembers :
             Electors(A) /\ \A v \in A \ {l} : Counts(l, rd'[l].done, v)
      BY <1>2, <1>6 DEF Grown, Confirmed, Counts
    <2>2. PICK Q \in SUBSET InitialMembers :
             Electors(Q) /\ \A v \in Q : /\ node[v].currentTerm >= node[k].currentTerm
                                         /\ Out(node[k].currentTerm, v)
      BY <1>4 DEF Leases, TermsElected
    <2>3. PICK v \in A : v \in Q
      BY <2>1, <2>2, ElectorsMeet
    <2>4. v # l
      BY <1>1, <1>4, <2>2, <2>3
    <2>5. Counts(l, rd'[l].done, v)
      BY <2>1, <2>3, <2>4
    <2>6. rd'[l].done # rd[l].roundId + 1
      BY <1>2, <2>5, FreshRound
    <2>7. PICK s \in rd[l].sentAt : s[1] = rd'[l].done /\ rd'[l].until = s[2] + ElectionMin
      BY <1>2, <1>6, <2>6 DEF Grown
    <2>8. now >= s[2] + ElectionMin
      BY <1>2, <1>4, <2>2, <2>3, <2>5, <2>7 DEF Out
    <2> QED
      BY <1>2, <2>7, <2>8
  <1> QED
    BY <1>5, <1>6

\* An election: the leaders that remain, and what they have been acknowledged.
LEMMA WonLeaders ==
  ASSUME RBase, NEW i \in Server, NEW Q \in SUBSET Server, Won(i, Q),
         NEW j \in Server, node'[j].role = Leader, j # i
  PROVE  /\ j \notin Q /\ node'[j] = node[j] /\ rd'[j] = rd[j]
         /\ \A r, v : Counts(j, r, v)' => Counts(j, r, v)
PROOF
  <1>1. j \notin Q /\ node'[j] = node[j] /\ rd'[j] = rd[j]
    BY WonFacts
  <1>2. answers' \subseteq answers
    BY DEF Won, FirstRound
  <1> QED
    BY <1>1, <1>2 DEF Counts, InFlight

\* And the new one, which has been acknowledged by itself only.
LEMMA WonAlone ==
  ASSUME RBase, NEW i \in Server, NEW Q \in SUBSET Server, Won(i, Q)
  PROVE  /\ \A s \in rd'[i].sentAt : s[1] = rd'[i].roundId
         /\ \A v \in InitialMembers \ {i} : \A r : r = rd'[i].roundId => ~Counts(i, r, v)'
         /\ \A A \in SUBSET InitialMembers :
              (\A v \in A \ {i} : <<rd'[i].roundId, v>> \in Cleared(rd[i]).acks
                                  \/ InFlight(i, rd'[i].roundId, v)) => A \ {i} = {}
PROOF
  <1>1. /\ rd'[i].roundId = rd[i].roundId + 1 /\ rd[i].roundId \in Nat
        /\ \A a \in rd'[i].acks : InFlight(i, a[1], a[2]) \/ a = <<rd'[i].roundId, i>>
        /\ rd'[i].sentAt \subseteq {<<rd'[i].roundId, Clock(i)>>}
    BY WonFacts
  <1>2. answers' \subseteq answers
    BY DEF Won, FirstRound
  <1>3. \A a \in answers : a.dst = i => a.round # rd'[i].roundId
    BY <1>1 DEF RBase, Numbered, AnswerNumbered, ReadTypes, RoundAnswer
  <1>4. Cleared(rd[i]).acks = {}
    BY NodeBase DEF Cleared, ReadState
  <1>5. \A v : ~InFlight(i, rd'[i].roundId, v)
    BY <1>3 DEF InFlight
  <1>6. ASSUME NEW v \in InitialMembers \ {i}, NEW r, r = rd'[i].roundId
        PROVE  ~Counts(i, r, v)'
    <2>1. <<r, v>> \notin rd'[i].acks
      BY <1>1, <1>5, <1>6
    <2>2. ~InFlight(i, r, v)'
      BY <1>2, <1>3, <1>6 DEF InFlight
    <2> QED
      BY <2>1, <2>2 DEF Counts
  <1>7. \A s \in rd'[i].sentAt : s[1] = rd'[i].roundId
    BY <1>1
  <1> QED
    BY <1>4, <1>5, <1>6, <1>7

\* Who votes has not heard a leader for as long as a lease lasts.
LEMMA VotersOut ==
  ASSUME RBase, LeaderStickiness, NEW v \in Server, Unled(v), NEW t \in Int, Heard(v, t)
  PROVE  now >= t + ElectionMin
PROOF
  <1>1. /\ contact[v] \in Nat \cup {Never} /\ now \in Nat /\ missed[v] \in Nat
        /\ ElectionMin \in Nat
    BY Bounds DEF RBase, ReadTypes
  <1> QED
    BY <1>1 DEF Unled, Heard, Clock, Never

\* An election leaves what has been heard, and it ends the leases of earlier terms.
LEMMA WonLeases ==
  ASSUME RBase, Leases, LeaseRules, NEW i \in Server, NEW Q \in SUBSET Server, Won(i, Q)
  PROVE  Leases'
PROOF
  <1>1. InitialMembers \subseteq Server /\ now \in Nat /\ ElectionMin \in Nat
    BY ServerAssumption, Bounds DEF RBase, ReadTypes
  <1>2. /\ contact' = contact /\ missed' = missed /\ now' = now
        /\ \A v \in Q : Unled(v)
    BY DEF Won, FirstRound, VotesWon
  <1>3. \A j \in Server : rd[j].until \in Nat /\ rd[j].sentAt \in SUBSET (Nat \X Nat)
    BY NodeBase DEF ReadState
  <1>4. \A j \in Server : node[j].currentTerm \in Nat
    BY NodeBase
  <1>5. AnswersHeard'
    <2> SUFFICES ASSUME NEW j \in Server, node'[j].role = Leader,
                        NEW s \in rd'[j].sentAt, NEW v \in InitialMembers \ {j},
                        Counts(j, s[1], v)'
                 PROVE  Heard(v, s[2])'
      BY DEF AnswersHeard
    <2>1. j # i
      BY WonAlone
    <2>2. node[j].role = Leader /\ s \in rd[j].sentAt /\ Counts(j, s[1], v)
      BY <2>1, WonLeaders
    <2>3. Heard(v, s[2])
      BY <2>2 DEF Leases, AnswersHeard
    <2> QED
      BY <1>2, <2>3 DEF Heard
  <1>6. LeasesGranted'
    <2> SUFFICES ASSUME NEW j \in Server, node'[j].role = Leader, rd'[j].until # 0
                 PROVE  \E A \in SUBSET InitialMembers :
                          /\ Electors(A)
                          /\ \A v \in A \ {j} : Heard(v, rd[j].until - ElectionMin)'
      BY DEF LeasesGranted
    <2>1. CASE j = i
      <3>1. Confirmed(i, Cleared(rd[i]), rd'[i].roundId)
        BY <2>1, WonFacts
      <3>2. PICK A \in SUBSET InitialMembers :
               /\ Electors(A)
               /\ \A v \in A \ {i} : <<rd'[i].roundId, v>> \in Cleared(rd[i]).acks
                                     \/ InFlight(i, rd'[i].roundId, v)
        BY <3>1 DEF Confirmed
      <3>3. A \ {i} = {}
        BY <3>2, WonAlone
      <3> QED
        BY <2>1, <3>2, <3>3
    <2>2. CASE j # i
      <3>1. node[j].role = Leader /\ rd'[j] = rd[j]
        BY <2>2, WonLeaders
      <3>2. PICK A \in SUBSET InitialMembers :
               Electors(A) /\ \A v \in A \ {j} : Heard(v, rd[j].until - ElectionMin)
        BY <3>1 DEF Leases, LeasesGranted
      <3> QED
        BY <1>2, <3>1, <3>2 DEF Heard
    <2> QED
      BY <2>1, <2>2
  <1>7. TermsElected'
    <2> SUFFICES ASSUME NEW j \in Server, node'[j].currentTerm > 0
                 PROVE  \E R \in SUBSET InitialMembers :
                          /\ Electors(R)
                          /\ \A v \in R : /\ node'[v].currentTerm >= node'[j].currentTerm
                                          /\ Out(node[j].currentTerm, v)'
      BY DEF TermsElected
    <2>1. CASE j \in Q
      <3>1. \A v \in Q : /\ node'[v].currentTerm = node'[j].currentTerm
                         /\ node'[v].currentTerm \in Nat
        BY <2>1, WonFacts
      <3>2. ASSUME NEW v \in Q, NEW l \in Server, node'[l].role = Leader,
                   node'[l].currentTerm < node'[j].currentTerm,
                   NEW s \in rd'[l].sentAt, Counts(l, s[1], v)'
            PROVE  now >= s[2] + ElectionMin
        <4>1. l # i /\ l \notin Q
          BY <3>1, <3>2, WonFacts
        <4>2. node[l].role = Leader /\ s \in rd[l].sentAt /\ Counts(l, s[1], v)
          BY <3>2, <4>1, WonLeaders
        <4>3. v \in InitialMembers \ {l} /\ v \in Server /\ s[2] \in Nat
          BY <1>1, <1>3, <4>1, <4>2, WonFacts
        <4>4. Heard(v, s[2])
          BY <4>2, <4>3 DEF Leases, AnswersHeard
        <4> QED
          BY <1>2, <4>3, <4>4, VotersOut DEF LeaseRules
      <3>3. \A v \in Q : Out(node[j].currentTerm, v)'
        BY <1>2, <3>2 DEF Out
      <3> QED
        BY <3>1, <3>3, WonFacts
    <2>2. CASE j \notin Q
      <3>1. node'[j] = node[j]
        BY <2>2, WonFacts
      <3>2. PICK R \in SUBSET InitialMembers :
               Electors(R) /\ \A v \in R : /\ node[v].currentTerm >= node[j].currentTerm
                                           /\ Out(node[j].currentTerm, v)
        BY <3>1 DEF Leases, TermsElected
      <3>3. \A v \in R : node'[v].currentTerm >= node'[j].currentTerm
        BY <1>1, <3>1, <3>2, WonFacts
      <3>4. ASSUME NEW v \in R, NEW l \in Server, node'[l].role = Leader,
                   node'[l].currentTerm < node'[j].currentTerm,
                   NEW s \in rd'[l].sentAt, Counts(l, s[1], v)'
            PROVE  now >= s[2] + ElectionMin
        <4>1. v # l
          BY <1>1, <3>3, <3>4, WonFacts
        <4>2. l # i
          BY <3>4, <4>1, WonAlone
        <4>3. /\ node[l].role = Leader /\ node[l].currentTerm < node[j].currentTerm
              /\ s \in rd[l].sentAt /\ Counts(l, s[1], v)
          BY <3>1, <3>4, <4>2, WonLeaders
        <4> QED
          BY <3>2, <4>3 DEF Out
      <3>5. \A v \in R : Out(node[j].currentTerm, v)'
        BY <1>2, <3>4 DEF Out
      <3> QED
        BY <3>2, <3>3, <3>5
    <2> QED
      BY <2>1, <2>2
  <1>8. LeasesOver'
    <2> SUFFICES ASSUME NEW l \in Server, NEW j \in Server, node'[l].role = Leader,
                        node'[j].currentTerm > node'[l].currentTerm
                 PROVE  rd'[l].until <= now
      BY <1>2 DEF LeasesOver
    <2>1. l # i
      <3> SUFFICES ASSUME l = i PROVE FALSE
        OBVIOUS
      <3>1. j \notin Q /\ node'[j] = node[j] /\ node[j].currentTerm > 0
        BY WonFacts
      <3>2. PICK R \in SUBSET InitialMembers :
               Electors(R) /\ \A v \in R : node[v].currentTerm >= node[j].currentTerm
        BY <3>1 DEF RBase, TermsBacked
      <3>3. PICK v \in R : v \in Q
        BY <3>2, WonFacts, ElectorsMeet
      <3> QED
        BY <1>1, <1>4, <3>1, <3>2, <3>3, WonFacts
    <2>2. l \notin Q /\ node[l].role = Leader /\ node'[l] = node[l] /\ rd'[l] = rd[l]
      BY <2>1, WonLeaders
    <2>3. CASE j \notin Q
      BY <2>2, <2>3, WonFacts DEF Leases, LeasesOver
    <2>4. CASE j \in Q /\ rd[l].until # 0
      <3>1. PICK A \in SUBSET InitialMembers :
               Electors(A) /\ \A v \in A \ {l} : Heard(v, rd[l].until - ElectionMin)
        BY <2>2, <2>4 DEF Leases, LeasesGranted
      <3>2. PICK v \in A : v \in Q
        BY <3>1, WonFacts, ElectorsMeet
      <3>3. Heard(v, rd[l].until - ElectionMin) /\ v \in Server /\ Unled(v)
            /\ rd[l].until - ElectionMin \in Int
        BY <1>1, <1>2, <1>3, <2>2, <3>1, <3>2
      <3>4. now >= (rd[l].until - ElectionMin) + ElectionMin
        BY <3>3, VotersOut DEF LeaseRules
      <3> QED
        BY <1>1, <1>3, <2>2, <3>4
    <2>5. CASE rd[l].until = 0
      BY <1>1, <2>2, <2>5
    <2> QED
      BY <2>3, <2>4, <2>5
  <1> QED
    BY <1>5, <1>6, <1>7, <1>8 DEF Leases

\* Time runs leases out and does not make anything heard.
LEMMA PassingLeases ==
  ASSUME RBase, Leases, Passing
  PROVE  Leases'
PROOF
  <1>1. UNCHANGED <<node, rd, contact, answers>>
    BY DEF Passing
  <1>2. /\ now \in Nat /\ now' \in Nat /\ now <= now' /\ ElectionMin \in Nat
        /\ InitialMembers \subseteq Server
        /\ \A v \in Server : /\ missed[v] \in Nat /\ missed'[v] \in Nat
                             /\ missed[v] <= missed'[v] /\ contact[v] \in Int
    <2>1. /\ now \in Nat /\ ElectionMin \in Nat /\ InitialMembers \subseteq Server
          /\ missed \in [Server -> Nat] /\ \A v \in Server : contact[v] \in Int
      BY ServerAssumption, Bounds DEF RBase, ReadTypes, Never
    <2>2. CASE now' = now /\ missed' = missed
      BY <2>1, <2>2
    <2>3. CASE /\ now' = now + 1
               /\ missed' = [i \in Server |-> IF i \in frozen THEN missed[i] + 1 ELSE missed[i]]
      BY <2>1, <2>3
    <2> QED
      BY <2>2, <2>3 DEF Passing
  <1>3. \A j \in Server : rd[j].until \in Nat /\ rd[j].sentAt \in SUBSET (Nat \X Nat)
    BY NodeBase DEF ReadState
  <1>4. \A v \in Server, t \in Int : Heard(v, t) => Heard(v, t)'
    BY <1>1, <1>2 DEF Heard
  <1>5. \A i, r, v : Counts(i, r, v)' = Counts(i, r, v)
    BY <1>1 DEF Counts, InFlight
  <1>6. \A t, v : Out(t, v) => Out(t, v)'
    <2> TAKE t, v
    <2> SUFFICES ASSUME Out(t, v), NEW i \in Server, node[i].role = Leader,
                        node[i].currentTerm < t, NEW s \in rd[i].sentAt, Counts(i, s[1], v)
                 PROVE  now' >= s[2] + ElectionMin
      BY <1>1, <1>5 DEF Out
    <2>1. now >= s[2] + ElectionMin /\ s[2] \in Nat
      BY <1>3 DEF Out
    <2> QED
      BY <1>2, <2>1
  <1>7. AnswersHeard'
    <2> SUFFICES ASSUME NEW j \in Server, node[j].role = Leader, NEW s \in rd[j].sentAt,
                        NEW v \in InitialMembers \ {j}, Counts(j, s[1], v)
                 PROVE  Heard(v, s[2])'
      BY <1>1, <1>5 DEF AnswersHeard
    <2>1. Heard(v, s[2]) /\ v \in Server /\ s[2] \in Nat
      BY <1>2, <1>3 DEF Leases, AnswersHeard
    <2> QED
      BY <1>4, <2>1
  <1>8. LeasesGranted'
    <2> SUFFICES ASSUME NEW j \in Server, node[j].role = Leader, rd[j].until # 0
                 PROVE  \E A \in SUBSET InitialMembers :
                          /\ Electors(A)
                          /\ \A v \in A \ {j} : Heard(v, rd[j].until - ElectionMin)'
      BY <1>1 DEF LeasesGranted
    <2>1. PICK A \in SUBSET InitialMembers :
             Electors(A) /\ \A v \in A \ {j} : Heard(v, rd[j].until - ElectionMin)
      BY DEF Leases, LeasesGranted
    <2>2. rd[j].until - ElectionMin \in Int
      BY <1>2, <1>3
    <2>3. PICK t \in Int : t = rd[j].until - ElectionMin
      BY <2>2
    <2>4. \A v \in A \ {j} : Heard(v, t)'
      BY <1>2, <1>4, <2>1, <2>3
    <2> QED
      BY <1>1, <2>1, <2>3, <2>4 DEF Heard
  <1>9. TermsElected'
    BY <1>1, <1>6 DEF Leases, TermsElected
  <1>10. LeasesOver'
    BY <1>1, <1>2, <1>3 DEF Leases, LeasesOver
  <1> QED
    BY <1>7, <1>8, <1>9, <1>10 DEF Leases

\* Initially there is neither a leader nor a term.
LEMMA InitLeases ==
  ASSUME Init
  PROVE  LeaseInv
PROOF
  <1>1. \A i \in Server : node[i].role # Leader /\ node[i].currentTerm = 0
    BY DEF Init, InitNode, Follower, Leader
  <1> QED
    BY <1>1, InitBase DEF LeaseInv, Leases, AnswersHeard, LeasesGranted, TermsElected, LeasesOver

\* Every step.
LEMMA LeaseInvStep ==
  ASSUME ~MembershipChanges, "lease" \in ReadModes => LeaseRules, LeaseInv, [Next]_vars
  PROVE  LeaseInv'
PROOF
  <1>1. RBase /\ (readMode = "lease" => LeaseRules)
    BY DEF LeaseInv, RBase, ReadTypes
  <1>2. ASSUME NEW i \in Server, Handled(i) PROVE LeaseInv'
    <2>1. Outcome(i)
      BY <1>1, <1>2, HandledOutcome
    <2>2. RBase' /\ readMode' = readMode
      BY <1>1, <2>1, HandledBase DEF Outcome
    <2>3. readMode = "lease" => Leases'
      BY <1>1, <2>1, HandledHeard, HandledGranted, HandledElected, HandledOver
         DEF LeaseInv, Leases
    <2> QED
      BY <2>2, <2>3 DEF LeaseInv
  <1>3. ASSUME NEW i \in Server, NEW Q \in SUBSET Server, Won(i, Q) PROVE LeaseInv'
    <2>1. RBase' /\ readMode' = readMode
      BY <1>1, <1>3, WonBase DEF Won, FirstRound
    <2>2. readMode = "lease" => Leases'
      BY <1>1, <1>3, WonLeases DEF LeaseInv
    <2> QED
      BY <2>1, <2>2 DEF LeaseInv
  <1>4. CASE Passing
    <2>1. RBase' /\ readMode' = readMode
      BY <1>1, <1>4, PassingBase DEF Passing
    <2>2. readMode = "lease" => Leases'
      BY <1>1, <1>4, PassingLeases DEF LeaseInv
    <2> QED
      BY <2>1, <2>2 DEF LeaseInv
  <1> QED
    BY <1>1, <1>2, <1>3, <1>4, ReadSteps

\* LeaseExclusive: while a leader believes in its lease, nobody leads a later term, however
\* messages are lost, repeated and delayed and whichever clocks of voters are stopped -
\* provided that voters are sticky, that no server forgets whom it has heard (no crash),
\* and that the clocks of those who lead are not stopped (node.py:310, :427, :639).
THEOREM LeaseExclusiveTheorem ==
  ASSUME ~MembershipChanges, "lease" \in ReadModes => LeaseRules
  PROVE  Spec => []LeaseExclusive
PROOF
  <1>1. Init => LeaseInv
    BY InitLeases
  <1>2. LeaseInv /\ [Next]_vars => LeaseInv'
    BY LeaseInvStep
  <1>3. LeaseInv => LeaseExclusive
    <2> SUFFICES ASSUME LeaseInv, NEW i \in Server, NEW j \in Server,
                        node[i].role = Leader, LeaseHeld(i)
                 PROVE  node[j].currentTerm <= node[i].currentTerm
      BY DEF LeaseExclusive
    <2>1. RBase /\ Leases /\ LeaseRules
      BY DEF LeaseInv, LeaseHeld, RBase, ReadTypes
    <2>2. Clock(i) = now /\ now < rd[i].until
      BY <2>1, LeadersMoving DEF LeaseHeld, LeaseRules
    <2>3. /\ node[i].currentTerm \in Nat /\ node[j].currentTerm \in Nat
          /\ now \in Nat /\ rd[i].until \in Nat
      BY <2>1, NodeBase DEF RBase, ReadTypes, ReadState
    <2> QED
      BY <2>1, <2>2, <2>3 DEF Leases, LeasesOver
  <1> QED
    BY <1>1, <1>2, <1>3, PTL DEF Spec

-----------------------------------------------------------------------------
(* Reads *)

\* Some server knows of a later term than that of leader i.
Superseded(i) == \E j \in Server : node[j].currentTerm > node[i].currentTerm

\* Round r of i, and every later one, will never be done: a majority has gone on to later
\* terms without having acknowledged any.
Blocked(i, r) ==
  /\ rd[i].done < r
  /\ \E Q \in SUBSET InitialMembers :
       /\ Electors(Q)
       /\ \A v \in Q : /\ node[v].currentTerm > node[i].currentTerm
                       /\ \A k \in Nat : k >= r => ~Counts(i, k, v)

\* Read q may be answered from k entries once round r of i is done.
Answerable(i, q, k, r) == floor[q] <= k \/ Blocked(i, r)

\* Reads begin with what is committed, and what leads has the barrier above that, unless
\* there is a later term.
Barred ==
  \A i \in Server : node[i].role = Leader =>
    /\ ReadBarrier(node[i], rd[i]) = rd[i].termStart
    /\ committed <= rd[i].termStart \/ Superseded(i)

FloorSound == \A q \in 1 .. Len(floor) : floor[q] <= committed

WaitersFresh ==
  \A i \in Server : node[i].role = Leader =>
    \A w \in rd[i].waiters : /\ w.read \in 1 .. Len(floor)
                             /\ Answerable(i, w.read, w.index, w.round)

InstantFresh ==
  \A i \in Server : node[i].role = Leader /\ i \in instant /\ rd[i].open # 0 =>
    \A q \in 1 .. Len(floor) : Answerable(i, q, rd[i].termStart, rd[i].open)

AnswersFresh ==
  \A s \in served : s[1] \in 1 .. Len(floor) /\ s[2] >= floor[s[1]]

FreshReads == FloorSound /\ WaitersFresh /\ InstantFresh /\ AnswersFresh

\* A leader of a term that is over cannot do another round.
LEMMA SupersededBlocked ==
  ASSUME RBase, NEW i \in Server, Superseded(i)
  PROVE  Blocked(i, rd[i].roundId + 1)
PROOF
  <1>1. PICK j \in Server : node[j].currentTerm > node[i].currentTerm
    BY DEF Superseded
  <1>2. node[i].currentTerm \in Nat /\ node[j].currentTerm \in Nat
        /\ rd[i] \in ReadState /\ Counted(rd[i]) /\ InitialMembers \subseteq Server
    BY NodeBase, ServerAssumption DEF RoundTypes
  <1>3. rd[i].roundId \in Nat /\ rd[i].done < rd[i].roundId + 1
    BY <1>2 DEF ReadState, Counted
  <1>4. PICK Q \in SUBSET InitialMembers :
           Electors(Q) /\ \A v \in Q : node[v].currentTerm >= node[j].currentTerm
    BY <1>1, <1>2 DEF RBase, TermsBacked
  <1>5. \A v \in Q : node[v].currentTerm > node[i].currentTerm
    BY <1>1, <1>2, <1>4, NodeBase
  <1>6. \A v \in Q : \A k \in Nat : k >= rd[i].roundId + 1 => ~Counts(i, k, v)
    BY <1>3, FreshRound
  <1> QED
    BY <1>3, <1>4, <1>5, <1>6 DEF Blocked

\* So what it waits for from now on will not be answered, if it has missed anything.
LEMMA LeaderFresh ==
  ASSUME RBase, Barred, FloorSound, NEW i \in Server, node[i].role = Leader,
         NEW q \in 1 .. Len(floor)
  PROVE  Answerable(i, q, rd[i].termStart, rd[i].roundId + 1)
PROOF
  <1>1. floor[q] <= committed /\ committed \in Nat /\ floor[q] \in Nat
        /\ rd[i].termStart \in Nat
    <2>1. committed \in Nat /\ floor \in Seq(Nat) /\ rd[i] \in ReadState
      BY NodeBase DEF RBase, ReadTypes
    <2>2. floor[q] \in Nat
      BY <2>1
    <2> QED
      BY <2>1, <2>2 DEF FloorSound, ReadState
  <1>2. CASE Superseded(i)
    BY <1>2, SupersededBlocked DEF Answerable
  <1>3. CASE committed <= rd[i].termStart
    BY <1>1, <1>3 DEF Answerable
  <1> QED
    BY <1>2, <1>3 DEF Barred

\* What is blocked is not done.
LEMMA BlockedUndone ==
  ASSUME RBase, NEW i \in Server, NEW r \in Nat, Blocked(i, r), NEW y, Grown(i, rd[i], y)
  PROVE  y.done < r
PROOF
  <1>1. y.done \in Nat /\ InitialMembers \subseteq Server
    BY ServerAssumption DEF Grown, RoundTypes, ReadState
  <1>2. CASE y.done = rd[i].done
    BY <1>2 DEF Blocked
  <1>3. CASE y.done # rd[i].done
    <2>1. PICK A \in SUBSET InitialMembers :
             Electors(A) /\ \A v \in A \ {i} : Counts(i, y.done, v)
      BY <1>3 DEF Grown, Confirmed, Counts
    <2>2. PICK Q \in SUBSET InitialMembers :
             /\ Electors(Q)
             /\ \A v \in Q : /\ node[v].currentTerm > node[i].currentTerm
                             /\ \A k \in Nat : k >= r => ~Counts(i, k, v)
      BY DEF Blocked
    <2>3. PICK v \in A : v \in Q
      BY <2>1, <2>2, ElectorsMeet
    <2>4. v # i
      BY <2>2, <2>3, NodeBase
    <2> QED
      BY <1>1, <2>1, <2>2, <2>3, <2>4
  <1> QED
    BY <1>2, <1>3

\* And it stays blocked as long as there is the leader.
LEMMA BlockedStays ==
  ASSUME RBase, NEW i \in Server, Outcome(i), NEW j \in Server, node'[j].role = Leader,
         NEW r \in Nat, Blocked(j, r)
  PROVE  Blocked(j, r)'
PROOF
  <1>1. /\ node[j].role = Leader /\ node'[j].currentTerm = node[j].currentTerm
        /\ Grown(j, rd[j], rd'[j])
    BY LeaderRounds
  <1>2. rd'[j].done < r
    BY <1>1, BlockedUndone
  <1>3. PICK Q \in SUBSET InitialMembers :
           /\ Electors(Q)
           /\ \A v \in Q : /\ node[v].currentTerm > node[j].currentTerm
                           /\ \A k \in Nat : k >= r => ~Counts(j, k, v)
    BY DEF Blocked
  <1>4. InitialMembers \subseteq Server
    BY ServerAssumption
  <1>5. \A v \in Q : node'[v].currentTerm > node'[j].currentTerm /\ v # j
    BY <1>1, <1>3, <1>4, TermsGrow
  <1>6. ASSUME NEW v \in Q, NEW k \in Nat, k >= r, Counts(j, k, v)' PROVE FALSE
    <2>1. ~Counts(j, k, v) /\ v \in InitialMembers /\ v # j
      BY <1>3, <1>5, <1>6
    <2>2. v = i /\ node'[i].currentTerm = node[j].currentTerm
      BY <1>6, <2>1, CountsGrow
    <2> QED
      BY <1>1, <1>4, <1>5, <2>2, TermsGrow
  <1> QED
    BY <1>2, <1>3, <1>5, <1>6 DEF Blocked

\* Whatever a leader makes wait may be answered when its round is done.
LEMMA WaitsFresh ==
  ASSUME RBase, Barred, FreshReads, NEW i \in Server, node[i].role = Leader,
         NEW y, Grown(i, rd[i], y), NEW w, Waits(i, y, w)
  PROVE  w.read \in 1 .. Len(floor) /\ Answerable(i, w.read, w.index, w.round) /\ w.round \in Nat
PROOF
  <1>1. rd[i] \in ReadState /\ rd[i].roundId \in Nat /\ rd[i].open \in Nat
    BY NodeBase DEF ReadState
  <1>2. CASE w \in rd[i].waiters
    BY <1>1, <1>2 DEF FreshReads, WaitersFresh, ReadState
  <1>3. CASE w \notin rd[i].waiters
    <2>1. /\ w.read \in 1 .. Len(floor) /\ w.round = y.open /\ w.index = rd[i].termStart
          /\ \/ y.roundId = rd[i].roundId + 1
             \/ i \in instant /\ rd[i].open # 0 /\ y.open = rd[i].open
      BY <1>3 DEF Waits, Barred
    <2>2. CASE y.roundId = rd[i].roundId + 1
      <3>1. y.open = rd[i].roundId + 1
        BY <1>1, <2>2 DEF Grown
      <3> QED
        BY <1>1, <2>1, <3>1, LeaderFresh DEF FreshReads
    <2>3. CASE i \in instant /\ rd[i].open # 0 /\ y.open = rd[i].open
      BY <1>1, <2>1, <2>3 DEF FreshReads, InstantFresh
    <2> QED
      BY <2>1, <2>2, <2>3
  <1> QED
    BY <1>2, <1>3

\* What is answered is fresh.
LEMMA RepliesFresh ==
  ASSUME RBase, readMode = "lease" => Leases /\ LeaseRules,
         Electable \cap Freezable = {}, Barred, FreshReads,
         NEW i \in Server, NEW y, Grown(i, rd[i], y), NEW s, Replies(i, y, s)
  PROVE  s[1] \in 1 .. Len(floor) /\ s[2] >= floor[s[1]]
PROOF
  <1>1. node[i].role = Leader /\ s[2] \in Nat /\ floor \in Seq(Nat)
    BY DEF Replies, RBase, ReadTypes
  <1>2. CASE LeaseHeld(i) /\ s[1] \in 1 .. Len(floor) /\ s[2] >= ReadBarrier(node[i], rd[i])
    <2>1. now < rd[i].until /\ Leases
      BY <1>1, <1>2, LeadersMoving DEF LeaseHeld
    <2>2. now \in Nat /\ rd[i].until \in Nat /\ rd[i].termStart \in Nat /\ committed \in Nat
      BY NodeBase DEF ReadState, RBase, ReadTypes
    <2>3. ~Superseded(i)
      BY <1>1, <2>1, <2>2 DEF Leases, LeasesOver, Superseded
    <2>4. committed <= rd[i].termStart /\ s[2] >= rd[i].termStart
      BY <1>1, <1>2, <2>3 DEF Barred
    <2>5. floor[s[1]] <= committed /\ floor[s[1]] \in Nat
      BY <1>1, <1>2 DEF FreshReads, FloorSound
    <2> QED
      BY <1>1, <1>2, <2>2, <2>4, <2>5
  <1>3. CASE \E w : Waits(i, y, w) /\ w.round <= y.done /\ s[1] = w.read /\ s[2] >= w.index
    <2>1. PICK w : Waits(i, y, w) /\ w.round <= y.done /\ s[1] = w.read /\ s[2] >= w.index
      BY <1>3
    <2>2. /\ w.read \in 1 .. Len(floor) /\ Answerable(i, w.read, w.index, w.round)
          /\ w.round \in Nat
      BY <1>1, <2>1, WaitsFresh
    <2>3. y.done \in Nat /\ w.index \in Nat
      <3>1. y.done \in Nat
        BY DEF Grown, RoundTypes, ReadState
      <3>2. rd[i] \in ReadState
        BY NodeBase
      <3>3. w \in rd[i].waiters => w.index \in Nat
        BY <3>2 DEF ReadState
      <3>4. w \notin rd[i].waiters => w.index = rd[i].termStart
        BY <1>1, <2>1 DEF Waits, Barred
      <3> QED
        BY <3>1, <3>2, <3>3, <3>4 DEF ReadState
    <2>4. ~Blocked(i, w.round)
      <3> SUFFICES ASSUME Blocked(i, w.round) PROVE FALSE
        OBVIOUS
      <3>1. y.done < w.round
        BY <2>2, BlockedUndone
      <3> QED
        BY <2>1, <2>2, <2>3, <3>1
    <2>5. floor[w.read] <= w.index /\ floor[w.read] \in Nat
      BY <1>1, <2>2, <2>4 DEF Answerable
    <2> QED
      BY <1>1, <2>1, <2>2, <2>3, <2>5
  <1> QED
    BY <1>2, <1>3 DEF Replies

\* An event of a node.
LEMMA HandledFresh ==
  ASSUME RBase, readMode = "lease" => Leases /\ LeaseRules,
         Electable \cap Freezable = {}, Barred, FreshReads,
         NEW i \in Server, Handled(i)
  PROVE  FreshReads'
PROOF
  <1>1. Outcome(i)
    BY HandledOutcome
  <1>2. floor' = floor /\ committed <= committed' /\ committed \in Nat /\ committed' \in Nat
        /\ floor \in Seq(Nat)
    BY <1>1 DEF Outcome, RBase, ReadTypes
  <1>3. FloorSound'
    <2> SUFFICES ASSUME NEW q \in 1 .. Len(floor) PROVE floor[q] <= committed'
      BY <1>2 DEF FloorSound
    <2>1. floor[q] \in Nat /\ floor[q] <= committed
      BY <1>2 DEF FreshReads, FloorSound
    <2> QED
      BY <1>2, <2>1
  <1>4. \A j \in Server : \A q, k, r : node'[j].role = Leader /\ r \in Nat /\ Answerable(j, q, k, r)
           => Answerable(j, q, k, r)'
    BY <1>1, <1>2, BlockedStays DEF Answerable
  <1>5. WaitersFresh'
    <2> SUFFICES ASSUME NEW j \in Server, node'[j].role = Leader, NEW w \in rd'[j].waiters
                 PROVE  w.read \in 1 .. Len(floor) /\ Answerable(j, w.read, w.index, w.round)'
      BY <1>2 DEF WaitersFresh
    <2>1. node[j].role = Leader /\ Grown(j, rd[j], rd'[j])
      BY <1>1, LeaderRounds
    <2>2. Waits(j, rd'[j], w)
      BY <1>1 DEF Outcome, StaysLeader, NotLeader, Reading, Waits
    <2>3. w.read \in 1 .. Len(floor) /\ Answerable(j, w.read, w.index, w.round) /\ w.round \in Nat
      BY <2>1, <2>2, WaitsFresh
    <2> QED
      BY <1>4, <2>3
  <1>6. InstantFresh'
    <2> SUFFICES ASSUME NEW j \in Server, node'[j].role = Leader, j \in instant',
                        rd'[j].open # 0, NEW q \in 1 .. Len(floor), NEW k, NEW r,
                        k = rd'[j].termStart, r = rd'[j].open
                 PROVE  Answerable(j, q, k, r)'
      BY <1>2 DEF InstantFresh, Answerable, Blocked, Counts, InFlight
    <2>1. node[j].role = Leader /\ Grown(j, rd[j], rd'[j]) /\ rd[j].roundId \in Nat
      BY <1>1, LeaderRounds
    <2>2. j \notin frozen
      BY <2>1, LeadersMoving
    <2>3. j = i
      BY <1>1, <2>2 DEF Outcome, After
    <2>4. rd[j].open \in Nat /\ k = rd[j].termStart
      BY <2>1, NodeBase DEF ReadState, Grown
    <2>5. CASE rd'[j].roundId = rd[j].roundId + 1
      <3>1. r = rd[j].roundId + 1
        BY <2>1, <2>5 DEF Grown
      <3>2. Answerable(j, q, k, r)
        BY <2>1, <2>4, <3>1, LeaderFresh DEF FreshReads
      <3> QED
        BY <1>4, <2>1, <3>1, <3>2
    <2>6. CASE rd'[j].roundId # rd[j].roundId + 1
      <3>1. r = rd[j].open /\ j \in instant
        BY <1>1, <2>1, <2>3, <2>6 DEF Grown, Outcome, After
      <3>2. Answerable(j, q, k, r)
        BY <2>1, <2>4, <3>1 DEF FreshReads, InstantFresh
      <3> QED
        BY <1>4, <2>4, <3>1, <3>2
    <2> QED
      BY <2>5, <2>6
  <1>7. AnswersFresh'
    <2>1. PICK y : Grown(i, rd[i], y) /\ \A s \in served' : s \in served \/ Replies(i, y, s)
      BY DEF Handled, Moves, Reading
    <2> QED
      BY <1>2, <2>1, RepliesFresh DEF AnswersFresh, FreshReads
  <1> QED
    BY <1>3, <1>5, <1>6, <1>7 DEF FreshReads

\* A new leader has not been superseded.
LEMMA WonNewest ==
  ASSUME RBase, NEW i \in Server, NEW Q \in SUBSET Server, Won(i, Q), NEW j \in Server
  PROVE  node'[j].currentTerm <= node'[i].currentTerm
PROOF
  <1>1. node'[i].currentTerm \in Nat /\ node'[j].currentTerm \in Nat
    BY WonFacts
  <1>2. CASE j \in Q
    BY <1>1, <1>2, WonFacts
  <1>3. CASE j \notin Q /\ node[j].currentTerm > node'[i].currentTerm
    <2>1. node[j].currentTerm > 0
      BY <1>1, <1>3, NodeBase
    <2>2. PICK R \in SUBSET InitialMembers :
             Electors(R) /\ \A v \in R : node[v].currentTerm >= node[j].currentTerm
      BY <2>1 DEF RBase, TermsBacked
    <2>3. PICK v \in R : v \in Q
      BY <2>2, WonFacts, ElectorsMeet
    <2>4. /\ node[v].currentTerm < node'[i].currentTerm /\ node[v].currentTerm \in Nat
          /\ node[j].currentTerm \in Nat
      BY <2>3, NodeBase, WonFacts
    <2> QED
      BY <1>1, <1>3, <2>2, <2>3, <2>4
  <1>4. CASE j \notin Q /\ ~(node[j].currentTerm > node'[i].currentTerm)
    BY <1>1, <1>4, WonFacts
  <1> QED
    BY <1>2, <1>3, <1>4

\* An election.
LEMMA WonFresh ==
  ASSUME RBase, Electable \cap Freezable = {}, FreshReads, Barred',
         NEW i \in Server, NEW Q \in SUBSET Server, Won(i, Q)
  PROVE  FreshReads'
PROOF
  <1>1. /\ floor' = floor /\ committed' = committed /\ served' = served
        /\ instant' \subseteq After(i) \cup {i}
        /\ committed \in Nat /\ floor \in Seq(Nat)
    BY DEF Won, FirstRound, RBase, ReadTypes
  <1>2. FloorSound' /\ AnswersFresh'
    BY <1>1 DEF FreshReads, FloorSound, AnswersFresh
  <1>3. ASSUME NEW j \in Server, node'[j].role = Leader, j # i, NEW q, NEW k, NEW r \in Nat,
               Answerable(j, q, k, r)
        PROVE  Answerable(j, q, k, r)'
    <2>1. /\ node'[j] = node[j] /\ rd'[j] = rd[j] /\ \A p, v : Counts(j, p, v)' => Counts(j, p, v)
      BY <1>3, WonLeaders
    <2>2. CASE Blocked(j, r)
      <3>1. PICK R \in SUBSET InitialMembers :
               /\ Electors(R)
               /\ \A v \in R : /\ node[v].currentTerm > node[j].currentTerm
                               /\ \A p \in Nat : p >= r => ~Counts(j, p, v)
        BY <2>2 DEF Blocked
      <3>2. InitialMembers \subseteq Server
        BY ServerAssumption
      <3>3. \A v \in R : node'[v].currentTerm > node'[j].currentTerm
        BY <2>1, <3>1, <3>2, WonFacts
      <3> QED
        BY <2>1, <2>2, <3>1, <3>3 DEF Blocked, Answerable
    <2>3. CASE floor[q] <= k
      BY <1>1, <2>3 DEF Answerable
    <2> QED
      BY <1>3, <2>2, <2>3 DEF Answerable
  <1>4. WaitersFresh'
    <2> SUFFICES ASSUME NEW j \in Server, node'[j].role = Leader, NEW w \in rd'[j].waiters
                 PROVE  w.read \in 1 .. Len(floor) /\ Answerable(j, w.read, w.index, w.round)'
      BY <1>1 DEF WaitersFresh
    <2>1. j # i
      BY WonFacts
    <2>2. node[j].role = Leader /\ w \in rd[j].waiters /\ rd[j] \in ReadState
      BY <2>1, WonLeaders, NodeBase
    <2>3. w.read \in 1 .. Len(floor) /\ Answerable(j, w.read, w.index, w.round) /\ w.round \in Nat
      BY <2>2 DEF FreshReads, WaitersFresh, ReadState
    <2> QED
      BY <1>3, <2>1, <2>3
  <1>5. InstantFresh'
    <2> SUFFICES ASSUME NEW j \in Server, node'[j].role = Leader, j \in instant',
                        rd'[j].open # 0, NEW q \in 1 .. Len(floor)
                 PROVE  floor[q] <= rd'[j].termStart
      BY <1>1 DEF InstantFresh, Answerable
    <2>1. j = i
      <3> SUFFICES ASSUME j # i PROVE FALSE
        OBVIOUS
      <3>1. node[j].role = Leader /\ j \in frozen
        BY <1>1, WonLeaders DEF After
      <3> QED
        BY <3>1, LeadersMoving
    <2>2. \A l \in Server : ~(node'[l].currentTerm > node'[i].currentTerm)
      BY WonNewest, WonFacts
    <2>3. ~Superseded(i)'
      BY <2>2 DEF Superseded
    <2>4. committed <= rd'[i].termStart
      BY <1>1, <2>1, <2>3 DEF Barred
    <2>5. floor[q] \in Nat /\ floor[q] <= committed
      BY <1>1 DEF FreshReads, FloorSound
    <2>6. rd'[i].termStart \in Nat
      BY WonFacts DEF RoundTypes, ReadState
    <2> QED
      BY <1>1, <2>1, <2>4, <2>5, <2>6
  <1> QED
    BY <1>2, <1>4, <1>5 DEF FreshReads

\* Time, or a client.
LEMMA PassingFresh ==
  ASSUME RBase, Electable \cap Freezable = {}, FreshReads, Passing
  PROVE  FreshReads'
PROOF
  <1>1. /\ UNCHANGED <<node, rd, answers, committed, served>> /\ instant' \subseteq instant
        /\ committed \in Nat /\ floor \in Seq(Nat)
        /\ \/ floor' = floor
           \/ floor' = Append(floor, committed) /\ instant' \subseteq frozen
    BY DEF Passing, RBase, ReadTypes
  <1>2. /\ \A q \in 1 .. Len(floor) : q \in 1 .. Len(floor') /\ floor'[q] = floor[q]
        /\ \A q \in 1 .. Len(floor') : floor'[q] = committed \/ q \in 1 .. Len(floor)
    BY <1>1
  <1>3. \A i, r : Blocked(i, r)' = Blocked(i, r)
    BY <1>1 DEF Blocked, Counts, InFlight
  <1>4. \A i, k, r : \A q \in 1 .. Len(floor) : Answerable(i, q, k, r) => Answerable(i, q, k, r)'
    BY <1>2, <1>3 DEF Answerable
  <1>5. FloorSound'
    BY <1>1, <1>2 DEF FreshReads, FloorSound
  <1>6. WaitersFresh'
    BY <1>1, <1>2, <1>4 DEF FreshReads, WaitersFresh
  <1>7. InstantFresh'
    <2> SUFFICES ASSUME NEW i \in Server, node[i].role = Leader, i \in instant',
                        rd[i].open # 0, NEW q \in 1 .. Len(floor')
                 PROVE  Answerable(i, q, rd[i].termStart, rd[i].open)'
      BY <1>1 DEF InstantFresh
    <2>1. i \notin frozen /\ i \in instant
      BY <1>1, LeadersMoving
    <2>2. floor' = floor
      BY <1>1, <2>1
    <2>3. Answerable(i, q, rd[i].termStart, rd[i].open)
      BY <2>1, <2>2 DEF FreshReads, InstantFresh
    <2> QED
      BY <1>1, <1>3, <2>2, <2>3 DEF Answerable
  <1>8. AnswersFresh'
    BY <1>1, <1>2 DEF FreshReads, AnswersFresh
  <1> QED
    BY <1>5, <1>6, <1>7, <1>8 DEF FreshReads

-----------------------------------------------------------------------------
(* The logs of the leaders that answer reads *)

\* A broadcast carries entries of the log of its term, and a commit index of it.
BroadcastSound(h, b) ==
  /\ b.term \in h.terms
  /\ Len(b.log) <= Len(h.led[b.term])
  /\ \A k \in 1 .. Len(b.log) : b.log[k] = h.led[b.term][k]
  /\ Covered(h, h.led[b.term], b.commit, b.term)

\* What is acknowledged is held.
AnswerSound(h, m) == m.match <= h.held[m.src][m.term]

\* Entries up to c were chosen.
Reached(h, c) == c = 0 \/ \E t, k \in Nat : Chosen(h, t, k) /\ c <= k

\* The nodes, the messages and what was committed are those of history h.
HistoryOf(h) ==
  /\ \A i \in Server : Rooted(h, i, node[i]) /\ node[i].role \in {Follower, Leader}
  /\ \A b \in sent : BroadcastSound(h, b)
  /\ \A m \in answers : AnswerSound(h, m)
  /\ Reached(h, committed)

\* The no-op of a leader is the end of its log.
TermStarts == \A i \in Server : node[i].role = Leader => rd[i].termStart = LastIndex(node[i])

\* What node i makes of history h is history g, and it says and acknowledges nothing that is
\* not so. A leader appends nothing.
Recorded(h, g, i) ==
  /\ Carried(h, g, i, node[i], node'[i])
  /\ node'[i].role \in {Follower, Leader}
  /\ node'[i].role = Leader => LastIndex(node'[i]) = LastIndex(node[i])
  /\ \A b \in sent' : b \in sent \/ BroadcastSound(g, b)
  /\ \A m \in answers' : m \in answers \/ AnswerSound(g, m)
  /\ committed' = committed \/ committed' = node'[i].commitIndex

\* A history has a majority that knows of each of its terms; so a leader that has not been
\* superseded has everything that was ever committed.
LEMMA LeaderCovers ==
  ASSUME RBase, NEW h, HistoryOf(h), NEW i \in Server, node[i].role = Leader
  PROVE  /\ committed <= LastIndex(node[i]) \/ Superseded(i)
         /\ node[i].commitIndex <= LastIndex(node[i])
PROOF
  <1> DEFINE T == node[i].currentTerm
  <1>1. Rooted(h, i, node[i]) /\ Sound(h) /\ Reached(h, committed) /\ committed \in Nat
    BY DEF HistoryOf, Rooted, RBase, ReadTypes
  <1>2. /\ T \in h.terms /\ h.whole[i] = h.led[T] /\ LastIndex(node[i]) = Len(h.led[T])
        /\ node[i].commitIndex <= Len(h.led[T])
    BY <1>1 DEF Rooted, NodeSound, LeaderSound, Keeping, CommitSound
  <1>3. h \in History
    BY <1>1 DEF Sound
  <1>4. T \in Nat /\ Len(h.led[T]) \in Nat /\ h.won[T] \in Nat /\ h.won[T] <= Len(h.led[T])
    BY <1>1, <1>2, <1>3, HistoryTypes DEF Sound, LedSound
  <1>5. CASE committed = 0
    BY <1>2, <1>4, <1>5
  <1>6. CASE committed # 0
    <2>1. PICK t, k \in Nat : Chosen(h, t, k) /\ committed <= k
      BY <1>1, <1>6 DEF Reached
    <2>2. t \in h.terms /\ k <= Len(h.led[t])
      BY <2>1 DEF Chosen
    <2>3. CASE t = T
      BY <1>1, <1>2, <1>4, <2>1, <2>2, <2>3
    <2>4. CASE t < T
      <3>1. k <= h.won[T]
        BY <1>1, <1>2, <2>1, <2>4, Survives
      <3> QED
        BY <1>1, <1>2, <1>4, <2>1, <3>1
    <2>5. CASE t > T
      <3>1. PICK Q \in SUBSET InitialMembers : Electors(Q) /\ \A p \in Q : h.now[p] >= t
        BY <1>1, <2>2 DEF Sound, WonSound
      <3>2. PICK v \in Q : v \in InitialMembers
        BY <3>1, ElectorsMeet
      <3>3. v \in Server /\ h.now[v] = node[v].currentTerm /\ node[v].currentTerm \in Nat
        BY <3>2, ServerAssumption, NodeBase DEF HistoryOf, Rooted
      <3>4. node[v].currentTerm > T
        BY <1>4, <2>1, <2>5, <3>1, <3>3
      <3> QED
        BY <1>2, <3>3, <3>4 DEF Superseded
    <2> QED
      BY <1>4, <2>1, <2>3, <2>4, <2>5
  <1> QED
    BY <1>2, <1>5, <1>6

\* So it waits for the right index.
LEMMA LoggedBarred ==
  ASSUME RBase, NoopOnElect, NEW h, HistoryOf(h), TermStarts
  PROVE  Barred
PROOF
  <1> SUFFICES ASSUME NEW i \in Server, node[i].role = Leader
               PROVE  /\ ReadBarrier(node[i], rd[i]) = rd[i].termStart
                      /\ committed <= rd[i].termStart \/ Superseded(i)
    BY DEF Barred
  <1>1. rd[i].termStart = LastIndex(node[i])
    BY DEF TermStarts
  <1>2. committed <= LastIndex(node[i]) \/ Superseded(i)
    BY LeaderCovers
  <1>3. node[i].commitIndex <= rd[i].termStart
    BY <1>1, LeaderCovers
  <1>4. node[i].commitIndex \in Nat /\ rd[i].termStart \in Nat
    BY NodeBase DEF NodeState, ReadState
  <1>5. Larger(node[i].commitIndex, rd[i].termStart) = rd[i].termStart
    BY <1>3, <1>4 DEF Larger
  <1> QED
    BY <1>1, <1>2, <1>5 DEF ReadBarrier

\* A node that does nothing carries the history on.
LEMMA StaysCarried ==
  ASSUME NEW h, NEW i \in Server, NEW o, Rooted(h, i, o), o.role \in {Follower, Leader}
  PROVE  Carried(h, h, i, o, o)
PROOF
  <1>1. h \in History /\ o \in NodeState
    BY DEF Rooted, Sound, Sane
  <1>2. Follows(h, h)
    BY <1>1, FollowsReflexive
  <1>3. o.role = Leader => o.currentTerm \in h.terms
    BY DEF Rooted, NodeSound, LeaderSound
  <1>4. o.lastApplied <= Len(h.whole[i]) /\ o.snapshotIndex \in Nat
    BY <1>1 DEF Rooted, NodeSound, Keeping, NodeState
  <1> QED
    BY <1>2, <1>3, <1>4 DEF Carried, Share, Candidate, Follower, Leader

\* The broadcast of a leader is out of its log.
LEMMA LeaderBroadcasts ==
  ASSUME NEW h, NEW i \in Server, NEW n, Rooted(h, i, n), Bare(n), n.role = Leader, NEW x
  PROVE  BroadcastSound(h, Broadcast(i, n, x))
PROOF
  <1> DEFINE b == Broadcast(i, n, x)
             w == h.whole[i]
  <1>1. b.term = n.currentTerm /\ b.log = n.log /\ b.commit = n.commitIndex
    BY DEF Broadcast
  <1>2. n.currentTerm \in h.terms /\ w = h.led[n.currentTerm]
        /\ Covered(h, w, n.commitIndex, n.currentTerm)
    BY DEF Rooted, NodeSound, LeaderSound, CommitSound
  <1>3. n \in NodeState /\ Len(n.log) \in Nat
    BY LogFacts DEF Rooted, Sane
  <1>4. /\ LastIndex(n) = Len(w)
        /\ \A k \in n.snapshotIndex + 1 .. Len(w) : n.log[k - n.snapshotIndex] = w[k]
    BY DEF Rooted, NodeSound, Keeping
  <1>5. Len(n.log) = Len(w) /\ \A k \in 1 .. Len(w) : n.log[k] = w[k]
    BY <1>3, <1>4 DEF Bare, LastIndex
  <1> HIDE DEF b
  <1> QED
    BY <1>1, <1>2, <1>3, <1>5 DEF BroadcastSound, b

\* The save changes nothing of the history.
LEMMA SavedCarried ==
  ASSUME ~MembershipChanges, NEW h, NEW g, NEW i \in Server, NEW o, NEW a,
         Carried(h, g, i, o, a)
  PROVE  LET b == [a EXCEPT !.dirty = FALSE]
         IN /\ Carried(h, g, i, o, b) /\ b.role = a.role /\ b.commitIndex = a.commitIndex
            /\ LastIndex(b) = LastIndex(a)
PROOF
  <1> DEFINE b == [a EXCEPT !.dirty = FALSE]
  <1>1. Sane(a) /\ a \in NodeState
    BY DEF Carried, Rooted, Sane
  <1>2. /\ b \in NodeState /\ b.log = a.log /\ b.snapshotIndex = a.snapshotIndex
        /\ b.snapshotTerm = a.snapshotTerm /\ b.snapshotData = a.snapshotData
        /\ b.lastApplied = a.lastApplied /\ b.sm = a.sm /\ b.commitIndex = a.commitIndex
        /\ b.currentTerm = a.currentTerm /\ b.role = a.role
        /\ b.matchIndex = a.matchIndex /\ b.nextIndex = a.nextIndex
    BY <1>1, ZenonT(60) DEF NodeState
  <1>3. a.currentTerm \in Nat
    BY <1>1 DEF NodeState
  <1> HIDE DEF b
  <1>4. Sane(b) /\ KeepsLog(a, b) /\ LastIndex(b) = LastIndex(a)
    BY <1>1, <1>2, <1>3 DEF Sane, KeepsLog, SameLog, SamePeers, LastIndex
  <1>5. Carried(h, g, i, o, b)
    BY <1>2, <1>4, CarriedIdle
  <1> QED
    BY <1>2, <1>4, <1>5 DEF b

\* apply_committed and flush_reads leave the history as the handler has made it.
LEMMA PostRecorded ==
  ASSUME ~MembershipChanges, RBase, NEW h, NEW g, NEW i \in Server, NEW n,
         Carried(h, g, i, node[i], n), n.role \in {Follower, Leader},
         n.role = Leader => LastIndex(n) = LastIndex(node[i]),
         NEW x, NEW early, NEW out, \A m \in out : AnswerSound(g, m),
         Post(i, n, x, early, out),
         \A b \in sent' : b \in sent \/ BroadcastSound(g, b)
  PROVE  Recorded(h, g, i)
PROOF
  <1> DEFINE a == ApplyCommitted(i, n)
             b == [a EXCEPT !.dirty = FALSE]
  <1>1. node' = [node EXCEPT ![i] = b] /\ committed' = Larger(committed, a.commitIndex)
        /\ answers' \subseteq answers \cup out
    BY DEF Post, Respond
  <1>2. node'[i] = b
    BY <1>1 DEF RBase, ReadTypes
  <1>3. Carried(h, g, i, node[i], a) /\ SameOffice(n, a)
    BY NodeBase, FinishCarries
  <1>4. Sane(a) /\ Rooted(g, i, a) /\ a \in NodeState /\ Rooted(g, i, n)
    BY <1>3 DEF Carried, Rooted, Sane
  <1> HIDE DEF a
  <1>5. /\ Carried(h, g, i, node[i], b) /\ b.role = a.role /\ b.commitIndex = a.commitIndex
        /\ LastIndex(b) = LastIndex(a)
    BY <1>3, SavedCarried
  <1> HIDE DEF b
  <1>6. b.role = n.role /\ LastIndex(b) = LastIndex(n)
    BY <1>3, <1>4, <1>5 DEF SameOffice, Rooted, NodeSound, Keeping
  <1>7. committed' = committed \/ committed' = b.commitIndex
    BY <1>1, <1>5 DEF Larger
  <1> QED
    BY <1>1, <1>2, <1>5, <1>6, <1>7 DEF Recorded

\* on_tick of a leader.
LEMMA HeartbeatRecorded ==
  ASSUME ~MembershipChanges, RBase, NEW h, HistoryOf(h), NEW i \in Server, Heartbeat(i)
  PROVE  Recorded(h, h, i)
PROOF
  <1> DEFINE x == OpenRound(i, node[i], rd[i])
  <1>1. node[i].role = Leader /\ Post(i, node[i], x, {}, {}) /\ Send(i, node[i], x)
    BY DEF Heartbeat
  <1>2. Rooted(h, i, node[i]) /\ node[i].role \in {Follower, Leader} /\ Bare(node[i])
    BY NodeBase DEF HistoryOf
  <1>3. Carried(h, h, i, node[i], node[i])
    BY <1>2, StaysCarried
  <1> HIDE DEF x
  <1>4. \A b \in sent' : b \in sent \/ BroadcastSound(h, b)
    BY <1>1, <1>2, LeaderBroadcasts DEF Send
  <1> QED
    BY <1>1, <1>2, <1>3, <1>4, PostRecorded

\* serve_read.
LEMMA ServeReadRecorded ==
  ASSUME ~MembershipChanges, RBase, NEW h, HistoryOf(h), NEW i \in Server,
         NEW q \in 1 .. Len(floor), ServeRead(i, q)
  PROVE  Recorded(h, h, i)
PROOF
  <1> DEFINE opened == OpenRound(i, node[i], rd[i])
  <1>1. /\ node[i].role = Leader
        /\ \E y, early : Post(i, node[i], y, early, {})
        /\ sent' = sent \/ Send(i, node[i], opened)
    BY Zenon DEF ServeRead, Quiet
  <1>2. Rooted(h, i, node[i]) /\ node[i].role \in {Follower, Leader} /\ Bare(node[i])
    BY NodeBase DEF HistoryOf
  <1>3. Carried(h, h, i, node[i], node[i])
    BY <1>2, StaysCarried
  <1> HIDE DEF opened
  <1>4. \A b \in sent' : b \in sent \/ BroadcastSound(h, b)
    BY <1>1, <1>2, LeaderBroadcasts DEF Send
  <1>5. PICK y, early : Post(i, node[i], y, early, {})
    BY <1>1
  <1> QED
    BY <1>2, <1>3, <1>4, <1>5, PostRecorded

\* handle_append_entries_resp.
LEMMA AppendEntriesRespRecorded ==
  ASSUME ~MembershipChanges, RBase, NEW h, HistoryOf(h), NEW i \in Server, NEW m \in answers,
         HandleAppendEntriesResp(i, m)
  PROVE  \E g : Recorded(h, g, i)
PROOF
  <1> DEFINE n == node[i]
             x == AckRound(i, n, rd[i], m.round, m.src)
             k == n.lastApplied
  <1>1. sent' = sent
    BY DEF HandleAppendEntriesResp, Quiet
  <1>2. /\ m.term \in Nat /\ m.match \in Nat /\ m.src \in Server
        /\ m.match <= h.held[m.src][m.term]
    BY ServerAssumption DEF RBase, ReadTypes, RoundAnswer, HistoryOf, AnswerSound
  <1>3. n \in NodeState /\ Sane(n) /\ n.currentTerm \in Nat
        /\ Rooted(h, i, n) /\ n.role \in {Follower, Leader}
    BY NodeBase DEF HistoryOf
  <1>4. CASE m.term > n.currentTerm /\ Post(i, StepDown(n, m.term), rd[i], {}, {})
    <2> DEFINE s == StepDown(n, m.term)
    <2>1. Sane(s) /\ s.role = Follower /\ KeepsLog(n, s)
      BY <1>2, <1>3, StepDownYields, StepDownFacts, LogUntouched
    <2> HIDE DEF s
    <2>2. PICK g : Carried(h, g, i, n, s)
      BY <1>3, <2>1, IdleCarries DEF Follower, Candidate
    <2>3. Recorded(h, g, i)
      BY <1>1, <1>4, <2>1, <2>2, PostRecorded DEF s, Follower, Leader
    <2> QED
      BY <2>3
  <1>5. CASE /\ m.term = n.currentTerm /\ n.role = Leader
             /\ Post(i, Acknowledged(i, n, m.src, m.match), Flushed(x, k), Answered(x, k), {})
    <2> DEFINE s == Acknowledged(i, n, m.src, m.match)
               y == Flushed(x, k)
               early == Answered(x, k)
    <2>1. Sane(s)
      BY <1>2, <1>3, AcknowledgedFacts
    <2>2. Sound(h) /\ NodeSound(h, i, n)
      BY <1>3 DEF Rooted
    <2>3. /\ NodeSound(h, i, s) /\ SameOffice(n, s)
          /\ s.lastApplied = n.lastApplied /\ s.snapshotIndex = n.snapshotIndex
      BY <1>2, <1>3, <1>5, <2>2, AcknowledgedKeeps
    <2> HIDE DEF s, y, early
    <2>4. Carried(h, h, i, n, s)
      BY <1>3, <1>5, <2>1, <2>3, LeaderLearns
    <2>5. LastIndex(s) = LastIndex(n) /\ s.role = Leader
      BY <1>5, <2>2, <2>3 DEF NodeSound, Keeping, SameOffice
    <2>6. Recorded(h, h, i)
      BY <1>1, <1>5, <2>4, <2>5, PostRecorded DEF s, y, early
    <2> QED
      BY <2>6
  <1> QED
    BY <1>4, <1>5 DEF HandleAppendEntriesResp

\* What a node makes of a broadcast that it does not refuse.
LEMMA HeededCarries ==
  ASSUME ~MembershipChanges, NEW h, NEW i \in Server, NEW n, Rooted(h, i, n), Bare(n),
         n.role \in {Follower, Leader}, NEW b \in RoundBroadcast, BroadcastSound(h, b),
         ~(b.term < n.currentTerm)
  PROVE  LET s == Heeded(i, n, b)
         IN /\ s.role \in {Follower, Leader} /\ s.currentTerm = b.term
            /\ s.role = Leader => LastIndex(s) = LastIndex(n)
            /\ \E g : Carried(h, g, i, n, s) /\ Len(b.log) <= g.held[i][b.term]
PROOF
  <1> DEFINE m == AsAppend(i, n, b)
             r == Recognise(n, m)
             e == MergeEntries(i, r, m)
             s == LearnCommit(e, m)
             G == Raised(h, i, r.currentTerm)
  <1>1. n \in NodeState /\ Sane(n) /\ n.snapshotIndex = 0 /\ n.currentTerm \in Nat
        /\ NodeSound(h, i, n) /\ Sound(h)
    BY DEF Rooted, Sane, Bare, NodeState
  <1>2. n.snapshotTerm = 0
    BY <1>1 DEF NodeSound, Keeping, TermOf
  <1>3. /\ m \in AppendEntries /\ m.term = b.term /\ m.src = b.src /\ m.term \in Nat
        /\ m.src \in Server /\ m.prevLogIndex = 0 /\ m.prevLogTerm = 0
        /\ m.entries = b.log /\ m.leaderCommit = b.commit /\ m.type = "AppendEntries"
    BY <1>1, <1>2, ServerAssumption DEF AsAppend, AppendEntries, RoundBroadcast, NodeState
  <1> HIDE DEF m
  <1>4. Sane(r) /\ KeepsLog(n, r) /\ r.currentTerm = b.term /\ r.role \in {Follower, Leader}
    BY <1>1, <1>3, RecogniseFacts, RecogniseKeeps DEF Stale
  <1>5. r \in NodeState /\ Bare(r) /\ r.snapshotTerm = 0
    BY <1>1, <1>2, <1>4 DEF Sane, Bare, KeepsLog, SameLog
  <1> HIDE DEF r
  <1>6. PrevMatches(r, m)
    <2>1. Len(r.log) \in Nat
      BY <1>5, LogFacts
    <2> QED
      BY <1>3, <1>5, <2>1 DEF PrevMatches, HasIndex, TermAt, LastIndex, Bare
  <1>7. Carried(h, G, i, n, r) /\ G.led = h.led /\ G.terms = h.terms /\ G.whole = h.whole
        /\ Follows(h, G)
    BY <1>1, <1>4, IdleCarries DEF Follower, Leader, Candidate, Carried
  <1> HIDE DEF G
  <1>8. Rooted(G, i, r) /\ Sound(G) /\ h \in History /\ G \in History /\ b.term \in Nat
    BY <1>1, <1>3, <1>7 DEF Carried, Rooted, Sound
  <1>9. AppendSound(G, m)
    <2>1. /\ m.term \in G.terms /\ Len(m.entries) <= Len(G.led[m.term])
          /\ \A k \in 1 .. Len(m.entries) : m.entries[k] = G.led[m.term][k]
      BY <1>3, <1>7 DEF BroadcastSound
    <2>2. Covered(G, G.led[m.term], m.leaderCommit, m.term)
      <3>1. Covered(h, h.led[b.term], b.commit, b.term) /\ b.term \in h.terms /\ b.commit \in Nat
        BY DEF BroadcastSound, RoundBroadcast
      <3>2. Covered(G, G.led[b.term], b.commit, b.term)
        BY <1>7, <1>8, <3>1, LedPart
      <3> QED
        BY <1>3, <3>2
    <2>3. Len(m.entries) \in Nat
      BY <1>3 DEF RoundBroadcast
    <2> QED
      BY <1>3, <2>1, <2>2, <2>3 DEF AppendSound, TermOf
  <1>10. PICK g : /\ Carried(G, g, i, r, s) /\ SameOffice(r, s)
                  /\ 0 + Len(m.entries) <= g.held[i][r.currentTerm]
    BY <1>3, <1>4, <1>6, <1>8, <1>9, AppendCarries
  <1>11. LastIndex(s) = LastIndex(e)
    BY DEF LearnCommit, LastIndex
  <1>12. Len(m.entries) \in Nat
    BY <1>3 DEF RoundBroadcast
  <1>13. r.role = Leader => LastIndex(e) = LastIndex(n)
    <2> SUFFICES ASSUME r.role = Leader PROVE LastIndex(e) = LastIndex(n)
      OBVIOUS
    <2>1. PICK w \in Seq(LogEntry) : Takes(G, i, w, 0 + Len(m.entries)) /\ Keeping(e, w)
      BY <1>3, <1>4, <1>6, <1>8, <1>9, MergeKeeps
    <2>2. G.whole[i] = G.led[G.now[i]]
      BY <1>8 DEF Rooted, NodeSound, LeaderSound
    <2>3. w = G.whole[i]
      BY <2>1, <2>2 DEF Takes, Share
    <2> QED
      BY <1>1, <1>7, <2>1, <2>3 DEF NodeSound, Keeping
  <1> HIDE DEF s
  <1>14. s.role \in {Follower, Leader} /\ s.currentTerm = b.term
         /\ (s.role = Leader => LastIndex(s) = LastIndex(n))
    BY <1>4, <1>10, <1>11, <1>13 DEF SameOffice
  <1>15. Carried(Raised(h, i, r.currentTerm), g, i, r, s)
    BY <1>10 DEF G
  <1>16. Carried(h, g, i, n, s)
    BY <1>1, <1>4, <1>14, <1>15, CarriesOn DEF Follower, Leader, Candidate
  <1>17. Len(b.log) <= g.held[i][b.term]
    BY <1>3, <1>4, <1>10, <1>12
  <1> QED
    BY <1>14, <1>16, <1>17 DEF Heeded, m, r, e, s

\* handle_append_entries.
LEMMA AppendEntriesRecorded ==
  ASSUME ~MembershipChanges, RBase, NEW h, HistoryOf(h), NEW i \in Server, NEW b \in sent,
         HandleAppendEntries(i, b)
  PROVE  \E g : Recorded(h, g, i)
PROOF
  <1> DEFINE n == node[i]
             s == Heeded(i, n, b)
             Answer(t, match) ==
               {[src |-> i, dst |-> b.src, term |-> t, round |-> b.round, match |-> match]}
  <1>1. /\ sent' = sent
        /\ \/ /\ b.term < n.currentTerm
              /\ Post(i, n, rd[i], {}, Answer(n.currentTerm, 0))
           \/ /\ ~(b.term < n.currentTerm)
              /\ Post(i, s, rd[i], {}, Answer(s.currentTerm, Len(b.log)))
    BY HeededIs DEF HandleAppendEntries, Quiet
  <1>2. b \in RoundBroadcast /\ BroadcastSound(h, b)
    BY DEF RBase, ReadTypes, HistoryOf
  <1>3. n \in NodeState /\ Bare(n) /\ n.currentTerm \in Nat
        /\ Rooted(h, i, n) /\ n.role \in {Follower, Leader} /\ h \in History
    BY NodeBase DEF HistoryOf, Rooted, Sound
  <1>4. CASE b.term < n.currentTerm /\ Post(i, n, rd[i], {}, Answer(n.currentTerm, 0))
    <2> DEFINE out == Answer(n.currentTerm, 0)
    <2>1. \A m \in out : AnswerSound(h, m)
      <3>1. h.held[i][n.currentTerm] \in Nat
        BY <1>3, HistoryTypes
      <3> QED
        BY <3>1 DEF AnswerSound
    <2> HIDE DEF out
    <2>2. Carried(h, h, i, n, n)
      BY <1>3, StaysCarried
    <2>3. Recorded(h, h, i)
      BY <1>1, <1>3, <1>4, <2>1, <2>2, PostRecorded DEF out
    <2> QED
      BY <2>3
  <1>5. CASE /\ ~(b.term < n.currentTerm)
             /\ Post(i, s, rd[i], {}, Answer(s.currentTerm, Len(b.log)))
    <2> DEFINE out == Answer(s.currentTerm, Len(b.log))
    <2>1. /\ s.role \in {Follower, Leader} /\ s.currentTerm = b.term
          /\ s.role = Leader => LastIndex(s) = LastIndex(n)
      BY <1>2, <1>3, <1>5, HeededCarries
    <2>2. PICK g : Carried(h, g, i, n, s) /\ Len(b.log) <= g.held[i][b.term]
      BY <1>2, <1>3, <1>5, HeededCarries
    <2>3. \A m \in out : AnswerSound(g, m)
      BY <2>1, <2>2 DEF AnswerSound
    <2> HIDE DEF out, s
    <2>4. Recorded(h, g, i)
      BY <1>1, <1>5, <2>1, <2>2, <2>3, PostRecorded DEF out
    <2> QED
      BY <2>4
  <1> QED
    BY <1>1, <1>4, <1>5

\* A restart.
LEMMA RestartRecorded ==
  ASSUME ~MembershipChanges, RBase, NEW h, HistoryOf(h), NEW i \in Server, Restart(i)
  PROVE  Recorded(h, h, i)
PROOF
  <1> DEFINE a == Restarted(i, node[i], Durable(node[i]))
             b == [a EXCEPT !.dirty = FALSE]
  <1>1. node' = [node EXCEPT ![i] = b] /\ sent' = sent /\ answers' \subseteq answers
        /\ committed' = committed
    BY DEF Restart, Respond
  <1>2. node'[i] = b
    BY <1>1 DEF RBase, ReadTypes
  <1>3. Carried(h, h, i, node[i], a) /\ a.role = Follower
    BY RestartedCarries DEF HistoryOf
  <1> HIDE DEF a
  <1>4. Carried(h, h, i, node[i], b) /\ b.role = a.role
    BY <1>3, SavedCarried
  <1> HIDE DEF b
  <1> QED
    BY <1>1, <1>2, <1>3, <1>4 DEF Recorded, Follower, Leader

\* What a broadcast says is true for good.
LEMMA BroadcastStays ==
  ASSUME NEW h \in History, NEW g \in History, Follows(h, g), NEW b \in RoundBroadcast,
         BroadcastSound(h, b)
  PROVE  BroadcastSound(g, b)
PROOF
  <1>1. b.term \in h.terms /\ b.term \in g.terms /\ b.term \in Nat /\ b.commit \in Nat
        /\ Len(b.log) \in Nat
    BY DEF BroadcastSound, RoundBroadcast, Follows
  <1>2. /\ Len(h.led[b.term]) <= Len(g.led[b.term])
        /\ \A k \in 1 .. Len(h.led[b.term]) : g.led[b.term][k] = h.led[b.term][k]
        /\ \A c, s \in Nat : Covered(h, h.led[b.term], c, s) => Covered(g, g.led[b.term], c, s)
    BY <1>1, LedPart
  <1>3. Len(h.led[b.term]) \in Nat /\ Len(g.led[b.term]) \in Nat
    BY <1>1, HistoryTypes
  <1> QED
    BY <1>1, <1>2, <1>3, SMTT(30) DEF BroadcastSound

\* What is acknowledged stays held.
LEMMA AnswerStays ==
  ASSUME NEW h \in History, NEW g \in History, Follows(h, g), NEW m \in RoundAnswer,
         AnswerSound(h, m)
  PROVE  AnswerSound(g, m)
PROOF
  <1>1. m.src \in Server /\ m.term \in Nat /\ m.match \in Nat
    BY ServerAssumption DEF RoundAnswer
  <1>2. h.held[m.src][m.term] \in Nat /\ g.held[m.src][m.term] \in Nat
        /\ h.held[m.src][m.term] <= g.held[m.src][m.term]
    BY <1>1, HistoryTypes DEF Follows
  <1> QED
    BY <1>1, <1>2 DEF AnswerSound

\* What was reached stays so, and what a node commits is reached.
LEMMA ReachedStays ==
  ASSUME NEW h \in History, NEW g \in History, Follows(h, g)
  PROVE  /\ \A c \in Nat : Reached(h, c) => Reached(g, c)
         /\ \A u, t : \A c \in Nat : Covered(g, u, c, t) => Reached(g, c)
PROOF
  <1>1. \A t, k \in Nat : Chosen(h, t, k) => Chosen(g, t, k)
    BY ChosenStays
  <1> QED
    BY <1>1 DEF Reached, Covered

\* A node that does not move is as sound in the history that goes on.
LEMMA UnmovedRooted ==
  ASSUME ~MembershipChanges, NEW h, NEW g, Follows(h, g), Sound(g), NEW p \in Server, NEW n,
         Rooted(h, p, n), g.now[p] = h.now[p], g.whole[p] = h.whole[p],
         n.role = Leader => g.led[n.currentTerm] = h.led[n.currentTerm]
  PROVE  Rooted(g, p, n)
PROOF
  <1>1. h \in History /\ g \in History /\ n \in NodeState
    BY DEF Rooted, Sound, Sane
  <1>2. KeepsLog(n, n)
    BY <1>1, LogUntouched
  <1>3. NodeSound(g, p, n)
    BY <1>1, <1>2, NodeSoundStays DEF Rooted
  <1> QED
    BY <1>3 DEF Rooted

\* An event of a node leaves a history.
LEMMA RecordedHistory ==
  ASSUME ~MembershipChanges, RBase, RBase', NEW h, HistoryOf(h), NEW i \in Server, Outcome(i),
         NEW g, Recorded(h, g, i)
  PROVE  HistoryOf(g)'
PROOF
  <1>1. /\ Rooted(g, i, node'[i]) /\ Follows(h, g) /\ Sound(g) /\ g \in History
        /\ h \in History /\ Rooted(h, i, node[i])
    BY DEF Recorded, Carried, Rooted, Sound, HistoryOf
  <1>2. \A t \in h.terms : g.led[t] = h.led[t]
    <2> TAKE t \in h.terms
    <2>1. CASE node'[i].role = Leader /\ t = node'[i].currentTerm
      <3>1. node[i].role = Leader /\ node[i].currentTerm = t
        BY <2>1, LeaderRounds
      <3>2. LastIndex(node[i]) = Len(h.led[t]) /\ LastIndex(node'[i]) = Len(g.led[t])
        BY <1>1, <2>1, <3>1 DEF Rooted, NodeSound, LeaderSound, Keeping
      <3>3. h.led[t] \in Seq(LogEntry) /\ g.led[t] \in Seq(LogEntry)
        BY <1>1, HistoryTypes
      <3>4. Len(h.led[t]) = Len(g.led[t])
        BY <2>1, <3>2 DEF Recorded
      <3>5. \A k \in 1 .. Len(h.led[t]) : h.led[t][k] = g.led[t][k]
        BY <1>1 DEF Follows, Share
      <3> QED
        BY <3>3, <3>4, <3>5
    <2> QED
      BY <2>1 DEF Recorded, Carried
  <1>3. ASSUME NEW p \in Server
        PROVE  Rooted(g, p, node'[p]) /\ node'[p].role \in {Follower, Leader}
    <2>1. CASE p = i
      BY <1>1, <2>1 DEF Recorded
    <2>2. CASE p # i
      <3>1. /\ node'[p] = node[p] /\ Rooted(h, p, node[p]) /\ node[p].role \in {Follower, Leader}
            /\ g.now[p] = h.now[p] /\ g.whole[p] = h.whole[p]
        BY <2>2 DEF Outcome, HistoryOf, Recorded, Carried
      <3>2. node[p].role = Leader => node[p].currentTerm \in h.terms
        BY <3>1 DEF Rooted, NodeSound, LeaderSound
      <3> QED
        BY <1>1, <1>2, <3>1, <3>2, UnmovedRooted
    <2> QED
      BY <2>1, <2>2
  <1>4. \A b \in sent' : BroadcastSound(g, b)
    <2> TAKE b \in sent'
    <2>1. CASE b \in sent
      BY <1>1, <2>1, BroadcastStays DEF HistoryOf, RBase, ReadTypes
    <2> QED
      BY <2>1 DEF Recorded
  <1>5. \A m \in answers' : AnswerSound(g, m)
    <2> TAKE m \in answers'
    <2>1. CASE m \in answers
      BY <1>1, <2>1, AnswerStays DEF HistoryOf, RBase, ReadTypes
    <2> QED
      BY <2>1 DEF Recorded
  <1>6. Reached(g, committed')
    <2>1. committed \in Nat /\ committed' \in Nat /\ Reached(h, committed)
      BY DEF RBase, ReadTypes, HistoryOf
    <2>2. CASE committed' = committed
      BY <1>1, <2>1, <2>2, ReachedStays
    <2>3. CASE committed' = node'[i].commitIndex
      <3>1. Covered(g, g.whole[i], committed', node'[i].currentTerm)
        BY <1>1, <2>3 DEF Rooted, NodeSound, CommitSound
      <3> QED
        BY <1>1, <2>1, <3>1, ReachedStays
    <2> QED
      BY <2>2, <2>3 DEF Recorded
  <1> QED
    BY <1>3, <1>4, <1>5, <1>6 DEF HistoryOf

\* The no-op stays the end of the log of a leader.
LEMMA RecordedStarts ==
  ASSUME RBase, NEW i \in Server, Outcome(i), NEW h, NEW g, Recorded(h, g, i), TermStarts
  PROVE  TermStarts'
PROOF
  <1> SUFFICES ASSUME NEW j \in Server, node'[j].role = Leader
               PROVE  rd'[j].termStart = LastIndex(node'[j])
    BY DEF TermStarts, LastIndex
  <1>1. node[j].role = Leader /\ rd'[j].termStart = rd[j].termStart
    BY LeaderRounds DEF Grown
  <1>2. LastIndex(node'[j]) = LastIndex(node[j])
    BY DEF Recorded, Outcome
  <1> QED
    BY <1>1, <1>2 DEF TermStarts
-----------------------------------------------------------------------------
(* Elections and the history *)

\* The members of Q reach term t together.
RaisedAll(h, Q, t) == [h EXCEPT !.now = [p \in Server |-> IF p \in Q THEN t ELSE @[p]]]

\* The terms never go back.
LEMMA RaisedAllSound ==
  ASSUME NEW h, Sound(h), NEW Q \in SUBSET Server, NEW t \in Nat, \A p \in Q : h.now[p] <= t
  PROVE  LET g == RaisedAll(h, Q, t)
         IN /\ Sound(g) /\ Follows(h, g)
            /\ g.terms = h.terms /\ g.led = h.led /\ g.won = h.won /\ g.held = h.held
            /\ g.whole = h.whole
            /\ \A p \in Server : g.now[p] = IF p \in Q THEN t ELSE h.now[p]
PROOF
  <1> DEFINE f == [p \in Server |-> IF p \in Q THEN t ELSE h.now[p]]
             g == [h EXCEPT !.now = f]
  <1>0. h \in History /\ h.now \in [Server -> Nat]
    BY DEF Sound, History
  <1>1. f \in [Server -> Nat]
    BY <1>0
  <1>2. \A p \in Server : /\ f[p] = IF p \in Q THEN t ELSE h.now[p]
                          /\ h.now[p] \in Nat /\ f[p] \in Nat /\ h.now[p] <= f[p]
    BY <1>0
  <1>3. RaisedAll(h, Q, t) = g
    BY DEF RaisedAll
  <1> HIDE DEF f
  <1>4. /\ g.terms = h.terms /\ g.led = h.led /\ g.won = h.won /\ g.held = h.held
        /\ g.whole = h.whole /\ g.now = f
    BY <1>0 DEF History
  <1>5. g \in History
    BY <1>0, <1>1 DEF History
  <1> HIDE DEF g
  <1>6. Follows(h, g)
    BY <1>0, <1>2, <1>4, FollowsReflexive DEF Follows
  <1>7. \A u : Known(g, u) <=> Known(h, u)
    BY <1>4 DEF Known
  <1>8. LedSound(g)
    BY <1>4, <1>7 DEF Sound, LedSound
  <1>9. WholeSound(g)
    <2> SUFFICES ASSUME NEW q \in Server
                 PROVE  /\ Known(g, g.whole[q])
                        /\ \A k \in 1 .. Len(g.whole[q]) : g.whole[q][k].term <= g.now[q]
      BY DEF WholeSound
    <2>1. /\ Known(h, h.whole[q])
          /\ \A k \in 1 .. Len(h.whole[q]) : h.whole[q][k].term <= h.now[q]
      BY DEF Sound, WholeSound
    <2>2. \A k \in 1 .. Len(h.whole[q]) : h.whole[q][k].term \in Nat
      BY <1>0, HistoryTypes, EntryTypes
    <2> QED
      BY <1>2, <1>4, <1>7, <2>1, <2>2
  <1>10. HeldSound(g)
    <2> SUFFICES ASSUME NEW q \in Server, NEW s \in Nat, g.held[q][s] # 0
                 PROVE  s \in g.terms /\ s <= g.now[q] /\ g.held[q][s] <= Len(g.led[s])
      BY DEF HeldSound
    <2>1. s \in h.terms /\ s <= h.now[q] /\ h.held[q][s] <= Len(h.led[s])
      BY <1>4 DEF Sound, HeldSound
    <2> QED
      BY <1>2, <1>4, <2>1
  <1>11. Kept(g)
    BY <1>0, <1>4, <1>5, <1>6, KeptStays DEF Kept
  <1>12. WonSound(g)
    BY <1>0, <1>4, <1>5, <1>6, WonStays DEF WonSound
  <1> QED
    BY <1>2, <1>3, <1>4, <1>5, <1>6, <1>8, <1>9, <1>10, <1>11, <1>12 DEF Sound

\* A term that is won by a majority of an earlier term has had no leader.
LEMMA WonTermNew ==
  ASSUME NEW h, Sound(h), NEW Q \in SUBSET InitialMembers, Electors(Q), NEW t \in Nat,
         \A v \in Q : h.now[v] \in Nat /\ h.now[v] < t
  PROVE  t \notin h.terms
PROOF
  <1> SUFFICES ASSUME t \in h.terms PROVE FALSE
    OBVIOUS
  <1>1. PICK R \in SUBSET InitialMembers : Electors(R) /\ \A p \in R : h.now[p] >= t
    BY DEF Sound, WonSound
  <1>2. PICK v : v \in Q /\ v \in R
    BY <1>1, ElectorsMeet
  <1> QED
    BY <1>1, <1>2

\* The candidate, as the leader of its term is made from it.
Candidacy(i, Q) == [Campaign(i, node[i]) EXCEPT !.votes = Q]

\* What a candidate and its voters make of the history before it leads.
LEMMA CandidateElects ==
  ASSUME ~MembershipChanges, RBase, NEW h, HistoryOf(h),
         NEW i \in Server, NEW Q \in SUBSET Server, Elect(i, Q), Won(i, Q)
  PROVE  LET c == Candidacy(i, Q)
             f == RaisedAll(h, Q, node[i].currentTerm + 1)
         IN /\ Rooted(f, i, c) /\ Elects(f, i) /\ c.currentTerm = node[i].currentTerm + 1
            /\ LastIndex(c) = LastIndex(node[i])
            /\ Sound(f) /\ Follows(h, f)
            /\ f.terms = h.terms /\ f.led = h.led /\ f.whole = h.whole
            /\ \A p \in Server :
                 f.now[p] = IF p \in Q THEN node[i].currentTerm + 1 ELSE h.now[p]
            /\ node[i].currentTerm + 1 \notin h.terms
PROOF
  <1> DEFINE T == node[i].currentTerm + 1
             d == Campaign(i, node[i])
             c == Candidacy(i, Q)
             f == RaisedAll(h, Q, T)
  <1>1. node[i] \in NodeState /\ Sane(node[i]) /\ node[i].currentTerm \in Nat /\ T \in Nat
    BY NodeBase
  <1>2. /\ i \in Q /\ Q \in SUBSET InitialMembers /\ Electors(Q)
        /\ \A v \in Q : node[v].currentTerm < T
    BY DEF Won, VotesWon
  <1>3. /\ Sound(h) /\ h \in History
        /\ \A p \in Server : Rooted(h, p, node[p]) /\ h.now[p] = node[p].currentTerm
                             /\ node[p].currentTerm \in Nat
    BY NodeBase DEF HistoryOf, Rooted, Sound
  <1>4. T \notin h.terms
    BY <1>1, <1>2, <1>3, WonTermNew
  <1>5. /\ Sound(f) /\ Follows(h, f) /\ f \in History
        /\ f.terms = h.terms /\ f.led = h.led /\ f.held = h.held /\ f.whole = h.whole
        /\ \A p \in Server : f.now[p] = IF p \in Q THEN T ELSE h.now[p]
    <2>1. \A p \in Q : h.now[p] <= T
      BY <1>1, <1>2, <1>3
    <2>2. T \in Nat
      BY <1>1
    <2> HIDE DEF T
    <2>3. /\ Sound(f) /\ Follows(h, f)
          /\ f.terms = h.terms /\ f.led = h.led /\ f.held = h.held /\ f.whole = h.whole
          /\ \A p \in Server : f.now[p] = IF p \in Q THEN T ELSE h.now[p]
      BY <1>3, <2>1, <2>2, RaisedAllSound
    <2> HIDE DEF f
    <2> QED
      BY <2>3 DEF Sound
  <1> HIDE DEF f
  <1>6. /\ d \in NodeState /\ d.currentTerm = T /\ d.log = node[i].log
        /\ d.snapshotIndex = node[i].snapshotIndex /\ d.lastApplied = node[i].lastApplied
        /\ d.role = Candidate /\ KeepsLog(node[i], d)
    <2> DEFINE o == node[i]
    <2>1. o \in NodeState
      BY <1>1
    <2> HIDE DEF o
    <2> DEFINE e == Campaign(i, o)
    <2>2. KeepsLog(o, e)
      BY <2>1, LogUntouched
    <2>3. /\ e \in NodeState /\ e.currentTerm = o.currentTerm + 1 /\ e.log = o.log
          /\ e.snapshotIndex = o.snapshotIndex /\ e.lastApplied = o.lastApplied
          /\ e.role = Candidate
      BY <2>1, CampaignFacts
    <2> QED
      BY <2>2, <2>3 DEF o
  <1>7. c = [d EXCEPT !.votes = Q]
    BY DEF Candidacy
  <1> HIDE DEF d, c
  <1>8. /\ c \in NodeState /\ c.currentTerm = T /\ c.log = d.log /\ c.role = Candidate
        /\ c.snapshotIndex = d.snapshotIndex /\ c.lastApplied = d.lastApplied
        /\ c.snapshotTerm = d.snapshotTerm
    <2>1. /\ c.currentTerm = T /\ c.log = d.log /\ c.role = Candidate
          /\ c.snapshotIndex = d.snapshotIndex /\ c.lastApplied = d.lastApplied
          /\ c.snapshotTerm = d.snapshotTerm
      BY <1>6, <1>7 DEF NodeState
    <2>2. c \in NodeState
      BY <1>2, <1>6, <1>7, ZenonT(60) DEF NodeState
    <2> QED
      BY <2>1, <2>2
  <1>9. KeepsLog(d, c)
    BY <1>6, <1>7, LogUntouched
  <1>10. KeepsLog(node[i], c)
    BY <1>1, <1>6, <1>8, <1>9 DEF KeepsLog, SameLog, SamePeers, Candidate, Leader
  <1>11. Sane(c)
    BY <1>1, <1>6, <1>8 DEF Sane
  <1>12. LastIndex(c) = LastIndex(node[i]) /\ LastTerm(c) = LastTerm(node[i])
         /\ LastIndex(d) = LastIndex(node[i]) /\ LastTerm(d) = LastTerm(node[i])
    BY <1>6, <1>8, <1>9 DEF LastIndex, LastTerm, KeepsLog, SameLog
  <1>13. Rooted(f, i, c)
    <2>1. NodeSound(f, i, c)
      BY <1>1, <1>3, <1>5, <1>8, <1>10, NodeSoundStays DEF Rooted, Candidate, Leader
    <2>2. Compacted(c)
      BY <1>3, <1>6, <1>8 DEF Rooted, Compacted
    <2> QED
      BY <1>2, <1>5, <1>8, <1>11, <2>1, <2>2 DEF Rooted
  <1>14. Elects(f, i)
    <2> DEFINE w == f.whole[i]
    <2>1. ASSUME NEW q \in Q PROVE Backs(f, q, T, w, Len(w))
      <3> DEFINE u == f.whole[q]
      <3>1. q \in Server /\ Backs(f, q, T, u, Len(u))
        BY <1>4, <1>5, OwnBacks
      <3>2. CASE q # i
        <4>1. /\ node[q] \in NodeState /\ Keeping(node[q], u) /\ Keeping(node[i], w)
              /\ u \in Seq(LogEntry) /\ w \in Seq(LogEntry)
              /\ Len(u) \in Nat /\ Len(w) \in Nat
          BY <1>1, <1>3, <1>5, <3>1, NodeBase, HistoryTypes DEF Rooted, NodeSound
        <4>2. /\ LastIndex(node[q]) = Len(u) /\ LastTerm(node[q]) = TermOf(u, Len(u))
              /\ LastIndex(node[i]) = Len(w) /\ LastTerm(node[i]) = TermOf(w, Len(w))
          BY <1>1, <4>1, KeepingReads DEF Keeping
        <4>3. LogIsCurrent(node[q], RequestVoteMsg(i, q, d))
          BY <3>2 DEF Elect, d
        <4>4. UpToDate(w, Len(w), u, Len(u))
          BY <1>12, <4>2, <4>3 DEF LogIsCurrent, RequestVoteMsg, UpToDate
        <4>5. TermOf(u, Len(u)) \in Nat /\ TermOf(w, Len(w)) \in Nat
          BY <4>1, EntryTypes DEF TermOf
        <4>6. LedSound(f) /\ HeldSound(f)
          BY <1>5 DEF Sound
        <4> HIDE DEF u, w
        <4> QED
          BY <1>1, <1>5, <3>1, <4>1, <4>4, <4>5, <4>6, BacksMore
      <3> QED
        BY <3>1, <3>2
    <2>2. f.now[i] = T /\ \A q \in Q : f.now[q] = T
      BY <1>2, <1>5
    <2> QED
      BY <1>1, <1>2, <1>4, <1>5, <2>1, <2>2 DEF Elects
  <1> QED
    BY <1>4, <1>5, <1>8, <1>12, <1>13, <1>14 DEF f, c

\* An election leaves a history.
LEMMA ElectionHistory ==
  ASSUME ~MembershipChanges, RBase, RBase', NEW h, HistoryOf(h),
         NEW i \in Server, NEW Q \in SUBSET Server, Elect(i, Q), Won(i, Q)
  PROVE  \E g : HistoryOf(g)'
PROOF
  <1> DEFINE T == node[i].currentTerm + 1
             c == Candidacy(i, Q)
             f == RaisedAll(h, Q, T)
             n == BecomeLeader(i, c)
  <1>1. /\ Rooted(f, i, c) /\ Elects(f, i) /\ c.currentTerm = T
        /\ Sound(f) /\ Follows(h, f)
        /\ f.terms = h.terms /\ f.led = h.led /\ f.whole = h.whole
        /\ \A p \in Server : f.now[p] = IF p \in Q THEN T ELSE h.now[p]
        /\ T \notin h.terms
    BY CandidateElects
  <1> HIDE DEF f, c
  <1>2. PICK g : Carried(f, g, i, c, n)
    BY <1>1, ElectedCarries
  <1>3. /\ node'[i] = n
        /\ \A v \in Q \ {i} : node'[v] = VoteFor(StepDown(node[v], Campaign(i, node[i]).currentTerm), i)
        /\ \E x : sent' = sent \cup {Broadcast(i, n, x)}
    BY DEF Elect, Send, Candidacy, c
  <1> HIDE DEF n
  <1>4. /\ Rooted(g, i, n) /\ Sound(g) /\ Follows(f, g) /\ g \in History /\ h \in History
        /\ f \in History
        /\ \A p \in Server \ {i} : g.now[p] = f.now[p] /\ g.whole[p] = h.whole[p]
        /\ \A t \in h.terms : g.led[t] = f.led[t] \/ (n.role = Leader /\ t = n.currentTerm)
    BY <1>1, <1>2 DEF Carried, Rooted, Sound, HistoryOf
  <1>5. Follows(h, g)
    BY <1>1, <1>4, FollowsTransitive
  <1>6. /\ i \in Q /\ node'[i].role = Leader /\ node'[i].currentTerm = T
        /\ \A v \in Q : node'[v].currentTerm = T
        /\ \A v \in Q \ {i} : node'[v].role # Leader
        /\ \A v \in Server \ Q : node'[v] = node[v]
        /\ \A v \in Server : node'[v] \in NodeState /\ Sane(node'[v]) /\ Bare(node'[v])
        /\ answers' \subseteq answers /\ committed' = committed
    BY DEF Won, VotesWon, FirstRound
  <1>7. \A t \in h.terms : g.led[t] = h.led[t]
    BY <1>1, <1>3, <1>4, <1>6
  <1>8. ASSUME NEW v \in Server
        PROVE  Rooted(g, v, node'[v]) /\ node'[v].role \in {Follower, Leader}
    <2>1. CASE v = i
      BY <1>3, <1>4, <1>6, <2>1
    <2>2. CASE v \in Q \ {i}
      <3> DEFINE o == node[v]
                 t == Campaign(i, node[i]).currentTerm
                 s == StepDown(o, t)
                 a == VoteFor(s, i)
      <3>1. o \in NodeState /\ node[i] \in NodeState /\ Rooted(h, v, o)
        BY NodeBase DEF HistoryOf
      <3>2. t \in Nat
        <4> DEFINE m == node[i]
        <4>1. m \in NodeState
          BY <3>1
        <4> HIDE DEF m
        <4>2. Campaign(i, m) \in NodeState
          BY <4>1, CampaignFacts
        <4> QED
          BY <4>2 DEF NodeState, m
      <3>3. node'[v] = a
        BY <1>3, <2>2
      <3> HIDE DEF t, o
      <3>4. s \in NodeState /\ KeepsLog(o, s) /\ s.role = Follower
        BY <3>1, <3>2, StepDownFacts, LogUntouched
      <3> HIDE DEF s
      <3>5. KeepsLog(s, a) /\ a.role = s.role
        BY <3>4, LogUntouched DEF VoteFor, NodeState
      <3>6. a \in NodeState /\ Sane(a) /\ a.currentTerm = T
        BY <1>6, <2>2, <3>3
      <3>7. KeepsLog(o, a) /\ a.role = Follower
        <4>1. o.currentTerm \in Nat /\ s.currentTerm \in Nat /\ a.currentTerm \in Nat
          BY <3>1, <3>4, <3>6 DEF NodeState
        <4> HIDE DEF a
        <4> QED
          BY <3>4, <3>5, <4>1 DEF KeepsLog, SameLog, SamePeers, Follower, Leader
      <3> HIDE DEF a
      <3>8. g.whole[v] = h.whole[v] /\ g.now[v] = T
        BY <1>1, <1>4, <2>2
      <3>9. NodeSound(g, v, a)
        BY <1>4, <1>5, <3>1, <3>6, <3>7, <3>8, NodeSoundStays DEF Rooted, Follower, Leader
      <3>10. Compacted(a)
        BY Bounds DEF Compacted
      <3> QED
        BY <1>4, <3>3, <3>6, <3>7, <3>8, <3>9, <3>10 DEF Rooted
    <2>3. CASE v \notin Q
      <3>1. /\ node'[v] = node[v] /\ Rooted(h, v, node[v]) /\ node[v].role \in {Follower, Leader}
            /\ g.now[v] = h.now[v] /\ g.whole[v] = h.whole[v]
        BY <1>1, <1>4, <1>6, <2>3 DEF HistoryOf
      <3>2. node[v].role = Leader => node[v].currentTerm \in h.terms
        BY <3>1 DEF Rooted, NodeSound, LeaderSound
      <3> QED
        BY <1>4, <1>5, <1>7, <3>1, <3>2, UnmovedRooted
    <2> QED
      BY <2>1, <2>2, <2>3
  <1>9. \A b \in sent' : BroadcastSound(g, b)
    <2> TAKE b \in sent'
    <2>1. CASE b \in sent
      BY <1>4, <1>5, <2>1, BroadcastStays DEF HistoryOf, RBase, ReadTypes
    <2>2. CASE b \notin sent
      <3>1. PICK x : b = Broadcast(i, n, x)
        BY <1>3, <2>2
      <3>2. Bare(n) /\ n.role = Leader
        BY <1>3, <1>6
      <3> QED
        BY <1>4, <3>1, <3>2, LeaderBroadcasts
    <2> QED
      BY <2>1, <2>2
  <1>10. \A m \in answers' : AnswerSound(g, m)
    BY <1>4, <1>5, <1>6, AnswerStays DEF HistoryOf, RBase, ReadTypes
  <1>11. Reached(g, committed')
    BY <1>4, <1>5, <1>6, ReachedStays DEF RBase, ReadTypes, HistoryOf
  <1> QED
    BY <1>8, <1>9, <1>10, <1>11 DEF HistoryOf

\* The new leader has its no-op at the end of its log, and the others have not moved.
LEMMA ElectionStarts ==
  ASSUME ~MembershipChanges, NoopOnElect, RBase, TermStarts, NEW h, HistoryOf(h),
         NEW i \in Server, NEW Q \in SUBSET Server, Elect(i, Q), Won(i, Q)
  PROVE  TermStarts'
PROOF
  <1> SUFFICES ASSUME NEW j \in Server, node'[j].role = Leader
               PROVE  rd'[j].termStart = LastIndex(node'[j])
    BY DEF TermStarts, LastIndex
  <1>1. CASE j # i
    BY <1>1, WonLeaders DEF TermStarts
  <1>2. CASE j = i
    <2> DEFINE c == Candidacy(i, Q)
               e == Elected(i, c)
               n == BecomeLeader(i, c)
    <2>1. node'[i] = n
      BY DEF Elect, Candidacy
    <2>2. rd'[i].termStart = LastIndex(node[i]) + 1
      BY WonFacts
    <2>3. LastIndex(c) = LastIndex(node[i]) /\ c \in NodeState
      BY CandidateElects DEF Rooted, Sane
    <2> HIDE DEF c
    <2>4. e \in NodeState
      BY <2>3, ElectedFacts
    <2>5. e.log = Append(c.log, Entry(c.currentTerm, NOOP)) /\ e.snapshotIndex = c.snapshotIndex
      BY <2>3 DEF Elected, NodeState
    <2>6. Len(e.log) = Len(c.log) + 1 /\ c.snapshotIndex \in Nat /\ Len(c.log) \in Nat
          /\ e.snapshotIndex = c.snapshotIndex
      <3>1. c.log \in Seq(LogEntry) /\ c.snapshotIndex \in Nat
        BY <2>3 DEF NodeState
      <3> HIDE DEF e
      <3> QED
        BY <2>5, <3>1
    <2> HIDE DEF e
    <2>7. LastIndex(e) = LastIndex(c) + 1
      BY <2>6 DEF LastIndex
    <2>8. n = Sent(i, e, Peers(i, c))
      BY DEF BecomeLeader, e
    <2> HIDE DEF n
    <2>9. LastIndex(n) = LastIndex(e)
      BY <2>4, <2>8, LogUntouched DEF KeepsLog, SameLog, LastIndex
    <2> QED
      BY <1>2, <2>1, <2>2, <2>3, <2>7, <2>9
  <1> QED
    BY <1>1, <1>2

-----------------------------------------------------------------------------
(* No read is stale *)

\* The present state has a history.
Historied == \E h : HistoryOf(h)

\* Initially.
LEMMA InitHistoried ==
  ASSUME Init
  PROVE  Historied /\ TermStarts /\ FreshReads
PROOF
  <1>1. /\ \A i \in Server : node[i] = InitNode
        /\ sent = {} /\ answers = {} /\ committed = 0 /\ floor = <<>> /\ served = {}
    BY DEF Init
  <1>2. InitNode.role = Follower
    BY InitNodeFacts
  <1>3. \A i \in Server : Rooted(Beginning, i, node[i]) /\ node[i].role \in {Follower, Leader}
    BY <1>1, <1>2, BeginningRooted
  <1>4. \A i \in Server : node[i].role # Leader
    BY <1>1, <1>2 DEF Follower, Leader
  <1>5. HistoryOf(Beginning)
    BY <1>1, <1>3 DEF HistoryOf, Reached
  <1>6. TermStarts
    BY <1>4 DEF TermStarts
  <1>7. FreshReads
    BY <1>1, <1>4 DEF FreshReads, FloorSound, WaitersFresh, InstantFresh, AnswersFresh
  <1> QED
    BY <1>5, <1>6, <1>7 DEF Historied

\* Whatever a node handles can be told of in the history.
LEMMA ReadStepsRecorded ==
  ASSUME ~MembershipChanges, RBase, NEW h, HistoryOf(h), [Next]_vars
  PROVE  \/ \E i \in Server : Handled(i) /\ \E g : Recorded(h, g, i)
         \/ \E i \in Server, Q \in SUBSET Server : Elect(i, Q) /\ Won(i, Q)
         \/ Passing
PROOF
  <1>1. CASE UNCHANGED vars
    BY <1>1 DEF vars, Passing
  <1>2. CASE BeginRead
    BY <1>2 DEF BeginRead, Passing
  <1>3. CASE Tick
    BY <1>3 DEF Tick, Passing
  <1>4. ASSUME NEW i \in Server, Freeze(i) PROVE Passing
    BY <1>4 DEF Freeze, Passing
  <1>5. ASSUME NEW i \in Server, Thaw(i) PROVE Passing
    BY <1>5 DEF Thaw, Passing
  <1>6. ASSUME NEW i \in Server, Heartbeat(i)
        PROVE  Handled(i) /\ \E g : Recorded(h, g, i)
    BY <1>6, HeartbeatHandled, HeartbeatRecorded
  <1>7. ASSUME NEW i \in Server, NEW b \in sent, HandleAppendEntries(i, b)
        PROVE  Handled(i) /\ \E g : Recorded(h, g, i)
    BY <1>7, AppendEntriesHandled, AppendEntriesRecorded
  <1>8. ASSUME NEW i \in Server, NEW a \in answers, HandleAppendEntriesResp(i, a)
        PROVE  Handled(i) /\ \E g : Recorded(h, g, i)
    BY <1>8, AppendEntriesRespHandled, AppendEntriesRespRecorded
  <1>9. ASSUME NEW i \in Server, NEW q \in 1 .. Len(floor), ServeRead(i, q)
        PROVE  Handled(i) /\ \E g : Recorded(h, g, i)
    BY <1>9, ServeReadHandled, ServeReadRecorded
  <1>10. ASSUME NEW i \in Server, Restart(i)
         PROVE  Handled(i) /\ \E g : Recorded(h, g, i)
    BY <1>10, RestartHandled, RestartRecorded
  <1>11. ASSUME NEW i \in Server, NEW Q \in SUBSET Server, Elect(i, Q) PROVE Won(i, Q)
    BY <1>11, ElectWon
  <1> QED
    BY <1>1, <1>2, <1>3, <1>4, <1>5, <1>6, <1>7, <1>8, <1>9, <1>10, <1>11 DEF Next

\* Every step leaves a history, and the no-op of a leader at the end of its log.
LEMMA HistoriedStep ==
  ASSUME ~MembershipChanges, NoopOnElect, RBase, RBase', Historied, TermStarts, [Next]_vars
  PROVE  Historied' /\ TermStarts'
PROOF
  <1>1. PICK h : HistoryOf(h)
    BY DEF Historied
  <1>2. ASSUME NEW i \in Server, Handled(i), NEW g, Recorded(h, g, i)
        PROVE  Historied' /\ TermStarts'
    <2>1. Outcome(i)
      BY <1>2, HandledOutcome
    <2>2. HistoryOf(g)'
      BY <1>1, <1>2, <2>1, RecordedHistory
    <2>3. TermStarts'
      BY <1>2, <2>1, RecordedStarts
    <2> QED
      BY <2>2, <2>3 DEF Historied
  <1>3. ASSUME NEW i \in Server, NEW Q \in SUBSET Server, Elect(i, Q), Won(i, Q)
        PROVE  Historied' /\ TermStarts'
    <2>1. \E g : HistoryOf(g)'
      BY <1>1, <1>3, ElectionHistory
    <2>2. TermStarts'
      BY <1>1, <1>3, ElectionStarts
    <2> QED
      BY <2>1, <2>2 DEF Historied
  <1>4. CASE Passing
    <2>1. UNCHANGED <<node, rd, sent, answers, committed>>
      BY <1>4 DEF Passing
    <2>2. HistoryOf(h)'
      BY <1>1, <2>1 DEF HistoryOf
    <2>3. TermStarts'
      BY <2>1 DEF TermStarts
    <2> QED
      BY <2>2, <2>3 DEF Historied
  <1> QED
    BY <1>1, <1>2, <1>3, <1>4, ReadStepsRecorded

\* Nor does any step answer, or make wait, a read that it should not.
LEMMA FreshStep ==
  ASSUME ~MembershipChanges, Electable \cap Freezable = {},
         "lease" \in ReadModes => LeaseRules,
         LeaseInv, FreshReads, Barred, Barred', [Next]_vars
  PROVE  FreshReads'
PROOF
  <1>1. RBase /\ (readMode = "lease" => Leases /\ LeaseRules)
    BY DEF LeaseInv, RBase, ReadTypes
  <1>2. ASSUME NEW i \in Server, Handled(i) PROVE FreshReads'
    BY <1>1, <1>2, HandledFresh
  <1>3. ASSUME NEW i \in Server, NEW Q \in SUBSET Server, Won(i, Q) PROVE FreshReads'
    BY <1>1, <1>3, WonFresh
  <1>4. CASE Passing
    BY <1>1, <1>4, PassingFresh
  <1> QED
    BY <1>1, <1>2, <1>3, <1>4, ReadSteps

\* ReadsFresh: whichever leader answers a read, by a round or by its lease, does so from a
\* state that has everything that was committed anywhere when the read began, however
\* messages are lost, repeated and delayed - provided that a new leader appends a no-op and
\* that the clocks of those who lead are not stopped; leases need voters that are sticky and
\* forget nobody besides (node.py:427-491).
THEOREM ReadsFreshTheorem ==
  ASSUME ~MembershipChanges, NoopOnElect, Electable \cap Freezable = {},
         "lease" \in ReadModes => LeaseRules
  PROVE  Spec => []ReadsFresh
PROOF
  <1>1. Init => LeaseInv /\ Historied /\ TermStarts /\ FreshReads
    BY InitLeases, InitHistoried
  <1>2. LeaseInv /\ [Next]_vars => LeaseInv'
    BY LeaseInvStep
  <1>3. LeaseInv /\ LeaseInv' /\ Historied /\ TermStarts /\ [Next]_vars
          => Historied' /\ TermStarts'
    BY HistoriedStep DEF LeaseInv
  <1>4. LeaseInv /\ Historied /\ TermStarts => Barred
    BY LoggedBarred DEF LeaseInv, Historied
  <1>5. LeaseInv /\ FreshReads /\ Barred /\ Barred' /\ [Next]_vars => FreshReads'
    BY FreshStep
  <1>6. FreshReads => ReadsFresh
    BY DEF FreshReads, AnswersFresh, ReadsFresh
  <1> QED
    BY <1>1, <1>2, <1>3, <1>4, <1>5, <1>6, PTL DEF Spec


=============================================================================
